------------------------------- MODULE Loader -------------------------------
(***************************************************************************)
(* Loading what the cache does not hold: shard.getOrLoad (pkg/shard.go)    *)
(* and the loader group with load and loadAsync (pkg/loader.go).           *)
(*                                                                         *)
(* getOrLoad asks the shard and calls the user's loader itself.  The group *)
(* merges the loads of one key hash into a flight, through                 *)
(* singleflight.Group, which is external: at most one flight per hash, and *)
(* everyone who asks while it lasts gets its result.  Nothing in the       *)
(* repository calls the group.                                             *)
(*                                                                         *)
(* A value is identified with the key that it was loaded for, the zero     *)
(* value is None, and LoadResult.Shared is left out.  Contexts may be      *)
(* cancelled at any time, and a loader that was given a cancelled one may  *)
(* return its error.                                                       *)
(***************************************************************************)
EXTENDS Naturals

CONSTANTS
  Callers,        \* goroutines
  Keys, HashOf,   \* the 64-bit hash of a key
  CallsOf,        \* per caller: the operations it calls, <<op, key>>
  None

Hashes == {HashOf[k] : k \in Keys}

Calls == {"getOrLoad", "load", "loadAsync"} \X Keys

ASSUME LoaderAssumption ==
  /\ CallsOf \in [Callers -> SUBSET Calls]
  /\ None \notin Keys

Errors == {"none", "failed", "canceled"}

Flights ==
  [leader : Callers, key : Keys, async : BOOLEAN, subs : SUBSET Callers]

Answers == [key : Keys \cup {None}, err : Errors, async : BOOLEAN]

Results == [key : Keys \cup {None}, err : Errors]

ASSUME NoneAssumption == None \notin Flights \cup Answers \cup Results

VARIABLES
  cached,     \* the keys that the shard holds
  flight,     \* singleflight.Group.m: the call in progress per hash
  at,         \* per caller: where it is in its call
  arg,        \* ... the call
  cancelled,  \* ... its context has been cancelled
  answer,     \* ... what its flight has delivered
  ret         \* ... what the call returns

vars == <<cached, flight, at, arg, cancelled, answer, ret>>

keyOf(c) == arg[c][2]

Init ==
  /\ cached = {}
  /\ flight = [x \in Hashes |-> None]
  /\ at = [c \in Callers |-> "idle"]
  /\ arg = [c \in Callers |-> None]
  /\ cancelled = [c \in Callers |-> FALSE]
  /\ answer = [c \in Callers |-> None]
  /\ ret = [c \in Callers |-> None]

Result(k, err) == [key |-> k, err |-> err]

(* What a loader may return when its context is, or is not, cancelled.     *)
Outcomes(dead) == {"none", "failed"} \cup (IF dead THEN {"canceled"} ELSE {})

-----------------------------------------------------------------------------
\* Bug: all loads share one flight.
BugFlightOf(k) == CHOOSE x \in Hashes : TRUE

FlightOf(k) == HashOf[k]

(* singleflight's Do and DoChan: join the flight of the hash or lead one.  *)
Join(c, k, async) ==
  LET x == FlightOf(k)
      f == flight[x]
  IN  flight' = [flight EXCEPT ![x] =
        IF f = None
          THEN [leader |-> c, key |-> k, async |-> async, subs |-> {c}]
          ELSE [f EXCEPT !.subs = @ \cup {c}]]

Call(c) ==
  /\ at[c] = "idle"
  /\ \E call \in CallsOf[c] :
       /\ arg' = [arg EXCEPT ![c] = call]
       /\ CASE call[1] = "getOrLoad" /\ call[2] \in cached ->
                 /\ at' = [at EXCEPT ![c] = "returned"]
                 /\ ret' = [ret EXCEPT ![c] = Result(call[2], "none")]
                 /\ UNCHANGED flight
            [] call[1] = "getOrLoad" /\ call[2] \notin cached ->
                 /\ at' = [at EXCEPT ![c] = "loading"]
                 /\ UNCHANGED <<flight, ret>>
            [] call[1] = "load" ->
                 /\ Join(c, call[2], FALSE)
                 /\ at' = [at EXCEPT ![c] = "waiting"]
                 /\ UNCHANGED ret
            [] call[1] = "loadAsync" ->
                 /\ Join(c, call[2], TRUE)
                 /\ at' = [at EXCEPT ![c] = "selecting"]
                 /\ UNCHANGED ret
  /\ UNCHANGED <<cached, cancelled, answer>>

Return(c, r) ==
  /\ at' = [at EXCEPT ![c] = "returned"]
  /\ ret' = [ret EXCEPT ![c] = r]

(* getOrLoad returns what its loader returns, and stores nothing.          *)
GetOrLoad(c) ==
  /\ at[c] = "loading"
  /\ \E err \in Outcomes(cancelled[c]) :
       Return(c, Result(IF err = "none" THEN keyOf(c) ELSE None, err))
  /\ UNCHANGED <<cached, flight, arg, cancelled, answer>>

\* Bug: loadAsync gives the context of its caller to the loader.
BugFlightCancelled(f) == cancelled[f.leader]

(* load passes the context of the caller that leads the flight to the      *)
(* loader, loadAsync a background context.                                 *)
FlightCancelled(f) == ~f.async /\ cancelled[f.leader]

(* What a flight delivers: with an error, the zero value.  That the flight *)
(* was started by loadAsync is history.                                    *)
Answer(f, err) ==
  [key |-> IF err = "none" THEN f.key ELSE None, err |-> err, async |-> f.async]

\* Bug: those who joined are woken without a result.
BugLand(x) ==
  /\ flight[x] # None
  /\ LET f == flight[x]
     IN  /\ \E err \in Outcomes(FlightCancelled(f)) :
              answer' = [answer EXCEPT ![f.leader] = Answer(f, err)]
         /\ at' = [c \in Callers |->
              IF c \in f.subs /\ at[c] = "waiting" THEN "answered" ELSE at[c]]
  /\ flight' = [flight EXCEPT ![x] = None]
  /\ UNCHANGED <<cached, arg, cancelled, ret>>

(* The loader of a flight returns: the flight is over, and its result goes *)
(* to all that have joined it.                                             *)
Land(x) ==
  /\ flight[x] # None
  /\ LET f == flight[x]
     IN  /\ \E err \in Outcomes(FlightCancelled(f)) :
              answer' = [c \in Callers |->
                IF c \in f.subs THEN Answer(f, err) ELSE answer[c]]
         /\ at' = [c \in Callers |->
              IF c \in f.subs /\ at[c] = "waiting" THEN "answered" ELSE at[c]]
  /\ flight' = [flight EXCEPT ![x] = None]
  /\ UNCHANGED <<cached, arg, cancelled, ret>>

(* load's own context counts after the flight, the flight's error never.   *)
Load(c) ==
  /\ at[c] = "answered"
  /\ Return(c, IF cancelled[c]
                 THEN Result(None, "canceled")
                 ELSE Result(answer[c].key, "none"))
  /\ UNCHANGED <<cached, flight, arg, cancelled, answer>>

(* The goroutine of loadAsync waits for the flight and for the context;    *)
(* when both are ready, either may win.                                    *)
LoadAsync(c) ==
  /\ at[c] = "selecting" /\ answer[c] # None
  /\ Return(c, Result(answer[c].key, answer[c].err))
  /\ UNCHANGED <<cached, flight, arg, cancelled, answer>>

\* Bug: the flight is given up with the caller that leaves it.
BugGiveUp(c) ==
  /\ at[c] = "selecting" /\ cancelled[c]
  /\ Return(c, Result(None, "canceled"))
  /\ answer' = [answer EXCEPT ![c] = None]
  /\ flight' = [x \in Hashes |->
       IF flight[x] # None /\ c \in flight[x].subs THEN None ELSE flight[x]]
  /\ UNCHANGED <<cached, arg, cancelled>>

(* The flight goes on without the caller that leaves it.                   *)
GiveUp(c) ==
  /\ at[c] = "selecting" /\ cancelled[c]
  /\ Return(c, Result(None, "canceled"))
  /\ answer' = [answer EXCEPT ![c] = None]
  /\ flight' = [x \in Hashes |->
       IF flight[x] = None THEN None ELSE [flight[x] EXCEPT !.subs = @ \ {c}]]
  /\ UNCHANGED <<cached, arg, cancelled>>

(* The result is taken, and the next call will have a context of its own.  *)
Receive(c) ==
  /\ at[c] = "returned"
  /\ at' = [at EXCEPT ![c] = "idle"]
  /\ arg' = [arg EXCEPT ![c] = None]
  /\ cancelled' = [cancelled EXCEPT ![c] = FALSE]
  /\ answer' = [answer EXCEPT ![c] = None]
  /\ ret' = [ret EXCEPT ![c] = None]
  /\ UNCHANGED <<cached, flight>>

Cancel(c) ==
  /\ at[c] \notin {"idle", "returned"} /\ ~cancelled[c]
  /\ cancelled' = [cancelled EXCEPT ![c] = TRUE]
  /\ UNCHANGED <<cached, flight, at, arg, answer, ret>>

(* Others store and lose keys.                                             *)
ShardChanges ==
  /\ \E k \in Keys : cached' \in {cached \cup {k}, cached \ {k}}
  /\ UNCHANGED <<flight, at, arg, cancelled, answer, ret>>

Step(c) == GetOrLoad(c) \/ Load(c) \/ LoadAsync(c) \/ GiveUp(c) \/ Receive(c)

Next ==
  \/ \E c \in Callers : Call(c) \/ Step(c) \/ Cancel(c)
  \/ \E x \in Hashes : Land(x)
  \/ ShardChanges

Spec == Init /\ [][Next]_vars

(* Loaders come back, and goroutines go on.                                *)
FairSpec ==
  /\ Spec
  /\ \A c \in Callers : WF_vars(Step(c))
  /\ \A x \in Hashes : WF_vars(Land(x))
-----------------------------------------------------------------------------
TypeOK ==
  /\ cached \subseteq Keys
  /\ flight \in [Hashes -> Flights \cup {None}]
  /\ at \in [Callers -> {"idle", "loading", "waiting", "answered", "selecting", "returned"}]
  /\ arg \in [Callers -> Calls \cup {None}]
  /\ cancelled \in [Callers -> BOOLEAN]
  /\ answer \in [Callers -> Answers \cup {None}]
  /\ ret \in [Callers -> Results \cup {None}]
  /\ \A c \in Callers :
       /\ at[c] = "idle" \/ arg[c] \in CallsOf[c]
       /\ at[c] = "answered" => answer[c] # None
       /\ at[c] = "returned" <=> ret[c] # None

(* No call returns the value of another key than it asked for, and one     *)
(* without an error returns that of its key (loader.go:57-71, 77-107,      *)
(* shard.go:27-34), but for load: it drops the error of the flight, and    *)
(* returns the zero value as if it had been loaded (loader.go:70).         *)
(* Flights go by the hash of the key alone, so all this depends on hashes  *)
(* that do not collide.                                                    *)
AnswerIsForKey ==
  \A c \in Callers : at[c] = "returned" =>
    /\ ret[c].key \in {keyOf(c), None}
    /\ ret[c].err = "none" /\ arg[c][1] # "load" => ret[c].key = keyOf(c)

(* Every call returns, whatever is cancelled meanwhile: one that leaves a  *)
(* flight does not take the others' result with it (loader.go:96-102).     *)
CallsAnswered == \A c \in Callers : at[c] # "idle" ~> at[c] = "returned"

(* Nobody is told of somebody else's cancellation by a flight that         *)
(* loadAsync has started (loader.go:83-86, 97-102): it runs under a        *)
(* background context, as "another waiter might still need the result".    *)
(* A flight that load has started dies with the context of its leader, and *)
(* a loadAsync that has joined it is told so.                              *)
CancelIsOwn ==
  \A c \in Callers : at[c] = "returned" /\ ret[c].err = "canceled" =>
    cancelled[c] \/ (answer[c] # None /\ ~answer[c].async)
=============================================================================
