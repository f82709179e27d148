---------------------------- MODULE LoaderProof ----------------------------
(***************************************************************************)
(* Proofs about Loader, for every set of callers and keys, whatever they   *)
(* call and cancel.                                                        *)
(*                                                                         *)
(* What a call returns goes through four hands: the flight it joins, the   *)
(* answer that the flight leaves with its subscribers, and the caller that *)
(* turns it into a result.  The invariant says of each what it is worth:   *)
(* a flight is that of its subscribers' hash, and nobody waits for two; an *)
(* answer is for the key of the call it was left with, and tells of a      *)
(* cancellation only if a load led the flight.                             *)
(***************************************************************************)
EXTENDS Loader, TLAPS

(* Where a call is tells which operation it is.                            *)
CallAtWork ==
  \A c \in Callers :
    /\ at[c] = "loading" => arg[c][1] = "getOrLoad"
    /\ at[c] \in {"waiting", "answered"} => arg[c][1] = "load"
    /\ at[c] = "selecting" => arg[c][1] = "loadAsync"
    /\ at[c] \in {"idle", "loading", "waiting"} => answer[c] = None

FlightIsTheirs ==
  \A x \in Hashes : flight[x] # None =>
    /\ HashOf[flight[x].key] = x
    /\ \A c \in flight[x].subs :
         /\ at[c] \in {"waiting", "selecting"}
         /\ answer[c] = None
         /\ HashOf[keyOf(c)] = x

SameHash(j, k) == j \in Keys /\ HashOf[j] = HashOf[k]

AnswerIsWorth ==
  \A c \in Callers : answer[c] # None =>
    /\ IF answer[c].err = "none" THEN SameHash(answer[c].key, keyOf(c))
                                 ELSE answer[c].key = None
    /\ answer[c].err = "canceled" => ~answer[c].async

ResultIsWorth ==
  \A c \in Callers : at[c] = "returned" =>
    /\ ret[c].key # None => SameHash(ret[c].key, keyOf(c))
    /\ ret[c].err = "none" /\ arg[c][1] # "load" => ret[c].key # None

IInv ==
  /\ TypeOK /\ CallAtWork /\ FlightIsTheirs
  /\ AnswerIsWorth /\ ResultIsWorth /\ CancelIsOwn

LEMMA InitIInv == Init => IInv
  BY NoneAssumption
  DEF Init, IInv, TypeOK, CallAtWork, FlightIsTheirs, AnswerIsWorth,
      ResultIsWorth, CancelIsOwn

-----------------------------------------------------------------------------
(* Whoever joins finds a flight of the hash, or starts one.                *)
LEMMA JoinLemma ==
  ASSUME TypeOK, FlightIsTheirs, NEW c \in Callers, NEW k \in Keys,
         NEW async \in BOOLEAN, Join(c, k, async)
  PROVE  /\ flight' \in [Hashes -> Flights \cup {None}]
         /\ \A x \in Hashes \ {HashOf[k]} : flight'[x] = flight[x]
         /\ HashOf[k] \in Hashes
         /\ HashOf[flight'[HashOf[k]].key] = HashOf[k]
         /\ flight'[HashOf[k]].subs \subseteq
              {c} \cup (IF flight[HashOf[k]] = None THEN {} ELSE flight[HashOf[k]].subs)
  <1> DEFINE x == HashOf[k]
             f == flight[x]
             g == IF f = None
                    THEN [leader |-> c, key |-> k, async |-> async, subs |-> {c}]
                    ELSE [f EXCEPT !.subs = @ \cup {c}]
  <1>1. x \in Hashes
    BY DEF Hashes
  <1>2. flight' = [flight EXCEPT ![x] = g]
    BY DEF Join, FlightOf
  <1>3. f \in Flights \cup {None} /\ (f # None => HashOf[f.key] = x)
    BY <1>1 DEF TypeOK, FlightIsTheirs
  <1>4. /\ g \in Flights /\ HashOf[g.key] = x
        /\ g.subs \subseteq {c} \cup (IF f = None THEN {} ELSE f.subs)
    BY <1>3 DEF Flights
  <1>5. flight'[x] = g
    BY <1>1, <1>2 DEF TypeOK
  <1> HIDE DEF g, f
  <1>6. flight' \in [Hashes -> Flights \cup {None}]
    BY <1>1, <1>2, <1>4 DEF TypeOK
  <1>7. \A y \in Hashes \ {x} : flight'[y] = flight[y]
    BY <1>2 DEF TypeOK
  <1> QED
    BY <1>1, <1>4, <1>5, <1>6, <1>7 DEF f

LEMMA CallKeepsIInv ==
  ASSUME IInv, NEW c \in Callers, Call(c)
  PROVE  IInv'
  <1>1. PICK call \in CallsOf[c] :
       /\ arg' = [arg EXCEPT ![c] = call]
       /\ CASE call[1] = "getOrLoad" /\ call[2] \in cached ->
                 /\ at' = [at EXCEPT ![c] = "returned"]
                 /\ ret' = [ret EXCEPT ![c] = Result(call[2], "none")]
                 /\ UNCHANGED flight
            [] call[1] = "getOrLoad" /\ call[2] \notin cached ->
                 /\ at' = [at EXCEPT ![c] = "loading"]
                 /\ UNCHANGED <<flight, ret>>
            [] call[1] = "load" ->
                 /\ Join(c, call[2], FALSE)
                 /\ at' = [at EXCEPT ![c] = "waiting"]
                 /\ UNCHANGED ret
            [] call[1] = "loadAsync" ->
                 /\ Join(c, call[2], TRUE)
                 /\ at' = [at EXCEPT ![c] = "selecting"]
                 /\ UNCHANGED ret
    BY DEF Call
  <1>2. /\ call \in Calls /\ call[1] \in {"getOrLoad", "load", "loadAsync"}
        /\ call[2] \in Keys
        /\ at[c] = "idle" /\ answer[c] = None /\ ret[c] = None
        /\ UNCHANGED <<cached, cancelled, answer>>
        /\ arg' \in [Callers -> Calls \cup {None}] /\ arg'[c] = call
        /\ \A d \in Callers \ {c} : arg'[d] = arg[d]
    <2>1. call \in Calls
      BY <1>1, LoaderAssumption
    <2>2. call[1] \in {"getOrLoad", "load", "loadAsync"} /\ call[2] \in Keys
      BY <2>1 DEF Calls
    <2>3. at[c] = "idle" /\ UNCHANGED <<cached, cancelled, answer>>
      BY DEF Call
    <2>4. answer[c] = None /\ ret[c] = None
      BY <2>3 DEF IInv, TypeOK, CallAtWork
    <2>5. /\ arg' \in [Callers -> Calls \cup {None}] /\ arg'[c] = call
          /\ \A d \in Callers \ {c} : arg'[d] = arg[d]
      BY <1>1, <2>1 DEF IInv, TypeOK
    <2> QED
      BY <2>1, <2>2, <2>3, <2>4, <2>5
  <1>3. \A x \in Hashes : flight[x] # None => c \notin flight[x].subs
    BY <1>2 DEF IInv, FlightIsTheirs
  <1>4. CASE call[1] = "getOrLoad" /\ call[2] \in cached
    <2>1. /\ at' = [at EXCEPT ![c] = "returned"] /\ flight' = flight
          /\ ret' = [ret EXCEPT ![c] = Result(call[2], "none")]
      BY <1>1, <1>4
    <2>2. Result(call[2], "none") \in Results
      BY <1>2 DEF Result, Results, Errors
    <2>3. TypeOK'
      BY <1>1, <1>2, <2>1, <2>2, NoneAssumption DEF IInv, TypeOK
    <2>4. CallAtWork' /\ FlightIsTheirs' /\ AnswerIsWorth'
      BY <1>2, <1>3, <2>1, NoneAssumption
      DEF IInv, TypeOK, CallAtWork, FlightIsTheirs, AnswerIsWorth, keyOf, Flights
    <2>5. ResultIsWorth' /\ CancelIsOwn'
      BY <1>2, <2>1, LoaderAssumption
      DEF IInv, TypeOK, ResultIsWorth, CancelIsOwn, keyOf, Result, SameHash
    <2> QED
      BY <2>3, <2>4, <2>5 DEF IInv
  <1>5. CASE call[1] = "getOrLoad" /\ call[2] \notin cached
    <2>1. /\ at' = [at EXCEPT ![c] = "loading"] /\ UNCHANGED <<flight, ret>>
      BY <1>1, <1>5
    <2>2. TypeOK'
      BY <1>1, <1>2, <2>1 DEF IInv, TypeOK
    <2>3. CallAtWork' /\ FlightIsTheirs' /\ AnswerIsWorth'
      BY <1>2, <1>3, <1>5, <2>1, NoneAssumption
      DEF IInv, TypeOK, CallAtWork, FlightIsTheirs, AnswerIsWorth, keyOf, Flights
    <2>4. ResultIsWorth' /\ CancelIsOwn'
      BY <1>2, <2>1 DEF IInv, TypeOK, ResultIsWorth, CancelIsOwn, keyOf
    <2> QED
      BY <2>2, <2>3, <2>4 DEF IInv
  <1>6. CASE call[1] \in {"load", "loadAsync"}
    <2>1. PICK async \in BOOLEAN : Join(c, call[2], async)
      BY <1>1, <1>2, <1>6
    <2>2. PICK w \in {"waiting", "selecting"} :
            /\ at' = [at EXCEPT ![c] = w] /\ ret' = ret
            /\ w = "waiting" => call[1] = "load"
            /\ w = "selecting" => call[1] = "loadAsync"
      BY <1>1, <1>2, <1>6
    <2> DEFINE x == HashOf[call[2]]
    <2>3. /\ flight' \in [Hashes -> Flights \cup {None}]
          /\ \A y \in Hashes \ {x} : flight'[y] = flight[y]
          /\ x \in Hashes /\ HashOf[flight'[x].key] = x
          /\ flight'[x].subs \subseteq
               {c} \cup (IF flight[x] = None THEN {} ELSE flight[x].subs)
      BY <1>2, <2>1, JoinLemma DEF IInv
    <2> HIDE DEF x
    <2>4. TypeOK'
      BY <1>1, <1>2, <2>2, <2>3 DEF IInv, TypeOK
    <2>5. CallAtWork' /\ AnswerIsWorth'
      BY <1>2, <2>2 DEF IInv, TypeOK, CallAtWork, AnswerIsWorth, keyOf
    <2>6. FlightIsTheirs'
      <3> SUFFICES ASSUME NEW y \in Hashes, flight'[y] # None
                   PROVE  /\ HashOf[flight'[y].key] = y
                          /\ \A d \in flight'[y].subs :
                               /\ at'[d] \in {"waiting", "selecting"}
                               /\ answer'[d] = None
                               /\ HashOf[arg'[d][2]] = y
        BY DEF FlightIsTheirs, keyOf
      <3>1. CASE y # x
        <4>1. /\ flight'[y] = flight[y]
              /\ flight[y].subs \subseteq Callers \ {c}
          BY <1>3, <2>3, <3>1 DEF IInv, TypeOK, Flights
        <4> QED
          BY <1>2, <2>2, <4>1 DEF IInv, TypeOK, FlightIsTheirs, keyOf
      <3>2. CASE y = x
        <4>1. ASSUME NEW d \in flight'[y].subs
              PROVE  /\ at'[d] \in {"waiting", "selecting"}
                     /\ answer'[d] = None
                     /\ HashOf[arg'[d][2]] = y
          <5>1. CASE d = c
            BY <1>2, <2>2, <3>2, <5>1 DEF IInv, TypeOK, x
          <5>2. CASE d # c
            <6>1. flight[x] # None /\ d \in flight[x].subs /\ d \in Callers
              BY <2>3, <3>2, <4>1, <5>2 DEF IInv, TypeOK, Flights
            <6> QED
              BY <1>2, <2>2, <2>3, <3>2, <5>2, <6>1
              DEF IInv, TypeOK, FlightIsTheirs, keyOf
          <5> QED
            BY <5>1, <5>2
        <4> QED
          BY <2>3, <3>2, <4>1
      <3> QED
        BY <3>1, <3>2
    <2>7. ResultIsWorth' /\ CancelIsOwn'
      BY <1>2, <2>2 DEF IInv, TypeOK, ResultIsWorth, CancelIsOwn, keyOf
    <2> QED
      BY <2>4, <2>5, <2>6, <2>7 DEF IInv
  <1> QED
    BY <1>2, <1>4, <1>5, <1>6

LEMMA GetOrLoadKeepsIInv ==
  ASSUME IInv, NEW c \in Callers, GetOrLoad(c)
  PROVE  IInv'
  <1>1. PICK err \in Outcomes(cancelled[c]) :
          Return(c, Result(IF err = "none" THEN keyOf(c) ELSE None, err))
    BY DEF GetOrLoad
  <1> DEFINE r == Result(IF err = "none" THEN keyOf(c) ELSE None, err)
  <1>2. /\ at[c] = "loading" /\ arg[c] \in Calls /\ keyOf(c) \in Keys
        /\ arg[c][1] = "getOrLoad" /\ keyOf(c) # None
        /\ UNCHANGED <<cached, flight, arg, cancelled, answer>>
    BY LoaderAssumption DEF GetOrLoad, IInv, TypeOK, CallAtWork, Calls, keyOf
  <1>3. /\ at' = [at EXCEPT ![c] = "returned"] /\ ret' = [ret EXCEPT ![c] = r]
    BY <1>1 DEF Return
  <1>4. /\ r \in Results
        /\ r.key # None => r.key = keyOf(c)
        /\ r.err = "none" => r.key # None
        /\ r.err = "canceled" => cancelled[c]
    BY <1>2 DEF Outcomes, Result, Results, Errors
  <1> HIDE DEF r
  <1>5. TypeOK'
    BY <1>2, <1>3, <1>4, NoneAssumption DEF IInv, TypeOK
  <1>6. CallAtWork' /\ AnswerIsWorth'
    BY <1>2, <1>3 DEF IInv, TypeOK, CallAtWork, AnswerIsWorth, keyOf
  <1>7. FlightIsTheirs'
    <2>1. \A x \in Hashes : flight[x] # None =>
            c \notin flight[x].subs /\ flight[x].subs \subseteq Callers
      BY <1>2 DEF IInv, TypeOK, FlightIsTheirs, Flights
    <2> QED
      BY <1>2, <1>3, <2>1 DEF IInv, TypeOK, FlightIsTheirs, keyOf
  <1>8. ResultIsWorth' /\ CancelIsOwn'
    BY <1>2, <1>3, <1>4
    DEF IInv, TypeOK, ResultIsWorth, CancelIsOwn, keyOf, SameHash
  <1> QED
    BY <1>5, <1>6, <1>7, <1>8 DEF IInv

(* A caller that leaves its flight, or has its answer, returns r.          *)
LEMMA ReturnKeepsIInv ==
  ASSUME IInv, NEW c \in Callers, NEW r \in Results, Return(c, r),
         at[c] \in {"answered", "selecting"},
         UNCHANGED <<cached, flight, arg, cancelled, answer>>,
         answer[c] # None,
         r.key # None => SameHash(r.key, keyOf(c)),
         r.err = "none" /\ arg[c][1] # "load" => r.key # None,
         r.err = "canceled" => cancelled[c] \/ ~answer[c].async
  PROVE  IInv'
  <1>1. /\ at' = [at EXCEPT ![c] = "returned"] /\ ret' = [ret EXCEPT ![c] = r]
    BY DEF Return
  <1>2. TypeOK'
    <2>1. arg[c] \in CallsOf[c] /\ r # None
      BY NoneAssumption DEF IInv, TypeOK
    <2> QED
      BY <1>1, <2>1 DEF IInv, TypeOK
  <1>3. CallAtWork' /\ AnswerIsWorth'
    BY <1>1 DEF IInv, TypeOK, CallAtWork, AnswerIsWorth, keyOf
  <1>4. FlightIsTheirs'
    <2>1. \A x \in Hashes : flight[x] # None =>
            c \notin flight[x].subs /\ flight[x].subs \subseteq Callers
      BY DEF IInv, TypeOK, FlightIsTheirs, Flights
    <2> QED
      BY <1>1, <2>1 DEF IInv, TypeOK, FlightIsTheirs, keyOf
  <1>5. ResultIsWorth' /\ CancelIsOwn'
    BY <1>1 DEF IInv, TypeOK, ResultIsWorth, CancelIsOwn, keyOf
  <1> QED
    BY <1>2, <1>3, <1>4, <1>5 DEF IInv

LEMMA LoadKeepsIInv ==
  ASSUME IInv, NEW c \in Callers, Load(c)
  PROVE  IInv'
  <1> DEFINE r == IF cancelled[c] THEN Result(None, "canceled")
                                  ELSE Result(answer[c].key, "none")
  <1>1. /\ at[c] = "answered" /\ answer[c] # None /\ answer[c] \in Answers
        /\ arg[c][1] = "load"
        /\ Return(c, r) /\ UNCHANGED <<cached, flight, arg, cancelled, answer>>
    BY DEF Load, IInv, TypeOK, CallAtWork
  <1>2. r.key # None => SameHash(r.key, keyOf(c))
    BY <1>1 DEF IInv, AnswerIsWorth, Result
  <1>3. r \in Results /\ (r.err = "canceled" => cancelled[c])
    BY <1>1 DEF Result, Results, Answers, Errors
  <1> HIDE DEF r
  <1> QED
    BY <1>1, <1>2, <1>3, ReturnKeepsIInv

LEMMA LoadAsyncKeepsIInv ==
  ASSUME IInv, NEW c \in Callers, LoadAsync(c)
  PROVE  IInv'
  <1> DEFINE r == Result(answer[c].key, answer[c].err)
  <1>1. /\ at[c] = "selecting" /\ answer[c] # None /\ answer[c] \in Answers
        /\ Return(c, r) /\ UNCHANGED <<cached, flight, arg, cancelled, answer>>
    BY DEF LoadAsync, IInv, TypeOK
  <1>2. /\ r.key # None => SameHash(r.key, keyOf(c))
        /\ r.err = "none" => r.key # None
        /\ r.err = "canceled" => ~answer[c].async
    BY <1>1, LoaderAssumption DEF IInv, AnswerIsWorth, Result, SameHash
  <1>3. r \in Results
    BY <1>1 DEF Result, Results, Answers
  <1> HIDE DEF r
  <1> QED
    BY <1>1, <1>2, <1>3, ReturnKeepsIInv

(* Whoever gives up is no longer in a flight.                              *)
LEMMA GiveUpKeepsIInv ==
  ASSUME IInv, NEW c \in Callers, GiveUp(c)
  PROVE  IInv'
  <1> DEFINE r == Result(None, "canceled")
  <1>1. /\ at[c] = "selecting" /\ cancelled[c] /\ arg[c] \in CallsOf[c]
        /\ at' = [at EXCEPT ![c] = "returned"] /\ ret' = [ret EXCEPT ![c] = r]
        /\ answer' = [answer EXCEPT ![c] = None]
        /\ UNCHANGED <<cached, arg, cancelled>>
    BY DEF GiveUp, Return, IInv, TypeOK
  <1>2. r \in Results /\ r # None /\ r.key = None /\ r.err = "canceled"
    BY NoneAssumption DEF Result, Results, Errors
  <1> HIDE DEF r
  <1>3. ASSUME NEW x \in Hashes
        PROVE  /\ flight[x] = None => flight'[x] = None
               /\ flight[x] # None =>
                    /\ flight'[x] \in Flights
                    /\ flight'[x].key = flight[x].key
                    /\ flight'[x].subs = flight[x].subs \ {c}
    <2>1. flight'[x] = IF flight[x] = None THEN None
                       ELSE [flight[x] EXCEPT !.subs = @ \ {c}]
      BY DEF GiveUp
    <2>2. flight[x] \in Flights \cup {None}
      BY DEF IInv, TypeOK
    <2> QED
      BY <2>1, <2>2 DEF Flights
  <1>4. TypeOK'
    <2>1. flight' \in [Hashes -> Flights \cup {None}]
      BY <1>3 DEF GiveUp
    <2> QED
      BY <1>1, <1>2, <2>1 DEF IInv, TypeOK
  <1>5. CallAtWork' /\ AnswerIsWorth'
    BY <1>1 DEF IInv, TypeOK, CallAtWork, AnswerIsWorth, keyOf
  <1>6. FlightIsTheirs'
    <2> SUFFICES ASSUME NEW x \in Hashes, flight'[x] # None
                 PROVE  /\ HashOf[flight'[x].key] = x
                        /\ \A d \in flight'[x].subs :
                             /\ at'[d] \in {"waiting", "selecting"}
                             /\ answer'[d] = None
                             /\ HashOf[arg'[d][2]] = x
      BY DEF FlightIsTheirs, keyOf
    <2>1. /\ flight[x] # None /\ flight[x].subs \subseteq Callers
          /\ flight'[x].key = flight[x].key
          /\ flight'[x].subs = flight[x].subs \ {c}
      BY <1>3 DEF IInv, TypeOK, Flights
    <2> QED
      BY <1>1, <2>1 DEF IInv, TypeOK, FlightIsTheirs, keyOf
  <1>7. ResultIsWorth' /\ CancelIsOwn'
    BY <1>1, <1>2 DEF IInv, TypeOK, ResultIsWorth, CancelIsOwn, keyOf
  <1> QED
    BY <1>4, <1>5, <1>6, <1>7 DEF IInv

LEMMA ReceiveKeepsIInv ==
  ASSUME IInv, NEW c \in Callers, Receive(c)
  PROVE  IInv'
  <1>1. /\ at[c] = "returned" /\ at' = [at EXCEPT ![c] = "idle"]
        /\ arg' = [arg EXCEPT ![c] = None]
        /\ cancelled' = [cancelled EXCEPT ![c] = FALSE]
        /\ answer' = [answer EXCEPT ![c] = None]
        /\ ret' = [ret EXCEPT ![c] = None]
        /\ UNCHANGED <<cached, flight>>
    BY DEF Receive
  <1>2. TypeOK'
    BY <1>1 DEF IInv, TypeOK
  <1>3. CallAtWork' /\ AnswerIsWorth' /\ ResultIsWorth' /\ CancelIsOwn'
    BY <1>1
    DEF IInv, TypeOK, CallAtWork, AnswerIsWorth, ResultIsWorth, CancelIsOwn, keyOf
  <1>4. FlightIsTheirs'
    <2>1. \A x \in Hashes : flight[x] # None =>
            c \notin flight[x].subs /\ flight[x].subs \subseteq Callers
      BY <1>1 DEF IInv, TypeOK, FlightIsTheirs, Flights
    <2> QED
      BY <1>1, <2>1 DEF IInv, TypeOK, FlightIsTheirs, keyOf
  <1> QED
    BY <1>2, <1>3, <1>4 DEF IInv

LEMMA CancelKeepsIInv ==
  ASSUME IInv, NEW c \in Callers, Cancel(c)
  PROVE  IInv'
  BY DEF Cancel, IInv, TypeOK, CallAtWork, FlightIsTheirs, AnswerIsWorth,
         ResultIsWorth, CancelIsOwn, keyOf

(* A flight leaves its answer with its subscribers, and is gone.           *)
LEMMA LandKeepsIInv ==
  ASSUME IInv, NEW x \in Hashes, Land(x)
  PROVE  IInv'
  <1> DEFINE f == flight[x]
  <1>1. PICK err \in Outcomes(FlightCancelled(f)) :
          answer' = [c \in Callers |->
            IF c \in f.subs THEN Answer(f, err) ELSE answer[c]]
    BY DEF Land
  <1> DEFINE a == Answer(f, err)
  <1>2. /\ flight[x] # None /\ f \in Flights /\ HashOf[f.key] = x
        /\ at' = [c \in Callers |->
             IF c \in f.subs /\ at[c] = "waiting" THEN "answered" ELSE at[c]]
        /\ flight' = [flight EXCEPT ![x] = None]
        /\ UNCHANGED <<cached, arg, cancelled, ret>>
    BY DEF Land, IInv, TypeOK, FlightIsTheirs
  <1>3. /\ a \in Answers /\ a # None
        /\ IF a.err = "none" THEN a.key \in Keys /\ HashOf[a.key] = x
                             ELSE a.key = None
        /\ a.err = "canceled" => ~a.async
    <2>1. /\ a \in Answers
          /\ IF a.err = "none" THEN a.key \in Keys /\ HashOf[a.key] = x
                               ELSE a.key = None
          /\ a.err = "canceled" => ~a.async
      BY <1>2 DEF Answer, Answers, Errors, Outcomes, FlightCancelled, Flights
    <2> QED
      BY <2>1, NoneAssumption
  <1>4. \A c \in f.subs :
          /\ c \in Callers /\ at[c] \in {"waiting", "selecting"}
          /\ answer[c] = None /\ HashOf[keyOf(c)] = x
    BY <1>2 DEF IInv, FlightIsTheirs, Flights
  <1> HIDE DEF a, f
  <1>5. TypeOK'
    BY <1>1, <1>2, <1>3, <1>4 DEF IInv, TypeOK, a
  <1>6. CallAtWork'
    BY <1>1, <1>2, <1>3, <1>4 DEF IInv, TypeOK, CallAtWork, a
  <1>7. AnswerIsWorth'
    BY <1>1, <1>2, <1>3, <1>4 DEF IInv, TypeOK, AnswerIsWorth, SameHash, keyOf, a
  <1>8. FlightIsTheirs'
    <2> SUFFICES ASSUME NEW y \in Hashes, flight'[y] # None
                 PROVE  /\ HashOf[flight'[y].key] = y
                        /\ \A d \in flight'[y].subs :
                             /\ at'[d] \in {"waiting", "selecting"}
                             /\ answer'[d] = None
                             /\ HashOf[arg'[d][2]] = y
      BY DEF FlightIsTheirs, keyOf
    <2>1. /\ y # x /\ flight'[y] = flight[y] /\ flight[y] \in Flights
          /\ flight[y].subs \subseteq Callers
      BY <1>2 DEF IInv, TypeOK, Flights
    <2>2. \A d \in flight[y].subs : d \notin f.subs
      BY <1>4, <2>1 DEF IInv, FlightIsTheirs
    <2> QED
      BY <1>1, <1>2, <2>1, <2>2 DEF IInv, FlightIsTheirs, keyOf
  <1>9. ResultIsWorth' /\ CancelIsOwn'
    BY <1>1, <1>2, <1>4 DEF IInv, TypeOK, ResultIsWorth, CancelIsOwn, keyOf
  <1> QED
    BY <1>5, <1>6, <1>7, <1>8, <1>9 DEF IInv

-----------------------------------------------------------------------------
THEOREM Invariance == Spec => []IInv
<1>1. IInv /\ [Next]_vars => IInv'
  <2> SUFFICES ASSUME IInv, [Next]_vars PROVE IInv'
    OBVIOUS
  <2>1. CASE \E c \in Callers : Call(c)
    BY <2>1, CallKeepsIInv
  <2>2. CASE \E c \in Callers : Step(c)
    BY <2>2, GetOrLoadKeepsIInv, LoadKeepsIInv, LoadAsyncKeepsIInv,
       GiveUpKeepsIInv, ReceiveKeepsIInv DEF Step
  <2>3. CASE \E c \in Callers : Cancel(c)
    BY <2>3, CancelKeepsIInv
  <2>4. CASE \E x \in Hashes : Land(x)
    BY <2>4, LandKeepsIInv
  <2>5. CASE ShardChanges
    BY <2>5 DEF ShardChanges, IInv, TypeOK, CallAtWork, FlightIsTheirs,
                AnswerIsWorth, ResultIsWorth, CancelIsOwn, keyOf
  <2>6. CASE UNCHANGED vars
    BY <2>6 DEF vars, IInv, TypeOK, CallAtWork, FlightIsTheirs,
                AnswerIsWorth, ResultIsWorth, CancelIsOwn, keyOf
  <2> QED
    BY <2>1, <2>2, <2>3, <2>4, <2>5, <2>6 DEF Next
<1> QED
  BY InitIInv, <1>1, PTL DEF Spec

(* The calls, flights, answers and results keep their types (loader.go:    *)
(* 45-107, shard.go:27-34).                                                *)
THEOREM TypeCorrect == Spec => []TypeOK
<1>1. IInv => TypeOK
  BY DEF IInv
<1> QED
  BY Invariance, <1>1, PTL

(* No two keys have the same hash: what the group relies on.               *)
NoCollision == \A j, k \in Keys : HashOf[j] = HashOf[k] => j = k

(* A call returns no value but that of the key it asked for, and load      *)
(* alone returns none without an error (loader.go:57-71, 77-107), provided *)
(* that no two keys have the same hash.                                    *)
THEOREM AnswersCorrect ==
  ASSUME NoCollision
  PROVE  Spec => []AnswerIsForKey
<1>1. IInv => AnswerIsForKey
  <2> SUFFICES ASSUME IInv, NEW c \in Callers, at[c] = "returned"
               PROVE  /\ ret[c].key \in {keyOf(c), None}
                      /\ ret[c].err = "none" /\ arg[c][1] # "load"
                           => ret[c].key = keyOf(c)
    BY DEF AnswerIsForKey
  <2>1. arg[c] \in Calls /\ keyOf(c) \in Keys
    BY LoaderAssumption DEF IInv, TypeOK, Calls, keyOf
  <2>2. ret[c].key # None => ret[c].key = keyOf(c)
    BY <2>1 DEF IInv, ResultIsWorth, SameHash, NoCollision
  <2> QED
    BY <2>2 DEF IInv, ResultIsWorth
<1> QED
  BY Invariance, <1>1, PTL

(* A call is told of a cancellation that is not its own only by a flight   *)
(* that load has started (loader.go:83-86, 97-102).                        *)
THEOREM CancelCorrect == Spec => []CancelIsOwn
<1>1. IInv => CancelIsOwn
  BY DEF IInv
<1> QED
  BY Invariance, <1>1, PTL
=============================================================================
