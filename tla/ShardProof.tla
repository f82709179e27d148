----------------------------- MODULE ShardProof -----------------------------
(***************************************************************************)
(* Proofs about Shard, for every set of goroutines, keys, hashes, values,  *)
(* entries, weights and generations, whatever calls the goroutines make    *)
(* and with either hand-over.                                              *)
(*                                                                         *)
(* The properties rest on these invariants, proved one after the other:    *)
(*                                                                         *)
(*   Control    where a goroutine is in its call, which locks it holds     *)
(*              there and what is in its local variables: what the lock    *)
(*              excludes, for all that follows                             *)
(*   Calm       no sweep, rotation or dead generation is left half-done    *)
(*              outside of the critical section that does it, unless the   *)
(*              shard has been closed                                      *)
(*   RingOK     the ring keeps its types and its active slot is never empty*)
(*   CellTypes  entries, values and generations keep their types           *)
(*   ListOK     a sweep never finds the list of the policy empty           *)
(*   Data       the index leads a hash to an entry of a key of that hash,  *)
(*              a goroutine works on an entry of its own key, an update on *)
(*              the entry in the index, an insertion on an entry that      *)
(*              nobody else knows                                          *)
(*   Ownership  a value and its entry are of the same generation           *)
(*   Windows    what a get is about to return was current during its call  *)
(***************************************************************************)
EXTENDS Shard, SequenceTheorems, TLAPS

-----------------------------------------------------------------------------
GetSteps   == {"mark", "deref", "return"}
FastSteps  == {"update", "allocating", "weigh", "tag"}
SlowSteps  == {"index it", "insert", "sweep", "rotate", "tell"}
CloseSteps == {"index = nil", "clock = nil", "genRing = nil"}

(* Where a goroutine is in its call, and what it holds there.              *)
CallOf(p) ==
  /\ at[p] = "idle" => arg[p] = None /\ mine[p] = None /\ lot[p] = {}
  /\ at[p] = "reading" => Doing(p, "get") \/ Doing(p, "put") \/ Doing(p, "len")
  /\ at[p] \in GetSteps => Doing(p, "get")
  /\ at[p] \in FastSteps \cup SlowSteps => Doing(p, "put")
  /\ at[p] \in {"lock", "locked"} => Doing(p, "put") \/ Doing(p, "delete")
  /\ at[p] = "remove" => Doing(p, "delete")
  /\ at[p] = "iterating" => Doing(p, "size")
  /\ at[p] \in CloseSteps => Doing(p, "close")
  /\ at[p] \in GetSteps \cup FastSteps \cup SlowSteps \cup {"remove"} => mine[p] \in Entries
  /\ at[p] = "clock = nil" => "index" \in nilled
  /\ at[p] = "genRing = nil" => {"index", "clock"} \subseteq nilled
  /\ at[p] = "mark" => held[p] = mine[p]
  /\ at[p] \notin {"mark", "killed"} => held[p] = None /\ byte[p] = None
  /\ at[p] = "killed" => \A q \in Procs : at[q] = "killed"

LocksOf(p) ==
  /\ at[p] \in FastSteps => readers[p] > 0 /\ p \notin rwait
  /\ at[p] \in SlowSteps \cup {"locked", "remove"} => writer = p
  /\ at[p] \in SlowSteps \cup {"remove"} => \A q \in Procs : readers[q] = 0

ControlTypes ==
  /\ writer \in Procs \cup {None} /\ readers \in [Procs -> Nat] /\ rwait \subseteq Procs
  /\ nilled \subseteq {"index", "clock", "genRing"}
  /\ at \in [Procs -> Steps]
  /\ arg \in [Procs -> CallSet \cup {None}]
  /\ mine \in [Procs -> Entries \cup {None}]
  /\ lot \in [Procs -> SUBSET Vals]
  /\ index \in [Hashes -> Entries \cup {None}]
  /\ held \in [Procs -> Entries \cup {None}]
  /\ byte = [p \in Procs |-> byte[p]]

(* Between the critical sections no sweep runs and no rotation is due.     *)
(* After Close some calls panic in the middle of them.                     *)
Calm ==
  /\ "genRing" \in nilled => "index" \in nilled /\ "clock" \in nilled
  /\ sweep # "idle" => \E p \in Procs : at[p] = "sweep"
  /\ due => "genRing" \in nilled \/ \E p \in Procs : at[p] = "rotate"
  /\ dead # None => "clock" \in nilled \/ \E p \in Procs : at[p] = "tell"
  /\ \A p \in Procs : at[p] = "rotate" => dead = None
  /\ \A p \in Procs : at[p] = "sweep" => dead = None /\ (due => "genRing" \in nilled)

Control ==
  /\ ControlTypes
  /\ \A p \in Procs : CallOf(p) /\ LocksOf(p)


-----------------------------------------------------------------------------
(* What a goroutine does to the lock, and to the others.                   *)
LockMove(p) ==
  \/ UNCHANGED lockVars
  \/ Mu!RLock(p)
  \/ Mu!RUnlock(p) /\ readers[p] > 0
  \/ Mu!Lock(p)
  \/ Mu!Unlock(p) /\ writer = p

OthersStay(p) ==
  /\ nilled \subseteq nilled'
  /\ \A q \in Procs \ {p} :
       /\ at'[q] = at[q] /\ arg'[q] = arg[q] /\ mine'[q] = mine[q]
       /\ held'[q] = held[q] /\ byte'[q] = byte[q]
       /\ at[q] = "idle" => lot'[q] = lot[q]

LocalTypes ==
  /\ nilled \subseteq {"index", "clock", "genRing"}
  /\ at \in [Procs -> Steps]
  /\ arg \in [Procs -> CallSet \cup {None}]
  /\ mine \in [Procs -> Entries \cup {None}]
  /\ lot \in [Procs -> SUBSET Vals]
  /\ index \in [Hashes -> Entries \cup {None}]
  /\ held \in [Procs -> Entries \cup {None}]
  /\ byte = [p \in Procs |-> byte[p]]

LockTypes ==
  writer \in Procs \cup {None} /\ readers \in [Procs -> Nat] /\ rwait \subseteq Procs

LEMMA LockMoveLemma ==
  ASSUME LockTypes, NEW p \in Procs, LockMove(p)
  PROVE  /\ LockTypes'
         /\ \A q \in Procs \ {p} :
              /\ readers[q] > 0 /\ q \notin rwait => readers'[q] > 0 /\ q \notin rwait'
              /\ writer = q => writer' = q
              /\ writer = q /\ (\A r \in Procs : readers[r] = 0) =>
                   \A r \in Procs : readers'[r] = 0
  <1>1. None \notin Procs
    BY NoneAssumption
  <1>2. CASE UNCHANGED lockVars
    BY <1>2 DEF LockTypes, lockVars
  <1>3. CASE Mu!RLock(p)
    BY <1>1, <1>3 DEF LockTypes, Mu!RLock
  <1>4. CASE Mu!RUnlock(p) /\ readers[p] > 0
    BY <1>1, <1>4 DEF LockTypes, Mu!RUnlock
  <1>5. CASE Mu!Lock(p)
    BY <1>1, <1>5 DEF LockTypes, Mu!Lock
  <1>6. CASE Mu!Unlock(p) /\ writer = p
    BY <1>1, <1>6 DEF LockTypes, Mu!Unlock
  <1> QED
    BY <1>2, <1>3, <1>4, <1>5, <1>6 DEF LockMove

(* It is enough to look at the goroutine that moves.                       *)
LEMMA MoveKeepsControl ==
  ASSUME Control, NEW p \in Procs, at[p] # "killed",
         LockMove(p), OthersStay(p), LocalTypes', CallOf(p)', LocksOf(p)'
  PROVE  Control'
  <1>1. LockTypes
    BY DEF Control, ControlTypes, LockTypes
  <1>2. ControlTypes'
    BY <1>1, LockMoveLemma DEF ControlTypes, LocalTypes, LockTypes
  <1>3. ASSUME NEW q \in Procs \ {p} PROVE CallOf(q)' /\ LocksOf(q)'
    <2>1. CallOf(q) /\ LocksOf(q)
      BY DEF Control
    <2>2. at[q] # "killed"
      BY <2>1 DEF CallOf
    <2>3. CallOf(q)'
      BY <2>1, <2>2 DEF OthersStay, CallOf, Doing
    <2>4. LocksOf(q)'
      <3>1. /\ readers[q] > 0 /\ q \notin rwait => readers'[q] > 0 /\ q \notin rwait'
            /\ writer = q => writer' = q
            /\ writer = q /\ (\A r \in Procs : readers[r] = 0) =>
                 \A r \in Procs : readers'[r] = 0
        BY <1>1, LockMoveLemma
      <3>2. at'[q] = at[q]
        BY DEF OthersStay
      <3> QED
        BY <2>1, <3>1, <3>2 DEF LocksOf, SlowSteps, FastSteps
    <2> QED
      BY <2>3, <2>4
  <1> QED
    BY <1>2, <1>3 DEF Control

LEMMA KillKeepsControl ==
  ASSUME Control, UNCHANGED <<lockVars, nilled, arg, lot, held, byte>>,
         mine' \in [Procs -> Entries \cup {None}],
         index' \in [Hashes -> Entries \cup {None}],
         at' = [q \in Procs |-> "killed"]
  PROVE  Control'
  <1>1. ControlTypes'
    BY DEF Control, ControlTypes, lockVars, Steps
  <1>2. ASSUME NEW q \in Procs PROVE CallOf(q)' /\ LocksOf(q)'
    BY DEF CallOf, LocksOf, GetSteps, FastSteps, SlowSteps, CloseSteps
  <1> QED
    BY <1>1, <1>2 DEF Control

(* The operations of the policy but those of get leave the readers alone.  *)
LEMMA PolicyKeepsReaders ==
  /\ \A e, w, g : CP!Insert(e, w, g) \/ CP!Update(e, w, g) => UNCHANGED <<held, byte>>
  /\ \A e : CP!RemoveEntry(e) => UNCHANGED <<held, byte>>
  /\ \A g : CP!GenerationEvicted(g) => UNCHANGED <<held, byte>>
  /\ CP!evictIfNeeded => UNCHANGED <<held, byte>>
  BY DEF CP!Insert, CP!Update, CP!RemoveEntry, CP!GenerationEvicted,
         CP!evictIfNeeded, CP!ReadHand, CP!KeepHot, CP!Demote, CP!Promote,
         CP!Evict, CP!Forget, CP!Leave

-----------------------------------------------------------------------------
(* The steps of a call keep Control.                                       *)
LEMMA CallKeepsControl ==
  ASSUME Control, NEW p \in Procs, Call(p)
  PROVE  Control'
  <1>1. /\ at[p] = "idle" /\ CallOf(p) /\ LocalTypes
        /\ UNCHANGED <<index, nilled, mine, lot, held, byte>>
    BY DEF Call, Control, ControlTypes, LocalTypes, clockVars, mapVars
  <1>2. PICK c \in CallsOf[p] :
          /\ arg' = [arg EXCEPT ![p] = c]
          /\ CASE c.op \in {"get", "put", "len"} -> Goto(p, "reading") /\ Mu!RLock(p)
               [] c.op = "delete" -> Goto(p, "lock") /\ UNCHANGED lockVars
               [] c.op = "size"   -> Goto(p, "iterating") /\ UNCHANGED lockVars
               [] c.op = "close"  -> Goto(p, "index = nil") /\ UNCHANGED lockVars
    BY DEF Call
  <1>3. c \in CallSet /\ c # None /\ c.op \in Ops
    BY ShardAssumption, NoneAssumption DEF CallSet
  <1>4. \E a \in {"reading", "lock", "iterating", "index = nil"} :
          /\ Goto(p, a)
          /\ a = "reading" => c.op \in {"get", "put", "len"} /\ Mu!RLock(p)
          /\ a # "reading" => UNCHANGED lockVars
          /\ a = "lock" => c.op = "delete"
          /\ a = "iterating" => c.op = "size"
          /\ a = "index = nil" => c.op = "close"
    BY <1>2, <1>3 DEF Ops
  <1>5. LocalTypes'
    BY <1>1, <1>2, <1>3, <1>4 DEF LocalTypes, Goto, Steps
  <1>6. OthersStay(p) /\ LockMove(p)
    BY <1>1, <1>2, <1>4 DEF LocalTypes, OthersStay, LockMove, Goto
  <1>7. CallOf(p)' /\ LocksOf(p)'
    BY <1>1, <1>2, <1>3, <1>4
    DEF CallOf, LocksOf, LocalTypes, Goto, Doing, GetSteps, FastSteps, SlowSteps,
        CloseSteps
  <1> QED
    BY <1>1, <1>5, <1>6, <1>7, MoveKeepsControl

(* Where a step may lead: what is to be shown of the goroutine itself.     *)
LEMMA StepKeepsControl ==
  ASSUME Control, NEW p \in Procs, NEW to \in Steps \ {"idle", "killed"},
         at[p] # "killed", Goto(p, to), LockMove(p), LocalTypes',
         UNCHANGED <<arg>>, nilled \subseteq nilled',
         \A q \in Procs \ {p} :
           /\ mine'[q] = mine[q] /\ held'[q] = held[q] /\ byte'[q] = byte[q]
           /\ at[q] = "idle" => lot'[q] = lot[q],
         CallOf(p)', LocksOf(p)'
  PROVE  Control'
  <1>1. OthersStay(p)
    BY DEF OthersStay, Goto, Control, ControlTypes
  <1> QED
    BY <1>1, MoveKeepsControl

(* A step that ends its call.                                              *)
LEMMA DoneKeepsControl ==
  ASSUME Control, NEW p \in Procs, at[p] # "killed", Done(p), LockMove(p),
         nilled \subseteq nilled', nilled' \subseteq {"index", "clock", "genRing"},
         UNCHANGED <<held, byte>>, held[p] = None, byte[p] = None,
         index' \in [Hashes -> Entries \cup {None}]
  PROVE  Control'
  <1>1. LocalTypes'
    BY DEF Done, Goto, LocalTypes, Control, ControlTypes, Steps
  <1>2. OthersStay(p)
    BY DEF Done, Goto, OthersStay, Control, ControlTypes
  <1>3. CallOf(p)' /\ LocksOf(p)'
    BY DEF Done, Goto, Control, ControlTypes, CallOf, LocksOf, Doing, GetSteps,
           FastSteps, SlowSteps, CloseSteps
  <1> QED
    BY <1>1, <1>2, <1>3, MoveKeepsControl

(* A call that panics, having left the policy's readers alone.             *)
LEMMA PanicKeepsControl ==
  ASSUME Control, NEW p \in Procs, at[p] \notin {"mark", "killed"}, Panic(p), LockMove(p),
         UNCHANGED <<nilled, held, byte, index>>
  PROVE  Control'
  <1>1. LocalTypes'
    BY DEF Panic, Stay, Goto, LocalTypes, Control, ControlTypes, Steps, callVars
  <1>2. OthersStay(p)
    BY DEF Panic, Stay, Goto, OthersStay, Control, ControlTypes, callVars
  <1>3. CallOf(p)' /\ LocksOf(p)'
    BY DEF Panic, Stay, Goto, Control, ControlTypes, CallOf, LocksOf, Doing,
           GetSteps, FastSteps, SlowSteps, CloseSteps, callVars
  <1> QED
    BY <1>1, <1>2, <1>3, MoveKeepsControl

LEMMA GetKeepsControl ==
  ASSUME Control, NEW p \in Procs, Get(p)
  PROVE  Control'
  <1>1. CASE GetLookup(p)
    <2>1. /\ at[p] = "reading" /\ Doing(p, "get") /\ readers[p] > 0
          /\ LockMove(p) /\ UNCHANGED <<index, nilled, byte>>
          /\ held[p] = None /\ byte[p] = None
      BY <1>1 DEF GetLookup, Reading, Mu!HoldsRead, LockMove, mapVars, Control,
                  CallOf, CP!Find, clockVars
    <2>2. CASE ~Known(p) /\ Done(p) /\ UNCHANGED clockVars
      BY <2>1, <2>2, DoneKeepsControl DEF clockVars, Control, ControlTypes
    <2>3. CASE /\ Known(p)
               /\ CP!Find(p, Entry(p))
               /\ mine' = [mine EXCEPT ![p] = Entry(p)]
               /\ Goto(p, "mark")
               /\ UNCHANGED <<arg, lot, dead, got, window>>
      <3>1. Entry(p) \in Entries /\ held' = [held EXCEPT ![p] = Entry(p)]
        <4>1. Doing(p, "get") /\ arg[p] \in CallSet
          BY <2>1 DEF Control, ControlTypes, Doing
        <4>2. h(p) \in Hashes
          BY <4>1, ShardAssumption DEF h, CallSet
        <4> QED
          BY <2>3, <4>2 DEF Known, Entry, CP!Find, Control, ControlTypes
      <3>2. LocalTypes'
        BY <2>1, <2>3, <3>1 DEF Control, ControlTypes, LocalTypes, Goto, Steps
      <3>3. CallOf(p)' /\ LocksOf(p)'
        BY <2>1, <2>3, <3>1 DEF Control, ControlTypes, CallOf, LocksOf, Goto, Doing,
             GetSteps, FastSteps, SlowSteps, CloseSteps
      <3>4. \A q \in Procs \ {p} : mine'[q] = mine[q] /\ held'[q] = held[q]
                                     /\ byte'[q] = byte[q] /\ lot'[q] = lot[q]
        BY <2>1, <2>3, <3>1 DEF Control, ControlTypes
      <3> QED
        BY <2>1, <2>3, <3>2, <3>3, <3>4, StepKeepsControl DEF Steps
    <2> QED
      BY <1>1, <2>2, <2>3 DEF GetLookup
  <1>2. CASE GetMark(p)
    <2>1. /\ at[p] = "mark" /\ UNCHANGED <<lockVars, index, nilled, arg, mine, lot>>
          /\ Doing(p, "get") /\ mine[p] \in Entries /\ held[p] = mine[p]
      BY <1>2 DEF GetMark, Stay, mapVars, callVars, Control, CallOf, GetSteps
    <2>2. CASE CP!LoadState(p) /\ UNCHANGED at
      <3>1. held' = held /\ byte' = [byte EXCEPT ![p] = state[held[p]]]
        BY <2>2 DEF CP!LoadState
      <3>2. LocalTypes' /\ OthersStay(p)
        BY <2>1, <2>2, <3>1 DEF Control, ControlTypes, LocalTypes, OthersStay
      <3>3. CallOf(p)' /\ LocksOf(p)'
        BY <2>1, <2>2, <3>1 DEF Control, CallOf, LocksOf, Doing, GetSteps, FastSteps,
             SlowSteps, CloseSteps
      <3> QED
        BY <2>1, <3>2, <3>3, MoveKeepsControl DEF LockMove
    <2>3. CASE CP!StoreState(p) /\ Goto(p, "deref")
      <3>1. held' = [held EXCEPT ![p] = None] /\ byte' = [byte EXCEPT ![p] = None]
        BY <2>3 DEF CP!StoreState
      <3>2. LocalTypes' /\ OthersStay(p)
        BY <2>1, <2>3, <3>1 DEF Control, ControlTypes, LocalTypes, OthersStay, Goto,
             Steps
      <3>3. CallOf(p)' /\ LocksOf(p)'
        BY <2>1, <2>3, <3>1 DEF Control, ControlTypes, CallOf, LocksOf, Doing, Goto,
             GetSteps, FastSteps, SlowSteps, CloseSteps
      <3> QED
        BY <2>1, <3>2, <3>3, MoveKeepsControl DEF LockMove
    <2> QED
      BY <1>2, <2>2, <2>3 DEF GetMark
  <1>3. CASE GetDeref(p)
    <2>1. /\ at[p] = "deref" /\ Goto(p, "return")
          /\ UNCHANGED <<lockVars, index, nilled, held, byte, arg, mine, lot>>
          /\ Doing(p, "get") /\ mine[p] \in Entries /\ held[p] = None /\ byte[p] = None
      BY <1>3 DEF GetDeref, mapVars, clockVars, Control, CallOf, GetSteps
    <2>2. LocalTypes'
      BY <2>1 DEF Control, ControlTypes, LocalTypes, Goto, Steps
    <2>3. CallOf(p)' /\ LocksOf(p)'
      BY <2>1 DEF Control, ControlTypes, CallOf, LocksOf, Doing, Goto, GetSteps,
           FastSteps, SlowSteps, CloseSteps
    <2> QED
      BY <2>1, <2>2, <2>3, StepKeepsControl DEF LockMove, Steps
  <1>4. CASE GetReturn(p)
    <2>1. /\ at[p] = "return" /\ Done(p)
          /\ UNCHANGED <<lockVars, index, nilled, held, byte>>
          /\ held[p] = None /\ byte[p] = None
      BY <1>4 DEF GetReturn, mapVars, clockVars, Control, CallOf
    <2> QED
      BY <2>1, DoneKeepsControl DEF LockMove, Control, ControlTypes
  <1> QED
    BY <1>1, <1>2, <1>3, <1>4 DEF Get

LEMMA PutFastKeepsControl ==
  ASSUME Control, NEW p \in Procs, PutLookup(p) \/ PutFast(p)
  PROVE  Control'
  <1>1. CASE PutLookup(p)
    <2>1. /\ at[p] = "reading" /\ Doing(p, "put") /\ readers[p] > 0 /\ p \notin rwait
          /\ UNCHANGED <<index, nilled, held, byte, arg, lot>>
          /\ held[p] = None /\ byte[p] = None
      BY <1>1 DEF PutLookup, Reading, Mu!HoldsRead, mapVars, Control, CallOf,
                  clockVars, callVars
    <2>2. CASE /\ Known(p)
               /\ mine' = [mine EXCEPT ![p] = Entry(p)]
               /\ Goto(p, "update")
               /\ UNCHANGED <<lockVars, arg, lot, dead, got>>
      <3>1. Entry(p) \in Entries
        <4>1. Doing(p, "put") /\ arg[p] \in CallSet
          BY <2>1 DEF Control, ControlTypes, Doing
        <4>2. h(p) \in Hashes
          BY <4>1, ShardAssumption DEF h, CallSet
        <4> QED
          BY <2>2, <4>2 DEF Known, Entry, Control, ControlTypes
      <3>2. LocalTypes'
        BY <2>1, <2>2, <3>1 DEF Control, ControlTypes, LocalTypes, Goto, Steps
      <3>3. CallOf(p)' /\ LocksOf(p)'
        BY <2>1, <2>2, <3>1 DEF Control, ControlTypes, CallOf, LocksOf, Goto, Doing,
             GetSteps, FastSteps, SlowSteps, CloseSteps, lockVars
      <3>4. \A q \in Procs \ {p} : mine'[q] = mine[q]
        BY <2>2 DEF Control, ControlTypes
      <3> QED
        BY <2>1, <2>2, <3>2, <3>3, <3>4, StepKeepsControl DEF LockMove, Steps
    <2>3. CASE ~Known(p) /\ Mu!RUnlock(p) /\ Goto(p, "lock") /\ UNCHANGED callVars
      <3>1. LocalTypes' /\ mine' = mine
        BY <2>1, <2>3 DEF Control, ControlTypes, LocalTypes, Goto, Steps, callVars
      <3>2. CallOf(p)' /\ LocksOf(p)'
        BY <2>1, <2>3, <3>1 DEF Control, ControlTypes, CallOf, LocksOf, Goto, Doing,
             GetSteps, FastSteps, SlowSteps, CloseSteps
      <3> QED
        BY <2>1, <2>3, <3>1, <3>2, StepKeepsControl DEF LockMove, Steps
    <2> QED
      BY <1>1, <2>2, <2>3 DEF PutLookup
  <1>2. ASSUME PutFast(p)
        PROVE  /\ Doing(p, "put") /\ mine[p] \in Entries /\ readers[p] > 0 /\ p \notin rwait
               /\ at[p] \in FastSteps /\ at[p] \notin {"mark", "killed", "idle"}
               /\ UNCHANGED <<index, nilled, held, byte>>
               /\ held[p] = None /\ byte[p] = None
    <2>1. at[p] \in FastSteps /\ UNCHANGED mapVars
      BY <1>2 DEF PutFast, UpdateAlloc, UpdateValue, UpdateWeight, UpdateGen, FastSteps
    <2>2. UNCHANGED <<held, byte>>
      BY <1>2, PolicyKeepsReaders
      DEF PutFast, UpdateAlloc, UpdateValue, UpdateWeight, UpdateGen, clockVars
    <2> QED
      BY <2>1, <2>2 DEF Control, CallOf, LocksOf, FastSteps, mapVars
  <1>3. CASE UpdateAlloc(p)
    <2>1. UNCHANGED lockVars /\ at[p] = "update"
      BY <1>3 DEF UpdateAlloc
    <2>2. CASE Panic(p)
      BY <1>2, <1>3, <2>1, <2>2, PanicKeepsControl DEF PutFast, LockMove
    <2>3. CASE ~Panic(p)
      <3>1. /\ Goto(p, "allocating") /\ UNCHANGED <<arg, mine>>
            /\ lot' = [q \in Procs |->
                 IF q \in {r \in Procs : at[r] = "allocating"} \cup {p}
                   THEN lot[q] \cup {arg[r].val : r \in {r \in Procs : at[r] = "allocating"} \cup {p}}
                   ELSE lot[q]]
        BY <1>3, <2>3 DEF UpdateAlloc
      <3>2. \A r \in {r \in Procs : at[r] = "allocating"} \cup {p} : arg[r].val \in Vals
        BY <1>2, <1>3 DEF PutFast, Control, ControlTypes, CallOf, Doing, CallSet, FastSteps
      <3>3. LocalTypes' /\ \A q \in Procs : at[q] = "idle" => lot'[q] = lot[q]
        <4> DEFINE S == {r \in Procs : at[r] = "allocating"} \cup {p}
                   V == {arg[r].val : r \in S}
        <4>1. V \subseteq Vals
          BY <3>2
        <4>2. lot' = [q \in Procs |-> IF q \in S THEN lot[q] \cup V ELSE lot[q]]
          BY <3>1
        <4>3. \A q \in Procs : at[q] = "idle" => q \notin S
          BY <2>1
        <4> HIDE DEF S, V
        <4>4. /\ lot' \in [Procs -> SUBSET Vals]
              /\ \A q \in Procs : at[q] = "idle" => lot'[q] = lot[q]
          BY <4>1, <4>2, <4>3 DEF Control, ControlTypes
        <4> QED
          BY <1>2, <1>3, <3>1, <4>4
          DEF PutFast, Control, ControlTypes, LocalTypes, Goto, Steps
      <3>4. CallOf(p)' /\ LocksOf(p)'
        BY <1>2, <1>3, <2>1, <3>1
        DEF PutFast, Control, ControlTypes, CallOf, LocksOf, Goto, Doing,
            GetSteps, FastSteps, SlowSteps, CloseSteps, lockVars
      <3> QED
        BY <1>2, <1>3, <2>1, <3>1, <3>3, <3>4, StepKeepsControl
        DEF PutFast, LockMove, Steps
    <2> QED
      BY <2>2, <2>3
  <1>4. CASE UpdateValue(p) \/ UpdateWeight(p)
    <2>1. PICK to \in {"weigh", "tag"} :
            Goto(p, to) /\ UNCHANGED <<lockVars, arg, mine, lot>>
      BY <1>4 DEF UpdateValue, UpdateWeight, callVars, Stay
    <2>2. PutFast(p)
      BY <1>4 DEF PutFast
    <2>3. LocalTypes'
      BY <1>2, <2>1, <2>2 DEF Control, ControlTypes, LocalTypes, Goto, Steps
    <2>4. CallOf(p)' /\ LocksOf(p)'
      BY <1>2, <2>1, <2>2 DEF Control, ControlTypes, CallOf, LocksOf, Goto, Doing,
           GetSteps, FastSteps, SlowSteps, CloseSteps, lockVars
    <2> QED
      BY <1>2, <2>1, <2>2, <2>3, <2>4, StepKeepsControl DEF LockMove, Steps
  <1>5. CASE UpdateGen(p)
    <2>1. Done(p) /\ Mu!RUnlock(p) /\ PutFast(p)
      BY <1>5 DEF UpdateGen, PutFast
    <2> QED
      BY <1>2, <2>1, DoneKeepsControl DEF LockMove, Control, ControlTypes
  <1> QED
    BY <1>1, <1>3, <1>4, <1>5 DEF PutFast

(* What a goroutine with the write lock may rely on.                       *)
LEMMA Exclusive ==
  ASSUME Control, NEW p \in Procs,
         at[p] \in SlowSteps \cup {"remove"}
  PROVE  /\ writer = p /\ mine[p] \in Entries /\ held[p] = None /\ byte[p] = None
         /\ \A q \in Procs : readers[q] = 0
         /\ \A q \in Procs \ {p} : at[q] \notin SlowSteps \cup FastSteps \cup {"locked", "remove"}
  <1>1. /\ writer = p /\ mine[p] \in Entries /\ held[p] = None /\ byte[p] = None
        /\ \A q \in Procs : readers[q] = 0
    <2>1. CallOf(p) /\ LocksOf(p)
      BY DEF Control
    <2> QED
      BY <2>1 DEF CallOf, LocksOf, SlowSteps
  <1>2. ASSUME NEW q \in Procs \ {p}
        PROVE  at[q] \notin SlowSteps \cup FastSteps \cup {"locked", "remove"}
    <2>1. LocksOf(q)
      BY DEF Control
    <2>2. ~(readers[q] > 0)
      BY <1>1
    <2> QED
      BY <1>1, <2>1, <2>2 DEF LocksOf
  <1> QED
    BY <1>1, <1>2

LEMMA PutSlowKeepsControl ==
  ASSUME Control, NEW p \in Procs, PutSlow(p)
  PROVE  Control'
  <1>0. /\ Doing(p, "put") /\ at[p] \in SlowSteps \cup {"locked"}
        /\ writer = p /\ held[p] = None /\ byte[p] = None
        /\ at[p] \in SlowSteps => mine[p] \in Entries /\ \A q \in Procs : readers[q] = 0
    <2>1. at[p] \in SlowSteps \cup {"locked"} /\ (at[p] = "locked" => Doing(p, "put"))
      BY DEF PutSlow, PutNew, Locked, PutIndex, PutInsert, PutSweep, PutCharge, Rotate,
             RotateTell, PutReturn, SlowSteps
    <2> QED
      BY <2>1 DEF Control, CallOf, LocksOf, SlowSteps
  <1>1. /\ UNCHANGED <<nilled, held, byte>> /\ at[p] \notin {"mark", "killed", "idle"}
        /\ nilled' \subseteq {"index", "clock", "genRing"}
    <2>1. UNCHANGED nilled
      BY DEF PutSlow, PutNew, PutIndex, PutInsert, PutSweep, PutCharge, Rotate,
             RotateTell, PutReturn, mapVars
    <2>2. UNCHANGED <<held, byte>>
      BY PolicyKeepsReaders
      DEF PutSlow, PutNew, PutIndex, PutInsert, PutSweep, PutCharge, Rotate,
          RotateTell, PutReturn, clockVars
    <2> QED
      BY <1>0, <2>1, <2>2 DEF SlowSteps, Control, ControlTypes
  <1>2. ASSUME PanicUnlocking(p), UNCHANGED index PROVE Control'
    BY <1>0, <1>1, <1>2, PanicKeepsControl DEF PanicUnlocking, LockMove
  <1>3. ASSUME NEW to \in SlowSteps, Goto(p, to), UNCHANGED <<lockVars, arg, lot>>,
               \A q \in Procs : readers[q] = 0,
               mine' \in [Procs -> Entries \cup {None}], mine'[p] \in Entries,
               \A q \in Procs \ {p} : mine'[q] = mine[q],
               index' \in [Hashes -> Entries \cup {None}]
        PROVE  Control'
    <2>1. LocalTypes'
      BY <1>1, <1>3 DEF Control, ControlTypes, LocalTypes, Goto, Steps, SlowSteps
    <2>2. CallOf(p)' /\ LocksOf(p)'
      BY <1>0, <1>1, <1>3 DEF Control, ControlTypes, CallOf, LocksOf, Goto, Doing,
           GetSteps, FastSteps, SlowSteps, CloseSteps, lockVars
    <2>3. to \in Steps \ {"idle", "killed"}
      BY <1>3 DEF SlowSteps, Steps
    <2> QED
      BY <1>1, <1>3, <2>1, <2>2, <2>3, StepKeepsControl DEF LockMove
  <1>4. index \in [Hashes -> Entries \cup {None}] /\ mine \in [Procs -> Entries \cup {None}]
    BY DEF Control, ControlTypes
  <1>5. ASSUME NEW to \in SlowSteps, at[p] \in SlowSteps, Goto(p, to), Stay,
               UNCHANGED <<lockVars, index>>
        PROVE  Control'
    BY <1>0, <1>3, <1>4, <1>5 DEF Stay, callVars
  <1>6. CASE PutNew(p)
    <2>1. CASE PanicUnlocking(p)
      BY <1>2, <1>6, <2>1 DEF PutNew, mapVars
    <2>2. CASE ~PanicUnlocking(p)
      <3>1. PICK e \in Entries : mine' = [mine EXCEPT ![p] = e]
        BY <1>6, <2>2 DEF PutNew
      <3>2. /\ Goto(p, "index it") /\ UNCHANGED <<lockVars, arg, lot, index>>
            /\ \A q \in Procs : readers[q] = 0
        BY <1>6, <2>2 DEF PutNew, Locked, Mu!HoldsWrite, mapVars
      <3> QED
        BY <1>3, <1>4, <3>1, <3>2 DEF SlowSteps
    <2> QED
      BY <2>1, <2>2
  <1>7. CASE PutIndex(p)
    <2>1. CASE PanicUnlocking(p) /\ UNCHANGED index
      BY <1>2, <2>1
    <2>2. CASE ~(PanicUnlocking(p) /\ UNCHANGED index)
      <3>1. /\ at[p] = "index it" /\ index' = [index EXCEPT ![h(p)] = mine[p]]
            /\ MapWrite(p, "insert") /\ UNCHANGED <<lockVars, callVars>>
        BY <1>7, <2>2 DEF PutIndex
      <3>2. index' \in [Hashes -> Entries \cup {None}]
        BY <1>0, <1>4, <3>1 DEF SlowSteps
      <3>3. CASE Goto(p, "insert")
        BY <1>0, <1>3, <1>4, <3>1, <3>2, <3>3 DEF SlowSteps, callVars
      <3>4. CASE at' = [q \in Procs |-> "killed"]
        BY <1>1, <1>4, <3>1, <3>2, <3>4, KillKeepsControl DEF callVars
      <3> QED
        BY <3>1, <3>3, <3>4 DEF MapWrite
    <2> QED
      BY <2>1, <2>2
  <1>8. CASE PutInsert(p)
    <2>1. at[p] \in SlowSteps /\ UNCHANGED index
      BY <1>8 DEF PutInsert, mapVars, SlowSteps
    <2>2. PanicUnlocking(p) \/ (Goto(p, "sweep") /\ Stay /\ UNCHANGED lockVars)
      BY <1>8 DEF PutInsert
    <2> QED
      BY <1>2, <1>5, <2>1, <2>2 DEF SlowSteps
  <1>9. CASE PutSweep(p)
    <2>1. /\ at[p] = "sweep" /\ UNCHANGED <<lockVars, index, at>> /\ Stay
      BY <1>9 DEF PutSweep, mapVars, Stay
    <2>2. Goto(p, "sweep")
      BY <2>1 DEF Goto, Control, ControlTypes
    <2> QED
      BY <1>5, <2>1, <2>2 DEF SlowSteps
  <1>10. CASE PutCharge(p)
    <2>1. at[p] \in SlowSteps /\ UNCHANGED index
      BY <1>10 DEF PutCharge, mapVars, SlowSteps
    <2>2. PanicUnlocking(p) \/ (Goto(p, "rotate") /\ Stay /\ UNCHANGED lockVars)
      BY <1>10 DEF PutCharge
    <2> QED
      BY <1>2, <1>5, <2>1, <2>2 DEF SlowSteps
  <1>11. CASE Rotate(p) \/ RotateTell(p)
    <2>1. at[p] \in SlowSteps /\ UNCHANGED index
      BY <1>11 DEF Rotate, RotateTell, mapVars, SlowSteps
    <2>2. \/ PanicUnlocking(p)
          \/ \E to \in {"tell", "rotate"} : Goto(p, to) /\ UNCHANGED <<lockVars, arg, mine, lot>>
      BY <1>11 DEF Rotate, RotateTell
    <2> QED
      BY <1>0, <1>2, <1>3, <1>4, <2>1, <2>2 DEF SlowSteps
  <1>12. CASE PutReturn(p)
    <2>1. Done(p) /\ Mu!Unlock(p) /\ UNCHANGED index
      BY <1>12 DEF PutReturn, mapVars
    <2> QED
      BY <1>0, <1>1, <1>4, <2>1, DoneKeepsControl DEF LockMove
  <1> QED
    BY <1>6, <1>7, <1>8, <1>9, <1>10, <1>11, <1>12 DEF PutSlow

LEMMA DeleteKeepsControl ==
  ASSUME Control, NEW p \in Procs, Delete(p) \/ DeleteRemove(p)
  PROVE  Control'
  <1>0. /\ Doing(p, "delete") /\ at[p] \in {"locked", "remove"}
        /\ writer = p /\ held[p] = None /\ byte[p] = None
        /\ \A q \in Procs : readers[q] = 0
        /\ at[p] = "remove" => mine[p] \in Entries
        /\ UNCHANGED <<nilled, held, byte>>
        /\ nilled \subseteq {"index", "clock", "genRing"}
    <2>1. UNCHANGED <<nilled, held, byte>>
      BY PolicyKeepsReaders DEF Delete, DeleteRemove, mapVars, clockVars
    <2>2. /\ at[p] \in {"locked", "remove"} /\ (at[p] = "locked" => Doing(p, "delete"))
          /\ at[p] = "locked" => \A q \in Procs : readers[q] = 0
      BY DEF Delete, DeleteRemove, Locked, Mu!HoldsWrite
    <2> QED
      BY <2>1, <2>2 DEF Control, ControlTypes, CallOf, LocksOf
  <1>1. index \in [Hashes -> Entries \cup {None}] /\ mine \in [Procs -> Entries \cup {None}]
    BY DEF Control, ControlTypes
  <1>2. ASSUME Mu!Unlock(p), Done(p), UNCHANGED index PROVE Control'
    BY <1>0, <1>1, <1>2, DoneKeepsControl DEF LockMove
  <1>3. CASE Delete(p)
    <2>1. CASE ~Known(p)
      BY <1>2, <1>3, <2>1 DEF Delete
    <2>2. CASE Known(p)
      <3>1. Entry(p) \in Entries
        <4>1. arg[p] \in CallSet
          BY <1>0 DEF Control, ControlTypes, Doing
        <4>2. h(p) \in Hashes
          BY <4>1, ShardAssumption DEF h, CallSet
        <4> QED
          BY <2>2, <4>2 DEF Known, Entry, Control, ControlTypes
      <3>2. /\ index' = [index EXCEPT ![h(p)] = None]
            /\ mine' = [mine EXCEPT ![p] = Entry(p)]
            /\ MapWrite(p, "remove") /\ UNCHANGED <<lockVars, arg, lot>>
        BY <1>3, <2>2 DEF Delete
      <3>3. /\ index' \in [Hashes -> Entries \cup {None}]
            /\ mine' \in [Procs -> Entries \cup {None}]
        BY <1>1, <3>1, <3>2
      <3>4. CASE at' = [q \in Procs |-> "killed"]
        BY <1>0, <3>2, <3>3, <3>4, KillKeepsControl
      <3>5. CASE Goto(p, "remove")
        <4>1. LocalTypes'
          BY <1>0, <3>2, <3>3, <3>5 DEF Control, ControlTypes, LocalTypes, Goto, Steps
        <4>2. CallOf(p)' /\ LocksOf(p)'
          BY <1>0, <1>1, <3>1, <3>2, <3>5 DEF Control, ControlTypes, CallOf, LocksOf, Goto,
               Doing, GetSteps, FastSteps, SlowSteps, CloseSteps, lockVars
        <4>3. \A q \in Procs \ {p} : mine'[q] = mine[q]
          BY <1>1, <3>2
        <4> QED
          BY <1>0, <3>2, <3>5, <4>1, <4>2, <4>3, StepKeepsControl DEF LockMove, Steps
      <3> QED
        BY <3>2, <3>4, <3>5 DEF MapWrite
    <2> QED
      BY <2>1, <2>2
  <1>4. CASE DeleteRemove(p)
    <2>1. at[p] = "remove" /\ UNCHANGED index
      BY <1>4 DEF DeleteRemove, mapVars
    <2>2. (Panic(p) /\ UNCHANGED lockVars) \/ (Mu!Unlock(p) /\ Done(p))
      BY <1>4 DEF DeleteRemove
    <2> QED
      BY <1>0, <1>2, <2>1, <2>2, PanicKeepsControl DEF LockMove
  <1> QED
    BY <1>3, <1>4

LEMMA OtherKeepsControl ==
  ASSUME Control, NEW p \in Procs,
         Lock(p) \/ LenCall(p) \/ SizeBytes(p) \/ Close(p) \/ Recover(p)
  PROVE  Control'
  <1>0. /\ at[p] \in {"lock", "reading", "iterating", "panicked"} \cup CloseSteps
        /\ UNCHANGED <<index, held, byte>> /\ held[p] = None /\ byte[p] = None
        /\ index \in [Hashes -> Entries \cup {None}]
        /\ nilled \subseteq {"index", "clock", "genRing"}
        /\ at[p] \notin {"mark", "killed"}
    <2>1. /\ at[p] \in {"lock", "reading", "iterating", "panicked"} \cup CloseSteps
          /\ UNCHANGED <<index, held, byte>>
      BY DEF Lock, LenCall, Reading, SizeBytes, Close, Recover, CloseSteps, mapVars,
             clockVars
    <2> QED
      BY <2>1 DEF Control, ControlTypes, CallOf, CloseSteps
  <1>1. CASE Lock(p)
    <2>1. /\ at[p] = "lock" /\ Mu!Lock(p) /\ Goto(p, "locked")
          /\ UNCHANGED <<arg, mine, lot, nilled>>
      BY <1>1 DEF Lock, Stay, callVars, mapVars
    <2>2. LocalTypes'
      BY <1>0, <2>1 DEF Control, ControlTypes, LocalTypes, Goto, Steps
    <2>3. CallOf(p)' /\ LocksOf(p)'
      BY <1>0, <2>1 DEF Control, ControlTypes, CallOf, LocksOf, Goto, Doing, GetSteps,
           FastSteps, SlowSteps, CloseSteps, Mu!Lock
    <2> QED
      BY <1>0, <2>1, <2>2, <2>3, StepKeepsControl DEF LockMove, Steps
  <1>2. CASE LenCall(p)
    <2>1. Done(p) /\ Mu!RUnlock(p) /\ readers[p] > 0 /\ UNCHANGED nilled
      BY <1>2 DEF LenCall, Reading, Mu!HoldsRead, mapVars
    <2> QED
      BY <1>0, <2>1, DoneKeepsControl DEF LockMove
  <1>3. CASE SizeBytes(p) \/ Recover(p)
    <2>1. Done(p) /\ UNCHANGED <<lockVars, nilled>>
      BY <1>3 DEF SizeBytes, Recover, mapVars
    <2> QED
      BY <1>0, <2>1, DoneKeepsControl DEF LockMove
  <1>4. CASE Close(p)
    <2>1. UNCHANGED lockVars
      BY <1>4 DEF Close
    <2>2. CASE at[p] = "genRing = nil"
      <3>1. Done(p) /\ nilled' = nilled \cup {"genRing"}
        BY <1>4, <2>2 DEF Close
      <3> QED
        BY <1>0, <2>1, <3>1, DoneKeepsControl DEF LockMove
    <2>3. CASE at[p] # "genRing = nil"
      <3>1. /\ UNCHANGED <<arg, mine, lot>>
            /\ \/ /\ at[p] = "index = nil" /\ nilled' = nilled \cup {"index"}
                  /\ Goto(p, "clock = nil")
               \/ /\ at[p] = "clock = nil" /\ nilled' = nilled \cup {"clock"}
                  /\ Goto(p, "genRing = nil")
        BY <1>4, <2>3 DEF Close, Stay, callVars
      <3>2. LocalTypes'
        BY <1>0, <3>1 DEF Control, ControlTypes, LocalTypes, Goto, Steps
      <3>3. CallOf(p)' /\ LocksOf(p)'
        <4>1. /\ at'[p] \in {"clock = nil", "genRing = nil"} /\ Doing(p, "close")
              /\ arg' = arg /\ held'[p] = None /\ byte'[p] = None
              /\ at'[p] = "clock = nil" => "index" \in nilled'
              /\ at'[p] = "genRing = nil" => {"index", "clock"} \subseteq nilled'
          BY <1>0, <3>1 DEF Control, ControlTypes, CallOf, Goto, CloseSteps
        <4> QED
          BY <4>1 DEF CallOf, LocksOf, Doing, GetSteps, FastSteps, SlowSteps, CloseSteps
      <3>4. \E to \in {"clock = nil", "genRing = nil"} : Goto(p, to)
        BY <3>1
      <3> QED
        BY <1>0, <2>1, <3>1, <3>2, <3>3, <3>4, StepKeepsControl DEF LockMove, Steps
    <2> QED
      BY <2>2, <2>3
  <1> QED
    BY <1>1, <1>2, <1>3, <1>4

LEMMA InitControl == Init => Control
  <1> SUFFICES ASSUME Init PROVE Control
    OBVIOUS
  <1>1. ControlTypes
    BY DEF Init, Mu!Free, CP!Init, ControlTypes, Steps
  <1>2. ASSUME NEW p \in Procs PROVE CallOf(p) /\ LocksOf(p)
    BY DEF Init, CP!Init, CallOf, LocksOf, GetSteps, FastSteps, SlowSteps, CloseSteps
  <1> QED
    BY <1>1, <1>2 DEF Control

(* The discipline of the lock, and of the steps of a call.                 *)
THEOREM ControlCorrect == Spec => []Control
<1>1. Control /\ [Next]_vars => Control'
  <2> SUFFICES ASSUME Control, [Next]_vars PROVE Control'
    OBVIOUS
  <2>1. ASSUME NEW p \in Procs, Call(p) \/ Step(p) PROVE Control'
    BY <2>1, CallKeepsControl, GetKeepsControl, PutFastKeepsControl, PutSlowKeepsControl,
       DeleteKeepsControl, OtherKeepsControl DEF Step, Put
  <2>2. CASE UNCHANGED vars
    <3>1. /\ UNCHANGED <<writer, readers, rwait, index, nilled, held, byte>>
          /\ UNCHANGED <<at, arg, mine, lot>>
      BY <2>2 DEF vars, lockVars, clockVars, mapVars, callVars
    <3> QED
      BY <3>1 DEF Control, ControlTypes, CallOf, LocksOf, Doing
  <2> QED
    BY <2>1, <2>2 DEF Next
<1> QED
  BY InitControl, <1>1, PTL DEF Spec

-----------------------------------------------------------------------------
(* Between the critical sections nothing is left half done.                *)
Busy == {"sweep", "rotate", "tell"}

(* Steps outside the second half of a put.                                 *)
LEMMA CalmFrame ==
  ASSUME Control, Calm, NEW p \in Procs, at[p] \notin Busy,
         NEW to \in Steps \ Busy, Goto(p, to),
         UNCHANGED <<sweep, due, dead>>, nilled \subseteq nilled',
         "genRing" \in nilled' => {"index", "clock"} \subseteq nilled'
  PROVE  Calm'
  <1>1. \A q \in Procs, s \in Busy : at'[q] = s <=> at[q] = s
    BY DEF Goto, Control, ControlTypes
  <1> QED
    BY <1>1 DEF Calm, Busy

(* A goroutine with the write lock is alone with what the lock protects.   *)
LEMMA Alone ==
  ASSUME Control, NEW p \in Procs, at[p] \in SlowSteps \cup {"locked", "remove"},
         \A q \in Procs : readers[q] = 0
  PROVE  \A q \in Procs \ {p} :
           at[q] \notin SlowSteps \cup FastSteps \cup {"locked", "remove"}
  <1>1. writer = p
    BY DEF Control, LocksOf
  <1>2. ASSUME NEW q \in Procs \ {p}
        PROVE  at[q] \notin SlowSteps \cup FastSteps \cup {"locked", "remove"}
    <2>1. LocksOf(q) /\ ~(readers[q] > 0)
      BY DEF Control
    <2> QED
      BY <1>1, <2>1 DEF LocksOf
  <1> QED
    BY <1>2

(* Such a goroutine finds everything at rest.                              *)
LEMMA AtRest ==
  ASSUME Control, Calm, NEW p \in Procs, at[p] \in SlowSteps \cup {"locked", "remove"},
         at[p] \notin Busy, \A q \in Procs : readers[q] = 0
  PROVE  /\ sweep = "idle"
         /\ due => "genRing" \in nilled
         /\ dead # None => "clock" \in nilled
         /\ \A q \in Procs : at[q] \notin Busy
  <1>1. \A q \in Procs : at[q] \notin Busy
    BY Alone DEF Busy, SlowSteps
  <1> QED
    BY <1>1 DEF Calm, Busy

LEMMA KillKeepsCalm ==
  ASSUME Control, Calm, NEW p \in Procs, at[p] \in {"index it", "locked"},
         \A q \in Procs : readers[q] = 0,
         UNCHANGED <<sweep, due, dead, nilled>>, at' = [q \in Procs |-> "killed"]
  PROVE  Calm'
  <1>1. /\ sweep = "idle" /\ (due => "genRing" \in nilled)
        /\ dead # None => "clock" \in nilled
    BY AtRest DEF SlowSteps, Busy
  <1> QED
    BY <1>1 DEF Calm

(* The policy is swept and the ring charged by the second half of a put.   *)
LEMMA SweepStays ==
  /\ \A e, w, g : CP!Update(e, w, g) => sweep' = sweep /\ sweep = "idle"
  /\ \A e : CP!RemoveEntry(e) => sweep' = sweep /\ sweep = "idle"
  /\ \A g : CP!GenerationEvicted(g) => sweep' = sweep /\ sweep = "idle"
  /\ \A r, e : CP!Find(r, e) \/ CP!LoadState(r) \/ CP!StoreState(r) => sweep' = sweep
  /\ UNCHANGED clockVars => sweep' = sweep
  BY DEF CP!Update, CP!RemoveEntry, CP!GenerationEvicted, CP!Find, CP!LoadState,
         CP!StoreState, CP!clockVars, clockVars

LEMMA FirstHalfKeepsCalm ==
  ASSUME Control, Calm, NEW p \in Procs,
         \/ Call(p) \/ Get(p) \/ PutLookup(p) \/ PutFast(p) \/ Lock(p) \/ DeleteRemove(p)
         \/ LenCall(p) \/ SizeBytes(p) \/ Recover(p)
  PROVE  Calm'
  <1>1. UNCHANGED nilled
    BY DEF Call, Get, GetLookup, GetMark, GetDeref, GetReturn, PutLookup, PutFast,
           UpdateAlloc, UpdateValue, UpdateWeight, UpdateGen, Lock, DeleteRemove, LenCall,
           SizeBytes, Recover, mapVars
  <1>2. UNCHANGED due
    BY DEF Call, Get, GetLookup, GetMark, GetDeref, GetReturn, PutLookup, PutFast,
           UpdateAlloc, UpdateValue, UpdateWeight, UpdateGen, Lock, DeleteRemove, LenCall,
           SizeBytes, Recover, ringVars
  <1>3. UNCHANGED dead
    BY DEF Call, Get, GetLookup, GetMark, GetDeref, GetReturn, PutLookup, PutFast,
           UpdateAlloc, UpdateValue, UpdateWeight, UpdateGen, Lock, DeleteRemove, LenCall,
           SizeBytes, Recover, callVars, Stay, Panic, Done
  <1>4. UNCHANGED sweep
    BY SweepStays
    DEF Call, Get, GetLookup, GetMark, GetDeref, GetReturn, PutLookup, PutFast,
           UpdateAlloc, UpdateValue, UpdateWeight, UpdateGen, Lock, DeleteRemove, LenCall,
           SizeBytes, Recover
  <1>5. at[p] \notin Busy
    BY DEF Call, Get, GetLookup, GetMark, GetDeref, GetReturn, PutLookup, PutFast,
           UpdateAlloc, UpdateValue, UpdateWeight, UpdateGen, Lock, DeleteRemove, LenCall,
           SizeBytes, Recover, Reading, Busy
  <1>6. \E to \in Steps \ Busy : Goto(p, to)
    <2>1. CASE Call(p)
      <3>1. PICK c \in CallsOf[p] :
              CASE c.op \in {"get", "put", "len"} -> Goto(p, "reading") /\ Mu!RLock(p)
                [] c.op = "delete" -> Goto(p, "lock") /\ UNCHANGED lockVars
                [] c.op = "size"   -> Goto(p, "iterating") /\ UNCHANGED lockVars
                [] c.op = "close"  -> Goto(p, "index = nil") /\ UNCHANGED lockVars
        BY <2>1 DEF Call
      <3>2. c.op \in Ops
        BY ShardAssumption DEF CallSet
      <3> QED
        BY <3>1, <3>2 DEF Ops, Steps, Busy
    <2>2. CASE Get(p)
      <3>1. at' = at => Goto(p, at[p])
        BY DEF Goto, Control, ControlTypes
      <3> QED
        BY <1>5, <2>2, <3>1
        DEF Get, GetLookup, GetMark, GetDeref, GetReturn, Done, Steps, Busy, Control,
            ControlTypes
    <2>3. CASE PutLookup(p) \/ PutFast(p)
      BY <2>3 DEF PutLookup, PutFast, UpdateAlloc, UpdateValue, UpdateWeight, UpdateGen,
           Done, Panic, Steps, Busy
    <2>4. CASE \/ Lock(p) \/ DeleteRemove(p) \/ LenCall(p) \/ SizeBytes(p) \/ Recover(p)
      BY <2>4 DEF Lock, DeleteRemove, LenCall, SizeBytes, Recover, Done, Panic, Steps, Busy
    <2> QED
      BY <2>1, <2>2, <2>3, <2>4
  <1> QED
    BY <1>1, <1>2, <1>3, <1>4, <1>5, <1>6, CalmFrame DEF Calm

LEMMA CloseKeepsCalm ==
  ASSUME Control, Calm, NEW p \in Procs, Close(p)
  PROVE  Calm'
  <1>1. /\ at[p] \in CloseSteps /\ UNCHANGED <<sweep, due, dead>>
        /\ nilled \subseteq nilled'
    BY DEF Close, CloseSteps, clockVars, ringVars, Stay, callVars, Done
  <1>2. "genRing" \in nilled' => {"index", "clock"} \subseteq nilled'
    <2>1. /\ at[p] = "genRing = nil" => {"index", "clock"} \subseteq nilled
          /\ "genRing" \in nilled => {"index", "clock"} \subseteq nilled
      BY DEF Control, CallOf, Calm
    <2>2. \/ nilled' = nilled \cup {"index"}
          \/ nilled' = nilled \cup {"clock"}
          \/ at[p] = "genRing = nil"
      BY DEF Close
    <2>3. "genRing" \in nilled' => "genRing" \in nilled \/ at[p] = "genRing = nil"
      <3>1. "genRing" # "index" /\ "genRing" # "clock"
        OBVIOUS
      <3> QED
        BY <2>2, <3>1
    <2> QED
      BY <1>1, <2>1, <2>3
  <1>3. \E to \in {"clock = nil", "genRing = nil", "idle"} : Goto(p, to)
    BY DEF Close, Done
  <1> QED
    BY <1>1, <1>2, <1>3, CalmFrame DEF CloseSteps, Busy, Steps

LEMMA DeleteKeepsCalm ==
  ASSUME Control, Calm, NEW p \in Procs, Delete(p)
  PROVE  Calm'
  <1>1. /\ at[p] = "locked" /\ UNCHANGED <<sweep, due, dead, nilled>>
        /\ \A q \in Procs : readers[q] = 0
    BY DEF Delete, Locked, Mu!HoldsWrite, clockVars, ringVars, Done
  <1>2. CASE at' = [q \in Procs |-> "killed"]
    BY <1>1, <1>2, KillKeepsCalm
  <1>3. CASE at' # [q \in Procs |-> "killed"]
    <2>1. \E to \in {"remove", "idle"} : Goto(p, to)
      BY <1>3 DEF Delete, MapWrite, Done
    <2> QED
      BY <1>1, <2>1, CalmFrame DEF Busy, Steps, Calm
  <1> QED
    BY <1>2, <1>3

LEMMA PutSlowKeepsCalm ==
  ASSUME Control, Calm, NEW p \in Procs, PutSlow(p)
  PROVE  Calm'
  <1>1. UNCHANGED nilled /\ at[p] \in SlowSteps \cup {"locked"}
    BY DEF PutSlow, PutNew, PutIndex, PutInsert, PutSweep, PutCharge, Rotate,
           RotateTell, PutReturn, mapVars, SlowSteps, Locked
  <1>2. at \in [Procs -> Steps] /\ (at[p] \in SlowSteps => \A q \in Procs : readers[q] = 0)
    BY DEF Control, ControlTypes, LocksOf
  <1>3. ASSUME at[p] \in SlowSteps PROVE \A q \in Procs \ {p} : at[q] \notin Busy
    BY <1>3, Exclusive DEF Busy, SlowSteps
  <1>4. ASSUME NEW s \in Steps, Goto(p, s), at[p] \in Busy,
               s = "sweep" => dead' = None /\ (due' => "genRing" \in nilled),
               s = "rotate" => dead' = None,
               sweep' # "idle" => s = "sweep",
               due' => "genRing" \in nilled \/ s = "rotate",
               dead' # None => "clock" \in nilled \/ s = "tell"
        PROVE  Calm'
    <2>1. at'[p] = s /\ \A q \in Procs \ {p} : at'[q] = at[q]
      BY <1>2, <1>4 DEF Goto
    <2>2. \A q \in Procs \ {p} : at'[q] \notin Busy
      BY <1>3, <1>4, <2>1 DEF Busy, SlowSteps
    <2> QED
      BY <1>1, <1>4, <2>1, <2>2 DEF Calm, Busy
  <1>5. CASE PutNew(p) \/ PutIndex(p)
    <2>1. /\ at[p] \in {"locked", "index it"} /\ UNCHANGED <<due, dead>>
          /\ \A q \in Procs : readers[q] = 0
      BY <1>2, <1>5 DEF PutNew, Locked, Mu!HoldsWrite, PutIndex, ringVars, PanicUnlocking,
           Panic, Stay, callVars, SlowSteps
    <2>2. UNCHANGED sweep
      BY <1>5, SweepStays DEF PutNew, PutIndex
    <2>3. CASE at' = [q \in Procs |-> "killed"]
      BY <1>1, <2>1, <2>2, <2>3, KillKeepsCalm
    <2>4. CASE at' # [q \in Procs |-> "killed"]
      <3>1. \E to \in {"index it", "insert", "panicked"} : Goto(p, to)
        BY <1>5, <2>4 DEF PutNew, PutIndex, MapWrite, PanicUnlocking, Panic
      <3> QED
        BY <1>1, <2>1, <2>2, <3>1, CalmFrame DEF Busy, Steps, Calm
    <2> QED
      BY <2>3, <2>4
  <1>6. CASE PutInsert(p)
    <2>1. /\ at[p] = "insert" /\ UNCHANGED <<due, dead>>
      BY <1>6 DEF PutInsert, ringVars, PanicUnlocking, Panic, Stay, callVars
    <2>2. /\ sweep = "idle" /\ (due => "genRing" \in nilled)
          /\ dead # None => "clock" \in nilled
          /\ \A q \in Procs : at[q] \notin Busy
      BY <1>2, <2>1, AtRest DEF SlowSteps, Busy
    <2>3. CASE PanicUnlocking(p) /\ UNCHANGED clockVars
      <3>1. sweep' = sweep /\ Goto(p, "panicked")
        BY <2>3, SweepStays DEF PanicUnlocking, Panic
      <3> QED
        BY <1>1, <2>1, <3>1, CalmFrame DEF Busy, Steps, Calm
    <2>4. CASE ~(PanicUnlocking(p) /\ UNCHANGED clockVars)
      <3>1. Goto(p, "sweep") /\ "clock" \notin nilled
        BY <1>6, <2>4 DEF PutInsert
      <3>2. at'[p] = "sweep" /\ \A q \in Procs : at'[q] = "sweep" <=> q = p
        BY <1>2, <2>2, <3>1 DEF Goto, Busy
      <3>3. \A q \in Procs : at'[q] \notin {"rotate", "tell"}
        BY <1>2, <2>2, <3>1 DEF Goto, Busy
      <3> QED
        BY <1>1, <2>1, <2>2, <3>1, <3>2, <3>3 DEF Calm
    <2> QED
      BY <2>3, <2>4
  <1>7. CASE PutSweep(p)
    <2>1. at[p] = "sweep" /\ Goto(p, "sweep") /\ UNCHANGED <<due, dead>>
      BY <1>2, <1>7 DEF PutSweep, Goto, ringVars, callVars
    <2> QED
      BY <1>1, <1>4, <2>1 DEF Calm, Steps, Busy
  <1>8. CASE PutCharge(p)
    <2>1. /\ at[p] = "sweep" /\ sweep = "idle" /\ sweep' = sweep /\ dead' = dead
          /\ dead = None /\ (due => "genRing" \in nilled)
      BY <1>8 DEF PutCharge, clockVars, Stay, PanicUnlocking, Panic, callVars, Calm
    <2>2. CASE Goto(p, "rotate")
      BY <1>4, <2>1, <2>2 DEF Steps, Busy
    <2>3. CASE ~Goto(p, "rotate")
      <3>1. Goto(p, "panicked") /\ due' = due
        BY <1>8, <2>3 DEF PutCharge, PanicUnlocking, Panic, ringVars
      <3> QED
        BY <1>4, <2>1, <3>1 DEF Steps, Busy
    <2> QED
      BY <2>2, <2>3
  <1>9. CASE Rotate(p)
    <2>1. /\ at[p] = "rotate" /\ sweep' = sweep /\ dead = None
          /\ sweep = "idle"
      BY <1>3, <1>9 DEF Rotate, clockVars, Calm, SlowSteps, Busy
    <2>2. CASE "genRing" \in nilled
      <3>1. Goto(p, "panicked") /\ dead' = dead
        BY <1>9, <2>2 DEF Rotate, PanicUnlocking, Panic, Stay, callVars
      <3> QED
        BY <1>4, <2>1, <2>2, <3>1 DEF Steps, Busy
    <2>3. CASE "genRing" \notin nilled
      <3>1. Goto(p, "tell") /\ due' = FALSE
        BY <1>9, <2>3 DEF Rotate, GR!Rotate
      <3> QED
        BY <1>4, <2>1, <3>1 DEF Steps, Busy
    <2> QED
      BY <2>2, <2>3
  <1>10. CASE RotateTell(p) \/ PutReturn(p)
    <2>1. /\ at[p] \in {"tell", "rotate"} /\ due' = due
          /\ at[p] = "tell" => (due => "genRing" \in nilled)
          /\ sweep = "idle"
      BY <1>3, <1>10 DEF RotateTell, PutReturn, ringVars, Calm, SlowSteps, Busy
    <2>2. sweep' = sweep
      BY <1>10, SweepStays DEF RotateTell, PutReturn
    <2>3. CASE RotateTell(p)
      <3>1. at[p] = "tell"
        BY <2>3 DEF RotateTell
      <3>2. CASE "clock" \in nilled
        <4>1. Goto(p, "panicked")
          BY <2>3, <3>2 DEF RotateTell, PanicUnlocking, Panic
        <4> QED
          BY <1>4, <2>1, <2>2, <3>1, <3>2, <4>1 DEF Steps, Busy
      <3>3. CASE "clock" \notin nilled
        <4>1. Goto(p, "rotate") /\ dead' = None
          BY <2>3, <3>3 DEF RotateTell
        <4> QED
          BY <1>4, <2>1, <2>2, <3>1, <4>1 DEF Steps, Busy
      <3> QED
        BY <3>2, <3>3
    <2>4. CASE PutReturn(p)
      <3>1. /\ Goto(p, "idle") /\ dead' = dead
            /\ at[p] = "rotate" => ~due /\ dead = None
            /\ at[p] = "tell" => dead = None
        BY <2>4 DEF PutReturn, Done, Calm
      <3> QED
        BY <1>4, <2>1, <2>2, <3>1 DEF Steps, Busy
    <2> QED
      BY <1>10, <2>3, <2>4
  <1> QED
    BY <1>5, <1>6, <1>7, <1>8, <1>9, <1>10 DEF PutSlow

LEMMA InitCalm == Init => Calm
  BY DEF Init, CP!Init, GR!Init, Calm

(* Nothing is left half done: no sweep, no rotation, no generation that    *)
(* the policy is not told of.                                              *)
THEOREM CalmCorrect == Spec => []Calm
<1>1. Control /\ Calm /\ [Next]_vars => Calm'
  <2> SUFFICES ASSUME Control, Calm, [Next]_vars PROVE Calm'
    OBVIOUS
  <2>1. ASSUME NEW p \in Procs, Call(p) \/ Step(p) PROVE Calm'
    BY <2>1, FirstHalfKeepsCalm, CloseKeepsCalm, DeleteKeepsCalm, PutSlowKeepsCalm
    DEF Step, Put
  <2>2. CASE UNCHANGED vars
    BY <2>2 DEF vars, clockVars, ringVars, mapVars, callVars, Calm
  <2> QED
    BY <2>1, <2>2 DEF Next
<1> QED
  BY InitCalm, ControlCorrect, <1>1, PTL DEF Spec

-----------------------------------------------------------------------------
(* The shard uses the generation ring as GenRing specifies.                *)
RingOK == GR!TypeOK /\ GR!Active # None

LEMMA RingStep ==
  ASSUME Control, NEW p \in Procs, Call(p) \/ Step(p)
  PROVE  GR!Next \/ UNCHANGED ringVars
  <1>1. CASE PutCharge(p)
    <2>1. arg[p].weight \in PutWeights
      BY <1>1, NoneAssumption
      DEF PutCharge, Control, ControlTypes, CallOf, Doing, SlowSteps, CallSet
    <2> QED
      BY <1>1, <2>1 DEF PutCharge, GR!Next
  <1>2. CASE Rotate(p)
    BY <1>2 DEF Rotate, GR!Next
  <1>3. CASE Call(p) \/ Get(p) \/ PutLookup(p) \/ PutFast(p)
    BY <1>3 DEF Call, Get, GetLookup, GetMark, GetDeref, GetReturn, PutLookup, PutFast,
           UpdateAlloc, UpdateValue, UpdateWeight, UpdateGen
  <1>4. CASE \/ PutNew(p) \/ PutIndex(p) \/ PutInsert(p) \/ PutSweep(p) \/ RotateTell(p)
             \/ PutReturn(p)
    BY <1>4 DEF PutNew, PutIndex, PutInsert, PutSweep, RotateTell, PutReturn
  <1>5. CASE \/ Lock(p) \/ Delete(p) \/ DeleteRemove(p) \/ LenCall(p) \/ SizeBytes(p)
             \/ Close(p) \/ Recover(p)
    BY <1>5 DEF Lock, Delete, DeleteRemove, LenCall, SizeBytes, Close, Recover
  <1> QED
    BY <1>1, <1>2, <1>3, <1>4, <1>5 DEF Step, Put, PutSlow

LEMMA RingKept ==
  ASSUME RingOK, GR!Next \/ UNCHANGED ringVars
  PROVE  RingOK'
  <1> USE DEF RingOK, GR!TypeOK, GR!Active
  <1>0. /\ IdMod \in Nat \ {0} /\ NumGens \in Nat \ {0} /\ None \notin GR!Generation
        /\ PutWeights \subseteq Int
    BY ShardAssumption, NoneAssumption DEF GR!Generation
  <1>1. ASSUME NEW d \in PutWeights, GR!CheckRotationNeeded(d) PROVE RingOK'
    <2>1. GR!Active \in GR!Generation /\ d \in Int
      BY <1>0, <1>1
    <2>2. [GR!Active EXCEPT !.bytes = @ + d] \in GR!Generation
      BY <2>1 DEF GR!Generation
    <2>3. gens' = [gens EXCEPT ![activeIdx] = [GR!Active EXCEPT !.bytes = @ + d]]
      BY <1>1 DEF GR!CheckRotationNeeded
    <2>4. gens' \in [GR!Slots -> GR!Generation \cup {None}] /\ gens'[activeIdx] \in GR!Generation
      BY <2>2, <2>3
    <2>5. UNCHANGED <<activeIdx, idCtr, now>> /\ due' \in BOOLEAN
      BY <1>1 DEF GR!CheckRotationNeeded
    <2> QED
      BY <1>0, <2>4, <2>5
  <1>2. CASE GR!Rotate
    <2>1. GR!NextIdx \in GR!Slots /\ GR!NextId \in 0 .. IdMod - 1
      BY <1>0 DEF GR!NextIdx, GR!NextId, GR!Slots
    <2>2. GR!newGeneration(GR!NextId) \in GR!Generation
      BY <2>1 DEF GR!newGeneration, GR!Generation
    <2>3. /\ gens' = [gens EXCEPT ![GR!NextIdx] = GR!newGeneration(GR!NextId)]
          /\ activeIdx' = GR!NextIdx /\ idCtr' = GR!NextId /\ due' = FALSE /\ now' = now
      BY <1>2 DEF GR!Rotate
    <2>4. gens' \in [GR!Slots -> GR!Generation \cup {None}] /\ gens'[activeIdx'] \in GR!Generation
      BY <2>1, <2>2, <2>3
    <2> QED
      BY <1>0, <2>1, <2>3, <2>4
  <1>3. CASE GR!Tick \/ UNCHANGED ringVars
    BY <1>3 DEF GR!Tick, ringVars
  <1> QED
    BY <1>1, <1>2, <1>3 DEF GR!Next

LEMMA InitRing == Init => GR!Init /\ RingOK
  <1> SUFFICES ASSUME Init PROVE RingOK
    BY DEF Init
  <1>1. GR!Init
    BY DEF Init
  <1>2. /\ 0 \in GR!Slots /\ 1 \in 0 .. IdMod - 1 /\ IdMod \in Nat
        /\ None \notin GR!Generation
    BY ShardAssumption, NoneAssumption DEF GR!Slots, GR!Generation
  <1>3. GR!newGeneration(1) \in GR!Generation /\ now \in Nat
    BY <1>1, <1>2 DEF GR!Init, GR!newGeneration, GR!Generation
  <1> QED
    BY <1>1, <1>2, <1>3 DEF GR!Init, RingOK, GR!TypeOK, GR!Active

(* Every step of the shard is one of the ring or leaves it alone: a charge *)
(* that is due a rotation is followed by one before the next charge.       *)
THEOREM RingUseCorrect == Spec => UsesGenRing
<1>1. Control /\ [Next]_vars => [GR!Next]_(GR!vars)
  <2> SUFFICES ASSUME Control, [Next]_vars PROVE GR!Next \/ UNCHANGED ringVars
    BY DEF ringVars, GR!vars
  <2> QED
    BY RingStep DEF Next, vars
<1>2. Init => GR!Init
  BY InitRing
<1> QED
  BY <1>1, <1>2, ControlCorrect, PTL DEF Spec, UsesGenRing, GR!Spec

(* The active slot of the ring is never empty.                             *)
THEOREM RingCorrect == Spec => []RingOK
<1>1. Control /\ RingOK /\ [Next]_vars => RingOK'
  <2> SUFFICES ASSUME Control, RingOK, [Next]_vars PROVE RingOK'
    OBVIOUS
  <2>1. GR!Next \/ UNCHANGED ringVars
    BY RingStep DEF Next, vars
  <2> QED
    BY <2>1, RingKept
<1>2. Init => RingOK
  BY InitRing
<1> QED
  BY <1>1, <1>2, ControlCorrect, PTL DEF Spec

-----------------------------------------------------------------------------
(* The shard uses the policy as ClockPro specifies.                        *)
Ids == 0 .. IdMod - 1

CellTypes ==
  /\ key \in [Entries -> Keys]
  /\ vptr \in [Entries -> Cells \cup {None}]
  /\ got \in [Procs -> Cells \cup {None}]
  /\ dead \in Ids \cup {None}
  /\ weight \in [Entries -> 0 .. WeightMod - 1]
  /\ genID \in [Entries -> Ids]

LEMMA ActiveId == RingOK => GR!Active.id \in Ids
  BY DEF RingOK, GR!TypeOK, GR!Active, GR!Generation, Ids

LEMMA Uint32 ==
  ASSUME Control, NEW p \in Procs, Doing(p, "put")
  PROVE  /\ uint32(arg[p].weight) \in 0 .. WeightMod - 1
         /\ arg[p].key \in Keys /\ arg[p].val \in Vals
  <1>1. arg[p] \in CallSet
    BY NoneAssumption DEF Control, ControlTypes, Doing
  <1>2. arg[p].weight \in Int /\ WeightMod \in Nat \ {0} /\ arg[p].key \in Keys /\ arg[p].val \in Vals
    BY <1>1, ShardAssumption DEF CallSet
  <1> QED
    BY <1>2 DEF uint32

(* What the operations of the policy do to weights and generations.        *)
LEMMA PolicyTypes ==
  ASSUME CellTypes, NEW e \in Entries, NEW w \in 0 .. WeightMod - 1, NEW g \in Ids,
         CP!Update(e, w, g) \/ CP!Insert(e, w, g)
  PROVE  weight' \in [Entries -> 0 .. WeightMod - 1] /\ genID' \in [Entries -> Ids]
  BY DEF CellTypes, CP!Update, CP!Insert

LEMMA PolicyKeepsWeights ==
  /\ \A e : CP!RemoveEntry(e) => UNCHANGED <<weight, genID>>
  /\ \A g : CP!GenerationEvicted(g) => UNCHANGED <<weight, genID>>
  /\ CP!evictIfNeeded => UNCHANGED <<weight, genID>>
  /\ \A r, e : CP!Find(r, e) => UNCHANGED <<weight, genID>>
  /\ \A r : CP!LoadState(r) \/ CP!StoreState(r) => UNCHANGED <<weight, genID>>
  /\ UNCHANGED clockVars => UNCHANGED <<weight, genID>>
  BY DEF CP!RemoveEntry, CP!GenerationEvicted, CP!evictIfNeeded, CP!ReadHand, CP!KeepHot,
         CP!Demote, CP!Promote, CP!Evict, CP!Forget, CP!Leave, CP!Find, CP!LoadState,
         CP!StoreState, CP!clockVars, clockVars

LEMMA CellsKept ==
  ASSUME Control, RingOK, CellTypes, NEW p \in Procs, Call(p) \/ Step(p)
  PROVE  CellTypes'
  <1>0. None \notin Procs \cup Entries /\ CallOf(p)
    BY NoneAssumption DEF Control
  <1>1. CASE UpdateValue(p)
    <2>1. PICK v \in lot[p] :
            vptr' = [vptr EXCEPT ![mine[p]] = [val |-> v, gen |-> GR!Active.id]]
      BY <1>1 DEF UpdateValue
    <2>2. [val |-> v, gen |-> GR!Active.id] \in Cells
      BY ActiveId DEF Control, ControlTypes, Cells, Ids
    <2>3. UNCHANGED <<key, got, dead, weight, genID>>
      BY <1>1 DEF UpdateValue, callVars, clockVars
    <2> QED
      BY <2>1, <2>2, <2>3 DEF CellTypes
  <1>2. CASE UpdateWeight(p) \/ UpdateGen(p)
    <2>1. mine[p] \in Entries /\ Doing(p, "put")
      BY <1>0, <1>2 DEF CallOf, UpdateWeight, UpdateGen, FastSteps
    <2>2. uint32(arg[p].weight) \in 0 .. WeightMod - 1 /\ GR!Active.id \in Ids
      BY <2>1, Uint32, ActiveId
    <2>3. weight[mine[p]] \in 0 .. WeightMod - 1 /\ genID[mine[p]] \in Ids
      BY <2>1 DEF CellTypes
    <2>4. weight' \in [Entries -> 0 .. WeightMod - 1] /\ genID' \in [Entries -> Ids]
      <3>1. CASE UpdateWeight(p)
        BY <3>1, <2>1, <2>2, <2>3, PolicyTypes DEF UpdateWeight
      <3>2. CASE UpdateGen(p)
        BY <3>2, <2>1, <2>2, <2>3, PolicyTypes DEF UpdateGen
      <3> QED
        BY <1>2, <3>1, <3>2
    <2>5. UNCHANGED <<key, vptr, dead>> /\ got' \in [Procs -> Cells \cup {None}]
      BY <1>2 DEF UpdateWeight, UpdateGen, Stay, callVars, cellVars, Done, CellTypes
    <2> QED
      BY <2>4, <2>5 DEF CellTypes
  <1>3. CASE PutNew(p)
    <2>1. CASE UNCHANGED <<clockVars, cellVars>>
      BY <1>3, <2>1 DEF PutNew, PanicUnlocking, Panic, Stay, callVars, cellVars, clockVars,
           CellTypes
    <2>2. CASE ~UNCHANGED <<clockVars, cellVars>>
      <3>1. PICK e \in Entries \ Reachable :
              /\ key' = [key EXCEPT ![e] = arg[p].key]
              /\ vptr' = [vptr EXCEPT ![e] = [val |-> arg[p].val, gen |-> GR!Active.id]]
              /\ CP!Update(e, uint32(arg[p].weight), GR!Active.id)
        BY <1>3, <2>2 DEF PutNew
      <3>2. Doing(p, "put") /\ UNCHANGED <<dead, got>>
        BY <1>3, <2>2 DEF PutNew, Locked
      <3>3. GR!Active.id \in Ids /\ uint32(arg[p].weight) \in 0 .. WeightMod - 1
            /\ arg[p].key \in Keys /\ [val |-> arg[p].val, gen |-> GR!Active.id] \in Cells
        BY <3>2, Uint32, ActiveId DEF Cells, Ids
      <3>4. weight' \in [Entries -> 0 .. WeightMod - 1] /\ genID' \in [Entries -> Ids]
        BY <3>1, <3>3, PolicyTypes
      <3> QED
        BY <3>1, <3>2, <3>3, <3>4 DEF CellTypes
    <2> QED
      BY <2>1, <2>2
  <1>4. CASE PutInsert(p)
    <2>1. mine[p] \in Entries
      BY <1>0, <1>4 DEF CallOf, PutInsert, SlowSteps
    <2>2. weight[mine[p]] \in 0 .. WeightMod - 1 /\ genID[mine[p]] \in Ids
      BY <2>1 DEF CellTypes
    <2>3. weight' \in [Entries -> 0 .. WeightMod - 1] /\ genID' \in [Entries -> Ids]
      <3>1. CASE UNCHANGED clockVars
        BY <3>1, PolicyKeepsWeights DEF CellTypes
      <3>2. CASE CP!Insert(mine[p], weight[mine[p]], genID[mine[p]])
        BY <3>2, <2>1, <2>2, PolicyTypes
      <3> QED
        BY <1>4, <3>1, <3>2 DEF PutInsert
    <2>4. UNCHANGED <<key, vptr, dead, got>>
      BY <1>4 DEF PutInsert, PanicUnlocking, Panic, Stay, callVars, cellVars
    <2> QED
      BY <2>3, <2>4 DEF CellTypes
  <1>5. CASE Rotate(p)
    <2>1. UNCHANGED <<key, got, weight, genID>>
      BY <1>5 DEF Rotate, PanicUnlocking, Panic, Stay, callVars, clockVars
    <2>2. CASE "genRing" \in nilled
      BY <1>5, <2>1, <2>2 DEF Rotate, PanicUnlocking, Panic, Stay, callVars, CellTypes
    <2>3. CASE "genRing" \notin nilled
      <3> DEFINE old == gens[GR!NextIdx]
      <3>1. old \in GR!Generation \cup {None}
        <4>1. GR!NextIdx \in GR!Slots
          BY ShardAssumption DEF RingOK, GR!TypeOK, GR!NextIdx, GR!Slots
        <4> QED
          BY <4>1 DEF RingOK, GR!TypeOK
      <3>2. /\ dead' = IF old = None THEN None ELSE old.id
            /\ vptr' = IF old = None THEN vptr ELSE Freed(old.id)
        BY <1>5, <2>3 DEF Rotate
      <3>3. dead' \in Ids \cup {None}
        BY <3>1, <3>2 DEF GR!Generation, Ids
      <3>4. ASSUME NEW g PROVE Freed(g) \in [Entries -> Cells \cup {None}]
        BY DEF Freed, CellTypes, Cells
      <3> QED
        BY <2>1, <3>2, <3>3, <3>4 DEF CellTypes
    <2> QED
      BY <2>2, <2>3
  <1>6. CASE Call(p) \/ Get(p) \/ PutLookup(p) \/ UpdateAlloc(p)
    <2>1. UNCHANGED <<key, vptr, dead>>
      BY <1>6 DEF Call, Get, GetLookup, GetMark, GetDeref, GetReturn, PutLookup,
             UpdateAlloc, cellVars, callVars, Done, Stay, Panic
    <2>2. UNCHANGED <<weight, genID>>
      BY <1>6, PolicyKeepsWeights
      DEF Call, Get, GetLookup, GetMark, GetDeref, GetReturn, PutLookup, UpdateAlloc
    <2>3. at[p] = "deref" => vptr[mine[p]] \in Cells \cup {None}
      BY <1>0 DEF CallOf, CellTypes, GetSteps
    <2>4. got' \in [Procs -> Cells \cup {None}]
      BY <1>6, <2>3 DEF Call, Get, GetLookup, GetMark, GetDeref, GetReturn, PutLookup,
             UpdateAlloc, callVars, Done, Stay, Panic, CellTypes
    <2> QED
      BY <2>1, <2>2, <2>4 DEF CellTypes
  <1>7. CASE \/ PutIndex(p) \/ PutSweep(p) \/ PutCharge(p) \/ RotateTell(p) \/ PutReturn(p)
    <2>1. UNCHANGED <<key, vptr>> /\ got' \in [Procs -> Cells \cup {None}]
      BY <1>7 DEF PutIndex, PutSweep, PutCharge, RotateTell, PutReturn, cellVars, callVars,
             Done, Stay, Panic, PanicUnlocking, CellTypes
    <2>2. UNCHANGED <<weight, genID>>
      BY <1>7, PolicyKeepsWeights DEF PutIndex, PutSweep, PutCharge, RotateTell, PutReturn
    <2>3. dead' \in {dead, None}
      BY <1>7 DEF PutIndex, PutSweep, PutCharge, RotateTell, PutReturn, callVars, Done, Stay,
             Panic, PanicUnlocking
    <2> QED
      BY <2>1, <2>2, <2>3 DEF CellTypes
  <1>8. CASE \/ Lock(p) \/ Delete(p) \/ DeleteRemove(p) \/ LenCall(p) \/ SizeBytes(p)
             \/ Close(p) \/ Recover(p)
    <2>1. UNCHANGED <<key, vptr, dead>> /\ got' \in [Procs -> Cells \cup {None}]
      BY <1>8 DEF Lock, Delete, DeleteRemove, LenCall, SizeBytes, Close, Recover, cellVars,
             callVars, Done, Stay, Panic, CellTypes
    <2>2. UNCHANGED <<weight, genID>>
      BY <1>8, PolicyKeepsWeights
      DEF Lock, Delete, DeleteRemove, LenCall, SizeBytes, Close, Recover
    <2> QED
      BY <2>1, <2>2 DEF CellTypes
  <1> QED
    BY <1>1, <1>2, <1>3, <1>4, <1>5, <1>6, <1>7, <1>8 DEF Step, Put, PutFast, PutSlow

LEMMA InitCells == Init => CellTypes
  <1>1. 0 \in 0 .. WeightMod - 1 /\ 0 \in Ids /\ (CHOOSE k \in Keys : TRUE) \in Keys
    BY ShardAssumption DEF Ids
  <1> QED
    BY <1>1 DEF Init, CP!Init, CellTypes

THEOREM CellsCorrect == Spec => []CellTypes
<1>1. Control /\ RingOK /\ CellTypes /\ [Next]_vars => CellTypes'
  <2> SUFFICES ASSUME Control, RingOK, CellTypes, [Next]_vars PROVE CellTypes'
    OBVIOUS
  <2>1. CASE UNCHANGED vars
    BY <2>1 DEF vars, cellVars, callVars, clockVars, CellTypes
  <2> QED
    BY <2>1, CellsKept DEF Next
<1> QED
  BY <1>1, InitCells, ControlCorrect, RingCorrect, PTL DEF Spec

LEMMA PolicyStep ==
  ASSUME Control, RingOK, CellTypes, NEW p \in Procs, Call(p) \/ Step(p)
  PROVE  CP!Next \/ UNCHANGED clockVars
  <1>0. None \notin Procs \cup Entries /\ CallOf(p)
    BY NoneAssumption DEF Control
  <1>1. CASE UpdateWeight(p) \/ UpdateGen(p)
    <2>1. mine[p] \in Entries /\ Doing(p, "put")
      BY <1>0, <1>1 DEF CallOf, UpdateWeight, UpdateGen, FastSteps
    <2>2. uint32(arg[p].weight) \in CP!Weights /\ GR!Active.id \in Ids
      BY <2>1, Uint32, ActiveId DEF CP!Weights
    <2>3. weight[mine[p]] \in CP!Weights /\ genID[mine[p]] \in Ids
      BY <2>1 DEF CellTypes, CP!Weights
    <2> QED
      BY <1>1, <2>1, <2>2, <2>3 DEF UpdateWeight, UpdateGen, CP!Next, CP!Writer, Ids
  <1>2. CASE PutNew(p)
    <2>1. CASE UNCHANGED clockVars
      BY <2>1
    <2>2. CASE ~UNCHANGED clockVars
      <3>1. PICK e \in Entries : CP!Update(e, uint32(arg[p].weight), GR!Active.id)
        BY <1>2, <2>2 DEF PutNew
      <3>2. uint32(arg[p].weight) \in CP!Weights /\ GR!Active.id \in Ids
        BY <1>2, Uint32, ActiveId DEF CP!Weights, PutNew, Locked
      <3> QED
        BY <3>1, <3>2 DEF CP!Next, CP!Writer, Ids
    <2> QED
      BY <2>1, <2>2
  <1>3. CASE PutInsert(p)
    <2>1. mine[p] \in Entries
      BY <1>0, <1>3 DEF CallOf, PutInsert, SlowSteps
    <2>2. weight[mine[p]] \in CP!Weights /\ genID[mine[p]] \in Ids
      BY <2>1 DEF CellTypes, CP!Weights
    <2> QED
      BY <1>3, <2>1, <2>2 DEF PutInsert, CP!Next, CP!Writer, Ids
  <1>4. CASE DeleteRemove(p)
    <2>1. mine[p] \in Entries
      BY <1>0, <1>4 DEF CallOf, DeleteRemove
    <2> QED
      BY <1>4, <2>1 DEF DeleteRemove, CP!Next, CP!Writer
  <1>5. CASE RotateTell(p)
    <2>1. dead \in Ids
      BY <1>5 DEF RotateTell, CellTypes
    <2> QED
      BY <1>5, <2>1 DEF RotateTell, CP!Next, CP!Writer, Ids
  <1>6. CASE GetLookup(p)
    <2>1. Known(p) => Entry(p) \in Entries
      <3>1. /\ Reading(p, "get") /\ arg[p] \in CallSet
            /\ index \in [Hashes -> Entries \cup {None}]
        BY <1>6, NoneAssumption DEF GetLookup, Reading, Doing, Control, ControlTypes
      <3>2. h(p) \in Hashes
        BY <3>1, ShardAssumption DEF h, CallSet
      <3> QED
        BY <3>1, <3>2 DEF Known, Entry
    <2> QED
      BY <1>6, <2>1 DEF GetLookup, CP!Next, CP!Reader
  <1>7. CASE GetMark(p)
    BY <1>7 DEF GetMark, CP!Next, CP!Reader
  <1>8. CASE PutSweep(p)
    BY <1>8 DEF PutSweep, CP!Next, CP!Writer
  <1>9. CASE \/ Call(p) \/ GetDeref(p) \/ GetReturn(p) \/ PutLookup(p) \/ UpdateAlloc(p)
             \/ UpdateValue(p) \/ PutIndex(p) \/ PutCharge(p) \/ Rotate(p) \/ PutReturn(p)
             \/ Lock(p) \/ Delete(p) \/ LenCall(p) \/ SizeBytes(p) \/ Close(p) \/ Recover(p)
    BY <1>9 DEF Call, GetDeref, GetReturn, PutLookup, UpdateAlloc, UpdateValue, PutIndex,
         PutCharge, Rotate, PutReturn, Lock, Delete, LenCall, SizeBytes, Close, Recover
  <1> QED
    BY <1>1, <1>2, <1>3, <1>4, <1>5, <1>6, <1>7, <1>8, <1>9
    DEF Step, Get, Put, PutFast, PutSlow

(* Every step of the shard is one of the policy or leaves it alone.        *)
THEOREM PolicyUseCorrect == Spec => UsesClockPro
<1>1. Control /\ RingOK /\ CellTypes /\ [Next]_vars => [CP!Next]_(CP!vars)
  <2> SUFFICES ASSUME Control, RingOK, CellTypes, [Next]_vars
               PROVE  CP!Next \/ UNCHANGED clockVars
    BY DEF clockVars, CP!vars
  <2> QED
    BY PolicyStep DEF Next, vars
<1>2. Init => CP!Init
  BY DEF Init
<1> QED
  BY <1>1, <1>2, ControlCorrect, RingCorrect, CellsCorrect, PTL
  DEF Spec, UsesClockPro, CP!Spec

-----------------------------------------------------------------------------
(* The list of the policy, which a sweep never finds empty.  The sweep and *)
(* a removal add nothing to it.                                            *)
ListOK ==
  /\ ring \in Seq(Entries) /\ state = [e \in Entries |-> state[e]]
  /\ sweep # "idle" => ring # <<>>

LEMMA ListShrinks ==
  ASSUME NEW S, NEW s \in Seq(S)
  PROVE  /\ s # <<>> => /\ ToSet(Tail(s)) \subseteq ToSet(s)
                        /\ ToSet(Append(Tail(s), s[1])) \subseteq ToSet(s)
         /\ \A i \in DOMAIN s : ToSet(RemoveAt(s, i)) \subseteq ToSet(s)
  <1> DEFINE n == Len(s)
  <1>1. n \in Nat /\ DOMAIN s = 1 .. n /\ \A i \in 1 .. n : s[i] \in S
    OBVIOUS
  <1>2. ASSUME s # <<>>
        PROVE  /\ ToSet(Tail(s)) \subseteq ToSet(s)
               /\ ToSet(Append(Tail(s), s[1])) \subseteq ToSet(s)
    <2>1. /\ Tail(s) \in Seq(S) /\ Len(Tail(s)) = n - 1 /\ n > 0
          /\ \A i \in 1 .. n - 1 : Tail(s)[i] = s[i + 1]
      BY <1>2
    <2>2. DOMAIN Tail(s) = 1 .. n - 1 /\ s[1] \in S
      BY <2>1
    <2>3. ToSet(Tail(s)) \subseteq ToSet(s)
      BY <1>1, <2>1, <2>2 DEF ToSet
    <2>4. ASSUME NEW x \in ToSet(Append(Tail(s), s[1])) PROVE x \in ToSet(s)
      <3>1. /\ Append(Tail(s), s[1]) \in Seq(S) /\ DOMAIN Append(Tail(s), s[1]) = 1 .. n
            /\ \A i \in 1 .. n - 1 : Append(Tail(s), s[1])[i] = Tail(s)[i]
            /\ Append(Tail(s), s[1])[n] = s[1]
        BY <2>1, <2>2, AppendProperties
      <3> QED
        BY <1>1, <2>1, <2>4, <3>1 DEF ToSet
    <2> QED
      BY <2>3, <2>4
  <1>3. ASSUME NEW i \in DOMAIN s PROVE ToSet(RemoveAt(s, i)) \subseteq ToSet(s)
    <2> DEFINE a == SubSeq(s, 1, i - 1)
               b == SubSeq(s, i + 1, n)
               t == RemoveAt(s, i)
    <2>1. /\ a \in Seq(S) /\ Len(a) = i - 1 /\ \A j \in 1 .. i - 1 : a[j] = s[j]
      <3>1. \A j \in 1 .. i - 1 : s[j] \in S
        BY <1>1
      <3>2. /\ a \in Seq(S) /\ Len(a) = IF 1 <= i - 1 THEN (i - 1) - 1 + 1 ELSE 0
            /\ \A j \in 1 .. (i - 1) - 1 + 1 : a[j] = s[1 + j - 1]
        BY <1>1, <3>1, SubSeqProperties
      <3> HIDE DEF a, n
      <3> QED
        BY <1>1, <3>2
    <2>2. /\ b \in Seq(S) /\ Len(b) = n - i /\ \A j \in 1 .. n - i : b[j] = s[i + j]
      <3>1. \A j \in i + 1 .. n : s[j] \in S
        BY <1>1
      <3>2. /\ b \in Seq(S) /\ Len(b) = IF i + 1 <= n THEN n - (i + 1) + 1 ELSE 0
            /\ \A j \in 1 .. n - (i + 1) + 1 : b[j] = s[i + 1 + j - 1]
        BY <1>1, <3>1, SubSeqProperties
      <3> HIDE DEF b, n
      <3>3. Len(b) = n - i
        BY <1>1, <3>2
      <3>4. ASSUME NEW j \in 1 .. n - i PROVE b[j] = s[i + j]
        <4>1. j \in 1 .. n - (i + 1) + 1 /\ i + 1 + j - 1 = i + j
          BY <1>1
        <4> QED
          BY <3>2, <4>1
      <3> QED
        BY <3>2, <3>3, <3>4
    <2>3. t = a \o b
      BY DEF RemoveAt
    <2> HIDE DEF a, b, t, n
    <2>4. /\ Len(t) = n - 1 /\ t \in Seq(S)
          /\ \A j \in 1 .. n - 1 : t[j] = IF j <= i - 1 THEN a[j] ELSE b[j - (i - 1)]
      <3>1. /\ t \in Seq(S) /\ Len(t) = (i - 1) + (n - i)
            /\ \A j \in 1 .. (i - 1) + (n - i) :
                 t[j] = IF j <= i - 1 THEN a[j] ELSE b[j - (i - 1)]
        BY <2>1, <2>2, <2>3, ConcatProperties
      <3>2. (i - 1) + (n - i) = n - 1
        BY <1>1
      <3> QED
        BY <3>1, <3>2
    <2>5. ASSUME NEW j \in 1 .. n - 1 PROVE t[j] \in ToSet(s)
      <3>1. CASE j <= i - 1
        <4>1. j \in 1 .. i - 1 /\ j \in 1 .. n
          BY <1>1, <3>1
        <4>2. t[j] = s[j]
          BY <2>1, <2>4, <3>1, <4>1
        <4> QED
          BY <1>1, <4>1, <4>2 DEF ToSet
      <3>2. CASE j > i - 1
        <4>1. j - (i - 1) \in 1 .. n - i /\ i + (j - (i - 1)) = j + 1 /\ j + 1 \in 1 .. n
          BY <1>1, <3>2
        <4>2. t[j] = s[j + 1]
          <5>1. t[j] = b[j - (i - 1)] /\ b[j - (i - 1)] = s[i + (j - (i - 1))]
            BY <1>1, <2>2, <2>4, <3>2, <4>1
          <5> QED
            BY <4>1, <5>1
        <4> QED
          BY <1>1, <4>1, <4>2 DEF ToSet
      <3> QED
        BY <1>1, <3>1, <3>2
    <2>6. DOMAIN t = 1 .. n - 1
      BY <1>1, <2>4
    <2> QED
      BY <2>5, <2>6 DEF ToSet, t
  <1> QED
    BY <1>2, <1>3

LEMMA PolicyList ==
  ASSUME ListOK
  PROVE  /\ \A e : CP!RemoveEntry(e) => ToSet(ring') \subseteq ToSet(ring)
         /\ CP!evictIfNeeded => ToSet(ring') \subseteq ToSet(ring)
         /\ \A e \in Entries : \A w, g : CP!Insert(e, w, g) => ToSet(ring') = ToSet(ring) \cup {e}
  <1>1. ASSUME NEW e, CP!RemoveEntry(e) PROVE ToSet(ring') \subseteq ToSet(ring)
    <2>1. PICK i \in DOMAIN ring : ring' = RemoveAt(ring, i)
      BY <1>1 DEF CP!RemoveEntry, CP!RemoveAt, RemoveAt
    <2>2. ring \in Seq(Entries)
      BY DEF ListOK
    <2> QED
      BY <2>1, <2>2, ListShrinks
  <1>2. ASSUME CP!evictIfNeeded PROVE ToSet(ring') \subseteq ToSet(ring)
    <2>1. ring # <<>> /\ ring \in Seq(Entries)
      BY <1>2 DEF ListOK, CP!evictIfNeeded, CP!ReadHand, CP!KeepHot, CP!Demote, CP!Promote,
           CP!Evict, CP!Forget
    <2>2. ring' = ring \/ ring' = Tail(ring) \/ ring' = Append(Tail(ring), ring[1])
      BY <1>2 DEF CP!evictIfNeeded, CP!ReadHand, CP!KeepHot, CP!Demote, CP!Promote,
           CP!Evict, CP!Forget, CP!Leave, CP!hand
    <2> QED
      BY <2>1, <2>2, ListShrinks
  <1>3. ASSUME NEW e \in Entries, NEW w, NEW g, CP!Insert(e, w, g)
        PROVE  ToSet(ring') = ToSet(ring) \cup {e}
    <2>1. ring \in Seq(Entries) /\ ring' = Append(ring, e)
      BY <1>3 DEF ListOK, CP!Insert
    <2> DEFINE n == Len(ring)
    <2>2. /\ n \in Nat /\ DOMAIN ring = 1 .. n /\ DOMAIN ring' = 1 .. n + 1
          /\ \A j \in 1 .. n : ring'[j] = ring[j]
          /\ ring'[n + 1] = e
      BY <2>1, AppendProperties
    <2> HIDE DEF n
    <2>3. n + 1 \in 1 .. n + 1 /\ \A j \in 1 .. n + 1 : j \in 1 .. n \/ j = n + 1
      BY <2>2
    <2>4. 1 .. n \subseteq 1 .. n + 1
      BY <2>2
    <2> QED
      BY <2>2, <2>3, <2>4 DEF ToSet
  <1> QED
    BY <1>1, <1>2, <1>3

LEMMA ListKept ==
  ASSUME ListOK, CP!Next \/ UNCHANGED clockVars
  PROVE  ListOK'
  <1>0. ring \in Seq(Entries)
    BY DEF ListOK
  <1>1. CASE CP!evictIfNeeded
    <2>1. ring # <<>>
      BY <1>1 DEF ListOK, CP!evictIfNeeded, CP!ReadHand, CP!KeepHot, CP!Demote, CP!Promote,
           CP!Evict, CP!Forget
    <2>2. /\ Tail(ring) \in Seq(Entries) /\ ring[1] \in Entries
          /\ Len(ring) # 1 => Tail(ring) # <<>>
      <3>1. /\ Tail(ring) \in Seq(Entries) /\ Len(Tail(ring)) = Len(ring) - 1
            /\ Len(ring) \in Nat /\ Len(ring) # 0
        BY <1>0, <2>1, HeadTailProperties, EmptySeq, LenProperties
      <3>2. ring[1] \in Entries
        BY <1>0, <3>1, ElementOfSeq
      <3>3. Len(ring) # 1 => Tail(ring) # <<>>
        <4>1. Len(ring) # 1 => Len(Tail(ring)) # 0
          BY <3>1
        <4>2. Len(<<>>) = 0
          BY EmptySeq
        <4> QED
          BY <4>1, <4>2
      <3> QED
        BY <3>1, <3>2, <3>3
    <2>3. Append(Tail(ring), ring[1]) \in Seq(Entries) /\ Append(Tail(ring), ring[1]) # <<>>
      BY <2>2, AppendProperties
    <2>4. ring' \in Seq(Entries) /\ ring' # <<>>
      BY <1>0, <1>1, <2>1, <2>2, <2>3
      DEF CP!evictIfNeeded, CP!ReadHand, CP!KeepHot, CP!Demote, CP!Promote, CP!Evict, CP!Forget,
          CP!Leave, CP!hand
    <2>5. state' = state \/ \E b : state' = [state EXCEPT ![ring[1]] = b]
      BY <1>1
      DEF CP!evictIfNeeded, CP!ReadHand, CP!KeepHot, CP!Demote, CP!Promote, CP!Evict, CP!Forget,
          CP!Leave, CP!hand
    <2>6. state' = [e \in Entries |-> state'[e]]
      BY <2>5 DEF ListOK
    <2> QED
      BY <2>4, <2>6 DEF ListOK
  <1>2. ASSUME NEW e \in Entries, NEW w, NEW g, CP!Insert(e, w, g) PROVE ListOK'
    <2>1. ring' = Append(ring, e) /\ \E b : state' = [state EXCEPT ![e] = b]
      BY <1>2 DEF CP!Insert
    <2>2. state' = [f \in Entries |-> state'[f]]
      BY <2>1 DEF ListOK
    <2>3. ring' \in Seq(Entries) /\ ring' # <<>>
      BY <1>0, <2>1
    <2> QED
      BY <2>2, <2>3 DEF ListOK
  <1>3. ASSUME NEW e \in Entries, CP!RemoveEntry(e) PROVE ListOK'
    <2>1. /\ UNCHANGED <<state, sweep>> /\ sweep = "idle"
          /\ \E i \in DOMAIN ring : ring' = RemoveAt(ring, i)
      BY <1>3 DEF CP!RemoveEntry, CP!RemoveAt, RemoveAt
    <2>2. PICK i \in DOMAIN ring : ring' = RemoveAt(ring, i)
      BY <2>1
    <2> DEFINE n == Len(ring)
               a == SubSeq(ring, 1, i - 1)
               b == SubSeq(ring, i + 1, n)
    <2>3. n \in Nat /\ i \in 1 .. n /\ \A j \in 1 .. n : ring[j] \in Entries
      BY <1>0
    <2>4. a \in Seq(Entries)
      <3>1. i - 1 \in Int /\ \A j \in 1 .. i - 1 : ring[j] \in Entries
        BY <2>3
      <3> HIDE DEF n
      <3> QED
        BY <1>0, <2>3, <3>1, SubSeqProperties
    <2>5. b \in Seq(Entries)
      <3>1. i + 1 \in Int /\ \A j \in i + 1 .. n : ring[j] \in Entries
        BY <2>3
      <3> HIDE DEF n
      <3> QED
        BY <1>0, <2>3, <3>1, SubSeqProperties
    <2>6. ring' = a \o b
      BY <2>2 DEF RemoveAt
    <2> HIDE DEF a, b
    <2>7. ring' \in Seq(Entries)
      BY <2>4, <2>5, <2>6
    <2> QED
      BY <2>1, <2>7 DEF ListOK
  <1>4. ASSUME NEW r \in Procs, CP!StoreState(r) PROVE ListOK'
    <2>1. ring' = ring /\ sweep' = sweep /\ \E e, b : state' = [state EXCEPT ![e] = b]
      BY <1>4 DEF CP!StoreState, CP!clockVars
    <2>2. state' = [f \in Entries |-> state'[f]]
      BY <2>1 DEF ListOK
    <2> QED
      BY <2>1, <2>2 DEF ListOK
  <1>5. ASSUME NEW g, CP!GenerationEvicted(g) PROVE ListOK'
    <2>1. ring' = ring /\ sweep' = sweep /\ state' = [e \in Entries |-> state'[e]]
      BY <1>5 DEF CP!GenerationEvicted
    <2> QED
      BY <2>1 DEF ListOK
  <1>6. ASSUME UNCHANGED <<ring, state, sweep>> PROVE ListOK'
    BY <1>6 DEF ListOK
  <1>7. /\ UNCHANGED clockVars => UNCHANGED <<ring, state, sweep>>
        /\ \A e, w, g : CP!Update(e, w, g) => UNCHANGED <<ring, state, sweep>>
        /\ \A r, e : CP!Find(r, e) \/ CP!LoadState(r) => UNCHANGED <<ring, state, sweep>>
    BY DEF clockVars, CP!Update, CP!Find, CP!LoadState, CP!clockVars
  <1> QED
    BY <1>1, <1>2, <1>3, <1>4, <1>5, <1>6, <1>7 DEF CP!Next, CP!Writer, CP!Reader

(* A sweep never finds the list empty.                                     *)
THEOREM ListCorrect == Spec => []ListOK
<1>1. Control /\ RingOK /\ CellTypes /\ ListOK /\ [Next]_vars => ListOK'
  <2> SUFFICES ASSUME Control, RingOK, CellTypes, ListOK, [Next]_vars PROVE ListOK'
    OBVIOUS
  <2>1. CP!Next \/ UNCHANGED clockVars
    BY PolicyStep DEF Next, vars
  <2> QED
    BY <2>1, ListKept
<1>2. Init => ListOK
  BY DEF Init, CP!Init, ListOK
<1> QED
  BY <1>1, <1>2, ControlCorrect, RingCorrect, CellsCorrect, PTL DEF Spec

-----------------------------------------------------------------------------
(* What the entries hold: every entry that can be reached has a value, the *)
(* index leads a hash to an entry with a key of that hash, and a goroutine *)
(* works on an entry of its own key.  A Put under the read lock works on   *)
(* the entry that is in the index; one under the write lock has made its   *)
(* entry itself, and nobody else knows it until it is in the index.        *)
Valued == \A e \in Entries \cap Reachable : vptr[e] # None

IndexSound == \A x \in Hashes : index[x] # None => HashOf[key[index[x]]] = x

Private(p) ==
  \A q \in Procs \ {p} : mine[q] # mine[p] /\ held[q] # mine[p]

KeysOf(p) ==
  /\ at[p] \in GetSteps \cup FastSteps \cup SlowSteps => key[mine[p]] = arg[p].key
  /\ at[p] \in FastSteps \cup {"insert"} => index[h(p)] = mine[p]
  /\ at[p] = "index it" =>
       /\ mine[p] \notin Indexed \cup ToSet(ring)
       /\ vptr[mine[p]] # None /\ vptr[mine[p]].val = arg[p].val
       /\ Private(p)
  /\ at[p] = "insert" => mine[p] \notin ToSet(ring) /\ Private(p)

Data == Valued /\ IndexSound /\ \A p \in Procs : KeysOf(p)

(* A step that writes neither the index nor a key.                         *)
LEMMA DataFrame ==
  ASSUME Control, Data, NEW p \in Procs,
         UNCHANGED <<index, key>>, ToSet(ring') \subseteq ToSet(ring),
         \A e \in Entries : vptr[e] # None =>
           /\ vptr'[e] # None
           /\ vptr'[e].val = vptr[e].val \/ \A q \in Procs : at[q] # "index it",
         \A q \in Procs \ {p} :
           at'[q] = at[q] /\ arg'[q] = arg[q] /\ mine'[q] = mine[q] /\ held'[q] = held[q],
         mine'[p] \in {mine[p], None} \cup Indexed,
         held'[p] \in {held[p], None} \cup Indexed,
         (\E q \in Procs \ {p} : at[q] \in SlowSteps) =>
           mine'[p] \in {mine[p], None} /\ held'[p] \in {held[p], None},
         KeysOf(p)'
  PROVE  Data'
  <1>0. None \notin Entries /\ Indexed' = Indexed
    BY NoneAssumption DEF Indexed
  <1>1. Entries \cap Reachable' \subseteq Reachable
    <2> SUFFICES ASSUME NEW e \in Entries, e \in Reachable' PROVE e \in Reachable
      OBVIOUS
    <2>1. e # None
      BY <1>0
    <2>2. CASE e \in Indexed' \/ e \in ToSet(ring')
      BY <1>0, <2>2 DEF Reachable
    <2>3. ASSUME NEW q \in Procs, e = mine'[q] \/ e = held'[q] PROVE e \in Reachable
      <3>1. CASE q = p
        BY <2>1, <2>3, <3>1 DEF Reachable
      <3>2. CASE q # p
        BY <2>3, <3>2 DEF Reachable
      <3> QED
        BY <3>1, <3>2
    <2> QED
      BY <2>2, <2>3 DEF Reachable
  <1>2. Valued'
    BY <1>1 DEF Data, Valued
  <1>3. IndexSound'
    BY DEF Data, IndexSound
  <1>4. ASSUME NEW q \in Procs \ {p} PROVE KeysOf(q)'
    <2>1. KeysOf(q) /\ CallOf(q) /\ None \notin Entries
      BY NoneAssumption DEF Data, Control
    <2>2. h(q)' = h(q)
      BY DEF h
    <2>3. ASSUME at[q] \in {"index it", "insert"} PROVE Private(q)'
      <3>1. /\ mine[q] \in Entries /\ Private(q)
            /\ mine'[p] \in {mine[p], None} /\ held'[p] \in {held[p], None}
        BY <2>1, <2>3 DEF KeysOf, CallOf, SlowSteps
      <3> QED
        BY <2>1, <3>1 DEF Private
    <2>4. at[q] = "index it" =>
            mine[q] \in Entries /\ vptr'[mine[q]] # None /\ vptr'[mine[q]].val = arg[q].val
      BY <2>1 DEF KeysOf, CallOf, SlowSteps
    <2> QED
      BY <1>0, <2>1, <2>2, <2>3, <2>4 DEF KeysOf
  <1> QED
    BY <1>2, <1>3, <1>4 DEF Data

(* A call that ends, or panics.                                            *)
LEMMA EndKeepsData ==
  ASSUME Control, Data, NEW p \in Procs, Done(p) \/ Panic(p), UNCHANGED <<index, cellVars, held>>,
         ToSet(ring') \subseteq ToSet(ring)
  PROVE  Data'
  <1>1. /\ \A q \in Procs \ {p} : at'[q] = at[q] /\ arg'[q] = arg[q] /\ mine'[q] = mine[q]
        /\ mine'[p] \in {mine[p], None} /\ at'[p] \in {"idle", "panicked"}
    BY DEF Done, Panic, Goto, Stay, callVars, Control, ControlTypes
  <1>2. KeysOf(p)'
    BY <1>1 DEF KeysOf, GetSteps, FastSteps, SlowSteps
  <1> QED
    BY <1>1, <1>2, DataFrame DEF cellVars

(* A call that goes on with the entry it has.                              *)
LEMMA MoveKeepsData ==
  ASSUME Control, Data, NEW p \in Procs, NEW to \in Steps \ {"index it", "insert"}, Goto(p, to),
         UNCHANGED <<index, key, arg, mine>>, ToSet(ring') \subseteq ToSet(ring),
         \A e \in Entries : vptr[e] # None =>
           /\ vptr'[e] # None
           /\ vptr'[e].val = vptr[e].val \/ \A q \in Procs : at[q] # "index it",
         \A q \in Procs \ {p} : held'[q] = held[q],
         held'[p] \in {held[p], None},
         to \in GetSteps \cup SlowSteps => at[p] \in GetSteps \cup FastSteps \cup SlowSteps,
         to \in FastSteps => at[p] \in FastSteps
  PROVE  Data'
  <1>1. at'[p] = to /\ \A q \in Procs \ {p} : at'[q] = at[q]
    BY DEF Goto, Control, ControlTypes
  <1>2. KeysOf(p)'
    <2>1. h(p)' = h(p) /\ KeysOf(p)
      BY DEF h, Data
    <2> QED
      BY <1>1, <2>1 DEF KeysOf
  <1> QED
    BY <1>1, <1>2, DataFrame

LEMMA HashType ==
  ASSUME Control, NEW p \in Procs, arg[p] # None
  PROVE  arg[p] \in CallSet /\ arg[p].key \in Keys /\ h(p) \in Hashes
  BY ShardAssumption DEF Control, ControlTypes, CallSet, h

(* A known key has its entry in the index.                                 *)
LEMMA KnownLemma ==
  ASSUME Control, NEW p \in Procs, arg[p] # None, Known(p)
  PROVE  /\ Entry(p) = index[h(p)] /\ Entry(p) \in Indexed /\ Entry(p) \in Entries
         /\ key[Entry(p)] = arg[p].key
  <1>1. h(p) \in Hashes
    BY HashType
  <1>2. Entry(p) # None /\ Entry(p) = index[h(p)] /\ key[Entry(p)] = arg[p].key
    BY DEF Known, Entry
  <1> QED
    BY <1>1, <1>2 DEF Indexed, Control, ControlTypes

(* While somebody holds a read lock, no writer is at work.                 *)
LEMMA ReaderExcludes ==
  ASSUME Control, NEW p \in Procs, readers[p] > 0
  PROVE  \A q \in Procs : at[q] \notin SlowSteps \cup {"remove"}
  BY DEF Control, LocksOf

LEMMA CallKeepsData ==
  ASSUME Control, Data, NEW p \in Procs, Call(p)
  PROVE  Data'
  <1>1. PICK c \in CallsOf[p] :
          /\ arg' = [arg EXCEPT ![p] = c]
          /\ CASE c.op \in {"get", "put", "len"} -> Goto(p, "reading") /\ Mu!RLock(p)
               [] c.op = "delete" -> Goto(p, "lock") /\ UNCHANGED lockVars
               [] c.op = "size"   -> Goto(p, "iterating") /\ UNCHANGED lockVars
               [] c.op = "close"  -> Goto(p, "index = nil") /\ UNCHANGED lockVars
    BY DEF Call
  <1>2. c.op \in Ops
    BY ShardAssumption DEF CallSet
  <1>3. \E a \in {"reading", "lock", "iterating", "index = nil"} : Goto(p, a)
    BY <1>1, <1>2 DEF Ops
  <1>4. /\ at'[p] \in {"reading", "lock", "iterating", "index = nil"}
        /\ \A q \in Procs \ {p} : at'[q] = at[q] /\ arg'[q] = arg[q]
    BY <1>1, <1>3 DEF Goto, Control, ControlTypes
  <1>5. KeysOf(p)'
    BY <1>4 DEF KeysOf, GetSteps, FastSteps, SlowSteps
  <1>6. UNCHANGED <<index, cellVars, mine, held, ring>>
    BY DEF Call, mapVars, clockVars
  <1> QED
    BY <1>4, <1>5, <1>6, DataFrame DEF cellVars

(* Get and the first half of Put.                                          *)
LEMMA LookupKeepsData ==
  ASSUME Control, Data, NEW p \in Procs, GetLookup(p) \/ PutLookup(p)
  PROVE  Data'
  <1>1. /\ arg[p] # None /\ readers[p] > 0 /\ at[p] = "reading" /\ held[p] = None
        /\ UNCHANGED <<index, cellVars>>
    BY DEF GetLookup, PutLookup, Reading, Doing, Mu!HoldsRead, Control, CallOf, mapVars
  <1>2. CASE GetLookup(p) /\ ~Known(p)
    <2>1. Done(p) /\ UNCHANGED <<held, ring>>
      BY <1>2 DEF GetLookup, clockVars
    <2> QED
      BY <1>1, <2>1, EndKeepsData
  <1>3. CASE PutLookup(p) /\ ~Known(p)
    <2>1. Goto(p, "lock") /\ UNCHANGED <<held, ring, arg, mine>>
      BY <1>3 DEF PutLookup, clockVars, callVars
    <2> QED
      BY <1>1, <2>1, MoveKeepsData DEF Steps, GetSteps, SlowSteps, FastSteps, cellVars
  <1>4. CASE Known(p)
    <2>1. /\ mine' = [mine EXCEPT ![p] = Entry(p)] /\ UNCHANGED <<arg, ring>>
          /\ Goto(p, "mark") \/ Goto(p, "update")
          /\ held' = held \/ held' = [held EXCEPT ![p] = Entry(p)]
      BY <1>4 DEF GetLookup, PutLookup, CP!Find, CP!clockVars, clockVars
    <2>2. /\ at'[p] \in {"mark", "update"} /\ mine'[p] = Entry(p)
          /\ held'[p] \in {held[p], Entry(p)}
          /\ \A q \in Procs \ {p} : at'[q] = at[q] /\ mine'[q] = mine[q] /\ held'[q] = held[q]
      BY <2>1 DEF Goto, Control, ControlTypes
    <2>3. /\ Entry(p) = index[h(p)] /\ Entry(p) \in Indexed
          /\ key[Entry(p)] = arg[p].key
      BY <1>1, <1>4, KnownLemma
    <2>4. KeysOf(p)'
      <3>1. h(p)' = h(p)
        BY <2>1 DEF h
      <3> QED
        BY <1>1, <2>1, <2>2, <2>3, <3>1 DEF KeysOf, GetSteps, FastSteps, SlowSteps, cellVars
    <2>5. \A q \in Procs : at[q] \notin SlowSteps
      BY <1>1, ReaderExcludes
    <2> QED
      BY <1>1, <2>1, <2>2, <2>3, <2>4, <2>5, DataFrame DEF cellVars
  <1> QED
    BY <1>2, <1>3, <1>4

LEMMA FirstHalfKeepsData ==
  ASSUME Control, Data, NEW p \in Procs,
         GetMark(p) \/ GetDeref(p) \/ GetReturn(p) \/ UpdateAlloc(p) \/ UpdateWeight(p) \/ UpdateGen(p)
  PROVE  Data'
  <1>1. UNCHANGED <<index, cellVars>>
    BY DEF GetMark, GetDeref, GetReturn, UpdateAlloc, UpdateWeight, UpdateGen, mapVars
  <1>2. UNCHANGED ring
    BY DEF GetMark, GetDeref, GetReturn, UpdateAlloc, UpdateWeight, UpdateGen, clockVars,
           CP!LoadState, CP!StoreState, CP!clockVars, CP!Update
  <1>3. CASE GetReturn(p) \/ UpdateGen(p) \/ (UpdateAlloc(p) /\ Panic(p))
    <2>1. (Done(p) \/ Panic(p)) /\ UNCHANGED held
      BY <1>3, PolicyKeepsReaders DEF GetReturn, UpdateGen, UpdateAlloc, clockVars
    <2> QED
      BY <1>1, <1>2, <2>1, EndKeepsData
  <1>4. CASE GetMark(p)
    <2>1. /\ UNCHANGED <<arg, mine>> /\ at[p] = "mark"
          /\ held' = held \/ held' = [held EXCEPT ![p] = None]
          /\ at' = at \/ Goto(p, "deref")
      BY <1>4 DEF GetMark, Stay, callVars, CP!LoadState, CP!StoreState
    <2>2. \E to \in {"mark", "deref"} : Goto(p, to)
      BY <2>1 DEF Goto, Control, ControlTypes
    <2>3. held'[p] \in {held[p], None} /\ \A q \in Procs \ {p} : held'[q] = held[q]
      BY <2>1 DEF Control, ControlTypes
    <2> QED
      BY <1>1, <1>2, <2>1, <2>2, <2>3, MoveKeepsData
      DEF Steps, GetSteps, FastSteps, SlowSteps, cellVars
  <1>5. CASE GetDeref(p) \/ (UpdateAlloc(p) /\ ~Panic(p)) \/ UpdateWeight(p)
    <2>1. UNCHANGED <<arg, mine, held>>
      BY <1>5, PolicyKeepsReaders DEF GetDeref, UpdateAlloc, UpdateWeight, Stay, callVars, clockVars
    <2>2. \/ at[p] = "deref" /\ Goto(p, "return")
          \/ at[p] = "update" /\ Goto(p, "allocating")
          \/ at[p] = "weigh" /\ Goto(p, "tag")
      BY <1>5 DEF GetDeref, UpdateAlloc, UpdateWeight
    <2> QED
      BY <1>1, <1>2, <2>1, <2>2, MoveKeepsData
      DEF Steps, GetSteps, FastSteps, SlowSteps, cellVars
  <1> QED
    BY <1>3, <1>4, <1>5

LEMMA UpdateValueKeepsData ==
  ASSUME Control, RingOK, CellTypes, Data, NEW p \in Procs, UpdateValue(p)
  PROVE  Data'
  <1>1. PICK v \in lot[p] :
          vptr' = [vptr EXCEPT ![mine[p]] = [val |-> v, gen |-> GR!Active.id]]
    BY DEF UpdateValue
  <1>2. /\ at[p] = "allocating" /\ Goto(p, "weigh")
        /\ UNCHANGED <<index, key, arg, mine, held, ring>>
    BY DEF UpdateValue, mapVars, callVars, clockVars
  <1>3. /\ readers[p] > 0 /\ \A q \in Procs : at[q] # "index it"
    BY <1>2, ReaderExcludes DEF Control, LocksOf, FastSteps, SlowSteps
  <1>4. [val |-> v, gen |-> GR!Active.id] \in Cells /\ None \notin Cells
    BY ActiveId, NoneAssumption DEF Control, ControlTypes, Cells, Ids
  <1>5. \A e \in Entries : vptr[e] # None => vptr'[e] # None
    BY <1>1, <1>4 DEF CellTypes
  <1> QED
    BY <1>2, <1>3, <1>5, MoveKeepsData DEF Steps, GetSteps, FastSteps, SlowSteps

(* The second half of Put, and Delete.                                     *)
LEMMA PutNewKeepsData ==
  ASSUME Control, RingOK, CellTypes, Data, NEW p \in Procs, PutNew(p)
  PROVE  Data'
  <1>1. /\ at[p] = "locked" /\ Doing(p, "put") /\ UNCHANGED index
        /\ \A q \in Procs : readers[q] = 0
    BY DEF PutNew, Locked, Mu!HoldsWrite, mapVars
  <1>2. CASE Panic(p) /\ UNCHANGED <<clockVars, cellVars>>
    BY <1>1, <1>2, EndKeepsData DEF clockVars
  <1>3. CASE ~(Panic(p) /\ UNCHANGED <<clockVars, cellVars>>)
    <2>1. PICK e \in Entries \ Reachable :
            /\ key' = [key EXCEPT ![e] = arg[p].key]
            /\ vptr' = [vptr EXCEPT ![e] = [val |-> arg[p].val, gen |-> GR!Active.id]]
            /\ CP!Update(e, uint32(arg[p].weight), GR!Active.id)
            /\ mine' = [mine EXCEPT ![p] = e]
      BY <1>3 DEF PutNew, PanicUnlocking
    <2>2. Goto(p, "index it") /\ UNCHANGED <<arg, ring, held>>
      BY <1>3, <2>1 DEF PutNew, PanicUnlocking, CP!Update
    <2>3. /\ at'[p] = "index it" /\ mine'[p] = e
          /\ \A q \in Procs \ {p} : at'[q] = at[q] /\ mine'[q] = mine[q]
      BY <2>1, <2>2 DEF Goto, Control, ControlTypes
    <2>4. [val |-> arg[p].val, gen |-> GR!Active.id] \in Cells /\ None \notin Cells
      BY <1>1, Uint32, ActiveId, NoneAssumption DEF Cells, Ids
    <2>5. /\ key'[e] = arg[p].key /\ vptr'[e] # None /\ vptr'[e].val = arg[p].val
          /\ \A f \in Entries \ {e} : key'[f] = key[f] /\ vptr'[f] = vptr[f]
      BY <2>1, <2>4 DEF CellTypes
    <2>6. e \notin Indexed \cup ToSet(ring) /\ \A q \in Procs : mine[q] # e /\ held[q] # e
      BY DEF Reachable
    <2>7. Indexed' = Indexed
      BY <1>1 DEF Indexed
    <2>8. Valued'
      <3>1. Reachable' \subseteq Reachable \cup {e}
        BY <2>2, <2>3, <2>7 DEF Reachable
      <3> QED
        BY <2>5, <3>1 DEF Data, Valued
    <2>9. IndexSound'
      <3> SUFFICES ASSUME NEW x \in Hashes, index[x] # None
                   PROVE  HashOf[key'[index[x]]] = x
        BY <1>1 DEF IndexSound
      <3>1. index[x] \in Indexed /\ index[x] \in Entries
        BY DEF Indexed, Control, ControlTypes
      <3>2. key'[index[x]] = key[index[x]]
        BY <2>5, <2>6, <3>1
      <3> QED
        BY <3>2 DEF Data, IndexSound
    <2>10. KeysOf(p)'
      BY <2>2, <2>3, <2>5, <2>6, <2>7 DEF KeysOf, Private, GetSteps, FastSteps, SlowSteps
    <2>11. ASSUME NEW q \in Procs \ {p} PROVE KeysOf(q)'
      <3>1. at[q] \notin SlowSteps \cup FastSteps
        BY <1>1, Alone
      <3>2. at[q] \in GetSteps => mine[q] \in Entries \ {e} /\ key[mine[q]] = arg[q].key
        BY <2>6 DEF Control, CallOf, Data, KeysOf
      <3> QED
        BY <2>2, <2>3, <2>5, <3>1, <3>2 DEF KeysOf, SlowSteps
    <2> QED
      BY <2>8, <2>9, <2>10, <2>11 DEF Data
  <1> QED
    BY <1>2, <1>3

(* A write to the index by the goroutine that holds the write lock.        *)
LEMMA IndexKeepsData ==
  ASSUME Control, Data, NEW p \in Procs, at[p] \in SlowSteps \cup {"locked", "remove"},
         \A q \in Procs : readers[q] = 0,
         UNCHANGED <<cellVars, ring, held, arg>>,
         \A q \in Procs \ {p} : mine'[q] = mine[q] /\ at'[q] \in {at[q], "killed"},
         mine'[p] \in {mine[p], None} \cup Indexed,
         NEW e \in {mine[p], None}, index' = [index EXCEPT ![h(p)] = e], arg[p] # None,
         e # None => key[e] = arg[p].key,
         KeysOf(p)'
  PROVE  Data'
  <1>0. None \notin Entries /\ h(p) \in Hashes
    BY NoneAssumption, HashType
  <1>1. /\ index'[h(p)] = e
        /\ \A x \in Hashes \ {h(p)} : index'[x] = index[x]
    BY <1>0 DEF Control, ControlTypes
  <1>2. Indexed' \subseteq Indexed \cup {mine[p]}
    BY <1>0, <1>1 DEF Indexed
  <1>3. Valued'
    <2>1. Entries \cap Reachable' \subseteq Reachable
      BY <1>0, <1>2 DEF Reachable
    <2> QED
      BY <2>1 DEF Data, Valued, cellVars
  <1>4. IndexSound'
    BY <1>0, <1>1 DEF Data, IndexSound, h, cellVars
  <1>5. ASSUME NEW q \in Procs \ {p} PROVE KeysOf(q)'
    <2>1. at[q] \notin SlowSteps \cup FastSteps
      BY Alone
    <2>2. at'[q] \notin SlowSteps \cup FastSteps
      BY <2>1 DEF SlowSteps, FastSteps
    <2>3. at'[q] \in GetSteps => at[q] \in GetSteps
      BY DEF GetSteps
    <2> QED
      BY <2>2, <2>3 DEF KeysOf, SlowSteps, cellVars, Data
  <1> QED
    BY <1>3, <1>4, <1>5 DEF Data

LEMMA PutIndexKeepsData ==
  ASSUME Control, Data, NEW p \in Procs, PutIndex(p)
  PROVE  Data'
  <1>1. /\ at[p] = "index it" /\ UNCHANGED <<cellVars, ring, held>> /\ arg[p] # None
        /\ mine[p] \in Entries /\ KeysOf(p) /\ None \notin Entries
        /\ \A q \in Procs : readers[q] = 0
    BY NoneAssumption
    DEF PutIndex, clockVars, Control, CallOf, LocksOf, SlowSteps, Doing, Data
  <1>2. CASE Panic(p) /\ UNCHANGED index
    BY <1>1, <1>2, EndKeepsData
  <1>3. CASE ~(Panic(p) /\ UNCHANGED index)
    <2>1. /\ index' = [index EXCEPT ![h(p)] = mine[p]] /\ UNCHANGED <<arg, mine>>
          /\ MapWrite(p, "insert")
      BY <1>3 DEF PutIndex, PanicUnlocking, callVars
    <2>2. /\ at'[p] \in {"insert", "killed"}
          /\ \A q \in Procs \ {p} : at'[q] \in {at[q], "killed"}
      BY <2>1 DEF MapWrite, Goto, Control, ControlTypes
    <2>3. index'[h(p)] = mine[p] /\ h(p)' = h(p)
      BY <1>1, <2>1, HashType DEF Control, ControlTypes, h
    <2>4. KeysOf(p)'
      <3>1. /\ key[mine[p]] = arg[p].key /\ mine[p] \notin ToSet(ring) /\ Private(p)
        BY <1>1 DEF KeysOf, SlowSteps
      <3>2. Private(p)'
        BY <1>1, <2>1, <3>1 DEF Private
      <3> QED
        BY <1>1, <2>1, <2>2, <2>3, <3>1, <3>2
        DEF KeysOf, GetSteps, FastSteps, SlowSteps, cellVars
    <2>5. key[mine[p]] = arg[p].key /\ at[p] \in SlowSteps
      BY <1>1 DEF KeysOf, SlowSteps
    <2> QED
      BY <1>1, <2>1, <2>2, <2>4, <2>5, IndexKeepsData
  <1> QED
    BY <1>2, <1>3

LEMMA DeleteKeepsData ==
  ASSUME Control, Data, NEW p \in Procs, Delete(p)
  PROVE  Data'
  <1>1. /\ at[p] = "locked" /\ UNCHANGED <<cellVars, ring, held>> /\ arg[p] # None
        /\ \A q \in Procs : readers[q] = 0
    BY DEF Delete, Locked, Mu!HoldsWrite, Doing, clockVars
  <1>2. CASE Done(p) /\ UNCHANGED index
    BY <1>1, <1>2, EndKeepsData
  <1>3. CASE ~(Done(p) /\ UNCHANGED index)
    <2>1. /\ index' = [index EXCEPT ![h(p)] = None] /\ UNCHANGED arg
          /\ mine' = [mine EXCEPT ![p] = Entry(p)] /\ Known(p)
          /\ MapWrite(p, "remove")
      BY <1>3 DEF Delete
    <2>2. /\ at'[p] \in {"remove", "killed"}
          /\ \A q \in Procs \ {p} : at'[q] \in {at[q], "killed"}
      BY <2>1 DEF MapWrite, Goto, Control, ControlTypes
    <2>3. /\ mine'[p] = Entry(p) /\ Entry(p) \in Indexed
          /\ \A q \in Procs \ {p} : mine'[q] = mine[q]
      BY <1>1, <2>1, KnownLemma DEF Control, ControlTypes
    <2>4. KeysOf(p)'
      BY <2>2 DEF KeysOf, GetSteps, FastSteps, SlowSteps
    <2> QED
      BY <1>1, <2>1, <2>2, <2>3, <2>4, IndexKeepsData
  <1> QED
    BY <1>2, <1>3

LEMMA PutInsertKeepsData ==
  ASSUME Control, ListOK, Data, NEW p \in Procs, PutInsert(p)
  PROVE  Data'
  <1>1. /\ at[p] = "insert" /\ UNCHANGED <<index, cellVars>>
        /\ mine[p] \in Entries /\ \A q \in Procs : readers[q] = 0
    BY DEF PutInsert, mapVars, Control, CallOf, LocksOf, SlowSteps
  <1>2. CASE Panic(p) /\ UNCHANGED clockVars
    BY <1>1, <1>2, EndKeepsData DEF clockVars
  <1>3. CASE ~(Panic(p) /\ UNCHANGED clockVars)
    <2>1. /\ CP!Insert(mine[p], weight[mine[p]], genID[mine[p]])
          /\ Goto(p, "sweep") /\ UNCHANGED <<arg, mine>>
      BY <1>3 DEF PutInsert, PanicUnlocking, Stay, callVars
    <2>2. ToSet(ring') = ToSet(ring) \cup {mine[p]} /\ UNCHANGED held
      BY <1>1, <2>1, PolicyList, PolicyKeepsReaders
    <2>3. at'[p] = "sweep" /\ \A q \in Procs \ {p} : at'[q] = at[q]
      BY <2>1 DEF Goto, Control, ControlTypes
    <2>4. Reachable' = Reachable
      BY <1>1, <2>1, <2>2 DEF Reachable, Indexed
    <2>5. ASSUME NEW q \in Procs PROVE KeysOf(q)'
      <3>1. KeysOf(q) /\ (q # p => at[q] \notin SlowSteps)
        BY <1>1, Alone DEF Data, SlowSteps
      <3>2. h(q)' = h(q) /\ (q = p => at[q] \in SlowSteps)
        BY <1>1, <2>1 DEF h, SlowSteps
      <3> QED
        BY <1>1, <2>1, <2>3, <3>1, <3>2 DEF KeysOf, GetSteps, FastSteps, SlowSteps, cellVars
    <2> QED
      BY <1>1, <2>4, <2>5 DEF Data, Valued, IndexSound, cellVars
  <1> QED
    BY <1>2, <1>3

LEMMA SecondHalfKeepsData ==
  ASSUME Control, RingOK, CellTypes, ListOK, Data, NEW p \in Procs,
         PutSweep(p) \/ PutCharge(p) \/ Rotate(p) \/ RotateTell(p) \/ PutReturn(p)
  PROVE  Data'
  <1>1. /\ at[p] \in {"sweep", "rotate", "tell"} /\ UNCHANGED <<index, key>>
    BY DEF PutSweep, PutCharge, Rotate, RotateTell, PutReturn, mapVars, cellVars
  <1>2. /\ ToSet(ring') \subseteq ToSet(ring) /\ UNCHANGED held
    <2>1. \/ CP!evictIfNeeded
          \/ UNCHANGED clockVars
          \/ CP!GenerationEvicted(dead)
      BY DEF PutSweep, PutCharge, Rotate, RotateTell, PutReturn
    <2>2. CP!GenerationEvicted(dead) \/ UNCHANGED clockVars => ring' = ring /\ UNCHANGED held
      BY DEF CP!GenerationEvicted, clockVars
    <2> QED
      BY <2>1, <2>2, PolicyList, PolicyKeepsReaders
  <1>3. CASE Done(p) \/ Panic(p)
    <2>1. UNCHANGED cellVars
      <3>1. at'[p] \in {"idle", "panicked"}
        BY <1>3 DEF Done, Panic, Goto, Control, ControlTypes
      <3>2. Rotate(p) => UNCHANGED vptr
        BY <3>1 DEF Rotate, Goto, Control, ControlTypes
      <3> QED
        BY <1>1, <3>2 DEF PutSweep, PutCharge, Rotate, RotateTell, PutReturn, cellVars
    <2> QED
      BY <1>1, <1>2, <1>3, <2>1, EndKeepsData
  <1>4. CASE ~(Done(p) \/ Panic(p))
    <2>1. \E to \in {"sweep", "rotate", "tell"} : Goto(p, to)
      <3>1. PutSweep(p) => Goto(p, "sweep")
        BY DEF PutSweep, Goto, Control, ControlTypes
      <3> QED
        BY <1>4, <3>1 DEF PutCharge, Rotate, RotateTell, PutReturn, PanicUnlocking
    <2>2. UNCHANGED <<arg, mine>>
      BY <1>4 DEF PutSweep, PutCharge, Rotate, RotateTell, PutReturn, PanicUnlocking, Stay, callVars
    <2>3. \A e \in Entries : vptr[e] # None => vptr'[e] # None /\ vptr'[e].val = vptr[e].val
      <3>1. vptr' = vptr \/ \E g : vptr' = Freed(g)
        BY DEF PutSweep, PutCharge, Rotate, RotateTell, PutReturn, cellVars
      <3>2. None \notin Cells
        BY NoneAssumption DEF Cells
      <3>3. ASSUME NEW g, NEW e \in Entries, vptr[e] # None
            PROVE  Freed(g)[e] # None /\ Freed(g)[e].val = vptr[e].val
        <4>1. vptr[e] \in Cells
          BY <3>3 DEF CellTypes
        <4>2. [vptr[e] EXCEPT !.gen = None] \in Cells /\ [vptr[e] EXCEPT !.gen = None].val = vptr[e].val
          BY <4>1 DEF Cells
        <4> QED
          BY <3>2, <3>3, <4>2 DEF Freed
      <3> QED
        BY <3>1, <3>3
    <2> QED
      BY <1>1, <1>2, <2>1, <2>2, <2>3, MoveKeepsData DEF Steps, GetSteps, FastSteps, SlowSteps
  <1> QED
    BY <1>3, <1>4

LEMMA OtherKeepsData ==
  ASSUME Control, ListOK, Data, NEW p \in Procs,
         Lock(p) \/ DeleteRemove(p) \/ LenCall(p) \/ SizeBytes(p) \/ Close(p) \/ Recover(p)
  PROVE  Data'
  <1>1. UNCHANGED <<index, cellVars>>
    BY DEF Lock, DeleteRemove, LenCall, SizeBytes, Close, Recover, mapVars
  <1>2. ToSet(ring') \subseteq ToSet(ring) /\ UNCHANGED held
    <2>1. UNCHANGED clockVars \/ CP!RemoveEntry(mine[p])
      BY DEF Lock, DeleteRemove, LenCall, SizeBytes, Close, Recover
    <2> QED
      BY <2>1, PolicyList, PolicyKeepsReaders DEF clockVars
  <1>3. CASE Done(p) \/ Panic(p)
    BY <1>1, <1>2, <1>3, EndKeepsData
  <1>4. CASE ~(Done(p) \/ Panic(p))
    <2>1. \E to \in {"locked", "clock = nil", "genRing = nil"} : Goto(p, to)
      BY <1>4 DEF Lock, DeleteRemove, LenCall, SizeBytes, Close, Recover
    <2>2. UNCHANGED <<arg, mine>>
      BY <1>4 DEF Lock, DeleteRemove, LenCall, SizeBytes, Close, Recover, Stay, callVars
    <2> QED
      BY <1>1, <1>2, <2>1, <2>2, MoveKeepsData DEF Steps, GetSteps, FastSteps, SlowSteps, cellVars
  <1> QED
    BY <1>3, <1>4

LEMMA StepKeepsData ==
  ASSUME Control, RingOK, CellTypes, ListOK, Data, NEW p \in Procs, Call(p) \/ Step(p)
  PROVE  Data'
  BY CallKeepsData, LookupKeepsData, FirstHalfKeepsData, UpdateValueKeepsData, PutNewKeepsData,
     PutIndexKeepsData, PutInsertKeepsData, SecondHalfKeepsData, DeleteKeepsData, OtherKeepsData
  DEF Step, Get, Put, PutFast, PutSlow

LEMMA InitData == Init => Data
  <1> SUFFICES ASSUME Init PROVE Data
    OBVIOUS
  <1>1. Reachable \subseteq {None} /\ None \notin Entries
    BY NoneAssumption DEF Init, CP!Init, Reachable, Indexed, ToSet
  <1>2. \A p \in Procs : KeysOf(p)
    BY DEF Init, KeysOf, GetSteps, FastSteps, SlowSteps
  <1>3. IndexSound
    BY DEF Init, IndexSound
  <1> QED
    BY <1>1, <1>2, <1>3 DEF Data, Valued

(* Every entry in the index has a value and a key of its hash, and every   *)
(* goroutine works on an entry of its own key.                             *)
THEOREM DataCorrect == Spec => []Data
<1>1. Control /\ RingOK /\ CellTypes /\ ListOK /\ Data /\ [Next]_vars => Data'
  <2> SUFFICES ASSUME Control, RingOK, CellTypes, ListOK, Data, [Next]_vars PROVE Data'
    OBVIOUS
  <2>1. CASE UNCHANGED vars
    <3>1. UNCHANGED <<index, key, vptr, ring, at, arg, mine, held>>
      BY <2>1 DEF vars, mapVars, cellVars, clockVars, callVars
    <3>2. Reachable' = Reachable /\ Indexed' = Indexed
      BY <3>1 DEF Reachable, Indexed
    <3>3. \A p \in Procs : KeysOf(p)'
      BY <3>1, <3>2 DEF Data, KeysOf, Private, h
    <3>4. Valued' /\ IndexSound'
      BY <3>1, <3>2 DEF Data, Valued, IndexSound
    <3> QED
      BY <3>3, <3>4 DEF Data
  <2> QED
    BY <2>1, StepKeepsData DEF Next
<1> QED
  BY <1>1, InitData, ControlCorrect, RingCorrect, CellsCorrect, ListCorrect, PTL DEF Spec

-----------------------------------------------------------------------------
(* What a step of one goroutine leaves alone of the others.                *)
LEMMA OthersLemma ==
  ASSUME Control, CellTypes, NEW p \in Procs, Call(p) \/ Step(p)
  PROVE  /\ \A q \in Procs \ {p} :
              /\ mine'[q] = mine[q] /\ arg'[q] = arg[q] /\ got'[q] = got[q]
              /\ held'[q] = held[q] /\ byte'[q] = byte[q]
         /\ \/ \A q \in Procs \ {p} : at'[q] = at[q]
            \/ /\ PutIndex(p) \/ Delete(p)
               /\ \A q \in Procs : readers[q] = 0 /\ at'[q] = "killed"
  <1> USE DEF Control, ControlTypes
  <1>1. ASSUME NEW q \in Procs \ {p} PROVE mine'[q] = mine[q]
    <2>1. CASE Call(p) \/ Get(p) \/ PutLookup(p) \/ PutFast(p)
      BY <2>1 DEF Call, Get, GetLookup, GetMark, GetDeref, GetReturn, PutLookup, PutFast,
             UpdateAlloc, UpdateValue, UpdateWeight, UpdateGen, Done, Stay, Panic, callVars
    <2>2. CASE PutSlow(p)
      BY <2>2 DEF PutSlow, PutNew, PutIndex, PutInsert, PutSweep, PutCharge, Rotate, RotateTell,
             PutReturn, Done, Stay, Panic, PanicUnlocking, callVars
    <2>3. CASE \/ Lock(p) \/ Delete(p) \/ DeleteRemove(p) \/ LenCall(p) \/ SizeBytes(p)
               \/ Close(p) \/ Recover(p)
      BY <2>3 DEF Lock, Delete, DeleteRemove, LenCall, SizeBytes, Close, Recover, Done, Stay,
             Panic, callVars
    <2> QED
      BY <2>1, <2>2, <2>3 DEF Step, Put
  <1>2. ASSUME NEW q \in Procs \ {p} PROVE arg'[q] = arg[q]
    <2>1. CASE Call(p) \/ Get(p) \/ PutLookup(p) \/ PutFast(p)
      BY <2>1 DEF Call, Get, GetLookup, GetMark, GetDeref, GetReturn, PutLookup, PutFast,
             UpdateAlloc, UpdateValue, UpdateWeight, UpdateGen, Done, Stay, Panic, callVars
    <2>2. CASE PutSlow(p)
      BY <2>2 DEF PutSlow, PutNew, PutIndex, PutInsert, PutSweep, PutCharge, Rotate, RotateTell,
             PutReturn, Done, Stay, Panic, PanicUnlocking, callVars
    <2>3. CASE \/ Lock(p) \/ Delete(p) \/ DeleteRemove(p) \/ LenCall(p) \/ SizeBytes(p)
               \/ Close(p) \/ Recover(p)
      BY <2>3 DEF Lock, Delete, DeleteRemove, LenCall, SizeBytes, Close, Recover, Done, Stay,
             Panic, callVars
    <2> QED
      BY <2>1, <2>2, <2>3 DEF Step, Put
  <1>3. ASSUME NEW q \in Procs \ {p} PROVE got'[q] = got[q]
    <2> USE DEF CellTypes
    <2>1. CASE Call(p) \/ Get(p) \/ PutLookup(p) \/ PutFast(p)
      BY <2>1 DEF Call, Get, GetLookup, GetMark, GetDeref, GetReturn, PutLookup, PutFast,
             UpdateAlloc, UpdateValue, UpdateWeight, UpdateGen, Done, Stay, Panic, callVars
    <2>2. CASE PutSlow(p)
      BY <2>2 DEF PutSlow, PutNew, PutIndex, PutInsert, PutSweep, PutCharge, Rotate,
             RotateTell, PutReturn, Done, Stay, Panic, PanicUnlocking, callVars
    <2>3. CASE \/ Lock(p) \/ Delete(p) \/ DeleteRemove(p) \/ LenCall(p) \/ SizeBytes(p)
               \/ Close(p) \/ Recover(p)
      BY <2>3 DEF Lock, Delete, DeleteRemove, LenCall, SizeBytes, Close, Recover, Done,
             Stay, Panic, callVars
    <2> QED
      BY <2>1, <2>2, <2>3 DEF Step, Put
  <1>4. ASSUME NEW q \in Procs \ {p} PROVE held'[q] = held[q] /\ byte'[q] = byte[q]
    <2>1. CASE GetLookup(p) \/ GetMark(p)
      BY <2>1 DEF GetLookup, GetMark, CP!Find, CP!LoadState, CP!StoreState, clockVars
    <2>2. CASE Call(p) \/ GetDeref(p) \/ GetReturn(p) \/ PutLookup(p) \/ PutFast(p)
      BY <2>2, PolicyKeepsReaders
      DEF Call, GetDeref, GetReturn, PutLookup, PutFast, UpdateAlloc, UpdateValue, UpdateWeight,
          UpdateGen, clockVars
    <2>3. CASE PutSlow(p)
      BY <2>3, PolicyKeepsReaders
      DEF PutSlow, PutNew, PutIndex, PutInsert, PutSweep, PutCharge, Rotate, RotateTell,
          PutReturn, clockVars
    <2>4. CASE \/ Lock(p) \/ Delete(p) \/ DeleteRemove(p) \/ LenCall(p) \/ SizeBytes(p)
               \/ Close(p) \/ Recover(p)
      BY <2>4, PolicyKeepsReaders
      DEF Lock, Delete, DeleteRemove, LenCall, SizeBytes, Close, Recover, clockVars
    <2> QED
      BY <2>1, <2>2, <2>3, <2>4 DEF Step, Put, Get
  <1>5. ASSUME ~(PutIndex(p) \/ Delete(p))
        PROVE  \A q \in Procs \ {p} : at'[q] = at[q]
    <2>1. CASE Call(p)
      <3>1. \E c \in CallsOf[p] :
              CASE c.op \in {"get", "put", "len"} -> Goto(p, "reading") /\ Mu!RLock(p)
                [] c.op = "delete" -> Goto(p, "lock") /\ UNCHANGED lockVars
                [] c.op = "size"   -> Goto(p, "iterating") /\ UNCHANGED lockVars
                [] c.op = "close"  -> Goto(p, "index = nil") /\ UNCHANGED lockVars
        BY <2>1 DEF Call
      <3>2. \A c \in CallsOf[p] : c.op \in Ops
        BY ShardAssumption DEF CallSet
      <3>3. \E a : Goto(p, a)
        BY <3>1, <3>2 DEF Ops
      <3> QED
        BY <3>3 DEF Goto
    <2>2. CASE Get(p) \/ PutLookup(p) \/ PutFast(p)
      BY <2>2 DEF Get, GetLookup, GetMark, GetDeref, GetReturn, PutLookup, PutFast,
             UpdateAlloc, UpdateValue, UpdateWeight, UpdateGen, Done, Panic, Goto
    <2>3. CASE PutSlow(p)
      BY <1>5, <2>3 DEF PutSlow, PutNew, PutInsert, PutSweep, PutCharge, Rotate, RotateTell,
             PutReturn, Done, Panic, PanicUnlocking, Goto
    <2>4. CASE \/ Lock(p) \/ DeleteRemove(p) \/ LenCall(p) \/ SizeBytes(p)
               \/ Close(p) \/ Recover(p)
      BY <2>4 DEF Lock, DeleteRemove, LenCall, SizeBytes, Close, Recover, Done, Panic, Goto
    <2> QED
      BY <1>5, <2>1, <2>2, <2>3, <2>4 DEF Step, Put
  <1>6. ASSUME PutIndex(p) \/ Delete(p)
        PROVE  \/ \A q \in Procs \ {p} : at'[q] = at[q]
               \/ \A q \in Procs : readers[q] = 0 /\ at'[q] = "killed"
    <2>1. \A q \in Procs : readers[q] = 0
      BY <1>6 DEF PutIndex, Delete, Locked, Mu!HoldsWrite, LocksOf, SlowSteps
    <2>2. \/ \E a : Goto(p, a)
          \/ at' = [q \in Procs |-> "killed"]
      BY <1>6 DEF PutIndex, Delete, MapWrite, Done, Panic, PanicUnlocking
    <2> QED
      BY <2>1, <2>2 DEF Goto
  <1> QED
    BY <1>1, <1>2, <1>3, <1>4, <1>5, <1>6

-----------------------------------------------------------------------------
(* The generation of an entry, genID, is that of its value unless a Put is *)
(* just updating the two; then the value is already in the active one.     *)
Owned ==
  \A e \in Entries :
    vptr[e] # None /\ vptr[e].gen # None /\ ~Updated(e) => vptr[e].gen = genID[e]

Tagged ==
  \A p \in Procs : at[p] \in {"weigh", "tag"} =>
    vptr[mine[p]] # None /\ vptr[mine[p]].gen = GR!Active.id

Fresh ==
  \A p \in Procs : at[p] \in {"index it", "insert"} =>
    vptr[mine[p]] # None /\ vptr[mine[p]].gen # None

Ownership == Owned /\ Tagged /\ Fresh

LEMMA NoReaderUpdates ==
  ASSUME Control, \A q \in Procs : readers[q] = 0
  PROVE  \A q \in Procs : at[q] \notin FastSteps
  <1> TAKE q \in Procs
  <1>1. LocksOf(q) /\ ~(readers[q] > 0)
    BY DEF Control
  <1> QED
    BY <1>1 DEF LocksOf

(* A step that writes no value and no generation.                          *)
LEMMA OwnershipFrame ==
  ASSUME Control, CellTypes, Ownership, NEW p \in Procs, Call(p) \/ Step(p),
         UNCHANGED <<vptr, genID>>, at[p] \notin {"weigh", "tag"},
         at'[p] \notin {"weigh", "tag", "index it"},
         at'[p] = "insert" => at[p] = "index it" /\ mine'[p] = mine[p],
         (gens' = gens /\ activeIdx' = activeIdx) \/ \A q \in Procs : at[q] \notin {"weigh", "tag"}
  PROVE  Ownership'
  <1>1. /\ \A q \in Procs \ {p} : mine'[q] = mine[q]
        /\ \/ \A q \in Procs \ {p} : at'[q] = at[q]
           \/ \A q \in Procs : readers[q] = 0 /\ at'[q] = "killed"
    BY OthersLemma
  <1>2. CASE \A q \in Procs \ {p} : at'[q] = at[q]
    <2>1. \A e \in Entries : Updated(e)' <=> Updated(e)
      BY <1>1, <1>2 DEF Updated
    <2>2. Owned'
      BY <2>1 DEF Ownership, Owned
    <2>3. Tagged'
      BY <1>1, <1>2 DEF Ownership, Tagged, GR!Active
    <2>4. Fresh'
      BY <1>1, <1>2 DEF Ownership, Fresh
    <2> QED
      BY <2>2, <2>3, <2>4 DEF Ownership
  <1>3. CASE \A q \in Procs : readers[q] = 0 /\ at'[q] = "killed"
    <2>1. \A q \in Procs : at[q] \notin {"weigh", "tag"}
      BY <1>3, NoReaderUpdates DEF FastSteps
    <2> QED
      BY <1>3, <2>1 DEF Ownership, Owned, Tagged, Fresh, Updated
  <1> QED
    BY <1>1, <1>2, <1>3

LEMMA NewCell ==
  ASSUME RingOK, NEW v \in Vals
  PROVE  /\ [val |-> v, gen |-> GR!Active.id] \in Cells
         /\ GR!Active.id \in Ids /\ None \notin Cells /\ None \notin Ids
  BY ActiveId, NoneAssumption DEF Cells, Ids

LEMMA FastKeepsOwnership ==
  ASSUME Control, RingOK, CellTypes, Ownership, NEW p \in Procs,
         UpdateValue(p) \/ UpdateWeight(p) \/ UpdateGen(p)
  PROVE  Ownership'
  <1>0. /\ mine[p] \in Entries /\ None \notin Entries
        /\ \A q \in Procs : at[q] \notin {"index it", "insert"}
    <2>1. at[p] \in FastSteps
      BY DEF UpdateValue, UpdateWeight, UpdateGen, FastSteps
    <2>2. readers[p] > 0 /\ mine[p] \in Entries
      BY <2>1 DEF Control, LocksOf, CallOf
    <2> QED
      BY <2>2, ReaderExcludes, NoneAssumption DEF SlowSteps
  <1>1. \A q \in Procs \ {p} : mine'[q] = mine[q] /\ at'[q] = at[q]
    <2>1. \A q \in Procs \ {p} : mine'[q] = mine[q]
      BY OthersLemma DEF Step, Put, PutFast
    <2>2. \A q \in Procs \ {p} : at'[q] = at[q]
      BY DEF UpdateValue, UpdateWeight, UpdateGen, Goto, Done, Control, ControlTypes
    <2> QED
      BY <2>1, <2>2
  <1>2. UNCHANGED ringVars /\ GR!Active' = GR!Active
    BY DEF UpdateValue, UpdateWeight, UpdateGen, ringVars, GR!Active
  <1>3. CASE UpdateValue(p)
    <2>1. PICK v \in lot[p] :
            vptr' = [vptr EXCEPT ![mine[p]] = [val |-> v, gen |-> GR!Active.id]]
      BY <1>3 DEF UpdateValue
    <2>2. /\ at[p] = "allocating" /\ at'[p] = "weigh"
          /\ UNCHANGED <<genID, mine>>
      BY <1>3 DEF UpdateValue, callVars, clockVars, Goto, Control, ControlTypes
    <2>3. /\ [val |-> v, gen |-> GR!Active.id] \in Cells
          /\ GR!Active.id \in Ids /\ None \notin Cells /\ None \notin Ids
      BY NewCell DEF Control, ControlTypes
    <2>4. /\ vptr'[mine[p]] # None /\ vptr'[mine[p]].gen = GR!Active.id
          /\ \A e \in Entries \ {mine[p]} : vptr'[e] = vptr[e]
      BY <1>0, <2>1, <2>3 DEF CellTypes
    <2>5. Owned'
      <3> SUFFICES ASSUME NEW e \in Entries, vptr'[e] # None, vptr'[e].gen # None, ~Updated(e)'
                   PROVE  vptr'[e].gen = genID[e]
        BY <2>2 DEF Owned
      <3>1. e # mine[p] /\ ~Updated(e)
        BY <1>1, <2>2 DEF Updated
      <3> QED
        BY <2>4, <3>1 DEF Ownership, Owned
    <2>6. Tagged'
      <3> SUFFICES ASSUME NEW q \in Procs, at'[q] \in {"weigh", "tag"}
                   PROVE  vptr'[mine[q]] # None /\ vptr'[mine[q]].gen = GR!Active.id
        BY <1>2, <2>2 DEF Tagged
      <3>1. CASE mine[q] = mine[p]
        BY <2>4, <3>1
      <3>2. CASE mine[q] # mine[p]
        <4>1. q # p /\ at[q] \in {"weigh", "tag"}
          BY <1>1, <3>2
        <4>2. mine[q] \in Entries
          BY <4>1 DEF Control, CallOf, FastSteps
        <4> QED
          BY <2>4, <3>2, <4>1, <4>2 DEF Ownership, Tagged
      <3> QED
        BY <3>1, <3>2
    <2>7. Fresh'
      BY <1>0, <1>1, <2>2 DEF Fresh
    <2> QED
      BY <2>5, <2>6, <2>7 DEF Ownership
  <1>4. CASE UpdateWeight(p)
    <2>1. /\ at[p] = "weigh" /\ at'[p] = "tag" /\ UNCHANGED <<vptr, mine>>
      BY <1>4 DEF UpdateWeight, Stay, callVars, cellVars, Goto, Control, ControlTypes
    <2>2. genID' = [genID EXCEPT ![mine[p]] = genID[mine[p]]]
      BY <1>4 DEF UpdateWeight, CP!Update
    <2>3. genID' = genID
      BY <2>2 DEF CellTypes
    <2>4. \A e \in Entries : Updated(e)' <=> Updated(e)
      BY <1>1, <2>1 DEF Updated
    <2>5. Owned'
      BY <2>1, <2>3, <2>4 DEF Ownership, Owned
    <2>6. Tagged'
      BY <1>1, <1>2, <2>1 DEF Ownership, Tagged
    <2>7. Fresh'
      BY <1>0, <1>1, <2>1 DEF Fresh
    <2> QED
      BY <2>5, <2>6, <2>7 DEF Ownership
  <1>5. CASE UpdateGen(p)
    <2>1. /\ at[p] = "tag" /\ at'[p] = "idle" /\ UNCHANGED vptr
      BY <1>5 DEF UpdateGen, Done, cellVars, Goto, Control, ControlTypes
    <2>2. genID' = [genID EXCEPT ![mine[p]] = GR!Active.id]
      BY <1>5 DEF UpdateGen, CP!Update
    <2>3. /\ vptr[mine[p]].gen = GR!Active.id /\ genID'[mine[p]] = GR!Active.id
          /\ \A e \in Entries \ {mine[p]} : genID'[e] = genID[e]
      BY <1>0, <2>1, <2>2 DEF Ownership, Tagged, CellTypes
    <2>4. \A e \in Entries \ {mine[p]} : Updated(e)' <=> Updated(e)
      BY <1>1, <2>1 DEF Updated
    <2>5. Owned'
      <3> SUFFICES ASSUME NEW e \in Entries, vptr[e] # None, vptr[e].gen # None, ~Updated(e)'
                   PROVE  vptr[e].gen = genID'[e]
        BY <2>1 DEF Owned
      <3> QED
        BY <2>3, <2>4 DEF Ownership, Owned
    <2>6. Tagged'
      BY <1>1, <1>2, <2>1 DEF Ownership, Tagged
    <2>7. Fresh'
      BY <1>0, <1>1, <2>1 DEF Fresh
    <2> QED
      BY <2>5, <2>6, <2>7 DEF Ownership
  <1> QED
    BY <1>3, <1>4, <1>5

LEMMA PutNewKeepsOwnership ==
  ASSUME Control, RingOK, CellTypes, Ownership, NEW p \in Procs, PutNew(p)
  PROVE  Ownership'
  <1>1. /\ at[p] = "locked" /\ Doing(p, "put") /\ UNCHANGED ringVars
        /\ \A q \in Procs : readers[q] = 0
    BY DEF PutNew, Locked, Mu!HoldsWrite
  <1>2. \A q \in Procs \ {p} : at[q] \notin SlowSteps \cup FastSteps
    BY <1>1, Alone
  <1>3. /\ \A q \in Procs \ {p} : mine'[q] = mine[q] /\ at'[q] = at[q]
    BY OthersLemma DEF PutNew, Goto, PanicUnlocking, Panic, Control, ControlTypes, Step, Put, PutSlow
  <1>4. CASE Panic(p) /\ UNCHANGED <<clockVars, cellVars>>
    <2>1. at'[p] = "panicked" /\ UNCHANGED <<vptr, genID>>
      BY <1>4 DEF Panic, Goto, Control, ControlTypes, clockVars, cellVars
    <2>2. gens' = gens /\ activeIdx' = activeIdx
      BY <1>1 DEF ringVars
    <2> QED
      BY <1>1, <2>1, <2>2, OwnershipFrame DEF Step, Put, PutSlow
  <1>5. CASE ~(Panic(p) /\ UNCHANGED <<clockVars, cellVars>>)
    <2>1. PICK e \in Entries \ Reachable :
            /\ vptr' = [vptr EXCEPT ![e] = [val |-> arg[p].val, gen |-> GR!Active.id]]
            /\ CP!Update(e, uint32(arg[p].weight), GR!Active.id)
            /\ mine' = [mine EXCEPT ![p] = e]
      BY <1>5 DEF PutNew, PanicUnlocking
    <2>2. /\ at'[p] = "index it" /\ mine'[p] = e
          /\ genID' = [genID EXCEPT ![e] = GR!Active.id]
      BY <1>5, <2>1 DEF PutNew, PanicUnlocking, CP!Update, Goto, Control, ControlTypes
    <2>3. /\ [val |-> arg[p].val, gen |-> GR!Active.id] \in Cells
          /\ GR!Active.id \in Ids /\ None \notin Cells /\ None \notin Ids
      BY <1>1, Uint32, NewCell
    <2>4. /\ vptr'[e] # None /\ vptr'[e].gen = GR!Active.id /\ genID'[e] = GR!Active.id
          /\ vptr'[e].gen # None
          /\ \A f \in Entries \ {e} : genID'[f] = genID[f] /\ vptr'[f] = vptr[f]
      BY <2>1, <2>2, <2>3 DEF CellTypes
    <2>5. \A f \in Entries : ~Updated(f)
      BY <1>1, <1>2 DEF Updated, FastSteps
    <2>6. \A q \in Procs : at'[q] \notin {"weigh", "tag", "insert"}
      BY <1>2, <1>3, <2>2 DEF FastSteps, SlowSteps
    <2>7. Owned'
      BY <2>4, <2>5 DEF Ownership, Owned
    <2>8. Tagged'
      BY <2>6 DEF Tagged
    <2>9. Fresh'
      BY <1>2, <1>3, <2>2, <2>4 DEF Fresh, SlowSteps
    <2> QED
      BY <2>7, <2>8, <2>9 DEF Ownership
  <1> QED
    BY <1>4, <1>5

LEMMA SecondHalfKeepsOwnership ==
  ASSUME Control, CellTypes, Ownership, NEW p \in Procs,
         \/ PutIndex(p) \/ PutInsert(p) \/ PutSweep(p) \/ PutCharge(p) \/ Rotate(p)
         \/ RotateTell(p) \/ PutReturn(p)
  PROVE  Ownership'
  <1>0. Step(p) /\ at[p] \in SlowSteps /\ mine[p] \in Entries
    BY DEF Step, Put, PutSlow, PutIndex, PutInsert, PutSweep, PutCharge, Rotate, RotateTell,
           PutReturn, SlowSteps, Control, CallOf
  <1>1. /\ \A q \in Procs : readers[q] = 0
        /\ \A q \in Procs \ {p} : at[q] \notin SlowSteps \cup FastSteps
    BY <1>0, Exclusive
  <1>2. \A q \in Procs : at[q] \notin {"weigh", "tag"}
    BY <1>0, <1>1 DEF SlowSteps, FastSteps
  <1>3. CASE vptr' = vptr
    <2>1. genID' = genID
      <3>1. CASE PutInsert(p)
        <4>1. genID' = genID \/ genID' = [genID EXCEPT ![mine[p]] = genID[mine[p]]]
          BY <3>1 DEF PutInsert, CP!Insert, clockVars
        <4> QED
          BY <4>1 DEF CellTypes
      <3>2. CASE ~PutInsert(p)
        BY <3>2, PolicyKeepsWeights DEF PutIndex, PutSweep, PutCharge, Rotate, RotateTell, PutReturn
      <3> QED
        BY <3>1, <3>2
    <2>2. /\ at'[p] \notin {"weigh", "tag", "index it"}
          /\ at'[p] = "insert" => at[p] = "index it" /\ mine'[p] = mine[p]
      BY DEF PutIndex, MapWrite, PutInsert, PutSweep, PutCharge, Rotate, RotateTell, PutReturn, Goto,
             Done, Stay, Panic, PanicUnlocking, callVars, Control, ControlTypes
    <2> QED
      BY <1>0, <1>2, <1>3, <2>1, <2>2, OwnershipFrame
  <1>4. CASE vptr' # vptr
    <2>1. Rotate(p) /\ Goto(p, "tell") /\ \E g : vptr' = Freed(g)
      BY <1>4 DEF PutIndex, PutInsert, PutSweep, PutCharge, Rotate, RotateTell, PutReturn, cellVars
    <2>2. genID' = genID
      BY <2>1 DEF Rotate, clockVars
    <2>3. ASSUME NEW g, NEW e \in Entries, Freed(g)[e] # None, Freed(g)[e].gen # None
          PROVE  vptr[e] # None /\ Freed(g)[e] = vptr[e]
      <3>1. CASE vptr[e] # None /\ vptr[e].gen = g
        <4>1. Freed(g)[e] = [vptr[e] EXCEPT !.gen = None] /\ vptr[e] \in Cells
          BY <3>1 DEF Freed, CellTypes
        <4>2. Freed(g)[e].gen = None
          BY <4>1 DEF Cells
        <4> QED
          BY <2>3, <4>2
      <3>2. CASE ~(vptr[e] # None /\ vptr[e].gen = g)
        BY <2>3, <3>2 DEF Freed
      <3> QED
        BY <3>1, <3>2
    <2>4. \A q \in Procs : at'[q] \notin {"weigh", "tag", "index it", "insert"}
      BY <1>1, <2>1 DEF Goto, Control, ControlTypes, SlowSteps, FastSteps
    <2>5. Owned'
      BY <1>2, <2>1, <2>2, <2>3 DEF Ownership, Owned, Updated
    <2> QED
      BY <2>4, <2>5 DEF Ownership, Tagged, Fresh
  <1> QED
    BY <1>3, <1>4

LEMMA OtherKeepsOwnership ==
  ASSUME Control, CellTypes, Ownership, NEW p \in Procs,
         \/ Call(p) \/ Get(p) \/ PutLookup(p) \/ UpdateAlloc(p) \/ Lock(p) \/ Delete(p)
         \/ DeleteRemove(p) \/ LenCall(p) \/ SizeBytes(p) \/ Close(p) \/ Recover(p)
  PROVE  Ownership'
  <1>1. Call(p) \/ Step(p)
    BY DEF Step, Put, PutFast
  <1>2. UNCHANGED <<vptr, gens, activeIdx>>
    BY DEF Call, Get, GetLookup, GetMark, GetDeref, GetReturn, PutLookup, UpdateAlloc, Lock,
           Delete, DeleteRemove, LenCall, SizeBytes, Close, Recover, cellVars, ringVars
  <1>3. UNCHANGED genID
    BY PolicyKeepsWeights
    DEF Call, Get, GetLookup, GetMark, GetDeref, GetReturn, PutLookup, UpdateAlloc, Lock,
        Delete, DeleteRemove, LenCall, SizeBytes, Close, Recover
  <1>4. at[p] \notin {"weigh", "tag"}
    BY DEF Call, Get, GetLookup, GetMark, GetDeref, GetReturn, PutLookup, UpdateAlloc, Lock,
           Delete, DeleteRemove, LenCall, SizeBytes, Close, Recover, Reading, Locked
  <1>5. at'[p] \notin {"weigh", "tag", "index it", "insert"}
    <2>1. CASE Call(p)
      <3>1. \E c \in CallsOf[p] :
              CASE c.op \in {"get", "put", "len"} -> Goto(p, "reading") /\ Mu!RLock(p)
                [] c.op = "delete" -> Goto(p, "lock") /\ UNCHANGED lockVars
                [] c.op = "size"   -> Goto(p, "iterating") /\ UNCHANGED lockVars
                [] c.op = "close"  -> Goto(p, "index = nil") /\ UNCHANGED lockVars
        BY <2>1 DEF Call
      <3>2. \A c \in CallsOf[p] : c.op \in Ops
        BY ShardAssumption DEF CallSet
      <3>3. \E a \in {"reading", "lock", "iterating", "index = nil"} : Goto(p, a)
        BY <3>1, <3>2 DEF Ops
      <3> QED
        BY <3>3 DEF Goto, Control, ControlTypes
    <2>2. CASE Get(p) \/ PutLookup(p) \/ UpdateAlloc(p)
      <3>1. GetMark(p) => at'[p] \in {"mark", "deref"}
        BY DEF GetMark, Goto, Control, ControlTypes
      <3> QED
        BY <2>2, <3>1 DEF Get, GetLookup, GetDeref, GetReturn, PutLookup, UpdateAlloc, Done, Panic,
             Goto, Control, ControlTypes
    <2>3. CASE \/ Lock(p) \/ Delete(p) \/ DeleteRemove(p) \/ LenCall(p) \/ SizeBytes(p) \/ Close(p)
               \/ Recover(p)
      BY <2>3 DEF Lock, Delete, MapWrite, DeleteRemove, LenCall, SizeBytes, Close, Recover, Done,
           Panic, Goto, Control, ControlTypes
    <2> QED
      BY <2>1, <2>2, <2>3
  <1> QED
    BY <1>1, <1>2, <1>3, <1>4, <1>5, OwnershipFrame

LEMMA StepKeepsOwnership ==
  ASSUME Control, RingOK, CellTypes, Ownership, NEW p \in Procs, Call(p) \/ Step(p)
  PROVE  Ownership'
  BY FastKeepsOwnership, PutNewKeepsOwnership, SecondHalfKeepsOwnership, OtherKeepsOwnership
  DEF Step, Put, PutFast, PutSlow

LEMMA InitOwnership == Init => Ownership
  BY DEF Init, Ownership, Owned, Tagged, Fresh

(* The generation of an entry and of its value move together.              *)
THEOREM OwnershipCorrect == Spec => []Ownership
<1>1. Control /\ RingOK /\ CellTypes /\ Ownership /\ [Next]_vars => Ownership'
  <2> SUFFICES ASSUME Control, RingOK, CellTypes, Ownership, [Next]_vars PROVE Ownership'
    OBVIOUS
  <2>1. CASE UNCHANGED vars
    BY <2>1 DEF vars, cellVars, clockVars, ringVars, callVars, Ownership, Owned, Tagged, Fresh,
         Updated, GR!Active
  <2> QED
    BY <2>1, StepKeepsOwnership DEF Next
<1> QED
  BY <1>1, InitOwnership, ControlCorrect, RingCorrect, CellsCorrect, PTL DEF Spec

(* OwnedByGeneration: genID is the generation that owns the value, of      *)
(* every entry in the index that no Put is just updating                   *)
(* (pkg/cache.go:64).                                                      *)
THEOREM OwnedCorrect == Spec => []OwnedByGeneration
<1>1. Control /\ Data /\ Ownership => OwnedByGeneration
  <2> SUFFICES ASSUME Control, Data, Ownership, NEW e \in Indexed
               PROVE  ~Updated(e) /\ vptr[e].gen # None => vptr[e].gen = genID[e]
    BY DEF OwnedByGeneration
  <2>1. e \in Entries \cap Reachable
    BY DEF Indexed, Reachable, Control, ControlTypes
  <2> QED
    BY <2>1 DEF Data, Valued, Ownership, Owned
<1> QED
  BY <1>1, ControlCorrect, DataCorrect, OwnershipCorrect, PTL

-----------------------------------------------------------------------------
(* What a get returns is in its window: what its key has led to since the  *)
(* call.  Its entry may have left the index in the meantime; but whoever   *)
(* writes to it writes a value of the same key, and shows it.              *)
Shown(p) ==
  /\ at[p] = "reading" /\ Doing(p, "get") =>
       Value(arg[p].key) = None \/ Value(arg[p].key) \in window[p]
  /\ at[p] \in {"mark", "deref"} => vptr[mine[p]] # None /\ vptr[mine[p]].val \in window[p]
  /\ at[p] = "return" => got[p] # None /\ got[p].val \in window[p]

Windows ==
  /\ window \in [Procs -> SUBSET (Vals \cup {None})]
  /\ \A p \in Procs : Shown(p)

Watching == {"mark", "deref", "return", "reading"}

(* A value stays what it is, as long as the entry can be reached.          *)
SameValue(e) ==
  /\ key'[e] = key[e]
  /\ vptr[e] # None => vptr'[e] # None /\ vptr'[e].val = vptr[e].val

LEMMA ValueType ==
  ASSUME Control, CellTypes, Data, NEW k \in Keys
  PROVE  /\ HashOf[k] \in Hashes
         /\ Value(k) \in Vals \cup {None}
         /\ index[HashOf[k]] # None =>
              /\ index[HashOf[k]] \in Entries \cap Reachable
              /\ vptr[index[HashOf[k]]] \in Cells
  <1>1. HashOf[k] \in Hashes
    BY ShardAssumption
  <1>2. index[HashOf[k]] # None => index[HashOf[k]] \in Entries \cap Reachable
    BY <1>1 DEF Control, ControlTypes, Reachable, Indexed
  <1>3. index[HashOf[k]] # None => vptr[index[HashOf[k]]] \in Cells
    BY <1>2 DEF Data, Valued, CellTypes
  <1>4. Value(k) \in Vals \cup {None}
    BY <1>3 DEF Value, Cells
  <1> QED
    BY <1>1, <1>2, <1>3, <1>4

LEMMA ValueFrame ==
  ASSUME Control, CellTypes, Data, \A e \in Entries \cap Reachable : SameValue(e),
         \A x \in Hashes : index'[x] \in {index[x], None},
         NEW k \in Keys
  PROVE  Value(k)' \in {Value(k), None}
  <1>1. index'[HashOf[k]] \in {index[HashOf[k]], None}
    BY ValueType
  <1>2. index[HashOf[k]] # None =>
          /\ SameValue(index[HashOf[k]])
          /\ vptr[index[HashOf[k]]] # None
    BY ValueType, NoneAssumption DEF Cells
  <1> QED
    BY <1>1, <1>2 DEF Value, SameValue

LEMMA WindowsFrame ==
  ASSUME Control, CellTypes, Data, Windows, NEW p \in Procs, Call(p) \/ Step(p),
         \A e \in Entries \cap Reachable : SameValue(e),
         \A x \in Hashes : index'[x] \in {index[x], None},
         window' \in [Procs -> SUBSET (Vals \cup {None})],
         \A q \in Procs \ {p} : window'[q] = window[q],
         Shown(p)'
  PROVE  Windows'
  <1> SUFFICES ASSUME NEW q \in Procs \ {p} PROVE Shown(q)'
    BY DEF Windows
  <1>1. /\ mine'[q] = mine[q] /\ arg'[q] = arg[q] /\ got'[q] = got[q] /\ window'[q] = window[q]
        /\ at'[q] \in {at[q], "killed"}
    BY OthersLemma
  <1>2. CASE at'[q] = "killed"
    BY <1>2 DEF Shown
  <1>3. CASE at'[q] = at[q]
    <2>1. Doing(q, "get") => Value(arg[q].key)' \in {Value(arg[q].key), None}
      <3> SUFFICES ASSUME Doing(q, "get")
                   PROVE  Value(arg[q].key)' \in {Value(arg[q].key), None}
        OBVIOUS
      <3>1. PICK k \in Keys : k = arg[q].key
        BY HashType DEF Doing
      <3>2. Value(k)' \in {Value(k), None}
        BY ValueFrame
      <3>3. Value(arg[q].key)' = Value(k)'
        BY <1>1, <3>1 DEF Value
      <3> QED
        BY <3>1, <3>2, <3>3
    <2>2. at[q] \in {"mark", "deref"} => SameValue(mine[q])
      BY DEF Control, CallOf, GetSteps, Reachable
    <2> QED
      BY <1>1, <1>3, <2>1, <2>2 DEF Windows, Shown, Doing, SameValue
  <1> QED
    BY <1>1, <1>2, <1>3

LEMMA CallKeepsWindows ==
  ASSUME Control, CellTypes, Data, Windows, NEW p \in Procs, Call(p)
  PROVE  Windows'
  <1>1. PICK c \in CallsOf[p] :
          /\ arg' = [arg EXCEPT ![p] = c]
          /\ window' = [window EXCEPT ![p] = IF c.op = "get" THEN {Value(c.key)} ELSE {}]
          /\ CASE c.op \in {"get", "put", "len"} -> Goto(p, "reading") /\ Mu!RLock(p)
               [] c.op = "delete" -> Goto(p, "lock") /\ UNCHANGED lockVars
               [] c.op = "size"   -> Goto(p, "iterating") /\ UNCHANGED lockVars
               [] c.op = "close"  -> Goto(p, "index = nil") /\ UNCHANGED lockVars
    BY DEF Call
  <1>2. c \in CallSet /\ c.key \in Keys /\ c.op \in Ops
    BY ShardAssumption DEF CallSet
  <1>3. \E a \in {"reading", "lock", "iterating", "index = nil"} : Goto(p, a)
    BY <1>1, <1>2 DEF Ops
  <1>4. UNCHANGED <<index, key, vptr>>
    BY DEF Call, mapVars, cellVars
  <1>5. Value(c.key)' = Value(c.key) /\ Value(c.key) \in Vals \cup {None}
    BY <1>2, <1>4, ValueType DEF Value
  <1>6. at'[p] \in {"reading", "lock", "iterating", "index = nil"} /\ arg'[p] = c
    BY <1>1, <1>3 DEF Goto, Control, ControlTypes
  <1>7. /\ window' \in [Procs -> SUBSET (Vals \cup {None})]
        /\ \A q \in Procs \ {p} : window'[q] = window[q]
        /\ c.op = "get" => window'[p] = {Value(c.key)}
    BY <1>1, <1>5 DEF Windows
  <1>8. Shown(p)'
    <2>1. Value(arg[p].key)' = Value(c.key)'
      BY <1>6 DEF Value
    <2> QED
      BY <1>5, <1>6, <1>7, <2>1 DEF Shown, Doing
  <1>9. \A e \in Entries \cap Reachable : SameValue(e)
    BY <1>4 DEF SameValue
  <1> QED
    BY <1>4, <1>7, <1>8, <1>9, WindowsFrame

LEMMA GetKeepsWindows ==
  ASSUME Control, CellTypes, Data, Windows, NEW p \in Procs, Get(p)
  PROVE  Windows'
  <1>1. UNCHANGED <<index, key, vptr>> /\ Step(p)
    BY DEF Get, GetLookup, GetMark, GetDeref, GetReturn, mapVars, cellVars, Step
  <1>2. \A e \in Entries \cap Reachable : SameValue(e)
    BY <1>1 DEF SameValue
  <1>3. CASE Done(p)
    <2>1. /\ window' \in [Procs -> SUBSET (Vals \cup {None})] /\ at'[p] = "idle"
          /\ \A q \in Procs \ {p} : window'[q] = window[q]
      BY <1>3 DEF Done, Goto, Windows, Control, ControlTypes
    <2> QED
      BY <1>1, <1>2, <2>1, WindowsFrame DEF Shown
  <1>4. CASE ~Done(p)
    <2>1. UNCHANGED <<window, arg>>
      BY <1>4 DEF Get, GetLookup, GetMark, GetDeref, GetReturn, Stay, callVars
    <2>2. Shown(p)'
      <3>1. CASE GetLookup(p)
        <4>1. /\ at[p] = "reading" /\ Doing(p, "get") /\ Known(p)
              /\ Goto(p, "mark") /\ mine' = [mine EXCEPT ![p] = Entry(p)]
          BY <1>4, <3>1 DEF GetLookup, Reading
        <4>2. at'[p] = "mark" /\ mine'[p] = Entry(p)
          BY <4>1 DEF Goto, Control, ControlTypes
        <4>3. /\ Entry(p) = index[h(p)] /\ Entry(p) \in Entries
              /\ key[Entry(p)] = arg[p].key /\ arg[p].key \in Keys
          BY <4>1, KnownLemma, HashType DEF Doing
        <4>4. vptr[Entry(p)] \in Cells /\ None \notin Entries \cup Cells \cup Vals
          BY <4>3, ValueType, NoneAssumption DEF h, Cells
        <4>5. Value(arg[p].key) = vptr[Entry(p)].val /\ vptr[Entry(p)].val \in Vals
          BY <4>3, <4>4 DEF Value, h, Cells
        <4>6. vptr[Entry(p)].val \in window[p] /\ vptr[Entry(p)] # None
          BY <4>1, <4>4, <4>5 DEF Windows, Shown
        <4> QED
          BY <1>1, <2>1, <4>2, <4>6 DEF Shown
      <3>2. CASE GetMark(p)
        <4>1. /\ at[p] = "mark" /\ at'[p] \in {"mark", "deref"} /\ UNCHANGED mine
          BY <3>2 DEF GetMark, Stay, callVars, Goto, Control, ControlTypes
        <4> QED
          BY <1>1, <2>1, <4>1 DEF Shown, Windows
      <3>3. CASE GetDeref(p)
        <4>1. at[p] = "deref" /\ at'[p] = "return" /\ got'[p] = vptr[mine[p]]
          BY <3>3 DEF GetDeref, Goto, Control, ControlTypes, CellTypes
        <4> QED
          BY <2>1, <4>1 DEF Shown, Windows
      <3> QED
        BY <1>4, <3>1, <3>2, <3>3 DEF Get, GetReturn
    <2> QED
      BY <1>1, <1>2, <2>1, <2>2, WindowsFrame DEF Windows
  <1> QED
    BY <1>3, <1>4

(* Who writes to an entry shows it to every get of its key.                *)
LEMMA UpdateValueKeepsWindows ==
  ASSUME Control, RingOK, CellTypes, Data, Windows, NEW p \in Procs, UpdateValue(p)
  PROVE  Windows'
  <1>1. PICK v \in lot[p] :
          /\ vptr' = [vptr EXCEPT ![mine[p]] = [val |-> v, gen |-> GR!Active.id]]
          /\ Show(arg[p].key, v)
    BY DEF UpdateValue
  <1>2. /\ at[p] = "allocating" /\ at'[p] = "weigh"
        /\ UNCHANGED <<index, key, arg, mine, got>>
    BY DEF UpdateValue, mapVars, callVars, Goto, Control, ControlTypes
  <1>3. v \in Vals /\ mine[p] \in Entries /\ key[mine[p]] = arg[p].key
    BY <1>2 DEF Control, ControlTypes, CallOf, FastSteps, Data, KeysOf
  <1>4. /\ [val |-> v, gen |-> GR!Active.id] \in Cells /\ None \notin Cells
    BY <1>3, NewCell
  <1>5. /\ vptr'[mine[p]] # None /\ vptr'[mine[p]].val = v
        /\ \A e \in Entries \ {mine[p]} : vptr'[e] = vptr[e]
    BY <1>1, <1>3, <1>4 DEF CellTypes
  <1>6. window' \in [Procs -> SUBSET (Vals \cup {None})]
    BY <1>1, <1>3 DEF Show, Windows
  <1>7. ASSUME NEW q \in Procs
        PROVE  /\ window[q] \subseteq window'[q]
               /\ Doing(q, "get") /\ arg[q].key = arg[p].key => v \in window'[q]
    BY <1>1 DEF Show, Windows, Doing
  <1>8. ASSUME NEW q \in Procs PROVE Shown(q)'
    <2>1. CASE q = p
      BY <1>2, <2>1 DEF Shown
    <2>2. CASE q # p
      <3>1. at'[q] = at[q]
        BY <2>2 DEF UpdateValue, Goto, Control, ControlTypes
      <3>2. ASSUME at[q] = "reading", Doing(q, "get")
            PROVE  Value(arg[q].key)' = None \/ Value(arg[q].key)' \in window'[q]
        <4> DEFINE e == index[HashOf[arg[q].key]]
        <4>1. CASE e = None \/ key[e] # arg[q].key
          BY <1>2, <4>1 DEF Value
        <4>2. CASE e # None /\ key[e] = arg[q].key
          <5>1. Value(arg[q].key)' = vptr'[e].val /\ Value(arg[q].key) = vptr[e].val
            BY <1>2, <4>2 DEF Value
          <5>2. e \in Entries /\ vptr[e].val \in Vals /\ None \notin Vals
            BY <3>2, <4>2, HashType, ValueType, NoneAssumption DEF Cells, Doing
          <5>3. CASE e = mine[p]
            BY <1>3, <1>5, <1>7, <3>2, <4>2, <5>1, <5>3
          <5>4. CASE e # mine[p]
            <6>1. vptr[e].val \in window[q]
              BY <3>2, <5>1, <5>2 DEF Windows, Shown
            <6>2. vptr'[e] = vptr[e]
              BY <1>5, <5>2, <5>4
            <6> QED
              BY <1>7, <5>1, <6>1, <6>2
          <5> QED
            BY <5>3, <5>4
        <4> QED
          BY <4>1, <4>2
      <3>3. ASSUME at[q] \in {"mark", "deref"}
            PROVE  vptr'[mine[q]] # None /\ vptr'[mine[q]].val \in window'[q]
        <4>1. Doing(q, "get") /\ mine[q] \in Entries /\ key[mine[q]] = arg[q].key
          BY <3>3 DEF Control, CallOf, GetSteps, Data, KeysOf
        <4>2. CASE mine[q] = mine[p]
          BY <1>3, <1>5, <1>7, <4>1, <4>2
        <4>3. CASE mine[q] # mine[p]
          BY <1>5, <1>7, <3>3, <4>1, <4>3 DEF Windows, Shown
        <4> QED
          BY <4>2, <4>3
      <3>4. at[q] = "return" => got[q] # None /\ got[q].val \in window'[q]
        BY <1>7 DEF Windows, Shown
      <3> QED
        BY <1>2, <3>1, <3>2, <3>3, <3>4 DEF Shown, Doing
    <2> QED
      BY <2>1, <2>2
  <1> QED
    BY <1>6, <1>8 DEF Windows

LEMMA PutIndexKeepsWindows ==
  ASSUME Control, CellTypes, Data, Windows, NEW p \in Procs, PutIndex(p)
  PROVE  Windows'
  <1>1. /\ at[p] = "index it" /\ UNCHANGED <<key, vptr>> /\ Step(p)
        /\ Doing(p, "put") /\ mine[p] \in Entries
    BY DEF PutIndex, cellVars, Control, CallOf, SlowSteps, Step, Put, PutSlow
  <1>2. CASE Panic(p) /\ UNCHANGED index
    <2>1. UNCHANGED window /\ at'[p] = "panicked"
      BY <1>2 DEF Panic, Stay, Goto, Control, ControlTypes
    <2>2. \A e \in Entries \cap Reachable : SameValue(e)
      BY <1>1 DEF SameValue
    <2>3. Shown(p)'
      BY <2>1 DEF Shown
    <2> QED
      BY <1>1, <1>2, <2>1, <2>2, <2>3, WindowsFrame DEF Windows
  <1>3. CASE ~(Panic(p) /\ UNCHANGED index)
    <2>1. /\ index' = [index EXCEPT ![h(p)] = mine[p]] /\ UNCHANGED <<arg, mine, got>>
          /\ Show(arg[p].key, arg[p].val)
          /\ Goto(p, "insert") \/ at' = [q \in Procs |-> "killed"]
      BY <1>3 DEF PutIndex, PanicUnlocking, callVars, MapWrite
    <2>2. /\ key[mine[p]] = arg[p].key /\ arg[p].val \in Vals /\ h(p) \in Hashes
          /\ vptr[mine[p]] # None /\ vptr[mine[p]].val = arg[p].val
      BY <1>1, Uint32, HashType DEF Data, KeysOf, SlowSteps, Doing
    <2>3. index'[h(p)] = mine[p] /\ \A x \in Hashes \ {h(p)} : index'[x] = index[x]
      BY <2>1, <2>2 DEF Control, ControlTypes
    <2>4. window' \in [Procs -> SUBSET (Vals \cup {None})]
      BY <2>1, <2>2 DEF Show, Windows
    <2>5. ASSUME NEW q \in Procs
          PROVE  /\ window[q] \subseteq window'[q]
                 /\ Doing(q, "get") /\ arg[q].key = arg[p].key => arg[p].val \in window'[q]
      BY <2>1 DEF Show, Windows, Doing
    <2>6. ASSUME NEW q \in Procs PROVE Shown(q)'
      <3>1. at'[q] = at[q] \/ at'[q] \notin Watching
        BY <2>1 DEF Goto, Control, ControlTypes, Watching
      <3>2. ASSUME at[q] = "reading", Doing(q, "get")
            PROVE  Value(arg[q].key)' = None \/ Value(arg[q].key)' \in window'[q]
        <4>1. PICK k \in Keys : k = arg[q].key
          BY <3>2, HashType DEF Doing
        <4>2. HashOf[k] \in Hashes /\ Value(arg[q].key)' = Value(k)'
          BY <2>1, <4>1, ShardAssumption DEF Value
        <4>3. CASE HashOf[k] # h(p)
          <5>1. Value(k)' = Value(k)
            BY <1>1, <2>3, <4>2, <4>3 DEF Value
          <5> QED
            BY <2>5, <3>2, <4>1, <4>2, <5>1 DEF Windows, Shown
        <4>4. CASE HashOf[k] = h(p)
          <5>1. index'[HashOf[k]] = mine[p]
            BY <2>3, <4>4
          <5>2. Value(k)' = IF mine[p] = None \/ key[mine[p]] # k THEN None ELSE vptr[mine[p]].val
            BY <1>1, <5>1 DEF Value
          <5> QED
            BY <2>2, <2>5, <3>2, <4>1, <4>2, <5>2
        <4> QED
          BY <4>3, <4>4
      <3> QED
        BY <1>1, <2>1, <2>5, <3>1, <3>2 DEF Shown, Windows, Doing, Watching
    <2> QED
      BY <2>4, <2>6 DEF Windows
  <1> QED
    BY <1>2, <1>3

(* But for an update, no step changes the value of an entry that can be    *)
(* reached: a fresh entry cannot, and freed memory keeps its value.        *)
LEMMA StepKeepsValues ==
  ASSUME Control, CellTypes, NEW p \in Procs, Call(p) \/ Step(p), ~UpdateValue(p)
  PROVE  \A e \in Entries \cap Reachable : SameValue(e)
  <1>1. CASE PutNew(p)
    <2>1. CASE UNCHANGED <<key, vptr>>
      BY <2>1 DEF SameValue
    <2>2. CASE ~UNCHANGED <<key, vptr>>
      <3>1. PICK e \in Entries \ Reachable :
              /\ key' = [key EXCEPT ![e] = arg[p].key]
              /\ vptr' = [vptr EXCEPT ![e] = [val |-> arg[p].val, gen |-> GR!Active.id]]
        BY <1>1, <2>2 DEF PutNew, cellVars
      <3>2. \A f \in Entries \cap Reachable : key'[f] = key[f] /\ vptr'[f] = vptr[f]
        BY <3>1 DEF CellTypes
      <3> QED
        BY <3>2 DEF SameValue
    <2> QED
      BY <2>1, <2>2
  <1>2. CASE Rotate(p)
    <2>1. UNCHANGED key /\ (vptr' = vptr \/ \E g : vptr' = Freed(g))
      BY <1>2 DEF Rotate
    <2>2. ASSUME NEW g, NEW e \in Entries, vptr[e] # None
          PROVE  Freed(g)[e] # None /\ Freed(g)[e].val = vptr[e].val
      <3>1. vptr[e] \in Cells /\ None \notin Cells
        BY <2>2, NoneAssumption DEF CellTypes, Cells
      <3>2. [vptr[e] EXCEPT !.gen = None] \in Cells /\ [vptr[e] EXCEPT !.gen = None].val = vptr[e].val
        BY <3>1 DEF Cells
      <3> QED
        BY <3>1, <3>2 DEF Freed
    <2> QED
      BY <2>1, <2>2 DEF SameValue
  <1>3. CASE ~PutNew(p) /\ ~Rotate(p)
    <2>1. UNCHANGED <<key, vptr>>
      BY <1>3
      DEF Call, Step, Get, GetLookup, GetMark, GetDeref, GetReturn, Put, PutLookup, PutFast,
          UpdateAlloc, UpdateWeight, UpdateGen, PutSlow, PutIndex, PutInsert, PutSweep, PutCharge,
          RotateTell, PutReturn, Lock, Delete, DeleteRemove, LenCall,
          SizeBytes, Close, Recover, cellVars
    <2> QED
      BY <2>1 DEF SameValue
  <1> QED
    BY <1>1, <1>2, <1>3

LEMMA OtherKeepsWindows ==
  ASSUME Control, CellTypes, Data, Windows, NEW p \in Procs, Step(p),
         ~Get(p), ~UpdateValue(p), ~PutIndex(p)
  PROVE  Windows'
  <1>1. \A e \in Entries \cap Reachable : SameValue(e)
    BY StepKeepsValues
  <1>2. \A x \in Hashes : index'[x] \in {index[x], None}
    <2>1. CASE Delete(p)
      <3>1. index' = index \/ index' = [index EXCEPT ![h(p)] = None]
        BY <2>1 DEF Delete
      <3> QED
        BY <3>1 DEF Control, ControlTypes
    <2>2. CASE ~Delete(p)
      BY <2>2
      DEF Step, Put, PutLookup, PutFast, UpdateAlloc, UpdateWeight, UpdateGen, PutSlow, PutNew,
          PutInsert, PutSweep, PutCharge, Rotate, RotateTell, PutReturn, Lock, DeleteRemove,
          LenCall, SizeBytes, Close, Recover, mapVars
    <2> QED
      BY <2>1, <2>2
  <1>3. window' = window \/ window' = [window EXCEPT ![p] = {}]
    BY DEF Step, Put, PutLookup, PutFast, UpdateAlloc, UpdateWeight, UpdateGen, PutSlow, PutNew,
          PutInsert, PutSweep, PutCharge, Rotate, RotateTell, PutReturn, Lock, Delete,
          DeleteRemove, LenCall, SizeBytes, Close, Recover, Done, Stay, Panic, PanicUnlocking
  <1>4. /\ window' \in [Procs -> SUBSET (Vals \cup {None})]
        /\ \A q \in Procs \ {p} : window'[q] = window[q]
    BY <1>3 DEF Windows
  <1>5. at'[p] \notin Watching
    <2>1. CASE PutLookup(p) \/ UpdateAlloc(p) \/ UpdateWeight(p) \/ UpdateGen(p)
      BY <2>1 DEF PutLookup, UpdateAlloc, UpdateWeight, UpdateGen, Done, Panic, Goto, Watching,
           Control, ControlTypes
    <2>2. CASE PutSlow(p)
      BY <2>2 DEF PutSlow, PutNew, PutIndex, PutInsert, PutSweep, PutCharge, Rotate, RotateTell,
           PutReturn, Done, Panic, PanicUnlocking, Goto, Watching, Control, ControlTypes
    <2>3. CASE \/ Lock(p) \/ Delete(p) \/ DeleteRemove(p) \/ LenCall(p) \/ SizeBytes(p) \/ Close(p)
               \/ Recover(p)
      BY <2>3 DEF Lock, Delete, MapWrite, DeleteRemove, LenCall, SizeBytes, Close, Recover, Done,
           Panic, Goto, Watching, Control, ControlTypes
    <2> QED
      BY <2>1, <2>2, <2>3 DEF Step, Put, PutFast
  <1>6. Shown(p)'
    BY <1>5 DEF Shown, Watching
  <1> QED
    BY <1>1, <1>2, <1>4, <1>6, WindowsFrame

LEMMA StepKeepsWindows ==
  ASSUME Control, RingOK, CellTypes, Data, Windows, NEW p \in Procs, Call(p) \/ Step(p)
  PROVE  Windows'
  BY CallKeepsWindows, GetKeepsWindows, UpdateValueKeepsWindows, PutIndexKeepsWindows,
     OtherKeepsWindows

LEMMA InitWindows == Init => Windows
  BY DEF Init, Windows, Shown

THEOREM WindowsCorrect == Spec => []Windows
<1>1. Control /\ RingOK /\ CellTypes /\ Data /\ Windows /\ [Next]_vars => Windows'
  <2> SUFFICES ASSUME Control, RingOK, CellTypes, Data, Windows, [Next]_vars PROVE Windows'
    OBVIOUS
  <2>1. CASE UNCHANGED vars
    <3>1. UNCHANGED <<index, key, vptr, at, arg, mine, got, window>>
      BY <2>1 DEF vars, mapVars, cellVars, callVars
    <3>2. \A p \in Procs : Shown(p)'
      BY <3>1 DEF Windows, Shown, Value, Doing
    <3> QED
      BY <3>1, <3>2 DEF Windows
  <2> QED
    BY <2>1, StepKeepsWindows DEF Next
<1> QED
  BY <1>1, InitWindows, ControlCorrect, RingCorrect, CellsCorrect, DataCorrect, PTL DEF Spec

(* GetIsCurrent: a get that hits returns a value that its key led to       *)
(* while the call ran (pkg/cache.go:138-168).                              *)
THEOREM GetCorrect == Spec => []GetIsCurrent
<1>1. Windows => GetIsCurrent
  BY DEF Windows, Shown, GetIsCurrent
<1> QED
  BY <1>1, WindowsCorrect, PTL

-----------------------------------------------------------------------------
(* Stranding: what a step must do to leave an entry resident without a     *)
(* value.                                                                  *)
Hit(e) == \E q \in Procs : mine[q] = e /\ byte[q] # None /\ byte'[q] = None

LEMMA UpdatedStays ==
  ASSUME Control, CellTypes, NEW p \in Procs, Call(p) \/ Step(p), at[p] \notin {"weigh", "tag"},
         NEW e \in Entries, Updated(e)
  PROVE  Updated(e)'
  <1>1. PICK q \in Procs : mine[q] = e /\ at[q] \in {"weigh", "tag"}
    BY DEF Updated
  <1>2. q # p /\ mine'[q] = mine[q]
    BY <1>1, OthersLemma
  <1>3. at'[q] = at[q]
    <2>1. ~ \A r \in Procs : readers[r] = 0
      BY <1>1, NoReaderUpdates DEF FastSteps
    <2> QED
      BY <1>2, <2>1, OthersLemma
  <1> QED
    BY <1>1, <1>2, <1>3 DEF Updated

(* A step that gives the policy nothing new to believe, frees no value and *)
(* tells no generation.                                                    *)
LEMMA StrandFrame ==
  ASSUME Control, CellTypes, NEW p \in Procs, Call(p) \/ Step(p), at[p] \notin {"weigh", "tag"},
         UNCHANGED <<vptr, genID, dead>>,
         NEW e \in Entries, Believed(e)' => Believed(e), Stranded(e)'
  PROVE  Stranded(e)
  BY UpdatedStays DEF Stranded

LEMMA SweepStrandsNone ==
  ASSUME ListOK, CP!evictIfNeeded, NEW e \in Entries, Believed(e)'
  PROVE  Believed(e)
  <1>1. e \in ToSet(ring)
    <2>1. ToSet(ring') \subseteq ToSet(ring)
      BY PolicyList
    <2> QED
      BY <2>1 DEF Believed, CP!Listed, CP!ToSet, ToSet
  <1>2. CASE CP!ReadHand
    BY <1>1, <1>2 DEF CP!ReadHand, Believed, CP!Listed, CP!ToSet, ToSet, CP!hand
  <1>3. CASE CP!Forget
    BY <1>1, <1>3 DEF CP!Forget, CP!Sweep, Believed, CP!Listed, CP!ToSet, ToSet
  <1>4. ASSUME NEW b, CP!Leave(b), sweep = "act", sweep' # "act",
               b.mode # "test" => seen.mode # "test"
        PROVE  Believed(e)
    <2>1. state'[e].mode # "test"
      BY <1>4 DEF Believed
    <2>2. CASE e = ring[1]
      <3>1. state'[e] = b
        BY <1>4, <2>2 DEF CP!Leave, CP!hand, ListOK
      <3> QED
        BY <1>1, <1>4, <2>1, <2>2, <3>1 DEF Believed, CP!hand, CP!Listed, CP!ToSet, ToSet
    <2>3. CASE e # ring[1]
      <3>1. state'[e] = state[e]
        BY <1>4, <2>3 DEF CP!Leave, CP!hand, ListOK
      <3> QED
        BY <1>1, <2>1, <3>1 DEF Believed, CP!Listed, CP!ToSet, ToSet
    <2> QED
      BY <2>2, <2>3
  <1>5. CASE CP!KeepHot
    <2>1. PICK b \in {seen, state[CP!hand]} : CP!Leave([b EXCEPT !.ref = FALSE])
      BY <1>5 DEF CP!KeepHot
    <2>2. sweep = "act" /\ sweep' # "act" /\ seen.mode # "test"
      BY <1>5 DEF CP!KeepHot, CP!Sweep
    <2> QED
      BY <1>4, <2>1, <2>2
  <1>6. CASE CP!Demote \/ CP!Promote
    <2>1. PICK b : CP!Leave(b)
      BY <1>6 DEF CP!Demote, CP!Promote
    <2>2. sweep = "act" /\ sweep' # "act" /\ seen.mode # "test"
      BY <1>6 DEF CP!Demote, CP!Promote, CP!Sweep
    <2> QED
      BY <1>4, <2>1, <2>2
  <1>7. CASE CP!Evict
    <2>1. CP!Leave([mode |-> "test", ref |-> FALSE]) /\ sweep = "act" /\ sweep' # "act"
      BY <1>7 DEF CP!Evict, CP!Sweep
    <2> QED
      BY <1>4, <2>1
  <1> QED
    BY <1>2, <1>3, <1>5, <1>6, <1>7 DEF CP!evictIfNeeded

LEMMA FastStrandsNone ==
  ASSUME Control, RingOK, CellTypes, Ownership, NEW p \in Procs,
         UpdateValue(p) \/ UpdateWeight(p) \/ UpdateGen(p),
         NEW e \in Entries, Stranded(e)'
  PROVE  Stranded(e)
  <1>0. mine[p] \in Entries /\ None \notin Ids /\ GR!Active.id \in Ids
    BY NoneAssumption, ActiveId DEF UpdateValue, UpdateWeight, UpdateGen, FastSteps, Control, CallOf,
       Ids
  <1>1. UNCHANGED <<ring, state, sweep, seen, dead>>
    BY DEF UpdateValue, UpdateWeight, UpdateGen, clockVars, callVars, Stay, Done, CP!Update
  <1>2. Believed(e)
    BY <1>1 DEF Stranded, Believed, CP!Listed, CP!ToSet, ToSet, CP!hand
  <1>3. \A q \in Procs \ {p} : mine'[q] = mine[q] /\ at'[q] = at[q]
    <2>1. \A q \in Procs \ {p} : mine'[q] = mine[q]
      BY OthersLemma DEF Step, Put, PutFast
    <2> QED
      BY <2>1 DEF UpdateValue, UpdateWeight, UpdateGen, Goto, Done, Control, ControlTypes
  <1>4. ASSUME e # mine[p] PROVE Stranded(e)
    <2>1. Updated(e) => Updated(e)'
      BY <1>3, <1>4 DEF Updated
    <2>2. vptr'[e] = vptr[e] /\ genID'[e] = genID[e]
      BY <1>4 DEF UpdateValue, UpdateWeight, UpdateGen, CP!Update, cellVars, clockVars, CellTypes
    <2> QED
      BY <1>1, <1>2, <2>1, <2>2 DEF Stranded
  <1>5. ASSUME e = mine[p] PROVE FALSE
    <2>1. CASE UpdateValue(p) \/ UpdateWeight(p)
      <3>1. at'[p] \in {"weigh", "tag"} /\ mine' = mine
        BY <2>1 DEF UpdateValue, UpdateWeight, Goto, Stay, callVars, Control, ControlTypes
      <3> QED
        BY <1>5, <3>1 DEF Stranded, Updated
    <2>2. CASE UpdateGen(p)
      <3>1. vptr' = vptr /\ vptr[e].gen = GR!Active.id
        BY <1>5, <2>2 DEF UpdateGen, cellVars, Ownership, Tagged
      <3> QED
        BY <1>0, <3>1 DEF Stranded
    <2> QED
      BY <2>1, <2>2
  <1> QED
    BY <1>4, <1>5

LEMMA PutNewStrandsNone ==
  ASSUME Control, RingOK, CellTypes, NEW p \in Procs, PutNew(p), NEW e \in Entries, Stranded(e)'
  PROVE  Stranded(e)
  <1>1. Step(p) /\ at[p] = "locked" /\ Doing(p, "put")
    BY DEF PutNew, Locked, Step, Put, PutSlow
  <1>2. dead' = dead
    BY DEF PutNew, PanicUnlocking, Panic, Stay, callVars
  <1>3. UNCHANGED <<ring, state, sweep, seen>>
    BY DEF PutNew, clockVars, CP!Update
  <1>4. Believed(e)
    BY <1>3 DEF Stranded, Believed, CP!Listed, CP!ToSet, ToSet, CP!hand
  <1>5. CASE UNCHANGED <<vptr, genID>>
    BY <1>1, <1>2, <1>4, <1>5, StrandFrame
  <1>6. CASE ~UNCHANGED <<vptr, genID>>
    <2>1. PICK f \in Entries \ Reachable :
            /\ vptr' = [vptr EXCEPT ![f] = [val |-> arg[p].val, gen |-> GR!Active.id]]
            /\ genID' = [genID EXCEPT ![f] = GR!Active.id]
      BY <1>6 DEF PutNew, PanicUnlocking, Panic, clockVars, cellVars, CP!Update
    <2>2. GR!Active.id # None
      BY ActiveId, NoneAssumption DEF Ids
    <2>3. e # f
      BY <2>1, <2>2 DEF Stranded, CellTypes
    <2>4. vptr'[e] = vptr[e] /\ genID'[e] = genID[e]
      BY <2>1, <2>3 DEF CellTypes
    <2> QED
      BY <1>1, <1>2, <1>4, <2>4, UpdatedStays DEF Stranded
  <1> QED
    BY <1>5, <1>6

LEMMA PutInsertStrandsNone ==
  ASSUME Control, CellTypes, ListOK, Ownership, NEW p \in Procs, PutInsert(p),
         NEW e \in Entries, Stranded(e)'
  PROVE  Stranded(e)
  <1>1. Step(p) /\ at[p] = "insert" /\ mine[p] \in Entries
    BY DEF PutInsert, Step, Put, PutSlow, Control, CallOf, SlowSteps
  <1>2. UNCHANGED <<vptr, dead>> /\ vptr[mine[p]].gen # None
    BY <1>1 DEF PutInsert, PanicUnlocking, Panic, Stay, callVars, cellVars, Ownership, Fresh
  <1>3. genID' = genID
    <2>1. genID' = genID \/ genID' = [genID EXCEPT ![mine[p]] = genID[mine[p]]]
      BY DEF PutInsert, CP!Insert, clockVars
    <2> QED
      BY <2>1 DEF CellTypes
  <1>4. CASE UNCHANGED clockVars
    <2>1. Believed(e)
      BY <1>4 DEF clockVars, Stranded, Believed, CP!Listed, CP!ToSet, ToSet, CP!hand
    <2> QED
      BY <1>1, <1>2, <1>3, <2>1, StrandFrame
  <1>5. CASE CP!Insert(mine[p], weight[mine[p]], genID[mine[p]])
    <2>1. e # mine[p]
      BY <1>2 DEF Stranded
    <2>2. /\ state' = [state EXCEPT ![mine[p]] = [mode |-> "cold", ref |-> TRUE]]
          /\ sweep' # "act"
      BY <1>5 DEF CP!Insert, CP!Sweep
    <2>3. state'[e] = state[e]
      BY <2>1, <2>2 DEF ListOK
    <2>4. ToSet(ring') = ToSet(ring) \cup {mine[p]}
      BY <1>1, <1>5, PolicyList
    <2>5. Believed(e)
      BY <2>1, <2>2, <2>3, <2>4 DEF Stranded, Believed, CP!Listed, CP!ToSet, ToSet
    <2> QED
      BY <1>1, <1>2, <1>3, <2>5, StrandFrame
  <1> QED
    BY <1>4, <1>5 DEF PutInsert

(* A rotation frees the values of the generation that is now dead, which   *)
(* are the values of the entries with that genID.                          *)
LEMMA RotateStrandsNone ==
  ASSUME Control, Calm, CellTypes, Ownership, NEW p \in Procs, Rotate(p),
         NEW e \in Entries, Stranded(e)'
  PROVE  Stranded(e)
  <1>1. Step(p) /\ at[p] = "rotate" /\ UNCHANGED <<ring, state, sweep, seen, genID>>
    BY DEF Rotate, Step, Put, PutSlow, clockVars
  <1>2. Believed(e)
    BY <1>1 DEF Stranded, Believed, CP!Listed, CP!ToSet, ToSet, CP!hand
  <1>3. CASE UNCHANGED <<vptr, dead>>
    BY <1>1, <1>2, <1>3, StrandFrame
  <1>4. CASE ~UNCHANGED <<vptr, dead>>
    <2>1. PICK old : /\ dead' = IF old = None THEN None ELSE old.id
                     /\ vptr' = IF old = None THEN vptr ELSE Freed(old.id)
      BY <1>4 DEF Rotate, PanicUnlocking, Panic, Stay, callVars
    <2>2. ~Updated(e)
      BY <1>1, UpdatedStays DEF Stranded
    <2>3. dead = None /\ genID[e] \in Ids /\ None \notin Ids
      BY <1>1, NoneAssumption DEF Calm, CellTypes, Ids
    <2>4. vptr[e].gen = None
      <3>1. CASE old # None /\ vptr[e] # None /\ vptr[e].gen = old.id
        <4>1. CASE vptr[e].gen # None
          <5>1. vptr[e].gen = genID[e]
            BY <2>2, <3>1, <4>1 DEF Ownership, Owned
          <5> QED
            BY <1>1, <2>1, <3>1, <5>1 DEF Stranded
        <4> QED
          BY <4>1
      <3>2. CASE ~(old # None /\ vptr[e] # None /\ vptr[e].gen = old.id)
        <4>1. vptr'[e] = vptr[e]
          BY <2>1, <3>2 DEF Freed
        <4> QED
          BY <4>1 DEF Stranded
      <3> QED
        BY <3>1, <3>2
    <2> QED
      BY <1>2, <2>2, <2>3, <2>4 DEF Stranded
  <1> QED
    BY <1>3, <1>4

LEMMA RotateTellStrandsNone ==
  ASSUME Control, CellTypes, ListOK, NEW p \in Procs, RotateTell(p), NEW e \in Entries, Stranded(e)'
  PROVE  Stranded(e)
  <1>1. Step(p) /\ at[p] = "tell" /\ vptr' = vptr
    BY DEF RotateTell, Step, Put, PutSlow, cellVars
  <1>2. CASE UNCHANGED <<clockVars, dead>>
    <2>1. Believed(e) /\ genID' = genID
      BY <1>2 DEF clockVars, Stranded, Believed, CP!Listed, CP!ToSet, ToSet, CP!hand
    <2> QED
      BY <1>1, <1>2, <2>1, StrandFrame
  <1>3. CASE ~UNCHANGED <<clockVars, dead>>
    <2>1. CP!GenerationEvicted(dead)
      BY <1>3 DEF RotateTell, PanicUnlocking, Panic, Stay, callVars
    <2>2. /\ state' = [f \in Entries |->
              IF f \in {x \in CP!Resident : genID[x] = dead}
                THEN [mode |-> "test", ref |-> FALSE] ELSE state[f]]
          /\ UNCHANGED <<ring, genID, sweep>> /\ sweep = "idle"
      BY <2>1 DEF CP!GenerationEvicted
    <2>3. e \in CP!Listed /\ state'[e].mode # "test"
      BY <2>2 DEF Stranded, Believed, CP!Listed, CP!ToSet, ToSet
    <2>4. e \notin {x \in CP!Resident : genID[x] = dead}
      BY <2>2, <2>3
    <2>5. state'[e] = state[e]
      BY <2>2, <2>4
    <2>6. Believed(e) /\ genID[e] # dead
      BY <2>3, <2>4, <2>5 DEF Believed, CP!Resident
    <2>7. ~Updated(e)
      BY <1>1, UpdatedStays DEF Stranded
    <2> QED
      BY <1>1, <2>6, <2>7 DEF Stranded
  <1> QED
    BY <1>2, <1>3

LEMMA OtherStrandsNone ==
  ASSUME Control, CellTypes, ListOK, NEW p \in Procs,
         \/ Call(p) \/ GetLookup(p) \/ GetDeref(p) \/ GetReturn(p) \/ PutLookup(p)
         \/ UpdateAlloc(p) \/ Lock(p) \/ PutIndex(p) \/ PutSweep(p) \/ PutCharge(p)
         \/ PutReturn(p) \/ Delete(p) \/ DeleteRemove(p) \/ LenCall(p) \/ SizeBytes(p)
         \/ Close(p) \/ Recover(p),
         NEW e \in Entries, Stranded(e)'
  PROVE  Stranded(e)
  <1>1. Call(p) \/ Step(p)
    BY DEF Step, Get, Put, PutFast, PutSlow
  <1>2. at[p] \notin {"weigh", "tag"}
    BY DEF Call, GetLookup, GetDeref, GetReturn, PutLookup, UpdateAlloc, Lock, PutIndex, PutSweep,
           PutCharge, PutReturn, Delete, DeleteRemove, LenCall, SizeBytes, Close, Recover, Reading,
           Locked
  <1>3. UNCHANGED <<vptr, dead>>
    <2>1. vptr' = vptr
      BY DEF Call, GetLookup, GetDeref, GetReturn, PutLookup, UpdateAlloc, Lock, PutIndex, PutSweep,
             PutCharge, PutReturn, Delete, DeleteRemove, LenCall, SizeBytes, Close, Recover, cellVars
    <2>2. dead' = dead
      BY DEF Call, GetLookup, GetDeref, GetReturn, PutLookup, UpdateAlloc, Lock, PutIndex, PutSweep,
             PutCharge, PutReturn, Delete, DeleteRemove, LenCall, SizeBytes, Close, Recover, Done,
             Stay, Panic, PanicUnlocking, callVars
    <2> QED
      BY <2>1, <2>2
  <1>4. genID' = genID
    BY PolicyKeepsWeights
    DEF Call, GetLookup, GetDeref, GetReturn, PutLookup, UpdateAlloc, Lock, PutIndex, PutSweep,
        PutCharge, PutReturn, Delete, DeleteRemove, LenCall, SizeBytes, Close, Recover
  <1>5. Believed(e)
    <2>1. CASE PutSweep(p)
      BY <2>1, SweepStrandsNone DEF PutSweep, Stranded
    <2>2. CASE DeleteRemove(p) /\ ~UNCHANGED clockVars
      <3>1. CP!RemoveEntry(mine[p])
        BY <2>2 DEF DeleteRemove
      <3>2. /\ ToSet(ring') \subseteq ToSet(ring)
            /\ UNCHANGED <<state, sweep>> /\ sweep = "idle"
        BY <3>1, PolicyList DEF CP!RemoveEntry
      <3> QED
        BY <3>2 DEF Stranded, Believed, CP!Listed, CP!ToSet, ToSet
    <2>3. CASE UNCHANGED <<ring, state, sweep, seen>>
      BY <2>3 DEF Stranded, Believed, CP!Listed, CP!ToSet, ToSet, CP!hand
    <2>4. ~PutSweep(p) /\ (DeleteRemove(p) => UNCHANGED clockVars)
            => UNCHANGED <<ring, state, sweep, seen>>
      BY DEF Call, GetLookup, CP!Find, CP!clockVars, GetDeref, GetReturn, PutLookup, UpdateAlloc,
             Lock, PutIndex, PutCharge, PutReturn, Delete, LenCall, SizeBytes, Close, Recover,
             clockVars
    <2> QED
      BY <2>1, <2>2, <2>3, <2>4
  <1> QED
    BY <1>1, <1>2, <1>3, <1>4, <1>5, StrandFrame

(* A load changes nothing, and a store is the hit.                         *)
LEMMA MarkStrandsByHit ==
  ASSUME Control, CellTypes, ListOK, NEW p \in Procs, GetMark(p), NEW e \in Entries, Stranded(e)'
  PROVE  Stranded(e) \/ Hit(e)
  <1>1. Step(p) /\ at[p] = "mark" /\ UNCHANGED <<vptr, dead>> /\ held[p] = mine[p]
    BY DEF GetMark, Step, Get, Stay, callVars, cellVars, Control, CallOf
  <1>2. UNCHANGED <<ring, sweep, seen, genID>>
    BY DEF GetMark, CP!LoadState, CP!StoreState, CP!clockVars
  <1>3. CASE state'[e] = state[e]
    <2>1. Believed(e)
      BY <1>2, <1>3 DEF Stranded, Believed, CP!Listed, CP!ToSet, ToSet, CP!hand
    <2> QED
      BY <1>1, <1>2, <2>1, StrandFrame
  <1>4. CASE state'[e] # state[e]
    <2>1. CP!StoreState(p)
      BY <1>4 DEF GetMark, CP!LoadState
    <2>2. e = held[p]
      BY <1>4, <2>1 DEF CP!StoreState, ListOK
    <2>3. byte[p] # None /\ byte'[p] = None
      BY <2>1 DEF CP!StoreState, Control, ControlTypes
    <2> QED
      BY <1>1, <2>2, <2>3 DEF Hit
  <1> QED
    BY <1>3, <1>4

(* OnlyHitsStrand: whatever dies with its generation is a ghost before the *)
(* lock is released, but for the store of a hit (pkg/cache.go:243).        *)
THEOREM StrandedCorrect == Spec => OnlyHitsStrand
<1> DEFINE Inv == Control /\ Calm /\ RingOK /\ CellTypes /\ ListOK /\ Ownership
<1>1. Inv /\ [Next]_vars
        => [\A e \in Entries : Stranded(e)' =>
             \/ Stranded(e)
             \/ \E q \in Procs : mine[q] = e /\ byte[q] # None /\ byte'[q] = None]_vars
  <2> SUFFICES ASSUME Inv, Next, NEW e \in Entries, Stranded(e)'
               PROVE  Stranded(e) \/ Hit(e)
    BY DEF Hit
  <2>1. PICK p \in Procs : Call(p) \/ Step(p)
    BY DEF Next
  <2> QED
    BY <2>1, FastStrandsNone, PutNewStrandsNone, PutInsertStrandsNone, RotateStrandsNone,
       RotateTellStrandsNone, OtherStrandsNone, MarkStrandsByHit
    DEF Step, Get, Put, PutFast, PutSlow
<1> QED
  BY <1>1, ControlCorrect, CalmCorrect, RingCorrect, CellsCorrect, ListCorrect, OwnershipCorrect,
     PTL DEF Spec, OnlyHitsStrand

-----------------------------------------------------------------------------
(* PanicsOnlyIfClosed: but for the hand-over of a put, no call panics      *)
(* unless the shard has been closed (pkg/cache.go:243-252,                 *)
(* pkg/shard.go:47-53).                                                    *)
LEMMA PanicStep ==
  ASSUME Control, NEW p \in Procs, Call(p) \/ Step(p), at'[p] = "panicked", at[p] # "panicked"
  PROVE  nilled # {} \/ (at[p] = "insert" /\ "entry" \in Handovers)
  <1> USE DEF Control, ControlTypes
  <1>1. ~Call(p)
    <2> SUFFICES ASSUME Call(p) PROVE FALSE
      OBVIOUS
    <2>1. PICK c \in CallsOf[p] :
            CASE c.op \in {"get", "put", "len"} -> Goto(p, "reading") /\ Mu!RLock(p)
              [] c.op = "delete" -> Goto(p, "lock") /\ UNCHANGED lockVars
              [] c.op = "size"   -> Goto(p, "iterating") /\ UNCHANGED lockVars
              [] c.op = "close"  -> Goto(p, "index = nil") /\ UNCHANGED lockVars
      BY DEF Call
    <2>2. c.op \in Ops
      BY ShardAssumption DEF CallSet
    <2>3. \E a \in {"reading", "lock", "iterating", "index = nil"} : Goto(p, a)
      BY <2>1, <2>2 DEF Ops
    <2> QED
      BY <2>3 DEF Goto
  <1>2. ~Get(p) /\ ~PutLookup(p)
    BY DEF Get, GetLookup, GetMark, GetDeref, GetReturn, PutLookup, Done, Goto
  <1>3. PutFast(p) => nilled # {}
    BY DEF PutFast, UpdateAlloc, UpdateValue, UpdateWeight, UpdateGen, Done, Goto
  <1>4. PutInsert(p) => nilled # {} \/ (at[p] = "insert" /\ "entry" \in Handovers)
    BY DEF PutInsert, Goto
  <1>5. ~PutSweep(p) /\ ~PutReturn(p)
    BY DEF PutSweep, PutReturn, Done, Goto
  <1>6. PutNew(p) \/ PutIndex(p) \/ PutCharge(p) \/ Rotate(p) \/ RotateTell(p) => nilled # {}
    BY DEF PutNew, PutIndex, MapWrite, PutCharge, Rotate, RotateTell, Goto
  <1>7. DeleteRemove(p) => nilled # {}
    BY DEF DeleteRemove, Done, Goto
  <1>8. ~Lock(p) /\ ~Delete(p) /\ ~LenCall(p) /\ ~SizeBytes(p) /\ ~Close(p) /\ ~Recover(p)
    BY DEF Lock, Delete, MapWrite, LenCall, SizeBytes, Close, Recover, Done, Goto
  <1> QED
    BY <1>1, <1>2, <1>3, <1>4, <1>5, <1>6, <1>7, <1>8 DEF Step, Put, PutSlow

THEOREM PanicsCorrect == Spec => PanicsOnlyIfClosed
<1>1. Control /\ CellTypes /\ [Next]_vars
        => [\A p \in Procs : at'[p] = "panicked" /\ at[p] # "panicked" =>
              nilled # {} \/ (at[p] = "insert" /\ "entry" \in Handovers)]_vars
  <2> SUFFICES ASSUME Control, CellTypes, Next, NEW p \in Procs,
                      at'[p] = "panicked", at[p] # "panicked"
               PROVE  nilled # {} \/ (at[p] = "insert" /\ "entry" \in Handovers)
    OBVIOUS
  <2>1. PICK q \in Procs : Call(q) \/ Step(q)
    BY DEF Next
  <2>2. q = p
    <3>1. CASE q # p
      <4>1. at'[p] = at[p] \/ at'[p] = "killed"
        BY <2>1, <3>1, OthersLemma
      <4> QED
        BY <4>1
    <3> QED
      BY <3>1
  <2> QED
    BY <2>1, <2>2, PanicStep
<1> QED
  BY <1>1, ControlCorrect, CellsCorrect, PTL DEF Spec, PanicsOnlyIfClosed

-----------------------------------------------------------------------------
(* The refinement of KeyValue: what KeyValue sees of the shard, and what a *)
(* step must do to be one of its actions.                                  *)
KVStore   == [x \in Hashes |-> Found(x)]
KVPending == [p \in Procs |-> IF Pending(p) THEN arg[p] ELSE None]
KVLot     == [p \in Procs |-> IF Pending(p) THEN lot[p] ELSE {}]

KVStutter == UNCHANGED <<KVStore, KVPending, KVLot, ~Running>>

OthersWait(p) ==
  \A q \in Procs \ {p} : at'[q] = at[q] /\ arg'[q] = arg[q] /\ lot'[q] = lot[q]

SameFound == \A x \in Hashes : Found(x)' = Found(x)

LEMMA FoundLemma ==
  ASSUME Control, CellTypes, Data, \A e \in Entries \cap Reachable : SameValue(e),
         UNCHANGED index, Running' = Running
  PROVE  SameFound
  <1> SUFFICES ASSUME NEW x \in Hashes PROVE Found(x)' = Found(x)
    BY DEF SameFound
  <1>1. CASE ~Running \/ index[x] = None
    BY <1>1 DEF Found
  <1>2. CASE Running /\ index[x] # None
    <2>1. index[x] \in Entries \cap Reachable
      BY <1>2 DEF Control, ControlTypes, Reachable, Indexed
    <2>2. SameValue(index[x]) /\ vptr[index[x]] # None
      BY <2>1 DEF Data, Valued
    <2> QED
      BY <1>2, <2>2 DEF Found, SameValue
  <1> QED
    BY <1>1, <1>2

LEMMA StoreLemma == SameFound => KVStore' = KVStore
  BY DEF SameFound, KVStore

(* A call that goes on waiting, or never was.                              *)
LEMMA StutterLemma ==
  ASSUME NEW p \in Procs, OthersWait(p), SameFound, Running' = Running,
         Pending(p)' = Pending(p), Pending(p) => arg'[p] = arg[p] /\ lot'[p] = lot[p]
  PROVE  KVStutter
  <1>1. \A q \in Procs : Pending(q)' = Pending(q)
    BY DEF OthersWait, Pending, Doing
  <1>2. \A q \in Procs : Pending(q) => arg'[q] = arg[q] /\ lot'[q] = lot[q]
    BY DEF OthersWait
  <1>3. KVPending' = KVPending
    BY <1>1, <1>2 DEF KVPending
  <1>4. KVLot' = KVLot
    BY <1>1, <1>2 DEF KVLot
  <1> QED
    BY <1>3, <1>4, StoreLemma DEF KVStutter

LEMMA FinishLemma ==
  ASSUME NEW p \in Procs, OthersWait(p), Pending(p), ~Pending(p)', Running' = Running
  PROVE  KV!Finish(p)
  <1>1. \A q \in Procs \ {p} : Pending(q)' = Pending(q)
    BY DEF OthersWait, Pending, Doing
  <1>2. KVPending' = [KVPending EXCEPT ![p] = None]
    BY <1>1 DEF OthersWait, KVPending
  <1>3. KVLot' = [KVLot EXCEPT ![p] = {}]
    BY <1>1 DEF OthersWait, KVLot
  <1> QED
    BY <1>2, <1>3 DEF KV!Finish, KVPending, KVLot

LEMMA FailLemma ==
  ASSUME NoneAssumption, NEW p \in Procs, OthersWait(p), Pending(p), ~Pending(p)',
         ~Running, ~Running'
  PROVE  KV!Fail(p)
  <1>1. KV!Finish(p)
    <2>1. Running' = Running
      BY DEF Running
    <2> QED
      BY <2>1, FinishLemma
  <1>2. KVPending[p] # None
    BY DEF KVPending, Pending, Doing
  <1>3. KVStore' = KVStore
    BY DEF KVStore, Found
  <1> QED
    BY <1>1, <1>2, <1>3 DEF KV!Fail, KVPending, KVStore

LEMMA StopLemma ==
  ASSUME Running, ~Running',
         \/ \A q \in Procs : ~Pending(q)'
         \/ \A q \in Procs : /\ Pending(q)' = Pending(q)
                             /\ Pending(q) => arg'[q] = arg[q] /\ lot'[q] = lot[q]
  PROVE  KV!Stop
  <1>1. KVStore' = [x \in Hashes |-> None]
    BY DEF KVStore, Found
  <1>2. \/ UNCHANGED <<KVPending, KVLot>>
        \/ /\ KVPending' = [q \in Procs |-> None]
           /\ KVLot' = [q \in Procs |-> {}]
    BY DEF KVPending, KVLot
  <1>3. (~Running) = FALSE /\ (~Running)' = TRUE
    OBVIOUS
  <1> QED
    BY <1>1, <1>2, <1>3 DEF KV!Stop, KV!Empty, KVStore, KVPending, KVLot

LEMMA PutLemma ==
  ASSUME NEW p \in Procs, OthersWait(p), Pending(p), Doing(p, "put"), ~Pending(p)',
         Running, Running', NEW v \in lot[p] \cup {arg[p].val}, NEW x \in Hashes, x = h(p),
         Found(x)' = [key |-> arg[p].key, val |-> v],
         \A y \in Hashes \ {x} : Found(y)' = Found(y)
  PROVE  KV!Put(p)
  <1>1. KV!Finish(p)
    <2>1. Running' = Running
      BY DEF Running
    <2> QED
      BY <2>1, FinishLemma
  <1>2. KVPending[p] = arg[p] /\ KVLot[p] = lot[p] /\ arg[p] # None /\ arg[p].op = "put"
    BY DEF KVPending, KVLot, Doing
  <1>3. KVStore' = [KVStore EXCEPT ![HashOf[arg[p].key]] = [key |-> arg[p].key, val |-> v]]
    BY DEF KVStore, h
  <1>4. KV!Waiting(p, "put")
    BY <1>2 DEF KV!Waiting, KVPending
  <1>5. \E u \in KVLot[p] \cup {KVPending[p].val} :
          KVStore' = [KVStore EXCEPT ![HashOf[KVPending[p].key]] =
                        [key |-> KVPending[p].key, val |-> u]]
    BY <1>2, <1>3
  <1> QED
    BY <1>1, <1>4, <1>5 DEF KV!Put, KV!Place, KVPending, KVLot, KVStore

LEMMA DeleteLemma ==
  ASSUME NEW p \in Procs, OthersWait(p), Pending(p), Doing(p, "delete"), ~Pending(p)',
         Running, Running', NEW x \in Hashes, x = h(p),
         Found(x)' = IF Found(x) # None /\ Found(x).key = arg[p].key THEN None ELSE Found(x),
         \A y \in Hashes \ {x} : Found(y)' = Found(y)
  PROVE  KV!Delete(p)
  <1>1. KV!Finish(p)
    <2>1. Running' = Running
      BY DEF Running
    <2> QED
      BY <2>1, FinishLemma
  <1>2. KVPending[p] = arg[p] /\ arg[p] # None /\ arg[p].op = "delete"
    BY DEF KVPending, Doing
  <1>3. KVStore[x] = Found(x) /\ HashOf[arg[p].key] = x
    BY DEF KVStore, h
  <1>4. KVStore' = IF KVStore[x] # None /\ KVStore[x].key = arg[p].key
                     THEN [KVStore EXCEPT ![x] = None] ELSE KVStore
    <2>1. CASE Found(x) # None /\ Found(x).key = arg[p].key
      BY <1>3, <2>1 DEF KVStore
    <2>2. CASE ~(Found(x) # None /\ Found(x).key = arg[p].key)
      BY <1>3, <2>2 DEF KVStore
    <2> QED
      BY <2>1, <2>2
  <1>5. KV!Waiting(p, "delete")
    BY <1>2 DEF KV!Waiting, KVPending
  <1>6. KVStore' = IF /\ KVStore[HashOf[KVPending[p].key]] # None
                      /\ KVStore[HashOf[KVPending[p].key]].key = KVPending[p].key
                     THEN [KVStore EXCEPT ![HashOf[KVPending[p].key]] = None] ELSE KVStore
    BY <1>2, <1>3, <1>4
  <1> QED
    BY <1>1, <1>5, <1>6 DEF KV!Delete, KV!Place, KVPending, KVStore

LEMMA OthersWaitLemma ==
  ASSUME Control, CellTypes, NEW p \in Procs, Call(p) \/ Step(p), at'[p] # "killed"
  PROVE  /\ ~UpdateAlloc(p) \/ Panic(p) => OthersWait(p)
         /\ \A q \in Procs \ {p} : at'[q] = at[q]
  <1>1. \A q \in Procs \ {p} : at'[q] = at[q] /\ arg'[q] = arg[q]
    BY OthersLemma
  <1>2. ASSUME ~UpdateAlloc(p) \/ Panic(p), NEW q \in Procs \ {p} PROVE lot'[q] = lot[q]
    <2>1. CASE Panic(p)
      BY <2>1 DEF Panic, Stay, callVars
    <2>2. CASE Done(p)
      BY <2>2 DEF Done, Control, ControlTypes
    <2>3. CASE Call(p) \/ Get(p) \/ PutLookup(p) \/ UpdateValue(p) \/ UpdateWeight(p) \/ UpdateGen(p)
      BY <2>2, <2>3 DEF Call, Get, GetLookup, GetMark, GetDeref, GetReturn, PutLookup, UpdateValue,
           UpdateWeight, UpdateGen, Stay, callVars
    <2>4. CASE PutSlow(p)
      BY <2>1, <2>2, <2>4 DEF PutSlow, PutNew, PutIndex, PutInsert, PutSweep, PutCharge, Rotate,
           RotateTell, PutReturn, PanicUnlocking, Stay, callVars
    <2>5. CASE \/ Lock(p) \/ Delete(p) \/ DeleteRemove(p) \/ LenCall(p) \/ SizeBytes(p) \/ Close(p)
               \/ Recover(p)
      BY <2>1, <2>2, <2>5 DEF Lock, Delete, DeleteRemove, LenCall, SizeBytes, Close, Recover, Stay,
           callVars
    <2> QED
      BY <1>2, <2>1, <2>3, <2>4, <2>5 DEF Step, Put, PutFast
  <1> QED
    BY <1>1, <1>2 DEF OthersWait

(* Whoever takes a step lives, and so do all.                              *)
LEMMA RunningLemma ==
  ASSUME Control, CellTypes, NEW p \in Procs, Call(p) \/ Step(p)
  PROVE  /\ Running = ("index" \notin nilled)
         /\ at'[p] # "killed" => Running' = ("index" \notin nilled')
         /\ at'[p] = "killed" => ~Running'
  <1>1. at[p] # "killed"
    BY DEF Call, Step, Get, GetLookup, GetMark, GetDeref, GetReturn, Reading, Put, PutLookup, PutFast,
       UpdateAlloc, UpdateValue, UpdateWeight, UpdateGen, PutSlow, PutNew, Locked, PutIndex,
       PutInsert, PutSweep, PutCharge, Rotate, RotateTell, PutReturn, Lock, Delete, DeleteRemove,
       LenCall, SizeBytes, Close, Recover
  <1>2. \A q \in Procs : at[q] # "killed"
    BY <1>1 DEF Control, CallOf
  <1>3. at'[p] # "killed" => \A q \in Procs : at'[q] # "killed"
    BY <1>2, OthersWaitLemma
  <1> QED
    BY <1>2, <1>3 DEF Running

(* A step that moves a call along without effect.                          *)
LEMMA MoveIsStutter ==
  ASSUME Control, CellTypes, Data, NEW p \in Procs, Call(p) \/ Step(p),
         ~UpdateAlloc(p), ~UpdateValue(p), at'[p] # "killed", UNCHANGED index,
         "index" \in nilled' => "index" \in nilled, "index" \in nilled => "index" \in nilled',
         \/ ~Pending(p) /\ ~Pending(p)'
         \/ Pending(p) /\ Pending(p)' /\ arg'[p] = arg[p] /\ lot'[p] = lot[p]
  PROVE  KVStutter
  <1>1. OthersWait(p)
    BY OthersWaitLemma
  <1>2. Running' = Running
    BY RunningLemma
  <1>3. SameFound
    BY <1>2, StepKeepsValues, FoundLemma
  <1>4. Pending(p)' = Pending(p)
    BY DEF Pending, Doing
  <1> QED
    BY <1>1, <1>2, <1>3, <1>4, StutterLemma

LEMMA CallIsCall ==
  ASSUME Control, CellTypes, Data, NEW p \in Procs, Call(p)
  PROVE  KV!Call(p) \/ KVStutter
  <1>1. PICK c \in CallsOf[p] :
          /\ arg' = [arg EXCEPT ![p] = c]
          /\ CASE c.op \in {"get", "put", "len"} -> Goto(p, "reading") /\ Mu!RLock(p)
               [] c.op = "delete" -> Goto(p, "lock") /\ UNCHANGED lockVars
               [] c.op = "size"   -> Goto(p, "iterating") /\ UNCHANGED lockVars
               [] c.op = "close"  -> Goto(p, "index = nil") /\ UNCHANGED lockVars
    BY DEF Call
  <1>2. c \in CallSet /\ c.op \in Ops /\ c # None
    BY ShardAssumption, NoneAssumption DEF CallSet
  <1>3. /\ c.op \in {"get", "put", "len"} => Goto(p, "reading")
        /\ c.op = "delete" => Goto(p, "lock")
        /\ \E a \in {"reading", "lock", "iterating", "index = nil"} : Goto(p, a)
    BY <1>1, <1>2 DEF Ops
  <1>4. /\ at'[p] \in {"reading", "lock", "iterating", "index = nil"} /\ arg'[p] = c
        /\ c.op = "put" => at'[p] = "reading"
        /\ c.op = "delete" => at'[p] = "lock"
    BY <1>1, <1>3 DEF Goto, Control, ControlTypes
  <1>5. ~Pending(p) /\ lot[p] = {} /\ UNCHANGED <<lot, index, nilled>>
    BY DEF Call, Pending, Control, CallOf, mapVars
  <1>6. CASE c.op \notin {"put", "delete"}
    <2>1. ~Pending(p)'
      BY <1>4, <1>6 DEF Pending, Doing
    <2>2. ~UpdateAlloc(p) /\ ~UpdateValue(p)
      BY DEF Call, UpdateAlloc, UpdateValue
    <2> QED
      BY <1>4, <1>5, <2>1, <2>2, MoveIsStutter
  <1>7. CASE c.op \in {"put", "delete"}
    <2>1. Pending(p)'
      BY <1>2, <1>4, <1>7 DEF Pending, Doing
    <2>2. OthersWait(p)
      BY <1>4, OthersWaitLemma DEF Call, UpdateAlloc
    <2>3. \A q \in Procs \ {p} : Pending(q)' = Pending(q)
      BY <2>2 DEF OthersWait, Pending, Doing
    <2>4. KVPending' = [KVPending EXCEPT ![p] = c]
      BY <1>4, <2>1, <2>2, <2>3 DEF KVPending, OthersWait
    <2>5. KVLot' = KVLot
      BY <1>5, <2>1, <2>3 DEF KVLot
    <2>6. Running' = Running
      <3>1. at'[p] # "killed"
        BY <1>4
      <3> QED
        BY <1>5, <3>1, RunningLemma
    <2>7. KVStore' = KVStore
      <3>1. SameFound
        BY <1>5, <2>6, StepKeepsValues, FoundLemma DEF Call, UpdateValue
      <3> QED
        BY <3>1, StoreLemma
    <2>8. KVPending[p] = None
      BY <1>5 DEF KVPending
    <2>9. c \in {x \in CallSet : x.op \in {"put", "delete"}}
      BY <1>2, <1>7
    <2> QED
      BY <2>4, <2>5, <2>6, <2>7, <2>8, <2>9 DEF KV!Call, KVPending, KVLot, KVStore
  <1> QED
    BY <1>6, <1>7

LEMMA QuietIsStutter ==
  ASSUME Control, CellTypes, Data, NEW p \in Procs,
         \/ Get(p) \/ UpdateWeight(p) \/ UpdateGen(p) \/ PutInsert(p) \/ PutSweep(p)
         \/ PutCharge(p) \/ Rotate(p) \/ RotateTell(p) \/ PutReturn(p) \/ DeleteRemove(p)
         \/ LenCall(p) \/ SizeBytes(p) \/ Recover(p)
  PROVE  KVStutter
  <1>1. Step(p) /\ ~UpdateAlloc(p) /\ ~UpdateValue(p)
    <2>1. Step(p)
      BY DEF Step, Put, PutFast, PutSlow
    <2>2. at[p] \notin {"update", "allocating"}
      BY DEF Get, GetLookup, GetMark, GetDeref, GetReturn, Reading, UpdateWeight, UpdateGen,
             PutInsert, PutSweep, PutCharge, Rotate, RotateTell, PutReturn, DeleteRemove, LenCall,
             SizeBytes, Recover
    <2> QED
      BY <2>1, <2>2 DEF UpdateAlloc, UpdateValue
  <1>2. UNCHANGED <<index, nilled>>
    BY DEF Get, GetLookup, GetMark, GetDeref, GetReturn, UpdateWeight, UpdateGen, PutInsert,
           PutSweep, PutCharge, Rotate, RotateTell, PutReturn, DeleteRemove, LenCall, SizeBytes,
           Recover, mapVars
  <1>3. ~Pending(p)
    <2>1. CASE Get(p) \/ LenCall(p)
      BY <2>1 DEF Get, GetLookup, GetMark, GetDeref, GetReturn, LenCall, Reading, Doing, Pending
    <2>2. CASE ~Get(p) /\ ~LenCall(p)
      BY <2>2 DEF UpdateWeight, UpdateGen, PutInsert, PutSweep, PutCharge, Rotate, RotateTell,
           PutReturn, DeleteRemove, SizeBytes, Recover, Pending
    <2> QED
      BY <2>1, <2>2
  <1>4. at'[p] \in {"idle", "mark", "deref", "return", "tag", "panicked", "sweep", "rotate", "tell"}
    <2> USE DEF Control, ControlTypes
    <2>1. CASE Done(p) \/ Panic(p)
      BY <2>1 DEF Done, Panic, Goto
    <2>2. CASE Get(p)
      BY <2>1, <2>2 DEF Get, GetLookup, GetMark, GetDeref, GetReturn, Goto
    <2>3. CASE UpdateWeight(p) \/ UpdateGen(p) \/ PutInsert(p) \/ PutSweep(p)
      BY <2>1, <2>3 DEF UpdateWeight, UpdateGen, PutInsert, PanicUnlocking, PutSweep, Goto
    <2>4. CASE PutCharge(p) \/ Rotate(p) \/ RotateTell(p) \/ PutReturn(p)
      BY <2>1, <2>4 DEF PutCharge, Rotate, RotateTell, PutReturn, PanicUnlocking, Goto
    <2>5. CASE DeleteRemove(p) \/ LenCall(p) \/ SizeBytes(p) \/ Recover(p)
      BY <2>1, <2>5 DEF DeleteRemove, LenCall, SizeBytes, Recover
    <2> QED
      BY <2>2, <2>3, <2>4, <2>5
  <1>5. at'[p] # "killed" /\ ~Pending(p)'
    BY <1>4 DEF Pending
  <1> QED
    BY <1>1, <1>2, <1>3, <1>5, MoveIsStutter

LEMMA WaitIsStutter ==
  ASSUME Control, CellTypes, Data, NEW p \in Procs, PutLookup(p) \/ Lock(p)
  PROVE  KVStutter
  <1>1. Step(p) /\ ~UpdateAlloc(p) /\ ~UpdateValue(p) /\ UNCHANGED <<index, nilled, arg, lot>>
    BY DEF Step, Put, PutLookup, Lock, Reading, UpdateAlloc, UpdateValue, mapVars, callVars, Stay
  <1>2. Pending(p)
    BY DEF PutLookup, Lock, Reading, Pending, Control, CallOf
  <1>3. at'[p] \in {"update", "lock", "locked"}
    BY DEF PutLookup, Lock, Goto, Control, ControlTypes
  <1>4. Pending(p)' /\ at'[p] # "killed"
    BY <1>1, <1>2, <1>3 DEF Pending, Doing
  <1> QED
    BY <1>1, <1>2, <1>4, MoveIsStutter

LEMMA PanicIsFail ==
  ASSUME Control, CellTypes, Calm, NEW p \in Procs, Step(p), Panic(p), Pending(p),
         nilled' = nilled, "genRing" \in nilled \/ "index" \in nilled
  PROVE  KV!Fail(p)
  <1>1. "index" \in nilled
    BY DEF Calm
  <1>2. at'[p] = "panicked"
    BY DEF Panic, Goto, Control, ControlTypes
  <1>3. ~Running /\ ~Running' /\ OthersWait(p)
    BY <1>1, <1>2, RunningLemma, OthersWaitLemma
  <1>4. ~Pending(p)'
    BY <1>2 DEF Pending
  <1> QED
    BY <1>3, <1>4, FailLemma, NoneAssumption

(* Allocations that overlap mix the values of their Puts.                  *)
LEMMA AllocIsMix ==
  ASSUME Control, CellTypes, Data, Calm, NEW p \in Procs, UpdateAlloc(p)
  PROVE  KV!Fail(p) \/ \E S \in SUBSET Procs : KV!Mix(S)
  <1>1. Step(p) /\ at[p] = "update" /\ Pending(p) /\ UNCHANGED <<index, nilled, key, vptr>>
    BY DEF UpdateAlloc, Step, Put, PutFast, mapVars, cellVars, Pending, Control, CallOf, FastSteps
  <1>2. CASE Panic(p) /\ "genRing" \in nilled
    BY <1>1, <1>2, PanicIsFail
  <1>3. CASE ~(Panic(p) /\ "genRing" \in nilled)
    <2>0. PICK S \in SUBSET Procs : S = {q \in Procs : at[q] = "allocating"} \cup {p}
      OBVIOUS
    <2>1. /\ lot' = [q \in Procs |-> IF q \in S THEN lot[q] \cup {arg[r].val : r \in S} ELSE lot[q]]
          /\ Goto(p, "allocating") /\ UNCHANGED arg
      BY <1>3, <2>0 DEF UpdateAlloc
    <2>2. at' = [at EXCEPT ![p] = "allocating"] /\ at'[p] = "allocating"
      BY <2>1 DEF Goto, Control, ControlTypes
    <2>3. \A q \in S : Pending(q) /\ Doing(q, "put")
      BY <1>1, <2>0 DEF Pending, Control, CallOf, FastSteps
    <2>4. \A q \in Procs : Pending(q)' = Pending(q)
      BY <1>1, <2>1, <2>2 DEF Pending, Doing, Control, ControlTypes
    <2>5. KVPending' = KVPending
      BY <2>1, <2>4 DEF KVPending
    <2>6. \A q \in S : KVPending[q] = arg[q]
      BY <2>3 DEF KVPending
    <2>7. {KVPending[r].val : r \in S} = {arg[r].val : r \in S}
      BY <2>6
    <2>8. KVLot' = [q \in Procs |->
             IF q \in S THEN KVLot[q] \cup {KVPending[r].val : r \in S} ELSE KVLot[q]]
      <3>1. ASSUME NEW q \in Procs
            PROVE  (IF Pending(q)' THEN lot'[q] ELSE {}) =
                     IF q \in S THEN KVLot[q] \cup {KVPending[r].val : r \in S} ELSE KVLot[q]
        BY <2>1, <2>3, <2>4, <2>7 DEF KVLot
      <3> QED
        BY <3>1 DEF KVLot
    <2>9. \A q \in S : KV!Waiting(q, "put")
      BY <2>3 DEF KV!Waiting, KVPending, Doing
    <2>10. Running' = Running
      BY <1>1, <2>2, RunningLemma
    <2>11. KVStore' = KVStore
      <3>1. SameFound
        BY <1>1, <2>10 DEF SameFound, Found
      <3> QED
        BY <3>1, StoreLemma
    <2>12. KV!Mix(S)
      BY <2>5, <2>8, <2>9, <2>10, <2>11 DEF KV!Mix, KVPending, KVLot, KVStore
    <2> QED
      BY <2>12
  <1> QED
    BY <1>2, <1>3

LEMMA PutNewIsStutter ==
  ASSUME Control, CellTypes, Data, Calm, NEW p \in Procs, PutNew(p)
  PROVE  KV!Fail(p) \/ KVStutter
  <1>1. /\ Step(p) /\ at[p] = "locked" /\ Pending(p) /\ UNCHANGED <<index, nilled>>
        /\ ~UpdateAlloc(p) /\ ~UpdateValue(p)
    BY DEF PutNew, Locked, Step, Put, PutSlow, mapVars, Pending, UpdateAlloc, UpdateValue
  <1>2. CASE "genRing" \in nilled
    BY <1>1, <1>2, PanicIsFail DEF PutNew, PanicUnlocking
  <1>3. CASE "genRing" \notin nilled
    <2>1. Goto(p, "index it") /\ UNCHANGED <<arg, lot>>
      BY <1>3 DEF PutNew
    <2>2. at'[p] = "index it"
      BY <2>1 DEF Goto, Control, ControlTypes
    <2>3. Pending(p)'
      BY <1>1, <2>1, <2>2 DEF Pending, Doing
    <2> QED
      BY <1>1, <2>1, <2>2, <2>3, MoveIsStutter
  <1> QED
    BY <1>2, <1>3

LEMMA UpdateIsPut ==
  ASSUME Control, CellTypes, RingOK, Data, NEW p \in Procs, UpdateValue(p)
  PROVE  KV!Put(p) \/ KV!Fail(p)
  <1>1. /\ Step(p) /\ at[p] = "allocating" /\ UNCHANGED <<index, nilled, key>>
        /\ Pending(p) /\ Doing(p, "put") /\ ~UpdateAlloc(p)
    BY DEF UpdateValue, UpdateAlloc, Step, Put, PutFast, mapVars, Pending, Control, CallOf, FastSteps
  <1>2. at'[p] = "weigh"
    BY DEF UpdateValue, Goto, Control, ControlTypes
  <1>3. ~Pending(p)' /\ OthersWait(p)
    BY <1>1, <1>2, OthersWaitLemma DEF Pending
  <1>4. CASE ~Running
    <2>1. ~Running'
      <3>1. at'[p] # "killed"
        BY <1>2
      <3> QED
        BY <1>1, <1>4, <3>1, RunningLemma
    <2> QED
      BY <1>1, <1>3, <1>4, <2>1, FailLemma, NoneAssumption
  <1>5. CASE Running
    <2>1. Running'
      <3>1. at'[p] # "killed"
        BY <1>2
      <3> QED
        BY <1>1, <1>5, <3>1, RunningLemma
    <2>2. PICK v \in lot[p] :
            vptr' = [vptr EXCEPT ![mine[p]] = [val |-> v, gen |-> GR!Active.id]]
      BY DEF UpdateValue
    <2>3. /\ h(p) \in Hashes /\ index[h(p)] = mine[p] /\ mine[p] \in Entries
          /\ key[mine[p]] = arg[p].key /\ None \notin Entries
      BY <1>1, HashType, NoneAssumption DEF Doing, Data, KeysOf, FastSteps, Control, CallOf
    <2>4. PICK x \in Hashes : x = h(p)
      BY <2>3
    <2>5. vptr'[mine[p]].val = v /\ \A e \in Entries \ {mine[p]} : vptr'[e] = vptr[e]
      BY <2>2, <2>3 DEF CellTypes
    <2>6. Found(x)' = [key |-> arg[p].key, val |-> v]
      BY <1>1, <2>1, <2>3, <2>4, <2>5 DEF Found
    <2>7. ASSUME NEW y \in Hashes \ {x} PROVE Found(y)' = Found(y)
      <3>1. index[y] # None => index[y] \in Entries \ {mine[p]}
        <4>1. index[y] # None => HashOf[key[index[y]]] = y /\ index[y] \in Entries
          BY DEF Data, IndexSound, Control, ControlTypes
        <4> QED
          BY <2>3, <2>4, <2>7, <4>1 DEF h
      <3> QED
        BY <1>1, <1>5, <2>1, <2>5, <3>1 DEF Found
    <2> QED
      BY <1>1, <1>3, <1>5, <2>1, <2>4, <2>6, <2>7, PutLemma
  <1> QED
    BY <1>4, <1>5

LEMMA KillIsStop ==
  ASSUME Control, CellTypes, NEW p \in Procs, Step(p), "index" \notin nilled,
         at' = [q \in Procs |-> "killed"]
  PROVE  KV!Stop
  <1>1. at'[p] = "killed" /\ \A q \in Procs : ~Pending(q)'
    BY DEF Pending
  <1>2. Running /\ ~Running'
    BY <1>1, RunningLemma
  <1> QED
    BY <1>1, <1>2, StopLemma

LEMMA PutIndexIsPut ==
  ASSUME Control, CellTypes, Data, Calm, NEW p \in Procs, PutIndex(p)
  PROVE  KV!Put(p) \/ KV!Fail(p) \/ KV!Stop
  <1>1. /\ Step(p) /\ at[p] = "index it" /\ UNCHANGED <<nilled, key, vptr>>
        /\ Pending(p) /\ Doing(p, "put") /\ ~UpdateAlloc(p)
    BY DEF PutIndex, UpdateAlloc, Step, Put, PutSlow, cellVars, Pending, Control, CallOf, SlowSteps
  <1>2. CASE "index" \in nilled
    BY <1>1, <1>2, PanicIsFail DEF PutIndex, PanicUnlocking
  <1>3. CASE "index" \notin nilled /\ at' = [q \in Procs |-> "killed"]
    BY <1>1, <1>3, KillIsStop
  <1>4. CASE "index" \notin nilled /\ ~(at' = [q \in Procs |-> "killed"])
    <2>1. Goto(p, "insert") /\ index' = [index EXCEPT ![h(p)] = mine[p]]
      BY <1>4 DEF PutIndex, MapWrite
    <2>2. at'[p] = "insert"
      BY <2>1 DEF Goto, Control, ControlTypes
    <2>3. ~Pending(p)' /\ OthersWait(p)
      BY <1>1, <2>2, OthersWaitLemma DEF Pending
    <2>4. Running /\ Running'
      BY <1>1, <1>4, <2>2, RunningLemma
    <2>5. /\ h(p) \in Hashes /\ mine[p] \in Entries
          /\ key[mine[p]] = arg[p].key /\ None \notin Entries
          /\ vptr[mine[p]].val = arg[p].val
      BY <1>1, HashType, NoneAssumption DEF Doing, Data, KeysOf, SlowSteps, Control, CallOf
    <2>6. PICK x \in Hashes : x = h(p)
      BY <2>5
    <2>7. index'[x] = mine[p] /\ \A y \in Hashes \ {x} : index'[y] = index[y]
      BY <2>1, <2>6 DEF Control, ControlTypes
    <2>8. Found(x)' = [key |-> arg[p].key, val |-> arg[p].val]
      BY <1>1, <2>4, <2>5, <2>7 DEF Found
    <2>9. \A y \in Hashes \ {x} : Found(y)' = Found(y)
      BY <1>1, <2>4, <2>7 DEF Found
    <2> QED
      BY <1>1, <2>3, <2>4, <2>6, <2>8, <2>9, PutLemma
  <1> QED
    BY <1>2, <1>3, <1>4

LEMMA DeleteIsDelete ==
  ASSUME Control, CellTypes, Data, NEW p \in Procs, Delete(p)
  PROVE  KV!Delete(p) \/ KV!Fail(p) \/ KV!Stop
  <1>1. /\ Step(p) /\ at[p] = "locked" /\ UNCHANGED <<nilled, key, vptr>>
        /\ Pending(p) /\ Doing(p, "delete") /\ ~UpdateAlloc(p)
    BY DEF Delete, Locked, UpdateAlloc, Step, cellVars, Pending
  <1>2. h(p) \in Hashes /\ None \notin Entries
    BY <1>1, HashType, NoneAssumption DEF Doing
  <1>3. PICK x \in Hashes : x = h(p)
    BY <1>2
  <1>4. CASE Known(p)
    <2>1. /\ "index" \notin nilled /\ index[x] # None /\ key[index[x]] = arg[p].key
      BY <1>3, <1>4 DEF Known, Entry
    <2>2. CASE at' = [q \in Procs |-> "killed"]
      BY <1>1, <2>1, <2>2, KillIsStop
    <2>3. CASE ~(at' = [q \in Procs |-> "killed"])
      <3>1. Goto(p, "remove") /\ index' = [index EXCEPT ![h(p)] = None]
        BY <1>4, <2>3 DEF Delete, MapWrite
      <3>2. at'[p] = "remove"
        BY <3>1 DEF Goto, Control, ControlTypes
      <3>3. ~Pending(p)' /\ OthersWait(p)
        BY <1>1, <3>2, OthersWaitLemma DEF Pending
      <3>4. Running /\ Running'
        BY <1>1, <2>1, <3>2, RunningLemma
      <3>5. index'[x] = None /\ \A y \in Hashes \ {x} : index'[y] = index[y]
        BY <1>3, <3>1 DEF Control, ControlTypes
      <3>6. Found(x)' = None /\ Found(x).key = arg[p].key
        BY <2>1, <3>4, <3>5 DEF Found
      <3>7. \A y \in Hashes \ {x} : Found(y)' = Found(y)
        BY <1>1, <3>4, <3>5 DEF Found
      <3>8. Found(x)' = IF Found(x) # None /\ Found(x).key = arg[p].key THEN None ELSE Found(x)
        BY <3>6
      <3> QED
        BY <1>1, <1>3, <3>3, <3>4, <3>7, <3>8, DeleteLemma
    <2> QED
      BY <2>2, <2>3
  <1>5. CASE ~Known(p)
    <2>1. at'[p] = "idle" /\ UNCHANGED index
      BY <1>5 DEF Delete, Done, Goto, Control, ControlTypes
    <2>2. ~Pending(p)' /\ OthersWait(p)
      BY <1>1, <2>1, OthersWaitLemma DEF Pending
    <2>3. at'[p] # "killed"
      BY <2>1
    <2>4. Running' = Running
      BY <1>1, <2>3, RunningLemma
    <2>5. CASE ~Running
      BY <1>1, <2>2, <2>4, <2>5, FailLemma, NoneAssumption
    <2>6. CASE Running
      <3>1. \A y \in Hashes : Found(y)' = Found(y)
        BY <1>1, <2>1, <2>4 DEF Found
      <3>2. "index" \notin nilled
        BY <2>6 DEF Running
      <3>3. ~(Found(x) # None /\ Found(x).key = arg[p].key)
        BY <1>3, <1>5, <2>6, <3>2 DEF Found, Known, Entry
      <3>4. Found(x)' = IF Found(x) # None /\ Found(x).key = arg[p].key THEN None ELSE Found(x)
        BY <3>1, <3>3
      <3> QED
        BY <1>1, <1>3, <2>2, <2>4, <2>6, <3>1, <3>4, DeleteLemma
    <2> QED
      BY <2>5, <2>6
  <1> QED
    BY <1>4, <1>5

LEMMA CloseIsStop ==
  ASSUME Control, CellTypes, Data, NEW p \in Procs, Close(p)
  PROVE  KV!Stop \/ KVStutter
  <1>1. /\ Step(p) /\ at[p] \in CloseSteps /\ UNCHANGED <<index, key, vptr>>
        /\ ~UpdateAlloc(p) /\ ~UpdateValue(p) /\ ~Pending(p)
    BY DEF Close, Step, CloseSteps, cellVars, UpdateAlloc, UpdateValue, Pending
  <1>2. at'[p] \in {"clock = nil", "genRing = nil", "idle"}
    BY DEF Close, Done, Goto, Control, ControlTypes
  <1>3. at'[p] # "killed" /\ ~Pending(p)'
    BY <1>2 DEF Pending
  <1>4. CASE "index" \in nilled \/ "index" \notin nilled'
    <2>1. ("index" \in nilled' => "index" \in nilled) /\ ("index" \in nilled => "index" \in nilled')
      BY <1>4 DEF Close
    <2> QED
      BY <1>1, <1>3, <2>1, MoveIsStutter
  <1>5. CASE "index" \notin nilled /\ "index" \in nilled'
    <2>1. Running /\ ~Running'
      BY <1>1, <1>3, <1>5, RunningLemma
    <2>2. OthersWait(p)
      BY <1>1, <1>3, OthersWaitLemma
    <2>3. \A q \in Procs : /\ Pending(q)' = Pending(q)
                           /\ Pending(q) => arg'[q] = arg[q] /\ lot'[q] = lot[q]
      BY <1>1, <1>3, <2>2 DEF OthersWait, Pending, Doing
    <2> QED
      BY <2>1, <2>3, StopLemma
  <1> QED
    BY <1>4, <1>5

(* ImplementsKeyValue: a Put or a Delete takes effect at one moment of its *)
(* call, on its own key alone, and nothing else changes what the index     *)
(* leads to (pkg/cache.go:175-237).                                        *)
THEOREM RefinementCorrect == Spec => ImplementsKeyValue
<1> DEFINE Inv == Control /\ Calm /\ RingOK /\ CellTypes /\ Data
<1>1. Inv /\ [Next]_vars => KV!Next \/ KVStutter
  <2> SUFFICES ASSUME Inv, [Next]_vars PROVE KV!Next \/ KVStutter
    OBVIOUS
  <2>1. CASE UNCHANGED vars
    <3>1. UNCHANGED <<index, nilled, key, vptr, at, arg, lot>>
      BY <2>1 DEF vars, mapVars, cellVars, callVars
    <3>2. Running' = Running
      BY <3>1 DEF Running
    <3>3. KVStore' = KVStore
      BY <3>1, <3>2 DEF KVStore, Found
    <3>4. KVPending' = KVPending /\ KVLot' = KVLot
      BY <3>1 DEF KVPending, KVLot, Pending, Doing
    <3> QED
      BY <3>2, <3>3, <3>4 DEF KVStutter
  <2>2. ASSUME NEW p \in Procs, Call(p) \/ Step(p) PROVE KV!Next \/ KVStutter
    <3>1. KVStutter \/ KV!Stop \/ KV!Call(p) \/ KV!Put(p) \/ KV!Delete(p) \/ KV!Fail(p)
            \/ \E S \in SUBSET Procs : KV!Mix(S)
      BY <2>2, CallIsCall, QuietIsStutter, WaitIsStutter, AllocIsMix, PutNewIsStutter, UpdateIsPut,
         PutIndexIsPut, DeleteIsDelete, CloseIsStop
      DEF Step, Put, PutFast, PutSlow
    <3> QED
      BY <3>1 DEF KV!Next
  <2> QED
    BY <2>1, <2>2 DEF Next
<1>2. Init => KV!Init
  <2> SUFFICES ASSUME Init PROVE KV!Init
    OBVIOUS
  <2>1. Running = TRUE
    BY DEF Init, Running
  <2>2. KVStore = [x \in Hashes |-> None]
    BY DEF KVStore, Found, Init
  <2>3. KVPending = [p \in Procs |-> None] /\ KVLot = [p \in Procs |-> {}]
    BY DEF KVPending, KVLot, Pending, Doing, Init
  <2> QED
    BY <2>1, <2>2, <2>3 DEF KV!Init, KV!Empty, KVStore, KVPending, KVLot
<1>3. [Next]_vars /\ Inv => [KV!Next]_<<KVStore, KVPending, KVLot, ~Running>>
  BY <1>1 DEF KVStutter
<1> QED
  BY <1>2, <1>3, ControlCorrect, CalmCorrect, RingCorrect, CellsCorrect, DataCorrect, PTL
  DEF Spec, ImplementsKeyValue, KV!Spec, KVStore, KVPending, KVLot
=============================================================================
