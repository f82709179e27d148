------------------------------- MODULE GenRing -------------------------------
(***************************************************************************)
(* The generation ring of one shard: internal/genring/genring.go.          *)
(*                                                                         *)
(* A ring of NumGens slots, each empty or holding a generation: an arena   *)
(* with the bytes charged to it.  Values are allocated in the active       *)
(* generation.  A Put charges its weight to it and, when the budget of the *)
(* generation is exceeded, the caller rotates: the next slot's generation  *)
(* is freed and replaced by a fresh one, which becomes active.             *)
(*                                                                         *)
(* The parent shard serialises all of this with its mutex, so every        *)
(* operation is one action.  The pair CheckRotationNeeded / Rotate stays   *)
(* two actions, as it is two calls in shard.put; `due' is the Boolean the  *)
(* first returns and the second is called on.                              *)
(***************************************************************************)
EXTENDS Integers

CONSTANTS
  NumGens,    \* defaultGenerations, 4 in the code
  CapBytes,   \* capBytes, the capacity of the shard
  Deltas,     \* the weights that callers charge (an int, of either sign)
  MaxDelta,   \* the largest of them
  IdMod,      \* 2^32 in the code: generation IDs are uint32
  Nil,        \* an empty slot
  MaxDebt,    \* bound: how far negative weights may take a byte counter
  MaxNow      \* bound: the last instant of the clock

ASSUME GenRingAssumption ==
  /\ NumGens \in Nat \ {0}
  /\ CapBytes \in Nat \ {0}
  /\ MaxDelta \in Nat
  /\ Deltas \subseteq Int /\ \A d \in Deltas : d <= MaxDelta
  /\ IdMod \in Nat /\ NumGens < IdMod
  /\ MaxDebt \in Nat
  /\ MaxNow \in Nat

VARIABLES
  gens,       \* Ring.gens: the slots
  activeIdx,  \* Ring.activeIdx
  idCtr,      \* Ring.idCtr: the ID given last
  due,        \* CheckRotationNeeded has returned true, Rotate comes next
  now         \* the wall clock that newGeneration reads

vars == <<gens, activeIdx, idCtr, due, now>>

Slots == 0 .. NumGens - 1

Generation == [id : 0 .. IdMod - 1, bytes : Int, created : Nat]

ASSUME NilAssumption == Nil \notin Generation

(* New: each generation gets an equal part of the capacity; a capacity too *)
(* small to be divided is given whole to every generation.                 *)
PerGenBytes ==
  IF CapBytes \div NumGens = 0 THEN CapBytes ELSE CapBytes \div NumGens

newGeneration(id) == [id |-> id, bytes |-> 0, created |-> now]

Active == gens[activeIdx]

\* Bug: the wrap is forgotten.
BugNextIdx == activeIdx + 1

\* Bug: the ring wraps to its second slot.
BugNextIdxSecond == IF activeIdx = NumGens - 1 THEN 1 ELSE activeIdx + 1

NextIdx == (activeIdx + 1) % NumGens

\* Bug: the counter saturates.
BugNextId == IF idCtr + 1 = IdMod THEN idCtr ELSE idCtr + 1

NextId == (idCtr + 1) % IdMod

Occupied == {i \in Slots : gens[i] # Nil}

Init ==
  /\ now = 0
  /\ idCtr = 1
  /\ activeIdx = 0
  /\ gens = [i \in Slots |-> IF i = 0 THEN newGeneration(1) ELSE Nil]
  /\ due = FALSE

\* Bug: the budget is compared before the charge is added.
BugCheckFirst(delta) ==
  /\ ~due
  /\ Active.bytes + delta >= -MaxDebt
  /\ gens' = [gens EXCEPT ![activeIdx].bytes = @ + delta]
  /\ due' = (Active.bytes > PerGenBytes)
  /\ UNCHANGED <<activeIdx, idCtr, now>>

(* The charge is added first and the total compared afterwards, so the     *)
(* charge that breaks the budget is still the old generation's.            *)
CheckRotationNeeded(delta) ==
  /\ ~due
  /\ Active.bytes + delta >= -MaxDebt
  /\ gens' = [gens EXCEPT ![activeIdx].bytes = @ + delta]
  /\ due' = (Active.bytes + delta > PerGenBytes)
  /\ UNCHANGED <<activeIdx, idCtr, now>>

\* Bug: the fresh generation replaces the active one.
BugRotateInPlace ==
  /\ due
  /\ gens' = [gens EXCEPT ![activeIdx] = newGeneration(NextId)]
  /\ activeIdx' = NextIdx
  /\ idCtr' = NextId
  /\ due' = FALSE
  /\ UNCHANGED now

(* The generation in the next slot, if any, is freed and returned to the   *)
(* caller; nothing but the position in the ring decides which one it is.   *)
Rotate ==
  /\ due
  /\ gens' = [gens EXCEPT ![NextIdx] = newGeneration(NextId)]
  /\ activeIdx' = NextIdx
  /\ idCtr' = NextId
  /\ due' = FALSE
  /\ UNCHANGED now

Tick ==
  /\ now < MaxNow
  /\ now' = now + 1
  /\ UNCHANGED <<gens, activeIdx, idCtr, due>>

Next ==
  \/ \E d \in Deltas : CheckRotationNeeded(d)
  \/ Rotate
  \/ Tick

Spec == Init /\ [][Next]_vars

-----------------------------------------------------------------------------
TypeOK ==
  /\ gens \in [Slots -> Generation \cup {Nil}]
  /\ activeIdx \in Slots
  /\ idCtr \in 0 .. IdMod - 1
  /\ due \in BOOLEAN
  /\ now \in Nat

(* How many rotations ago the slot was filled, if it was.                  *)
Age(i) == IF i <= activeIdx THEN activeIdx - i ELSE activeIdx - i + NumGens

(* Walking back from the active slot, the generations carry consecutive    *)
(* IDs (modulo the width of the counter) and creation times that never     *)
(* increase, and the occupied slots come before the empty ones: the ring   *)
(* is a queue, whatever the number of rotations and even across a wrap of  *)
(* the ID counter.  CLOCK-Pro finds the entries of a dead generation by    *)
(* its ID alone (genring.go:8, cache.go:251), so this is what makes an ID  *)
(* name one generation of the ring.                                        *)
RingIsQueue ==
  /\ activeIdx \in Occupied
  /\ \A i \in Occupied : 
       /\ gens[i].id = (IF Age(i) <= idCtr THEN idCtr - Age(i)
                                           ELSE idCtr - Age(i) + IdMod)
       /\ gens[i].created <= now
  /\ \A i, j \in Slots : (Age(i) <= Age(j) /\ j \in Occupied) =>
       /\ i \in Occupied
       /\ gens[j].created <= gens[i].created

(* No two generations of the ring share an ID (genring.go:8).              *)
IdsDistinct ==
  \A i, j \in Occupied : gens[i].id = gens[j].id => i = j

(* Budgets: a generation is retired only once it is over its budget, never *)
(* exceeds it by more than the one charge that broke it, and between two   *)
(* Puts the active one is within it (genring.go:122-126, cache.go:218-221).*)
BudgetsKept ==
  \A i \in Occupied :
    /\ gens[i].bytes <= PerGenBytes + MaxDelta
    /\ IF i = activeIdx THEN due <=> gens[i].bytes > PerGenBytes
                        ELSE gens[i].bytes > PerGenBytes

(* A rotation frees nothing while a slot is still empty, and then frees    *)
(* the generation that was created first (genring.go:128-132).             *)
OldestFreed ==
  [][idCtr' # idCtr /\ gens[activeIdx'] # Nil =>
       \A i \in Slots :
         gens[i] # Nil /\ gens[activeIdx'].created <= gens[i].created]_vars
=============================================================================
