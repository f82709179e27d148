------------------------------ MODULE ClockPro ------------------------------
(***************************************************************************)
(* The replacement policy of one shard: internal/clockpro/clockpro.go.     *)
(*                                                                         *)
(* The entries known to the policy form a circular list swept by a hand.   *)
(* Each is resident (cold or hot) or a ghost (test): metadata kept for a   *)
(* while after the value has gone.  Insert adds a resident entry behind    *)
(* the hand and, while more bytes are charged than the capacity allows,    *)
(* sweeps: a set reference bit buys another turn, a hot entry becomes      *)
(* cold, a cold one a ghost, and a ghost is forgotten.                     *)
(*                                                                         *)
(* Everything but the reference bit runs under the exclusive lock of the   *)
(* shard.  The bit is set by readers that have already released their      *)
(* read lock (cache.go:143, 158) with a plain load and store, so every     *)
(* step of the sweep interleaves with them.  A reader finds an entry, in   *)
(* the index of the shard, only while no sweep is running.                 *)
(*                                                                         *)
(* `ring' is the list from the hand onwards.  c.head is the hand whenever  *)
(* the lock is free, and the sweep does not read it; the pointers          *)
(* themselves are modelled in MetaList.                                    *)
(***************************************************************************)
EXTENDS Integers, Sequences, SequencesExt, FiniteSets

CONSTANTS
  Entries,          \* entry objects; one that nobody refers to may be reused
  Readers,          \* goroutines in shard.get
  Gens,             \* IDs of generations
  Capacity,         \* Clock.capacity
  MaxWeight,        \* bound: the weights in use
  Reweigh,          \* what a Put of a known key may do to its entry's weight
  MayRemoveGhosts,  \* Delete is called for keys whose entry is a ghost
  MaxDebt,          \* bound: how far below zero the size may go
  None              \* no entry, no byte

ASSUME ClockProAssumption ==
  /\ IsFiniteSet(Entries)
  /\ Capacity \in Nat
  /\ MaxWeight \in Nat
  /\ Reweigh \subseteq {"grow", "shrink"}
  /\ MayRemoveGhosts \in BOOLEAN
  /\ MaxDebt \in Nat
  /\ None \notin Entries

VARIABLES
  ring,    \* metaNode list from the hand onwards
  state,   \* entry.state: two mode bits and the reference bit
  weight,  \* entry.weight
  genID,   \* entry.genID
  size,    \* Clock.size: the bytes charged
  pc,      \* where Insert's sweep is: "idle", "scan" or "act"
  ent,     \* Insert's entry while its sweep runs
  seen,    \* st, the state byte the sweep has read
  held,    \* per reader: the entry it found
  byte    \* per reader: the state byte it has loaded

vars == <<ring, state, weight, genID, size, pc, ent, seen, held, byte>>

clockVars == <<ring, weight, genID, size, pc, ent, seen>>
readerVars == <<held, byte>>

State == [mode : {"cold", "hot", "test"}, ref : BOOLEAN]

ASSUME NoneAssumption == None \notin State

Weights == 0 .. MaxWeight

hand == ring[1]

Listed == ToSet(ring)

Resident == {e \in Listed : state[e].mode # "test"}

Init ==
  /\ ring = <<>>
  /\ state = [e \in Entries |-> [mode |-> "test", ref |-> FALSE]]
  /\ weight = [e \in Entries |-> 0]
  /\ genID \in [Entries -> Gens] /\ \A e, f \in Entries : genID[e] = genID[f]
  /\ size = 0
  /\ pc = "idle"
  /\ ent = None
  /\ seen = None
  /\ held = [r \in Readers |-> None]
  /\ byte = [r \in Readers |-> None]

-----------------------------------------------------------------------------
(* The bytes that the entries of S stand for: the sum of their weights, as *)
(* the number of <<entry, unit>> pairs.                                    *)
Footprint(S) ==
  Cardinality({u \in S \X (1 .. MaxWeight) : u[2] <= weight[u[1]]})

(* The loop condition of evictIfNeeded, for the size s: go on with the     *)
(* sweep that Insert of e has called, or return from both.                 *)
Sweep(s, e) ==
  IF s > Capacity THEN pc' = "scan" /\ ent' = e
                  ELSE pc' = "idle" /\ ent' = None

\* Bug: the fresh entry goes in before the hand.
BugInsertAtHand(e, w, g) ==
  /\ pc = "idle"
  /\ e \notin Listed /\ \A r \in Readers : held[r] # e
  /\ ring' = <<e>> \o ring
  /\ state' = [state EXCEPT ![e] = [mode |-> "cold", ref |-> TRUE]]
  /\ weight' = [weight EXCEPT ![e] = w]
  /\ genID' = [genID EXCEPT ![e] = g]
  /\ size' = size + w
  /\ Sweep(size', e)
  /\ UNCHANGED <<seen, held, byte>>

(* A fresh entry goes in behind the hand; then the sweep, if it is needed. *)
Insert(e, w, g) ==
  /\ pc = "idle"
  /\ e \notin Listed /\ \A r \in Readers : held[r] # e
  /\ ring' = Append(ring, e)
  /\ state' = [state EXCEPT ![e] = [mode |-> "cold", ref |-> TRUE]]
  /\ weight' = [weight EXCEPT ![e] = w]
  /\ genID' = [genID EXCEPT ![e] = g]
  /\ size' = size + w
  /\ Sweep(size', e)
  /\ UNCHANGED <<seen, held, byte>>

(* The first entry that the list holds for the pointer is unlinked and its *)
(* weight taken off the size.                                              *)
RemoveEntry(e) ==
  /\ pc = "idle"
  /\ e \in Resident \/ MayRemoveGhosts
  /\ size - weight[e] >= -MaxDebt
  /\ \E i \in DOMAIN ring :
       /\ ring[i] = e
       /\ ring' = RemoveAt(ring, i)
  /\ size' = size - weight[e]
  /\ UNCHANGED <<state, weight, genID, pc, ent, seen, held, byte>>

\* Bug: the bytes of the dead generation stay charged.
BugGenerationKeepsSize(g) ==
  LET dead == {e \in Resident : genID[e] = g}
  IN  /\ pc = "idle"
      /\ size - Footprint(dead) >= -MaxDebt
      /\ state' = [e \in Entries |->
           IF e \in dead THEN [mode |-> "test", ref |-> FALSE] ELSE state[e]]
      /\ UNCHANGED <<ring, weight, genID, size, pc, ent, seen, held, byte>>

(* The resident entries of a dead generation become ghosts.                *)
GenerationEvicted(g) ==
  LET dead == {e \in Resident : genID[e] = g}
  IN  /\ pc = "idle"
      /\ size - Footprint(dead) >= -MaxDebt
      /\ state' = [e \in Entries |->
           IF e \in dead THEN [mode |-> "test", ref |-> FALSE] ELSE state[e]]
      /\ size' = size - Footprint(dead)
      /\ UNCHANGED <<ring, weight, genID, pc, ent, seen, held, byte>>

(* put's update of a known key (cache.go:179-192): the weight and the      *)
(* generation of the entry change behind the policy's back, under the read *)
(* lock.  The index may know an entry that the policy has forgotten.       *)
Update(e, w, g) ==
  /\ pc = "idle"
  /\ w < weight[e] => "shrink" \in Reweigh
  /\ w > weight[e] => "grow" \in Reweigh
  /\ weight' = [weight EXCEPT ![e] = w]
  /\ genID' = [genID EXCEPT ![e] = g]
  /\ UNCHANGED <<ring, state, size, pc, ent, seen, held, byte>>

-----------------------------------------------------------------------------
(* evictIfNeeded: one turn of its loop is a ReadHand and one of the five    *)
(* steps that follow it.  The state byte is read at the top and again by    *)
(* the &^= that clears the reference bit; the compiler may keep the first   *)
(* value, so either counts.                                                 *)
ReadHand ==
  /\ pc = "scan"
  /\ seen' = state[hand]
  /\ pc' = "act"
  /\ UNCHANGED <<ring, state, weight, genID, size, ent, held, byte>>

\* Bug: the node is linked in behind the hand and not unlinked before it.
BugLeave(b) ==
  /\ state' = [state EXCEPT ![hand] = b]
  /\ ring' = Append(ring, hand)
  /\ seen' = None
  /\ UNCHANGED <<weight, genID, held, byte>>

(* The state byte the hand leaves behind, and the hand moves on.           *)
Leave(b) ==
  /\ state' = [state EXCEPT ![hand] = b]
  /\ ring' = Append(Tail(ring), hand)
  /\ seen' = None
  /\ UNCHANGED <<weight, genID, held, byte>>

(* Hot and referenced: the entry stays hot and loses the bit.              *)
KeepHot ==
  /\ pc = "act" /\ seen.mode = "hot" /\ seen.ref
  /\ \E b \in {seen, state[hand]} : Leave([b EXCEPT !.ref = FALSE])
  /\ Sweep(size, ent)
  /\ UNCHANGED size

\* Bug: the hot entry keeps its mode.
BugDemote ==
  /\ pc = "act" /\ seen.mode = "hot" /\ ~seen.ref
  /\ Leave(seen)
  /\ Sweep(size, ent)
  /\ UNCHANGED size

(* Hot and not referenced: the entry becomes cold.                         *)
Demote ==
  /\ pc = "act" /\ seen.mode = "hot" /\ ~seen.ref
  /\ Leave([mode |-> "cold", ref |-> FALSE])
  /\ Sweep(size, ent)
  /\ UNCHANGED size

(* Cold and referenced: the entry becomes hot.                             *)
Promote ==
  /\ pc = "act" /\ seen.mode = "cold" /\ seen.ref
  /\ Leave([mode |-> "hot", ref |-> FALSE])
  /\ Sweep(size, ent)
  /\ UNCHANGED size

\* Bug: the evicted entry stays charged.
BugEvictKeepsSize ==
  /\ pc = "act" /\ seen.mode = "cold" /\ ~seen.ref
  /\ Leave([mode |-> "test", ref |-> FALSE])
  /\ size' = size
  /\ Sweep(size', ent)

\* Bug: the loop stops one byte short.
BugEvictShort ==
  /\ pc = "act" /\ seen.mode = "cold" /\ ~seen.ref
  /\ Leave([mode |-> "test", ref |-> FALSE])
  /\ size' = size - weight[hand]
  /\ IF size' > Capacity + 1 THEN pc' = "scan" /\ ent' = ent
                              ELSE pc' = "idle" /\ ent' = None

(* Cold and not referenced: the value goes, the entry becomes a ghost.     *)
(* callEjectCb copies the value out of the arena and returns: the user's   *)
(* callback is not called, and no state changes.                           *)
Evict ==
  /\ pc = "act" /\ seen.mode = "cold" /\ ~seen.ref
  /\ Leave([mode |-> "test", ref |-> FALSE])
  /\ size' = size - weight[hand]
  /\ Sweep(size', ent)

(* A ghost: the entry is forgotten and the hand stays with its successor.  *)
(* The last node of the list is its own successor, so the hand stays on it *)
(* though it is no longer listed; should the loop end there, the final     *)
(* assignment to c.head lists it again.                                    *)
Forget ==
  /\ pc = "act" /\ seen.mode = "test"
  /\ ring' = IF Len(ring) = 1 THEN ring ELSE Tail(ring)
  /\ seen' = None
  /\ Sweep(size, ent)
  /\ UNCHANGED <<state, weight, genID, size, held, byte>>

evictIfNeeded == ReadHand \/ KeepHot \/ Demote \/ Promote \/ Evict \/ Forget

-----------------------------------------------------------------------------
(* shard.get: the entry is found under the read lock, ...                  *)
Find(r, e) ==
  /\ pc = "idle"
  /\ held[r] = None
  /\ held' = [held EXCEPT ![r] = e]
  /\ UNCHANGED <<byte, state>>
  /\ UNCHANGED clockVars

(* ... and after the lock is released SetReferenced loads its state byte,  *)
LoadState(r) ==
  /\ held[r] # None /\ byte[r] = None
  /\ byte' = [byte EXCEPT ![r] = state[held[r]]]
  /\ UNCHANGED <<held, state>>
  /\ UNCHANGED clockVars

(* sets the bit and stores it back.                                        *)
StoreState(r) ==
  /\ byte[r] # None
  /\ state' = [state EXCEPT ![held[r]] = [byte[r] EXCEPT !.ref = TRUE]]
  /\ held' = [held EXCEPT ![r] = None]
  /\ byte' = [byte EXCEPT ![r] = None]
  /\ UNCHANGED clockVars

Writer ==
  \/ \E e \in Entries, w \in Weights, g \in Gens : Insert(e, w, g)
  \/ \E e \in Entries : RemoveEntry(e)
  \/ \E g \in Gens : GenerationEvicted(g)
  \/ \E e \in Entries, w \in Weights, g \in Gens : Update(e, w, g)
  \/ evictIfNeeded

Reader(r) ==
  \/ \E e \in Entries : Find(r, e)
  \/ LoadState(r)
  \/ StoreState(r)

Next == Writer \/ \E r \in Readers : Reader(r)

Spec == Init /\ [][Next]_vars

(* The goroutine that holds the lock keeps running.                        *)
FairSpec == Spec /\ WF_vars(evictIfNeeded)
-----------------------------------------------------------------------------
TypeOK ==
  /\ ring \in Seq(Entries) /\ IsInjective(ring)
  /\ state \in [Entries -> State]
  /\ weight \in [Entries -> Weights]
  /\ genID \in [Entries -> Gens]
  /\ size \in Int
  /\ pc \in {"idle", "scan", "act"}
  /\ pc # "idle" => ring # <<>>
  /\ pc # "idle" <=> size > Capacity
  /\ IF pc = "idle" THEN ent = None ELSE ent \in Entries
  /\ IF pc = "act" THEN seen \in State ELSE seen = None
  /\ held \in [Readers -> Entries \cup {None}]
  /\ byte \in [Readers -> State \cup {None}]
  /\ \A r \in Readers : byte[r] # None => held[r] # None

(* The policy does to its list what HandList allows, and MetaList shows     *)
(* the pointers to do (clockpro.go:109-133, 206-237): no entry is lost,     *)
(* repeated or reordered, wherever the hand stands when one is inserted,    *)
(* removed, passed or forgotten.                                            *)
HL == INSTANCE HandList WITH list <- ring

UsesHandList == HL!Spec

(* While a sweep is running the newcomer that started it is resident, and   *)
(* its weight alone accounts for the excess: the sweep ends with the        *)
(* newcomer's eviction at the latest.  So it never runs out of victims and  *)
(* is never left spinning over a list of ghosts (clockpro.go:206-236), not  *)
(* even when readers race with it, weights change behind its back and the   *)
(* size has drifted away from what is resident.                             *)
SweepHasVictim ==
  pc # "idle" =>
    /\ ent \in Resident
    /\ size <= Capacity + weight[ent]
    /\ \A r \in Readers : held[r] # ent

(* The policy never charges more than what is resident, whatever readers    *)
(* race with and whatever is removed (clockpro.go:145, 160, 184, 226): the  *)
(* errors of its accounting make the cache larger, never smaller.  Only a   *)
(* Put that lowers a weight could break this.                               *)
NeverOverCharged == size <= Footprint(Resident)

(* "current used bytes (sum weights of HOT+COLD)" (clockpro.go:85).        *)
SizeExact == size = Footprint(Resident)

(* "byte budget (per-shard)" (clockpro.go:86): between two operations the  *)
(* residents fit into the capacity.                                        *)
ResidentsFit == pc = "idle" => Footprint(Resident) <= Capacity

(* The sweep ends (clockpro.go:206): with the lock of the shard held, it   *)
(* would otherwise stop every operation on the shard.                      *)
EvictionTerminates == (pc # "idle") ~> (pc = "idle")

(* A new entry that fits into the capacity survives the sweep of its own   *)
(* Put (clockpro.go:146): every other entry runs out of turns before it,   *)
(* as it is last in line and starts with a reference bit.                  *)
AdmittedIfFits ==
  [][ent # None /\ weight[ent] <= Capacity => ent \in Resident']_vars

(* Once a ghost, an entry is a ghost until it is inserted afresh: its      *)
(* value is gone (clockpro.go:43).  SetReferenced only "ORs the reference  *)
(* flag in place" (clockpro.go:47), so a hit cannot change the mode.       *)
GhostStaysGhost ==
  [][\A e \in Listed \ Resident : e \in Listed' => e \notin Resident']_vars
=============================================================================
