--------------------------- MODULE ShardPartsProof ---------------------------
(***************************************************************************)
(* Proofs about a shard that rest on the proofs about its parts: the       *)
(* shard uses its policy as ClockPro says (PolicyUseCorrect), so what      *)
(* ClockProProof shows of the policy holds of the policy in the shard; and *)
(* so for the ring (RingUseCorrect, GenRingProof).                         *)
(***************************************************************************)
EXTENDS ShardProof

(* The policy of the shard again, with the theorems about it.              *)
CPP == INSTANCE ClockProProof WITH
        Readers <- Procs, Gens <- 0 .. IdMod - 1, Capacity <- CapBytes,
        MaxWeight <- WeightMod - 1,
        Reweigh <- {"grow", "shrink"}, MayRemoveGhosts <- TRUE,
        pc <- sweep, ent <- fresh

GRP == INSTANCE GenRingProof WITH
         Deltas <- PutWeights, MaxDelta <- MaxPutWeight, Nil <- None, MaxNow <- 0

LEMMA PartAssumptions == CPP!ClockProAssumption /\ CPP!NoneAssumption
  <1>1. CapBytes \in Nat /\ WeightMod - 1 \in Nat /\ None \notin Entries
    BY ShardAssumption, NoneAssumption
  <1>2. CPP!ClockProAssumption
    BY <1>1, ShardAssumption DEF CPP!ClockProAssumption, CPP!IsFiniteSet, IsFiniteSet
  <1>3. CPP!NoneAssumption
    BY NoneAssumption DEF CPP!NoneAssumption, CPP!State
  <1> QED
    BY <1>2, <1>3

-----------------------------------------------------------------------------
(* CP and CPP are the same specification.                                  *)
LEMMA SameTypes ==
  /\ CPP!State = CP!State /\ CPP!Weights = CP!Weights /\ CPP!hand = CP!hand
  /\ CPP!Listed = CP!Listed /\ CPP!Resident = CP!Resident
  /\ \A S : CPP!Footprint(S) = CP!Footprint(S)
  <1>1. /\ CPP!State = CP!State /\ CPP!Weights = CP!Weights /\ CPP!hand = CP!hand
        /\ CPP!Listed = CP!Listed
    BY DEF CPP!State, CP!State, CPP!Weights, CP!Weights, CPP!hand, CP!hand, CPP!Listed, CP!Listed,
           CPP!ToSet, CP!ToSet
  <1>2. CPP!Resident = CP!Resident
    BY <1>1 DEF CPP!Resident, CP!Resident
  <1>3. \A S : CPP!Footprint(S) = CP!Footprint(S)
    BY DEF CPP!Footprint, CP!Footprint, CPP!Cardinality, CP!Cardinality
  <1> QED
    BY <1>1, <1>2, <1>3

LEMMA SameInit == CP!Init => CPP!Init
  BY DEF CP!Init, CPP!Init

LEMMA SameWriter ==
  /\ \A e, w, g : CP!Insert(e, w, g) => CPP!Insert(e, w, g)
  /\ \A e : CP!RemoveEntry(e) => CPP!RemoveEntry(e)
  /\ \A g : CP!GenerationEvicted(g) => CPP!GenerationEvicted(g)
  /\ \A e, w, g : CP!Update(e, w, g) => CPP!Update(e, w, g)
  <1>1. \A e, w, g : CP!Insert(e, w, g) => CPP!Insert(e, w, g)
    BY SameTypes DEF CP!Insert, CPP!Insert, CP!Sweep, CPP!Sweep
  <1>2. \A e : CP!RemoveEntry(e) => CPP!RemoveEntry(e)
    BY SameTypes DEF CP!RemoveEntry, CPP!RemoveEntry, CP!RemoveAt, CPP!RemoveAt
  <1>3. \A g : CP!GenerationEvicted(g) => CPP!GenerationEvicted(g)
    BY SameTypes DEF CP!GenerationEvicted, CPP!GenerationEvicted
  <1>4. \A e, w, g : CP!Update(e, w, g) => CPP!Update(e, w, g)
    BY DEF CP!Update, CPP!Update
  <1> QED
    BY <1>1, <1>2, <1>3, <1>4

LEMMA SameTurn == CP!evictIfNeeded => CPP!evictIfNeeded
  <1>1. CP!ReadHand => CPP!ReadHand
    BY SameTypes DEF CP!ReadHand, CPP!ReadHand
  <1>2. CP!Forget => CPP!Forget
    BY DEF CP!Forget, CPP!Forget, CP!Sweep, CPP!Sweep
  <1>3. \A b : CP!Leave(b) => CPP!Leave(b)
    BY SameTypes DEF CP!Leave, CPP!Leave
  <1>4. \A s, e : CP!Sweep(s, e) => CPP!Sweep(s, e)
    BY DEF CP!Sweep, CPP!Sweep
  <1>5. CP!KeepHot => CPP!KeepHot
    BY <1>3, <1>4, SameTypes DEF CP!KeepHot, CPP!KeepHot
  <1>6. (CP!Demote => CPP!Demote) /\ (CP!Promote => CPP!Promote)
    BY <1>3, <1>4 DEF CP!Demote, CPP!Demote, CP!Promote, CPP!Promote
  <1>7. CP!Evict => CPP!Evict
    BY <1>3, <1>4, SameTypes DEF CP!Evict, CPP!Evict
  <1> QED
    BY <1>1, <1>2, <1>5, <1>6, <1>7 DEF CP!evictIfNeeded, CPP!evictIfNeeded

LEMMA SameReader == \A r : CP!Reader(r) => CPP!Reader(r)
  BY DEF CP!Reader, CPP!Reader, CP!Find, CPP!Find, CP!LoadState, CPP!LoadState, CP!StoreState,
         CPP!StoreState, CP!clockVars, CPP!clockVars

LEMMA SameSpec == CP!Spec => CPP!Spec
<1>1. [CP!Next]_(CP!vars) => [CPP!Next]_(CPP!vars)
  <2>1. CP!Next => CPP!Next
    BY SameTypes, SameWriter, SameTurn, SameReader DEF CP!Next, CPP!Next, CP!Writer, CPP!Writer
  <2> QED
    BY <2>1 DEF CP!vars, CPP!vars
<1> QED
  BY <1>1, SameInit, PTL DEF CP!Spec, CPP!Spec

LEMMA PolicyTyped == Spec => []CP!TypeOK
<1>1. CPP!Spec => []CPP!TypeOK
  BY PartAssumptions, CPP!TypeCorrect
<1>2. CPP!TypeOK => CP!TypeOK
  BY SameTypes DEF CP!TypeOK, CPP!TypeOK, CP!IsInjective, CPP!IsInjective
<1> QED
  BY <1>1, <1>2, SameSpec, PolicyUseCorrect, PTL DEF UsesClockPro

-----------------------------------------------------------------------------
(* The fields, the locals and the state of the parts keep their types.     *)
THEOREM TypeCorrect == Spec => []TypeOK
<1>1. Control /\ RingOK /\ CellTypes /\ Windows /\ CP!TypeOK => TypeOK
  <2> SUFFICES ASSUME Control, RingOK, CellTypes, Windows, CP!TypeOK PROVE TypeOK
    OBVIOUS
  <2>1. ControlTypes
    BY DEF Control
  <2>2. /\ writer \in Procs \cup {None} /\ readers \in [Procs -> Nat] /\ rwait \subseteq Procs
        /\ index \in [Hashes -> Entries \cup {None}]
        /\ nilled \subseteq {"index", "clock", "genRing"}
        /\ at \in [Procs -> Steps] /\ arg \in [Procs -> CallSet \cup {None}]
        /\ mine \in [Procs -> Entries \cup {None}] /\ lot \in [Procs -> SUBSET Vals]
    BY <2>1 DEF ControlTypes
  <2>3. /\ key \in [Entries -> Keys] /\ vptr \in [Entries -> Cells \cup {None}]
        /\ dead \in 0 .. IdMod - 1 \cup {None} /\ got \in [Procs -> Cells \cup {None}]
    BY DEF CellTypes, Ids
  <2>4. GR!TypeOK
    BY DEF RingOK
  <2>5. window \in [Procs -> SUBSET (Vals \cup {None})]
    BY DEF Windows
  <2> QED
    BY <2>2, <2>3, <2>4, <2>5 DEF TypeOK
<1> QED
  BY <1>1, ControlCorrect, RingCorrect, CellsCorrect, WindowsCorrect, PolicyTyped, PTL

(* A sweep that a put has started with the lock of the shard held has its  *)
(* newcomer left to evict, and stops with it at the latest                 *)
(* (internal/clockpro/clockpro.go:206-236): whatever gets, updates and     *)
(* removals have done to the policy, and whatever gets do meanwhile.       *)
THEOREM VictimCorrect == Spec => []CP!SweepHasVictim
<1>1. CPP!Spec => []CPP!SweepHasVictim
  BY PartAssumptions, CPP!VictimCorrect
<1>2. CPP!SweepHasVictim => CP!SweepHasVictim
  BY SameTypes DEF CP!SweepHasVictim, CPP!SweepHasVictim
<1> QED
  BY <1>1, <1>2, SameSpec, PolicyUseCorrect, PTL DEF UsesClockPro

(* The shard keeps the circle of its policy as HandList has it             *)
(* (internal/clockpro/clockpro.go:109-133, 206-237), and MetaListProof     *)
(* shows that the pointers can do all that: no entry is lost, repeated or  *)
(* reordered, however the calls of the goroutines interleave.              *)
THEOREM HandCorrect == Spec => CP!UsesHandList
<1>1. CPP!Spec => CPP!UsesHandList
  BY PartAssumptions, CPP!ListCorrect
<1>2. CPP!HL!Init => CP!HL!Init
  BY DEF CPP!HL!Init, CP!HL!Init
<1>3. [CPP!HL!Next]_ring => [CP!HL!Next]_ring
  BY DEF CPP!HL!Next, CP!HL!Next, CPP!HL!Join, CP!HL!Join, CPP!HL!Leave, CP!HL!Leave,
         CPP!HL!Pass, CP!HL!Pass, CPP!HL!Drop, CP!HL!Drop, CPP!HL!ToSet, CP!HL!ToSet,
         CPP!HL!RemoveAt, CP!HL!RemoveAt
<1> QED
  BY <1>1, <1>2, <1>3, SameSpec, PolicyUseCorrect, PTL
  DEF UsesClockPro, CP!UsesHandList, CPP!UsesHandList, CP!HL!Spec, CPP!HL!Spec

-----------------------------------------------------------------------------
(* GR and GRP are the same specification.                                  *)
LEMMA RingAssumptions == GRP!GenRingAssumption /\ GRP!NilAssumption
  BY ShardAssumption, NoneAssumption
  DEF GRP!GenRingAssumption, GRP!NilAssumption, GRP!Generation, GR!Generation

LEMMA SameSlots ==
  /\ GRP!Slots = GR!Slots /\ GRP!PerGenBytes = GR!PerGenBytes /\ GRP!Active = GR!Active
  /\ GRP!NextIdx = GR!NextIdx /\ GRP!NextId = GR!NextId /\ GRP!Occupied = GR!Occupied
  /\ \A i : GRP!newGeneration(i) = GR!newGeneration(i) /\ GRP!Age(i) = GR!Age(i)
  BY DEF GRP!Slots, GR!Slots, GRP!PerGenBytes, GR!PerGenBytes, GRP!Active, GR!Active,
         GRP!NextIdx, GR!NextIdx, GRP!NextId, GR!NextId, GRP!Occupied, GR!Occupied,
         GRP!newGeneration, GR!newGeneration, GRP!Age, GR!Age

LEMMA SameRing == GR!Spec => GRP!Spec
<1>1. GR!Init => GRP!Init
  BY SameSlots DEF GR!Init, GRP!Init
<1>2. [GR!Next]_(GR!vars) => [GRP!Next]_(GRP!vars)
  <2>1. \A d : GR!CheckRotationNeeded(d) => GRP!CheckRotationNeeded(d)
    BY SameSlots DEF GR!CheckRotationNeeded, GRP!CheckRotationNeeded
  <2>2. GR!Rotate => GRP!Rotate
    BY SameSlots DEF GR!Rotate, GRP!Rotate
  <2>3. GR!Tick => GRP!Tick
    BY DEF GR!Tick, GRP!Tick
  <2> QED
    BY <2>1, <2>2, <2>3 DEF GR!Next, GRP!Next, GR!vars, GRP!vars
<1> QED
  BY <1>1, <1>2, PTL DEF GR!Spec, GRP!Spec

(* The ring in a shard is a queue, keeps its budgets and gives each of its *)
(* generations an ID of its own, which is all that GenerationEvicted goes  *)
(* by (pkg/cache.go:243-252), whatever else goes on in the shard.          *)
THEOREM RingPartCorrect == Spec => [](GR!RingIsQueue /\ GR!BudgetsKept /\ GR!IdsDistinct)
<1>1. GRP!Spec => [](GRP!RingIsQueue /\ GRP!BudgetsKept /\ GRP!IdsDistinct)
  BY RingAssumptions, GRP!QueueCorrect, GRP!BudgetsCorrect, GRP!IdsCorrect, PTL
<1>2. GRP!RingIsQueue /\ GRP!BudgetsKept /\ GRP!IdsDistinct
        => GR!RingIsQueue /\ GR!BudgetsKept /\ GR!IdsDistinct
  BY SameSlots DEF GRP!RingIsQueue, GR!RingIsQueue, GRP!BudgetsKept, GR!BudgetsKept,
                   GRP!IdsDistinct, GR!IdsDistinct
<1> QED
  BY <1>1, <1>2, SameRing, RingUseCorrect, PTL DEF UsesGenRing

(* A shard frees the arena of a generation only from a full ring, and that *)
(* of the oldest (internal/genring/genring.go:149-177): whatever was       *)
(* allocated later stays.                                                  *)
THEOREM FreeingPartCorrect == Spec => GR!OldestFreed
<1>1. GRP!Spec => GRP!OldestFreed
  BY RingAssumptions, GRP!FreeingCorrect
<1> DEFINE FreedFrom(G) ==
      idCtr' # idCtr /\ gens[activeIdx'] # None =>
        \A i \in G : gens[i] # None /\ gens[activeIdx'].created <= gens[i].created
<1>2. [FreedFrom(GRP!Slots)]_(GRP!vars) => [FreedFrom(GR!Slots)]_(GR!vars)
  BY SameSlots DEF GRP!vars, GR!vars
<1> QED
  BY <1>1, <1>2, SameRing, RingUseCorrect, PTL DEF UsesGenRing, GRP!OldestFreed, GR!OldestFreed
=============================================================================
