---------------------------- MODULE GenRingProof ----------------------------
(***************************************************************************)
(* Proofs about GenRing, for every number of generations, every capacity,  *)
(* every set of weights and every width of the ID counter.                 *)
(*                                                                         *)
(* TypeOK, RingIsQueue and BudgetsKept are each inductive given the ones   *)
(* before it; IdsDistinct and OldestFreed follow from RingIsQueue, which   *)
(* is why that invariant says exactly which ID each slot carries and not   *)
(* only that the IDs differ.                                               *)
(***************************************************************************)
EXTENDS GenRing, TLAPS

(* Incrementing a counter modulo n is a wrap at n - 1.                     *)
LEMMA WrapLemma ==
  ASSUME NEW n \in Nat \ {0}, NEW a \in 0 .. n - 1
  PROVE  (a + 1) % n = IF a + 1 = n THEN 0 ELSE a + 1
  OBVIOUS

(* The budget of a generation is a positive number of bytes.               *)
LEMMA PerGenLemma == PerGenBytes \in Nat \ {0}
  BY GenRingAssumption DEF PerGenBytes

(* Where the next slot is, and which ID it gets.                           *)
LEMMA NextLemma ==
  ASSUME TypeOK
  PROVE  /\ NextIdx = IF activeIdx + 1 = NumGens THEN 0 ELSE activeIdx + 1
         /\ NextId = IF idCtr + 1 = IdMod THEN 0 ELSE idCtr + 1
         /\ NextIdx \in Slots
         /\ NextId \in 0 .. IdMod - 1
  <1>1. /\ NumGens \in Nat \ {0} /\ activeIdx \in 0 .. NumGens - 1
        /\ IdMod \in Nat \ {0} /\ idCtr \in 0 .. IdMod - 1
    BY GenRingAssumption DEF TypeOK, Slots
  <1>2. NextIdx = IF activeIdx + 1 = NumGens THEN 0 ELSE activeIdx + 1
    BY <1>1, WrapLemma DEF NextIdx
  <1>3. NextId = IF idCtr + 1 = IdMod THEN 0 ELSE idCtr + 1
    BY <1>1, WrapLemma DEF NextId
  <1> QED
    BY <1>1, <1>2, <1>3 DEF Slots

(* The age of a slot is its distance behind the active one: it tells the   *)
(* slots apart, and a rotation adds one to every age but the new slot's.   *)
LEMMA AgeLemma ==
  ASSUME TypeOK
  PROVE  /\ \A i \in Slots : Age(i) \in 0 .. NumGens - 1
         /\ \A i, j \in Slots : Age(i) = Age(j) => i = j
         /\ Age(activeIdx) = 0
         /\ Age(NextIdx) = NumGens - 1
  <1>1. NumGens \in Nat \ {0} /\ activeIdx \in 0 .. NumGens - 1
    BY GenRingAssumption DEF TypeOK, Slots
  <1>2. NextIdx = IF activeIdx + 1 = NumGens THEN 0 ELSE activeIdx + 1
    BY NextLemma
  <1> QED
    BY <1>1, <1>2 DEF Age, Slots

LEMMA AgeAfterRotate ==
  ASSUME TypeOK, Rotate
  PROVE  \A i \in Slots : Age(i)' = IF i = NextIdx THEN 0 ELSE Age(i) + 1
  <1>1. NumGens \in Nat \ {0} /\ activeIdx \in 0 .. NumGens - 1
    BY GenRingAssumption DEF TypeOK, Slots
  <1>2. NextIdx = IF activeIdx + 1 = NumGens THEN 0 ELSE activeIdx + 1
    BY NextLemma
  <1>3. activeIdx' = NextIdx
    BY DEF Rotate
  <1> QED
    BY <1>1, <1>2, <1>3 DEF Age, Slots

-----------------------------------------------------------------------------
IInv == TypeOK /\ RingIsQueue /\ BudgetsKept

LEMMA InitIInv == Init => IInv
  <1> SUFFICES ASSUME Init PROVE IInv
    OBVIOUS
  <1>1. /\ 0 \in Slots /\ NumGens \in Nat \ {0} /\ 1 \in 0 .. IdMod - 1
        /\ activeIdx = 0 /\ idCtr = 1 /\ now = 0 /\ due = FALSE
    BY GenRingAssumption DEF Init, Slots
  <1>2. newGeneration(1) = [id |-> 1, bytes |-> 0, created |-> 0]
        /\ newGeneration(1) \in Generation
    BY <1>1 DEF newGeneration, Generation
  <1>3. gens = [i \in Slots |-> IF i = 0 THEN newGeneration(1) ELSE Nil]
    BY DEF Init
  <1>4. TypeOK
    BY <1>1, <1>2, <1>3 DEF TypeOK
  <1>5. Occupied = {0}
    BY <1>1, <1>2, <1>3, NilAssumption DEF Occupied
  <1>6. RingIsQueue
    <2>1. \A i \in Slots : Age(i) <= Age(0) => i = 0
      BY <1>1 DEF Age, Slots
    <2> QED
      BY <1>1, <1>2, <1>3, <1>5, <2>1 DEF RingIsQueue, Age
  <1>7. BudgetsKept
    BY <1>1, <1>2, <1>3, <1>5, PerGenLemma, GenRingAssumption DEF BudgetsKept
  <1> QED
    BY <1>4, <1>6, <1>7 DEF IInv

LEMMA ChargeKeepsIInv ==
  ASSUME IInv, NEW d \in Deltas, CheckRotationNeeded(d)
  PROVE  IInv'
  <1> USE DEF IInv
  <1>1. /\ gens[activeIdx] \in Generation /\ activeIdx \in Slots
        /\ d \in Int /\ d <= MaxDelta
    BY GenRingAssumption DEF TypeOK, RingIsQueue, Occupied
  <1>2. /\ gens' = [gens EXCEPT ![activeIdx].bytes = @ + d]
        /\ due' = (gens[activeIdx].bytes + d > PerGenBytes) /\ ~due
        /\ activeIdx' = activeIdx /\ idCtr' = idCtr /\ now' = now
    BY DEF CheckRotationNeeded, Active
  <1>3. /\ gens'[activeIdx].bytes = gens[activeIdx].bytes + d
        /\ gens'[activeIdx].id = gens[activeIdx].id
        /\ gens'[activeIdx].created = gens[activeIdx].created
        /\ gens'[activeIdx] \in Generation
        /\ \A i \in Slots \ {activeIdx} : gens'[i] = gens[i]
    BY <1>1, <1>2 DEF TypeOK, Generation
  <1>4. TypeOK'
    BY <1>1, <1>2, <1>3 DEF TypeOK
  <1>5. Occupied' = Occupied
    BY <1>1, <1>3, NilAssumption DEF Occupied
  <1>6. /\ \A i \in Slots : Age(i)' = Age(i)
        /\ \A i \in Occupied : /\ i \in Slots
                               /\ gens'[i].id = gens[i].id
                               /\ gens'[i].created = gens[i].created
    BY <1>2, <1>3 DEF Age, Occupied
  <1>7. RingIsQueue'
    BY <1>2, <1>5, <1>6 DEF RingIsQueue
  <1>8. BudgetsKept'
    <2> SUFFICES ASSUME NEW i \in Occupied
                 PROVE  /\ gens'[i].bytes <= PerGenBytes + MaxDelta
                        /\ IF i = activeIdx
                             THEN due' <=> gens'[i].bytes > PerGenBytes
                             ELSE gens'[i].bytes > PerGenBytes
      BY <1>2, <1>5 DEF BudgetsKept, PerGenBytes
    <2>1. CASE i = activeIdx
      <3>1. gens[activeIdx].bytes <= PerGenBytes
        BY <2>1, <1>1, <1>2, PerGenLemma DEF BudgetsKept, Generation
      <3>2. gens'[i].bytes = gens[activeIdx].bytes + d
        BY <2>1, <1>3
      <3>3. gens[activeIdx].bytes \in Int /\ d \in Int /\ d <= MaxDelta
        BY <1>1 DEF Generation
      <3>4. due' <=> gens'[i].bytes > PerGenBytes
        BY <3>2, <1>2
      <3>5. gens'[i].bytes <= PerGenBytes + MaxDelta
        BY <3>1, <3>2, <3>3, PerGenLemma, GenRingAssumption
      <3> QED
        BY <2>1, <3>4, <3>5
    <2>2. CASE i # activeIdx
      BY <2>2, <1>3 DEF BudgetsKept, Occupied
    <2> QED
      BY <2>1, <2>2
  <1> QED
    BY <1>4, <1>7, <1>8

LEMMA RotateKeepsIInv ==
  ASSUME IInv, Rotate
  PROVE  IInv'
  <1> USE DEF IInv
  <1> DEFINE fresh == newGeneration(NextId)
  <1>1. /\ activeIdx \in Occupied /\ activeIdx \in Slots /\ NumGens \in Nat \ {0}
        /\ NextIdx \in Slots /\ NextId \in 0 .. IdMod - 1
        /\ idCtr \in 0 .. IdMod - 1 /\ IdMod \in Nat /\ now \in Nat
    BY NextLemma, GenRingAssumption DEF TypeOK, RingIsQueue
  <1>2. /\ gens' = [gens EXCEPT ![NextIdx] = fresh]
        /\ activeIdx' = NextIdx /\ idCtr' = NextId
        /\ due /\ due' = FALSE /\ now' = now
    BY DEF Rotate
  <1>3. /\ fresh \in Generation /\ fresh # Nil
        /\ fresh.id = NextId /\ fresh.bytes = 0 /\ fresh.created = now
    BY <1>1, NilAssumption DEF newGeneration, Generation
  <1>4. gens'[NextIdx] = fresh /\ \A i \in Slots \ {NextIdx} : gens'[i] = gens[i]
    BY <1>1, <1>2 DEF TypeOK
  <1>5. TypeOK'
    BY <1>1, <1>2, <1>3 DEF TypeOK
  <1>6. Occupied' = Occupied \cup {NextIdx}
    BY <1>1, <1>3, <1>4 DEF Occupied
  <1>7. /\ \A i \in Slots : Age(i)' = IF i = NextIdx THEN 0 ELSE Age(i) + 1
        /\ \A i \in Slots : Age(i) \in 0 .. NumGens - 1
        /\ Age(NextIdx) = NumGens - 1
        /\ \A i, j \in Slots : Age(i) = Age(j) => i = j
    BY AgeAfterRotate, AgeLemma
  <1>8. RingIsQueue'
    <2>1. (activeIdx \in Occupied)'
      BY <1>2, <1>6
    <2>2. ASSUME NEW i \in Occupied'
          PROVE  /\ gens'[i].id = (IF Age(i)' <= NextId THEN NextId - Age(i)'
                                   ELSE NextId - Age(i)' + IdMod)
                 /\ gens'[i].created <= now
      <3>1. CASE i = NextIdx
        BY <3>1, <1>1, <1>3, <1>4, <1>7
      <3>2. CASE i # NextIdx
        <4>1. i \in Occupied /\ i \in Slots
          BY <3>2, <1>6 DEF Occupied
        <4>2. NextId = IF idCtr + 1 = IdMod THEN 0 ELSE idCtr + 1
          BY NextLemma
        <4>3. Age(i) \in 0 .. NumGens - 2 /\ NumGens < IdMod
          BY <4>1, <3>2, <1>1, <1>7, GenRingAssumption
        <4> QED
          BY <4>1, <4>2, <4>3, <3>2, <1>1, <1>4, <1>7 DEF RingIsQueue
      <3> QED
        BY <3>1, <3>2
    <2>3. ASSUME NEW i \in Slots, NEW j \in Slots,
                 Age(i)' <= Age(j)', j \in Occupied'
          PROVE  i \in Occupied' /\ gens'[j].created <= gens'[i].created
      <3>1. CASE j = NextIdx
        <4>1. i = NextIdx
          BY <3>1, <1>1, <1>7, <2>3
        <4> QED
          BY <4>1, <3>1, <1>1, <1>3, <1>4, <1>6
      <3>2. CASE j # NextIdx /\ i = NextIdx
        <4>1. j \in Occupied /\ j \in Slots /\ gens[j].created <= now
          BY <3>2, <2>3, <1>6 DEF RingIsQueue
        <4> QED
          BY <4>1, <3>2, <1>3, <1>4, <1>6
      <3>3. CASE j # NextIdx /\ i # NextIdx
        <4>1. j \in Occupied /\ Age(i) <= Age(j)
          BY <3>3, <2>3, <1>1, <1>6, <1>7
        <4>2. i \in Occupied /\ gens[j].created <= gens[i].created
          BY <4>1 DEF RingIsQueue
        <4> QED
          BY <4>2, <3>3, <1>4, <1>6
      <3> QED
        BY <3>1, <3>2, <3>3
    <2> QED
      BY <1>2, <2>1, <2>2, <2>3 DEF RingIsQueue
  <1>9. BudgetsKept'
    <2> SUFFICES ASSUME NEW i \in Occupied'
                 PROVE  /\ gens'[i].bytes <= PerGenBytes + MaxDelta
                        /\ IF i = NextIdx
                             THEN due' <=> gens'[i].bytes > PerGenBytes
                             ELSE gens'[i].bytes > PerGenBytes
      BY <1>2 DEF BudgetsKept, PerGenBytes
    <2>1. CASE i = NextIdx
      BY <2>1, <1>2, <1>3, <1>4, PerGenLemma, GenRingAssumption
    <2>2. CASE i # NextIdx
      <3>1. i \in Occupied /\ gens'[i] = gens[i]
        BY <2>2, <1>4, <1>6 DEF Occupied
      <3> QED
        BY <2>2, <3>1, <1>2 DEF BudgetsKept
    <2> QED
      BY <2>1, <2>2
  <1> QED
    BY <1>5, <1>8, <1>9

(* IInv is an inductive invariant.                                         *)
THEOREM Invariance == Spec => []IInv
<1>1. IInv /\ [Next]_vars => IInv'
  <2> SUFFICES ASSUME IInv, [Next]_vars PROVE IInv'
    OBVIOUS
  <2>1. CASE \E d \in Deltas : CheckRotationNeeded(d)
    BY <2>1, ChargeKeepsIInv
  <2>2. CASE Rotate
    BY <2>2, RotateKeepsIInv
  <2>3. CASE Tick
    BY <2>3 DEF Tick, IInv, TypeOK, RingIsQueue, BudgetsKept, Occupied, Age,
                Generation, PerGenBytes
  <2>4. CASE UNCHANGED vars
    BY <2>4 DEF vars, IInv, TypeOK, RingIsQueue, BudgetsKept, Occupied, Age,
                PerGenBytes
  <2> QED
    BY <2>1, <2>2, <2>3, <2>4 DEF Next
<1> QED
  BY InitIInv, <1>1, PTL DEF Spec

(* Every reachable state is well typed.                                    *)
THEOREM TypeCorrect == Spec => []TypeOK
<1>1. IInv => TypeOK
  BY DEF IInv
<1> QED
  BY Invariance, <1>1, PTL

(* The ring is a queue of generations with consecutive IDs and creation    *)
(* times in order, whatever the number of rotations (genring.go:133-148).  *)
THEOREM QueueCorrect == Spec => []RingIsQueue
<1>1. IInv => RingIsQueue
  BY DEF IInv
<1> QED
  BY Invariance, <1>1, PTL

(* A generation is rotated out over budget, and over it by one charge at   *)
(* the most (genring.go:122-126).                                          *)
THEOREM BudgetsCorrect == Spec => []BudgetsKept
<1>1. IInv => BudgetsKept
  BY DEF IInv
<1> QED
  BY Invariance, <1>1, PTL

(* An ID names one generation of the ring, even after the 32-bit counter   *)
(* has wrapped (genring.go:143): the argument is that ages are smaller     *)
(* than the modulus.                                                       *)
THEOREM IdsCorrect == Spec => []IdsDistinct
<1>1. IInv => IdsDistinct
  <2> SUFFICES ASSUME IInv, NEW i \in Occupied, NEW j \in Occupied,
                      gens[i].id = gens[j].id
               PROVE  i = j
    BY DEF IdsDistinct
  <2>1. i \in Slots /\ j \in Slots /\ idCtr \in 0 .. IdMod - 1
    BY DEF Occupied, IInv, TypeOK
  <2>2. /\ Age(i) \in 0 .. NumGens - 1 /\ Age(j) \in 0 .. NumGens - 1
        /\ Age(i) = Age(j) => i = j
    BY <2>1, AgeLemma DEF IInv
  <2>3. /\ gens[i].id = IF Age(i) <= idCtr THEN idCtr - Age(i)
                                           ELSE idCtr - Age(i) + IdMod
        /\ gens[j].id = IF Age(j) <= idCtr THEN idCtr - Age(j)
                                           ELSE idCtr - Age(j) + IdMod
    BY DEF IInv, RingIsQueue
  <2>4. ASSUME NEW a \in 0 .. NumGens - 1, NEW b \in 0 .. NumGens - 1,
               (IF a <= idCtr THEN idCtr - a ELSE idCtr - a + IdMod)
                 = (IF b <= idCtr THEN idCtr - b ELSE idCtr - b + IdMod)
        PROVE  a = b
    BY <2>1, <2>4, GenRingAssumption
  <2>5. Age(i) = Age(j)
    BY <2>2, <2>3, <2>4
  <2> QED
    BY <2>2, <2>5
<1> QED
  BY Invariance, <1>1, PTL

(* Rotate frees the generation that was created first, and only from a     *)
(* full ring (genring.go:133-140).                                         *)
THEOREM FreeingCorrect == Spec => OldestFreed
<1> DEFINE Step == idCtr' # idCtr /\ gens[activeIdx'] # Nil =>
                     \A i \in Slots : gens[i] # Nil
                       /\ gens[activeIdx'].created <= gens[i].created
<1>1. IInv /\ [Next]_vars => Step
  <2> SUFFICES ASSUME IInv, [Next]_vars, idCtr' # idCtr,
                      gens[activeIdx'] # Nil, NEW i \in Slots
               PROVE  gens[i] # Nil
                        /\ gens[activeIdx'].created <= gens[i].created
    OBVIOUS
  <2>1. Rotate
    BY DEF Next, vars, CheckRotationNeeded, Tick
  <2>2. activeIdx' = NextIdx /\ NextIdx \in Slots
    BY <2>1, NextLemma DEF Rotate, IInv
  <2>3. Age(i) <= Age(NextIdx)
    BY AgeLemma, GenRingAssumption DEF IInv
  <2> QED
    BY <2>2, <2>3 DEF IInv, RingIsQueue, Occupied
<1> QED
  BY Invariance, <1>1, PTL DEF Spec, OldestFreed
=============================================================================
