---------------------------- MODULE ClockProProof ----------------------------
(***************************************************************************)
(* Proofs about ClockPro, for every set of entries, readers, generations   *)
(* and weights, and with every hazard switched on: readers storing stale   *)
(* state bytes, weights changing in place, ghosts removed.  The theorems   *)
(* about what the policy charges name the hazards that they exclude.       *)
(*                                                                         *)
(* SweepHasVictim is not inductive by itself: the step that forgets a      *)
(* ghost acts on the byte it read a step before, so the invariant must say *)
(* that for the newcomer that byte is still the current one (SeenNewcomer).*)
(* It is, because no reader can hold the newcomer while the lock is taken. *)
(***************************************************************************)
EXTENDS ClockPro, SequenceTheorems, FiniteSetTheorems, TLAPS

(* Moving the first of n elements behind the others keeps the elements.    *)
LEMMA ShiftLemma ==
  ASSUME NEW n \in Nat \ {0}, NEW s, NEW t, DOMAIN s = 1 .. n, DOMAIN t = 1 .. n,
         \A j \in 1 .. n : t[j] = IF j = n THEN s[1] ELSE s[j + 1],
         IsInjective(s)
  PROVE  IsInjective(t) /\ ToSet(t) = ToSet(s)
  <1> DEFINE from(j) == IF j = n THEN 1 ELSE j + 1
  <1>1. \A j \in 1 .. n : from(j) \in 1 .. n /\ t[j] = s[from(j)]
    OBVIOUS
  <1>2. \A a, b \in 1 .. n : from(a) = from(b) => a = b
    OBVIOUS
  <1>3. \A i \in 1 .. n : \E j \in 1 .. n : from(j) = i
    <2> TAKE i \in 1 .. n
    <2>1. CASE i = 1
      BY <2>1
    <2>2. CASE i # 1
      <3>1. i - 1 \in 1 .. n /\ from(i - 1) = i
        BY <2>2
      <3> QED
        BY <3>1
    <2> QED
      BY <2>1, <2>2
  <1> HIDE DEF from
  <1>4. IsInjective(t)
    BY <1>1, <1>2 DEF IsInjective
  <1>5. ToSet(t) \subseteq ToSet(s)
    BY <1>1 DEF ToSet
  <1>6. ASSUME NEW i \in 1 .. n PROVE s[i] \in ToSet(t)
    <2>1. PICK j \in 1 .. n : from(j) = i
      BY <1>3
    <2>2. s[i] = t[j]
      BY <1>1, <2>1
    <2> QED
      BY <2>2 DEF ToSet
  <1>7. ToSet(s) \subseteq ToSet(t)
    BY <1>6 DEF ToSet
  <1> QED
    BY <1>4, <1>5, <1>7

(* t is s, a list of length n, without its i-th element.                    *)
IsCut(t, s, n, i) ==
  /\ n \in Nat \ {0} /\ i \in 1 .. n
  /\ DOMAIN s = 1 .. n /\ DOMAIN t = 1 .. n - 1
  /\ \A j \in 1 .. i - 1 : t[j] = s[j]
  /\ \A j \in i .. n - 1 : t[j] = s[j + 1]

(* Without duplicates, leaving out an element is leaving it out of the set. *)
LEMMA CutLemma ==
  ASSUME NEW s, NEW t, NEW n, NEW i, IsCut(t, s, n, i), IsInjective(s)
  PROVE  IsInjective(t) /\ ToSet(t) = ToSet(s) \ {s[i]}
  <1> USE DEF IsCut
  <1> DEFINE from(j) == IF j < i THEN j ELSE j + 1
  <1>1. \A j \in 1 .. n - 1 : from(j) \in 1 .. n \ {i} /\ t[j] = s[from(j)]
    OBVIOUS
  <1>2. \A a, b \in 1 .. n - 1 : from(a) = from(b) => a = b
    OBVIOUS
  <1>3. \A k \in 1 .. n \ {i} : \E j \in 1 .. n - 1 : from(j) = k
    <2> TAKE k \in 1 .. n \ {i}
    <2>1. CASE k < i
      <3>1. k \in 1 .. n - 1 /\ from(k) = k
        BY <2>1
      <3> QED
        BY <3>1
    <2>2. CASE k > i
      <3>1. k - 1 \in 1 .. n - 1 /\ from(k - 1) = k
        BY <2>2
      <3> QED
        BY <3>1
    <2> QED
      BY <2>1, <2>2
  <1> HIDE DEF from
  <1>4. IsInjective(t)
    BY <1>1, <1>2 DEF IsInjective
  <1>5. ASSUME NEW j \in 1 .. n - 1 PROVE t[j] \in ToSet(s) \ {s[i]}
    <2>1. from(j) \in 1 .. n /\ from(j) # i /\ t[j] = s[from(j)]
      BY <1>1
    <2>2. s[from(j)] # s[i]
      BY <2>1 DEF IsInjective
    <2> QED
      BY <2>1, <2>2 DEF ToSet
  <1>6. ASSUME NEW k \in 1 .. n, s[k] # s[i] PROVE s[k] \in ToSet(t)
    <2>1. PICK j \in 1 .. n - 1 : from(j) = k
      BY <1>3, <1>6
    <2>2. s[k] = t[j]
      BY <1>1, <2>1
    <2> QED
      BY <2>2 DEF ToSet
  <1>7. /\ \A x \in ToSet(t) : x \in ToSet(s) \ {s[i]}
        /\ \A x \in ToSet(s) \ {s[i]} : x \in ToSet(t)
    BY <1>5, <1>6 DEF ToSet
  <1> QED
    BY <1>4, <1>7

(* The hand moves on: the first node of the list becomes the last.          *)
LEMMA RotateLemma ==
  ASSUME NEW S, NEW s \in Seq(S), s # <<>>, IsInjective(s)
  PROVE  LET t == Append(Tail(s), s[1]) IN
         /\ t \in Seq(S) /\ t # <<>> /\ IsInjective(t) /\ ToSet(t) = ToSet(s)
  <1> DEFINE t == Append(Tail(s), s[1])
             n == Len(s)
  <1>1. /\ Tail(s) \in Seq(S) /\ s[1] \in S /\ Len(Tail(s)) = n - 1
        /\ n \in Nat \ {0} /\ DOMAIN s = 1 .. n
    OBVIOUS
  <1>4. /\ t \in Seq(S) /\ t # <<>> /\ DOMAIN t = 1 .. n
    BY <1>1, AppendProperties
  <1>3. \A j \in 1 .. n : t[j] = IF j = n THEN s[1] ELSE s[j + 1]
    OBVIOUS
  <1>2. IsInjective(t) /\ ToSet(t) = ToSet(s)
    <2> HIDE DEF t, n
    <2> QED
      BY <1>1, <1>3, <1>4, ShiftLemma
  <1> QED
    BY <1>4, <1>2

(* Unlinking the p-th node of a list.                                       *)
LEMMA RemoveAtLemma ==
  ASSUME NEW S, NEW s \in Seq(S), IsInjective(s), NEW p \in DOMAIN s
  PROVE  LET t == RemoveAt(s, p) IN
         /\ t \in Seq(S) /\ IsInjective(t) /\ ToSet(t) = ToSet(s) \ {s[p]}
  <1> DEFINE t == RemoveAt(s, p)
             n == Len(s)
             a == SubSeq(s, 1, p - 1)
             b == SubSeq(s, p + 1, n)
  <1>1. /\ n \in Nat \ {0} /\ DOMAIN s = 1 .. n /\ p \in 1 .. n
        /\ \A i \in 1 .. n : s[i] \in S
    OBVIOUS
  <1>2. t = a \o b
    BY DEF RemoveAt
  <1>3. /\ a \in Seq(S) /\ Len(a) = p - 1
        /\ \A j \in 1 .. p - 1 : a[j] = s[j]
    <2>1. \A i \in 1 .. p - 1 : s[i] \in S
      BY <1>1
    <2>2. /\ a \in Seq(S) /\ Len(a) = IF 1 <= p - 1 THEN (p - 1) - 1 + 1 ELSE 0
          /\ \A j \in 1 .. (p - 1) - 1 + 1 : a[j] = s[1 + j - 1]
      BY <1>1, <2>1, SubSeqProperties
    <2> HIDE DEF a, n
    <2> QED
      BY <1>1, <2>2
  <1>4. /\ b \in Seq(S) /\ Len(b) = n - p
        /\ \A j \in 1 .. n - p : b[j] = s[p + j]
    <2>1. \A i \in p + 1 .. n : s[i] \in S
      BY <1>1
    <2>2. /\ b \in Seq(S) /\ Len(b) = IF p + 1 <= n THEN n - (p + 1) + 1 ELSE 0
          /\ \A j \in 1 .. n - (p + 1) + 1 : b[j] = s[p + 1 + j - 1]
      BY <1>1, <2>1, SubSeqProperties
    <2> HIDE DEF b, n
    <2>3. Len(b) = n - p
      BY <1>1, <2>2
    <2>4. ASSUME NEW j \in 1 .. n - p PROVE b[j] = s[p + j]
      <3>1. j \in 1 .. n - (p + 1) + 1 /\ p + 1 + j - 1 = p + j
        BY <1>1
      <3> QED
        BY <2>2, <3>1
    <2> QED
      BY <2>2, <2>3, <2>4
  <1>5. /\ t \in Seq(S) /\ DOMAIN t = 1 .. n - 1
        /\ \A j \in 1 .. p - 1 : t[j] = s[j]
        /\ \A j \in p .. n - 1 : t[j] = s[j + 1]
    <2> HIDE DEF a, b, t, n
    <2>1. /\ t \in Seq(S) /\ Len(t) = (p - 1) + (n - p)
          /\ \A j \in 1 .. (p - 1) + (n - p) :
               t[j] = IF j <= p - 1 THEN a[j] ELSE b[j - (p - 1)]
      BY <1>2, <1>3, <1>4, ConcatProperties
    <2>2. DOMAIN t = 1 .. n - 1
      BY <1>1, <2>1
    <2>3. ASSUME NEW j \in 1 .. p - 1 PROVE t[j] = s[j]
      BY <1>1, <1>3, <2>1
    <2>4. ASSUME NEW j \in p .. n - 1 PROVE t[j] = s[j + 1]
      <3>1. t[j] = b[j - (p - 1)] /\ j - (p - 1) \in 1 .. n - p
        BY <1>1, <2>1
      <3>2. p + (j - (p - 1)) = j + 1
        BY <1>1
      <3> QED
        BY <1>4, <3>1, <3>2
    <2> QED
      BY <2>1, <2>2, <2>3, <2>4
  <1>6. IsInjective(t) /\ ToSet(t) = ToSet(s) \ {s[p]}
    <2> HIDE DEF t, n
    <2>1. IsCut(t, s, n, p)
      BY <1>1, <1>5 DEF IsCut
    <2> QED
      BY <2>1, CutLemma
  <1> QED
    BY <1>5, <1>6

(* Unlinking the first node of a list.                                      *)
LEMMA TailLemma ==
  ASSUME NEW S, NEW s \in Seq(S), s # <<>>, IsInjective(s)
  PROVE  /\ Tail(s) \in Seq(S) /\ IsInjective(Tail(s))
         /\ ToSet(Tail(s)) = ToSet(s) \ {s[1]}
  <1> DEFINE t == Tail(s)
             n == Len(s)
  <1>1. /\ t \in Seq(S)
        /\ n \in Nat \ {0} /\ DOMAIN s = 1 .. n /\ DOMAIN t = 1 .. n - 1 /\ 1 \in 1 .. n
    OBVIOUS
  <1>3. /\ \A j \in 1 .. 1 - 1 : t[j] = s[j]
        /\ \A j \in 1 .. n - 1 : t[j] = s[j + 1]
    OBVIOUS
  <1>2. IsInjective(t) /\ ToSet(t) = ToSet(s) \ {s[1]}
    <2> HIDE DEF t, n
    <2> QED
      <3>1. IsCut(t, s, n, 1)
        BY <1>1, <1>3 DEF IsCut
      <3> QED
        BY <3>1, CutLemma
  <1> QED
    BY <1>1, <1>2
(* Appending an element that the list does not have.                       *)
LEMMA AppendLemma ==
  ASSUME NEW S, NEW s \in Seq(S), IsInjective(s), NEW e \in S, e \notin ToSet(s)
  PROVE  LET t == Append(s, e) IN
         /\ t \in Seq(S) /\ t # <<>> /\ IsInjective(t)
         /\ ToSet(t) = ToSet(s) \cup {e}
  <1> DEFINE t == Append(s, e)
  <1>1. /\ t \in Seq(S) /\ t # <<>> /\ Len(t) = Len(s) + 1 /\ Len(s) \in Nat
        /\ DOMAIN t = 1 .. Len(s) + 1 /\ DOMAIN s = 1 .. Len(s)
        /\ \A i \in DOMAIN s : t[i] = s[i]
        /\ t[Len(s) + 1] = e
    OBVIOUS
  <1>2. \A i \in DOMAIN s : s[i] # e
    BY DEF ToSet
  <1>3. IsInjective(t)
    BY <1>1, <1>2 DEF IsInjective
  <1>4. ToSet(t) = ToSet(s) \cup {e}
    BY <1>1 DEF ToSet
  <1> QED
    BY <1>1, <1>3, <1>4

-----------------------------------------------------------------------------
SeenNewcomer == pc = "act" /\ hand = ent => seen = state[ent]

IInv == TypeOK /\ SweepHasVictim /\ SeenNewcomer

LEMMA InitIInv == Init => IInv
  <1> SUFFICES ASSUME Init PROVE IInv
    OBVIOUS
  <1>1. ring \in Seq(Entries) /\ IsInjective(ring)
    BY DEF Init, IsInjective
  <1>2. state \in [Entries -> State] /\ weight \in [Entries -> Weights]
    BY ClockProAssumption DEF Init, State, Weights
  <1>3. TypeOK
    BY <1>1, <1>2, ClockProAssumption DEF Init, TypeOK
  <1> QED
    BY <1>3 DEF Init, IInv, SweepHasVictim, SeenNewcomer

(* What the loop condition decides: a sweep goes on exactly while it is    *)
(* over the capacity.                                                      *)
LEMMA SweepLemma ==
  ASSUME NEW s \in Int, NEW e \in Entries, Sweep(s, e)
  PROVE  /\ pc' \in {"idle", "scan"}
         /\ pc' = "idle" => ent' = None
         /\ pc' # "idle" => ent' = e
         /\ pc' # "idle" <=> s > Capacity
  BY ClockProAssumption DEF Sweep

LEMMA InsertKeepsIInv ==
  ASSUME IInv, NEW e \in Entries, NEW w \in Weights, NEW g \in Gens,
         Insert(e, w, g)
  PROVE  IInv'
  <1> USE DEF IInv
  <1>1. /\ ring' \in Seq(Entries) /\ IsInjective(ring') /\ ring' # <<>>
        /\ Listed' = Listed \cup {e}
    BY AppendLemma DEF Insert, TypeOK, Listed
  <1>2. /\ state' \in [Entries -> State] /\ state'[e].mode = "cold"
        /\ weight' \in [Entries -> Weights] /\ weight'[e] = w
        /\ genID' \in [Entries -> Gens]
    BY DEF Insert, TypeOK, State
  <1>3. /\ size' = size + w /\ size' \in Int /\ w \in Nat /\ size \in Int
        /\ size <= Capacity
    BY ClockProAssumption DEF Insert, TypeOK, Weights
  <1>4. /\ pc' \in {"idle", "scan"}
        /\ pc' = "idle" => ent' = None
        /\ pc' # "idle" => ent' = e
        /\ pc' # "idle" <=> size' > Capacity
    BY <1>3, SweepLemma DEF Insert
  <1>5. UNCHANGED <<seen, held, byte>> /\ pc = "idle"
    BY DEF Insert
  <1>6. TypeOK'
    BY <1>1, <1>2, <1>3, <1>4, <1>5 DEF TypeOK
  <1>7. SweepHasVictim'
    <2>1. e \in Resident'
      BY <1>1, <1>2 DEF Resident
    <2>2. size' <= Capacity + weight'[e]
      BY <1>2, <1>3, ClockProAssumption
    <2>3. \A r \in Readers : held'[r] # e
      BY DEF Insert
    <2> QED
      BY <1>4, <2>1, <2>2, <2>3 DEF SweepHasVictim
  <1> QED
    BY <1>4, <1>6, <1>7 DEF SeenNewcomer

(* The other operations that need the lock leave no sweep behind.          *)
LEMMA LockedKeepsIInv ==
  ASSUME IInv,
         \/ \E e \in Entries : RemoveEntry(e)
         \/ \E g \in Gens : GenerationEvicted(g)
         \/ \E e \in Entries, w \in Weights, g \in Gens : Update(e, w, g)
  PROVE  IInv'
  <1> USE DEF IInv
  <1>1. ASSUME NEW e \in Entries, RemoveEntry(e) PROVE TypeOK' /\ pc' = "idle"
    <2>1. ring' \in Seq(Entries) /\ IsInjective(ring')
      <3>1. PICK i \in DOMAIN ring : ring' = RemoveAt(ring, i)
        BY <1>1 DEF RemoveEntry
      <3> QED
        BY <3>1, RemoveAtLemma DEF TypeOK
    <2>2. size' \in Int /\ size' <= size /\ size <= Capacity
      BY <1>1, ClockProAssumption DEF RemoveEntry, TypeOK, Weights
    <2> QED
      BY <1>1, <2>1, <2>2, ClockProAssumption DEF RemoveEntry, TypeOK
  <1>2. ASSUME NEW g \in Gens, GenerationEvicted(g)
        PROVE TypeOK' /\ pc' = "idle"
    <2> DEFINE dead == {e \in Resident : genID[e] = g}
    <2>1. Footprint(dead) \in Nat
      <3>1. IsFiniteSet(dead \X (1 .. MaxWeight))
        <4>1. IsFiniteSet(dead)
          <5>1. dead \subseteq Entries
            BY DEF Resident, Listed, ToSet, TypeOK
          <5> QED
            BY <5>1, FS_Subset, ClockProAssumption
        <4>2. IsFiniteSet(1 .. MaxWeight)
          BY FS_Interval, ClockProAssumption
        <4> QED
          BY <4>1, <4>2, FS_Product
      <3>2. {u \in dead \X (1 .. MaxWeight) : u[2] <= weight[u[1]]}
              \subseteq dead \X (1 .. MaxWeight)
        OBVIOUS
      <3> QED
        BY <3>1, <3>2, FS_Subset, FS_CardinalityType DEF Footprint
    <2>2. size' \in Int /\ size' <= size /\ size <= Capacity
      BY <1>2, <2>1, ClockProAssumption DEF GenerationEvicted, TypeOK
    <2>3. state' \in [Entries -> State]
      BY <1>2 DEF GenerationEvicted, TypeOK, State
    <2> QED
      BY <1>2, <2>2, <2>3, ClockProAssumption DEF GenerationEvicted, TypeOK
  <1>3. ASSUME NEW e \in Entries, NEW w \in Weights, NEW g \in Gens,
               Update(e, w, g)
        PROVE TypeOK' /\ pc' = "idle"
    BY <1>3 DEF Update, TypeOK
  <1>4. TypeOK' /\ pc' = "idle"
    BY <1>1, <1>2, <1>3
  <1> QED
    BY <1>4 DEF SweepHasVictim, SeenNewcomer

(* A turn of the sweep that leaves the hand's entry listed: the newcomer   *)
(* may be the hand's entry only if it stays resident.                      *)
LEMMA LeaveKeepsIInv ==
  ASSUME IInv, pc = "act", NEW b \in State, Leave(b),
         size' \in Int, size' <= size, Sweep(size', ent),
         size' > Capacity /\ hand = ent => b.mode # "test"
  PROVE  IInv'
  <1> USE DEF IInv
  <1>1. /\ ring' \in Seq(Entries) /\ ring' # <<>> /\ IsInjective(ring')
        /\ Listed' = Listed
    BY RotateLemma DEF Leave, hand, TypeOK, Listed
  <1>2. /\ ent \in Entries /\ ent \in Resident /\ hand \in Entries
        /\ size <= Capacity + weight[ent]
        /\ \A r \in Readers : held[r] # ent
    BY DEF TypeOK, SweepHasVictim, hand
  <1>3. /\ pc' \in {"idle", "scan"}
        /\ pc' = "idle" => ent' = None
        /\ pc' # "idle" => ent' = ent /\ size' > Capacity
        /\ pc' = "idle" => size' <= Capacity
    BY <1>2, SweepLemma, ClockProAssumption DEF Sweep
  <1>4. UNCHANGED <<weight, genID, held, byte>> /\ seen' = None
    BY DEF Leave
  <1>5. /\ state' \in [Entries -> State]
        /\ state'[hand] = b
        /\ \A e \in Entries \ {hand} : state'[e] = state[e]
    BY <1>2 DEF Leave, TypeOK
  <1>6. TypeOK'
    BY <1>1, <1>2, <1>3, <1>4, <1>5, ClockProAssumption DEF TypeOK
  <1>7. SweepHasVictim'
    <2> SUFFICES ASSUME pc' # "idle"
                 PROVE  /\ ent \in Resident'
                        /\ size' <= Capacity + weight[ent]
                        /\ \A r \in Readers : held[r] # ent
      BY <1>3, <1>4 DEF SweepHasVictim
    <2>1. ent \in Resident'
      BY <1>1, <1>2, <1>3, <1>5 DEF Resident
    <2>2. size' <= Capacity + weight[ent]
      BY <1>2, ClockProAssumption DEF TypeOK, Weights
    <2> QED
      BY <2>1, <2>2, <1>2
  <1> QED
    BY <1>3, <1>6, <1>7 DEF SeenNewcomer

LEMMA TurnKeepsIInv ==
  ASSUME IInv, evictIfNeeded
  PROVE  IInv'
  <1> USE DEF IInv
  <1>1. pc # "idle" /\ hand \in Entries /\ state[hand] \in State
        /\ ent \in Entries /\ size \in Int
    BY DEF evictIfNeeded, ReadHand, KeepHot, Demote, Promote, Evict, Forget,
           TypeOK, hand
  <1>2. CASE ReadHand
    <2>1. TypeOK'
      BY <1>1, <1>2 DEF ReadHand, TypeOK
    <2>2. SweepHasVictim'
      BY <1>2 DEF ReadHand, SweepHasVictim, Resident, Listed
    <2>3. SeenNewcomer'
      BY <1>2 DEF ReadHand, SeenNewcomer, hand
    <2> QED
      BY <2>1, <2>2, <2>3
  <1>3. CASE KeepHot
    <2>1. PICK b \in {seen, state[hand]} : Leave([b EXCEPT !.ref = FALSE])
      BY <1>3 DEF KeepHot
    <2>2. b \in State /\ [b EXCEPT !.ref = FALSE] \in State
          /\ [b EXCEPT !.ref = FALSE].mode = b.mode
      BY <2>1, <1>1, <1>3 DEF KeepHot, TypeOK, State
    <2>3. hand = ent => b.mode # "test"
      BY <2>1, <1>1, <1>3 DEF KeepHot, SweepHasVictim, SeenNewcomer, Resident
    <2>4. /\ pc = "act" /\ size' = size /\ Sweep(size', ent)
      BY <1>3 DEF KeepHot, Sweep
    <2> DEFINE c == [b EXCEPT !.ref = FALSE]
    <2>5. c \in State /\ Leave(c) /\ (hand = ent => c.mode # "test")
      BY <2>1, <2>2, <2>3
    <2> HIDE DEF c
    <2> QED
      BY <1>1, <2>4, <2>5, LeaveKeepsIInv
  <1>4. CASE Demote
    <2>1. /\ pc = "act" /\ size' = size /\ Sweep(size', ent)
          /\ Leave([mode |-> "cold", ref |-> FALSE])
      BY <1>4 DEF Demote, Sweep
    <2>2. [mode |-> "cold", ref |-> FALSE] \in State
      BY DEF State
    <2> QED
      BY <1>1, <2>1, <2>2, LeaveKeepsIInv
  <1>5. CASE Promote
    <2>1. /\ pc = "act" /\ size' = size /\ Sweep(size', ent)
          /\ Leave([mode |-> "hot", ref |-> FALSE])
      BY <1>5 DEF Promote, Sweep
    <2>2. [mode |-> "hot", ref |-> FALSE] \in State
      BY DEF State
    <2> QED
      BY <1>1, <2>1, <2>2, LeaveKeepsIInv
  <1>6. CASE Evict
    <2>1. /\ pc = "act" /\ size' = size - weight[hand] /\ Sweep(size', ent)
          /\ Leave([mode |-> "test", ref |-> FALSE])
      BY <1>6 DEF Evict
    <2>2. [mode |-> "test", ref |-> FALSE] \in State
      BY DEF State
    <2>3. size' \in Int /\ size' <= size
      BY <1>1, <2>1, ClockProAssumption DEF TypeOK, Weights
    <2>4. hand = ent => size' <= Capacity
      BY <1>1, <2>1, ClockProAssumption DEF SweepHasVictim, TypeOK, Weights
    <2>5. ~(size' > Capacity /\ hand = ent)
      BY <2>3, <2>4, ClockProAssumption
    <2> QED
      BY <2>1, <2>2, <2>3, <2>5, LeaveKeepsIInv
  <1>7. CASE Forget
    <2>1. hand # ent
      BY <1>1, <1>7 DEF Forget, SweepHasVictim, SeenNewcomer, Resident
    <2>2. ent \in Listed /\ hand \in Listed /\ ring # <<>>
          /\ ring \in Seq(Entries) /\ IsInjective(ring)
      BY <1>1 DEF SweepHasVictim, Resident, Listed, ToSet, TypeOK, hand
    <2>3. Len(ring) # 1
      BY <2>1, <2>2 DEF Listed, ToSet, hand
    <2>4. /\ ring' = Tail(ring) /\ ring' \in Seq(Entries)
          /\ IsInjective(ring') /\ Listed' = Listed \ {hand}
      BY <1>7, <2>2, <2>3, TailLemma DEF Forget, Listed, hand
    <2>5. ring' # <<>>
      <3>1. Len(Tail(ring)) = Len(ring) - 1 /\ Len(ring) \in Nat
        BY <2>2
      <3>2. Tail(ring) = <<>> => Len(Tail(ring)) = 0
        OBVIOUS
      <3> QED
        BY <2>3, <2>4, <3>1, <3>2
    <2>6. /\ pc' = "scan" /\ ent' = ent /\ seen' = None
          /\ UNCHANGED <<state, weight, genID, size, held, byte>>
      BY <1>1, <1>7 DEF Forget, Sweep, TypeOK
    <2>7. TypeOK'
      BY <1>1, <2>4, <2>5, <2>6 DEF TypeOK
    <2>8. SweepHasVictim'
      BY <1>1, <2>1, <2>4, <2>6 DEF SweepHasVictim, Resident
    <2> QED
      BY <2>6, <2>7, <2>8 DEF SeenNewcomer
  <1> QED
    BY <1>2, <1>3, <1>4, <1>5, <1>6, <1>7 DEF evictIfNeeded

(* Readers: one may find any listed entry while no sweep runs, and store   *)
(* to it during a later sweep; so it never stores to the newcomer.         *)
LEMMA ReaderKeepsIInv ==
  ASSUME IInv, NEW r \in Readers, Reader(r)
  PROVE  IInv'
  <1> USE DEF IInv
  <1>1. CASE \E e \in Entries : Find(r, e)
    BY <1>1 DEF Find, clockVars, TypeOK, SweepHasVictim, SeenNewcomer
  <1>2. CASE LoadState(r)
    <2>1. held[r] \in Entries /\ state[held[r]] \in State
      BY <1>2 DEF LoadState, TypeOK
    <2>2. TypeOK'
      BY <1>2, <2>1 DEF LoadState, clockVars, TypeOK
    <2> QED
      BY <1>2, <2>2
      DEF LoadState, clockVars, SweepHasVictim, SeenNewcomer, Resident, Listed, hand
  <1>3. CASE StoreState(r)
    <2>1. held[r] \in Entries /\ byte[r] \in State
      BY <1>3 DEF StoreState, TypeOK
    <2>2. /\ state' \in [Entries -> State]
          /\ \A e \in Entries \ {held[r]} : state'[e] = state[e]
      BY <1>3, <2>1 DEF StoreState, TypeOK, State
    <2>3. UNCHANGED <<ring, weight, genID, size, pc, ent, seen>>
      BY <1>3 DEF StoreState, clockVars
    <2>4. /\ held' = [held EXCEPT ![r] = None]
          /\ byte' = [byte EXCEPT ![r] = None]
      BY <1>3 DEF StoreState
    <2>5. TypeOK'
      BY <2>2, <2>3, <2>4 DEF TypeOK
    <2>6. pc # "idle" => held[r] # ent /\ ent \in Entries /\ state'[ent] = state[ent]
      BY <2>2 DEF SweepHasVictim, TypeOK
    <2>7. SweepHasVictim'
      <3> SUFFICES ASSUME pc # "idle"
                   PROVE  /\ ent \in Resident'
                          /\ size <= Capacity + weight[ent]
                          /\ \A q \in Readers : held'[q] # ent
        BY <2>3 DEF SweepHasVictim
      <3>1. ent \in Resident'
        BY <2>3, <2>6 DEF SweepHasVictim, Resident, Listed
      <3>2. \A q \in Readers : held'[q] # ent
        BY <2>4, <2>6, ClockProAssumption DEF SweepHasVictim, TypeOK
      <3> QED
        BY <3>1, <3>2 DEF SweepHasVictim
    <2>8. SeenNewcomer'
      BY <2>3, <2>6 DEF SeenNewcomer, hand
    <2> QED
      BY <2>5, <2>7, <2>8
  <1> QED
    BY <1>1, <1>2, <1>3 DEF Reader

THEOREM Invariance == Spec => []IInv
<1>1. IInv /\ [Next]_vars => IInv'
  <2> SUFFICES ASSUME IInv, [Next]_vars PROVE IInv'
    OBVIOUS
  <2>1. CASE \E e \in Entries, w \in Weights, g \in Gens : Insert(e, w, g)
    BY <2>1, InsertKeepsIInv
  <2>2. CASE \/ \E e \in Entries : RemoveEntry(e)
             \/ \E g \in Gens : GenerationEvicted(g)
             \/ \E e \in Entries, w \in Weights, g \in Gens : Update(e, w, g)
    BY <2>2, LockedKeepsIInv
  <2>3. CASE evictIfNeeded
    BY <2>3, TurnKeepsIInv
  <2>4. CASE \E r \in Readers : Reader(r)
    BY <2>4, ReaderKeepsIInv
  <2>5. CASE UNCHANGED vars
    BY <2>5 DEF vars, IInv, TypeOK, SweepHasVictim, SeenNewcomer, Resident,
                Listed, hand
  <2> QED
    BY <2>1, <2>2, <2>3, <2>4, <2>5 DEF Next, Writer
<1> QED
  BY InitIInv, <1>1, PTL DEF Spec

(* The list holds an entry at most once, and the fields keep their types,  *)
(* whatever readers store (clockpro.go:109-238).                           *)
THEOREM TypeCorrect == Spec => []TypeOK
<1>1. IInv => TypeOK
  BY DEF IInv
<1> QED
  BY Invariance, <1>1, PTL

(* evictIfNeeded always has its newcomer left to evict, and stops with it  *)
(* at the latest (clockpro.go:206-236).                                    *)
THEOREM VictimCorrect == Spec => []SweepHasVictim
<1>1. IInv => SweepHasVictim
  BY DEF IInv
<1> QED
  BY Invariance, <1>1, PTL

(* Every operation of the policy is a step of HandList on the list, or     *)
(* leaves it alone (clockpro.go:109-133, 206-237).                         *)
LEMMA InsertJoins ==
  ASSUME NEW e \in Entries, NEW w, NEW g, Insert(e, w, g)
  PROVE  HL!Next
  BY DEF Insert, Listed, HL!Next, HL!Join, ToSet, HL!ToSet

LEMMA RemovalLeaves ==
  ASSUME NEW e \in Entries, RemoveEntry(e)
  PROVE  HL!Next
  BY DEF RemoveEntry, HL!Next, HL!Leave, RemoveAt, HL!RemoveAt

LEMMA TurnPassesOrDrops ==
  ASSUME IInv, evictIfNeeded
  PROVE  HL!Next \/ UNCHANGED ring
  <1>1. CASE ReadHand
    BY <1>1 DEF ReadHand
  <1>2. CASE KeepHot \/ Demote \/ Promote \/ Evict
    <2>1. pc = "act" /\ ring' = Append(Tail(ring), ring[1])
      BY <1>2 DEF KeepHot, Demote, Promote, Evict, Leave, hand
    <2>2. ring # <<>>
      BY <2>1 DEF IInv, TypeOK
    <2> QED
      BY <2>1, <2>2 DEF HL!Next, HL!Pass
  <1>3. CASE Forget
    <2>1. ring \in Seq(Entries) /\ ring # <<>>
      BY <1>3 DEF Forget, IInv, TypeOK
    <2>2. Len(ring) \in Nat /\ Len(ring) # 0
      BY <2>1
    <2>3. \A n \in Nat : n # 0 => n = 1 \/ n > 1
      OBVIOUS
    <2> QED
      BY <1>3, <2>2, <2>3 DEF Forget, HL!Next, HL!Drop
  <1> QED
    BY <1>1, <1>2, <1>3 DEF evictIfNeeded

(* The policy uses its list as HandList specifies it.                      *)
THEOREM ListCorrect == Spec => UsesHandList
<1>1. Init => HL!Init
  BY DEF Init, HL!Init
<1>2. IInv /\ [Next]_vars => [HL!Next]_ring
  <2> SUFFICES ASSUME IInv, [Next]_vars PROVE HL!Next \/ UNCHANGED ring
    OBVIOUS
  <2>1. CASE \E e \in Entries, w \in Weights, g \in Gens : Insert(e, w, g)
    BY <2>1, InsertJoins
  <2>2. CASE \E e \in Entries : RemoveEntry(e)
    BY <2>2, RemovalLeaves
  <2>3. CASE \/ \E g \in Gens : GenerationEvicted(g)
             \/ \E e \in Entries, w \in Weights, g \in Gens : Update(e, w, g)
    BY <2>3 DEF GenerationEvicted, Update
  <2>4. CASE evictIfNeeded
    BY <2>4, TurnPassesOrDrops
  <2>5. CASE \E r \in Readers : Reader(r)
    BY <2>5 DEF Reader, Find, LoadState, StoreState, clockVars
  <2>6. CASE UNCHANGED vars
    BY <2>6 DEF vars
  <2> QED
    BY <2>1, <2>2, <2>3, <2>4, <2>5, <2>6 DEF Next, Writer
<1> QED
  BY <1>1, <1>2, Invariance, PTL DEF Spec, UsesHandList, HL!Spec

-----------------------------------------------------------------------------
(***************************************************************************)
(* What the policy charges for.                                            *)
(*                                                                         *)
(* NeverOverCharged is not inductive: a reader that has loaded the state   *)
(* byte of a ghost may store it after another has brought the ghost back,  *)
(* and a sweep that has read one may forget it then.  In both cases the    *)
(* bytes of the entry are gone without being taken off the size.  So the   *)
(* invariant counts the solid residents only: those that no step in        *)
(* progress can take for ghosts.                                           *)
(***************************************************************************)
(* Footprint, for weights that need not be the current ones.               *)
Units(S, wt) == {u \in S \X (1 .. MaxWeight) : u[2] <= wt[u[1]]}

Bytes(S, wt) == Cardinality(Units(S, wt))

Doomed(e) ==
  \/ \E r \in Readers : held[r] = e /\ byte[r] # None /\ byte[r].mode = "test"
  \/ pc = "act" /\ seen.mode = "test" /\ hand = e

Solid == {e \in Resident : ~Doomed(e)}

SolidCovered == size <= Bytes(Solid, weight)

(* Without readers the state byte that the sweep has read is current.      *)
SeenIsCurrent == pc = "act" => seen = state[hand]

(* How many turns of the sweep an entry will survive.                      *)
Turns(st) ==
  CASE st.mode = "test" -> 0
    [] st.mode = "cold" /\ ~st.ref -> 1
    [] st.mode = "hot" /\ ~st.ref -> 2
    [] OTHER -> 3

NewcomerLasts ==
  pc # "idle" =>
    \E p \in DOMAIN ring :
      /\ ring[p] = ent
      /\ \A i \in 1 .. p : Turns(state[ring[i]]) <= Turns(state[ent])
      /\ \A i \in p + 1 .. Len(ring) : Turns(state[ring[i]]) < Turns(state[ent])

-----------------------------------------------------------------------------
(* The bytes of a set of entries are a number, ...                         *)
LEMMA BytesType ==
  ASSUME NEW S, S \subseteq Entries, NEW wt
  PROVE  IsFiniteSet(Units(S, wt)) /\ Bytes(S, wt) \in Nat
  <1>1. IsFiniteSet(S)
    BY FS_Subset, ClockProAssumption
  <1>2. IsFiniteSet(1 .. MaxWeight)
    BY FS_Interval, ClockProAssumption
  <1>3. IsFiniteSet(S \X (1 .. MaxWeight))
    BY <1>1, <1>2, FS_Product
  <1>4. Units(S, wt) \subseteq S \X (1 .. MaxWeight)
    BY DEF Units
  <1> QED
    BY <1>3, <1>4, FS_Subset, FS_CardinalityType DEF Bytes

(* ... grow with the set and with the weights of its members, ...          *)
LEMMA BytesMonotone ==
  ASSUME NEW S, NEW T, S \subseteq T, T \subseteq Entries,
         NEW wt \in [Entries -> Weights], NEW wu \in [Entries -> Weights],
         \A e \in S : wt[e] <= wu[e]
  PROVE  Bytes(S, wt) <= Bytes(T, wu)
  <1>1. Units(S, wt) \subseteq Units(T, wu)
    <2>1. ASSUME NEW e \in S, NEW n \in 1 .. MaxWeight, n <= wt[e]
          PROVE  n <= wu[e]
      BY <2>1, ClockProAssumption DEF Weights
    <2> QED
      BY <2>1 DEF Units
  <1> QED
    BY <1>1, BytesType, FS_Subset DEF Bytes

(* ... depend on nothing else, ...                                         *)
LEMMA BytesCongruent ==
  ASSUME NEW S, NEW wt, NEW wu, \A e \in S : wt[e] = wu[e]
  PROVE  Bytes(S, wt) = Bytes(S, wu)
  <1>1. Units(S, wt) = Units(S, wu)
    BY DEF Units
  <1> QED
    BY <1>1 DEF Bytes

(* ... add up over disjoint sets, ...                                      *)
LEMMA BytesUnion ==
  ASSUME NEW S, NEW T, S \subseteq Entries, T \subseteq Entries,
         S \cap T = {}, NEW wt
  PROVE  Bytes(S \cup T, wt) = Bytes(S, wt) + Bytes(T, wt)
  <1>1. /\ Units(S \cup T, wt) = Units(S, wt) \cup Units(T, wt)
        /\ Units(S, wt) \cap Units(T, wt) = {}
    BY DEF Units
  <1>2. /\ IsFiniteSet(Units(S, wt)) /\ IsFiniteSet(Units(T, wt))
        /\ Bytes(S, wt) \in Nat /\ Bytes(T, wt) \in Nat
    BY BytesType
  <1>3. Cardinality(Units(S, wt) \cup Units(T, wt))
          = Cardinality(Units(S, wt)) + Cardinality(Units(T, wt))
              - Cardinality(Units(S, wt) \cap Units(T, wt))
    BY <1>2, FS_Union
  <1>4. Cardinality({}) = 0
    BY FS_EmptySet
  <1> QED
    <2> HIDE DEF Units
    <2>1. Bytes(S \cup T, wt) = Bytes(S, wt) + Bytes(T, wt) - 0
      BY <1>1, <1>3, <1>4 DEF Bytes
    <2> QED
      BY <1>2, <2>1

(* ... and those of one entry are its weight.                              *)
LEMMA BytesSingleton ==
  ASSUME NEW e \in Entries, NEW wt \in [Entries -> Weights]
  PROVE  Bytes({e}, wt) = wt[e]
  <1>1. wt[e] \in Nat /\ wt[e] <= MaxWeight /\ MaxWeight \in Nat
    BY ClockProAssumption DEF Weights
  <1> DEFINE f == [n \in 1 .. wt[e] |-> <<e, n>>]
  <1>2. Units({e}, wt) = {<<e, n>> : n \in 1 .. wt[e]}
    BY <1>1 DEF Units
  <1>3. f \in Bijection(1 .. wt[e], Units({e}, wt))
    BY <1>2 DEF Bijection, Injection, Surjection, IsInjective
  <1>4. ExistsBijection(1 .. wt[e], Units({e}, wt))
    BY <1>3 DEF ExistsBijection
  <1>5. IsFiniteSet(1 .. wt[e]) /\ Cardinality(1 .. wt[e]) = wt[e]
    BY <1>1, FS_Interval
  <1> QED
    BY <1>4, <1>5, FS_Bijection DEF Bytes

LEMMA BytesAdd ==
  ASSUME NEW S, S \subseteq Entries, NEW e \in Entries, e \notin S,
         NEW wt \in [Entries -> Weights]
  PROVE  Bytes(S \cup {e}, wt) = Bytes(S, wt) + wt[e]
  <1>1. Bytes(S \cup {e}, wt) = Bytes(S, wt) + Bytes({e}, wt)
    <2>1. {e} \subseteq Entries /\ S \cap {e} = {}
      OBVIOUS
    <2> QED
      BY <2>1, BytesUnion
  <1> QED
    BY <1>1, BytesSingleton

(* Taking entries away takes away no more than their bytes.                *)
LEMMA BytesDifference ==
  ASSUME NEW S, NEW T, S \subseteq Entries, T \subseteq Entries,
         NEW wt \in [Entries -> Weights]
  PROVE  /\ Bytes(S, wt) - Bytes(T, wt) <= Bytes(S \ T, wt)
         /\ T \subseteq S => Bytes(S, wt) - Bytes(T, wt) = Bytes(S \ T, wt)
  <1>1. Bytes((S \ T) \cup (S \cap T), wt) = Bytes(S \ T, wt) + Bytes(S \cap T, wt)
    BY BytesUnion
  <1>2. (S \ T) \cup (S \cap T) = S
    OBVIOUS
  <1>3. Bytes(S \cap T, wt) <= Bytes(T, wt)
    <2>1. /\ \A e \in S \cap T : wt[e] <= wt[e]
          /\ S \cap T \subseteq T
      BY ClockProAssumption DEF Weights
    <2> QED
      BY <2>1, BytesMonotone
  <1>4. /\ Bytes(S, wt) \in Nat /\ Bytes(T, wt) \in Nat
        /\ Bytes(S \ T, wt) \in Nat /\ Bytes(S \cap T, wt) \in Nat
    <2>1. S \ T \subseteq Entries /\ S \cap T \subseteq Entries
      OBVIOUS
    <2> QED
      BY <2>1, BytesType
  <1>5. Bytes(S, wt) = Bytes(S \ T, wt) + Bytes(S \cap T, wt)
    BY <1>1, <1>2
  <1>6. T \subseteq S => Bytes(S \cap T, wt) = Bytes(T, wt)
    <2>1. T \subseteq S => S \cap T = T
      OBVIOUS
    <2> QED
      BY <2>1
  <1> QED
    BY <1>3, <1>4, <1>5, <1>6

LEMMA FootprintIsBytes ==
  ASSUME NEW S
  PROVE  Footprint(S) = Bytes(S, weight)
  BY DEF Footprint, Bytes, Units

-----------------------------------------------------------------------------
(* As long as no weight changes, the size may fall and the solid residents *)
(* may become more.                                                        *)
LEMMA CoveredByMore ==
  ASSUME TypeOK, TypeOK', SolidCovered,
         weight' = weight, size' <= size, Solid \subseteq Solid'
  PROVE  SolidCovered'
  <1>1. /\ weight \in [Entries -> Weights] /\ weight' \in [Entries -> Weights]
        /\ size \in Int /\ size' \in Int
        /\ Solid' \subseteq Entries /\ Solid \subseteq Entries
    BY DEF TypeOK, Solid, Resident, Listed, ToSet
  <1>2. \A e \in Solid : weight[e] <= weight'[e]
    BY <1>1, ClockProAssumption DEF Weights
  <1>3. Bytes(Solid, weight) <= Bytes(Solid', weight')
    BY <1>1, <1>2, BytesMonotone
  <1>4. Bytes(Solid, weight) \in Nat /\ Bytes(Solid', weight') \in Nat
    BY <1>1, BytesType
  <1> QED
    BY <1>1, <1>3, <1>4 DEF SolidCovered

(* When entries go, or cease to be resident, at most their bytes are lost. *)
LEMMA CoveredWithout ==
  ASSUME TypeOK, TypeOK', SolidCovered, weight' = weight,
         NEW T, T \subseteq Entries, Solid \ T \subseteq Solid',
         size' <= size - Bytes(T, weight)
  PROVE  SolidCovered'
  <1>1. /\ weight \in [Entries -> Weights] /\ weight' \in [Entries -> Weights]
        /\ size \in Int /\ size' \in Int
        /\ Solid' \subseteq Entries /\ Solid \subseteq Entries
        /\ Solid \ T \subseteq Entries
    BY DEF TypeOK, Solid, Resident, Listed, ToSet
  <1>2. \A e \in Solid \ T : weight[e] <= weight'[e]
    BY <1>1, ClockProAssumption DEF Weights
  <1>3. Bytes(Solid \ T, weight) <= Bytes(Solid', weight')
    BY <1>1, <1>2, BytesMonotone
  <1>4. Bytes(Solid, weight) - Bytes(T, weight) <= Bytes(Solid \ T, weight)
    BY <1>1, BytesDifference
  <1>5. /\ Bytes(Solid, weight) \in Nat /\ Bytes(Solid', weight') \in Nat
        /\ Bytes(T, weight) \in Nat /\ Bytes(Solid \ T, weight) \in Nat
    BY <1>1, BytesType
  <1> QED
    BY <1>1, <1>3, <1>4, <1>5 DEF SolidCovered

LEMMA InsertCovered ==
  ASSUME IInv, IInv', SolidCovered,
         NEW e \in Entries, NEW w \in Weights, NEW g \in Gens, Insert(e, w, g)
  PROVE  SolidCovered'
  <1>1. /\ weight \in [Entries -> Weights] /\ weight' \in [Entries -> Weights]
        /\ size \in Int /\ size' = size + w /\ w \in Nat
        /\ weight' = [weight EXCEPT ![e] = w]
        /\ Solid' \subseteq Entries /\ Solid \subseteq Entries /\ e \notin Solid
    BY ClockProAssumption
    DEF Insert, IInv, TypeOK, Solid, Resident, Listed, ToSet, Weights
  <1>2. Solid \cup {e} \subseteq Solid'
    <2>1. Listed' = Listed \cup {e}
      BY AppendLemma DEF Insert, IInv, TypeOK, Listed
    <2>2. /\ \A x \in Entries \ {e} : state'[x] = state[x]
          /\ state'[e].mode = "cold"
          /\ held' = held /\ byte' = byte /\ pc' # "act"
          /\ \A r \in Readers : held[r] # e
      BY DEF Insert, IInv, TypeOK, Sweep
    <2>3. ASSUME NEW x \in Solid PROVE x \in Solid'
      BY <1>1, <2>1, <2>2 DEF Solid, Resident, Doomed
    <2>4. e \in Solid'
      BY <2>1, <2>2 DEF Solid, Resident, Doomed
    <2> QED
      BY <2>3, <2>4
  <1>3. Bytes(Solid \cup {e}, weight') = Bytes(Solid, weight') + w
    <2>1. Solid \subseteq Entries /\ e \notin Solid /\ weight'[e] = w
          /\ weight' \in [Entries -> Weights]
      BY <1>1
    <2>2. Bytes(Solid \cup {e}, weight') = Bytes(Solid, weight') + weight'[e]
      BY <2>1, BytesAdd
    <2> QED
      BY <2>1, <2>2
  <1>4. Bytes(Solid, weight') = Bytes(Solid, weight)
    <2>1. \A x \in Solid : weight'[x] = weight[x]
      BY <1>1
    <2> QED
      BY <2>1, BytesCongruent
  <1>5. Bytes(Solid \cup {e}, weight') <= Bytes(Solid', weight')
    <2>1. \A x \in Solid \cup {e} : weight'[x] <= weight'[x]
      BY <1>1, ClockProAssumption DEF Weights
    <2> QED
      BY <1>1, <1>2, <2>1, BytesMonotone
  <1>6. Bytes(Solid, weight) \in Nat /\ Bytes(Solid', weight') \in Nat
    BY <1>1, BytesType
  <1> QED
    BY <1>1, <1>3, <1>4, <1>5, <1>6 DEF SolidCovered

LEMMA RemoveCovered ==
  ASSUME IInv, IInv', SolidCovered, NEW e \in Entries, RemoveEntry(e)
  PROVE  SolidCovered'
  <1>1. PICK i \in DOMAIN ring : ring[i] = e /\ ring' = RemoveAt(ring, i)
    BY DEF RemoveEntry
  <1>2. Listed' = Listed \ {e}
    BY <1>1, RemoveAtLemma DEF IInv, TypeOK, Listed
  <1>3. Solid \ {e} \subseteq Solid'
    BY <1>2 DEF RemoveEntry, Solid, Resident, Doomed
  <1>4. Bytes({e}, weight) = weight[e]
    BY BytesSingleton DEF IInv, TypeOK
  <1>5. weight' = weight /\ size' <= size - weight[e]
    BY ClockProAssumption DEF RemoveEntry, IInv, TypeOK, Weights
  <1> QED
    BY <1>3, <1>4, <1>5, CoveredWithout DEF IInv

LEMMA GenerationCovered ==
  ASSUME IInv, IInv', SolidCovered, NEW g \in Gens, GenerationEvicted(g)
  PROVE  SolidCovered'
  <1> DEFINE dead == {e \in Resident : genID[e] = g}
  <1>1. dead \subseteq Entries
    BY DEF Resident, Listed, ToSet, IInv, TypeOK
  <1>2. Footprint(dead) = Bytes(dead, weight) /\ Bytes(dead, weight) \in Nat
    <2> HIDE DEF dead
    <2> QED
      BY <1>1, FootprintIsBytes, BytesType
  <1>3. weight' = weight /\ size' <= size - Bytes(dead, weight)
    BY <1>2 DEF GenerationEvicted, IInv, TypeOK
  <1>4. Solid \ dead \subseteq Solid'
    <2>1. /\ UNCHANGED <<ring, pc, seen, held, byte>>
          /\ \A e \in Entries \ dead : state'[e] = state[e]
      BY DEF GenerationEvicted
    <2>2. Solid \subseteq Entries
      BY DEF Solid, Resident, Listed, ToSet, IInv, TypeOK
    <2> HIDE DEF dead
    <2> QED
      BY <2>1, <2>2 DEF Solid, Resident, Listed, Doomed, hand
  <1> QED
    <2> HIDE DEF dead
    <2> QED
      BY <1>1, <1>3, <1>4, CoveredWithout DEF IInv

LEMMA UpdateCovered ==
  ASSUME "shrink" \notin Reweigh, IInv, IInv', SolidCovered,
         NEW e \in Entries, NEW w \in Weights, NEW g \in Gens, Update(e, w, g)
  PROVE  SolidCovered'
  <1>1. /\ weight \in [Entries -> Weights] /\ weight' \in [Entries -> Weights]
        /\ Solid \subseteq Entries /\ Solid' = Solid
        /\ size' = size /\ size \in Int
    BY DEF Update, IInv, TypeOK, Solid, Resident, Listed, Doomed, hand, ToSet
  <1>2. \A x \in Solid : weight[x] <= weight'[x]
    BY <1>1, ClockProAssumption DEF Update, Weights
  <1>3. Bytes(Solid, weight) <= Bytes(Solid, weight')
    BY <1>1, <1>2, BytesMonotone
  <1>4. Bytes(Solid, weight) \in Nat /\ Bytes(Solid, weight') \in Nat
    BY <1>1, BytesType
  <1> QED
    BY <1>1, <1>3, <1>4 DEF SolidCovered

(* A turn that leaves the entry resident loses nothing, whatever the byte  *)
(* was that a reader has meanwhile stored to it.                           *)
LEMMA LeaveCovered ==
  ASSUME IInv, IInv', SolidCovered, pc = "act", seen.mode # "test", pc' # "act",
         NEW b \in State, Leave(b), b.mode = "test" => state[hand].mode = "test",
         size' <= size
  PROVE  SolidCovered'
  <1>1. ring' = Append(Tail(ring), hand) /\ Listed' = Listed /\ hand \in Entries
    BY RotateLemma DEF Leave, hand, IInv, TypeOK, Listed
  <1>2. /\ state'[hand] = b
        /\ \A x \in Entries \ {hand} : state'[x] = state[x]
        /\ held' = held /\ byte' = byte /\ weight' = weight
    BY <1>1 DEF Leave, IInv, TypeOK
  <1>3. Solid \subseteq Entries
    BY DEF Solid, Resident, Listed, ToSet, IInv, TypeOK
  <1>4. Solid \subseteq Solid'
    <2> SUFFICES ASSUME NEW x \in Solid PROVE x \in Solid'
      OBVIOUS
    <2>1. x \in Resident'
      BY <1>1, <1>2, <1>3 DEF Solid, Resident
    <2>2. ~Doomed(x)'
      BY <1>2 DEF Solid, Doomed
    <2> QED
      BY <2>1, <2>2 DEF Solid
  <1> QED
    BY <1>2, <1>4, CoveredByMore DEF IInv

LEMMA EvictCovered ==
  ASSUME IInv, IInv', SolidCovered, Evict
  PROVE  SolidCovered'
  <1>1. ring' = Append(Tail(ring), hand) /\ Listed' = Listed /\ hand \in Entries
    BY RotateLemma DEF Evict, Leave, hand, IInv, TypeOK, Listed
  <1>2. /\ \A x \in Entries \ {hand} : state'[x] = state[x]
        /\ held' = held /\ byte' = byte /\ weight' = weight
        /\ pc' # "act"
    BY <1>1 DEF Evict, Leave, Sweep, IInv, TypeOK
  <1>3. size' <= size - Bytes({hand}, weight)
    <2>1. Bytes({hand}, weight) = weight[hand]
      BY <1>1, BytesSingleton DEF IInv, TypeOK
    <2> QED
      BY <1>1, <2>1, ClockProAssumption DEF Evict, IInv, TypeOK, Weights
  <1>4. Solid \ {hand} \subseteq Solid'
    <2> SUFFICES ASSUME NEW x \in Solid, x # hand PROVE x \in Solid'
      OBVIOUS
    <2>1. x \in Entries
      BY DEF Solid, Resident, Listed, ToSet, IInv, TypeOK
    <2>2. x \in Resident'
      BY <1>1, <1>2, <2>1 DEF Solid, Resident
    <2>3. ~Doomed(x)'
      BY <1>2 DEF Solid, Doomed
    <2> QED
      BY <2>2, <2>3 DEF Solid
  <1> QED
    BY <1>1, <1>2, <1>3, <1>4, CoveredWithout DEF IInv

LEMMA ForgetCovered ==
  ASSUME IInv, IInv', SolidCovered, Forget
  PROVE  SolidCovered'
  <1>1. /\ ring \in Seq(Entries) /\ IsInjective(ring) /\ ring # <<>>
        /\ ring' = ring \/ ring' = Tail(ring)
    BY DEF Forget, IInv, TypeOK
  <1>2. Listed \ {hand} \subseteq Listed'
    BY <1>1, TailLemma DEF Listed, hand
  <1>3. /\ UNCHANGED <<state, weight, size, held, byte>> /\ pc' # "act"
        /\ size \in Int
    BY DEF Forget, Sweep, IInv, TypeOK
  <1>4. hand \notin Solid
    BY DEF Forget, Solid, Doomed
  <1>5. Solid \subseteq Solid'
    <2> SUFFICES ASSUME NEW x \in Solid PROVE x \in Solid'
      OBVIOUS
    <2>1. x \in Resident'
      BY <1>2, <1>3, <1>4 DEF Solid, Resident
    <2>2. ~Doomed(x)'
      BY <1>3 DEF Solid, Doomed
    <2> QED
      BY <2>1, <2>2 DEF Solid
  <1> QED
    BY <1>3, <1>5, CoveredByMore DEF IInv

LEMMA TurnCovered ==
  ASSUME IInv, IInv', SolidCovered, evictIfNeeded
  PROVE  SolidCovered'
  <1>1. /\ hand \in Entries /\ state[hand] \in State /\ size \in Int
        /\ seen # None => seen \in State
    BY DEF evictIfNeeded, ReadHand, KeepHot, Demote, Promote, Evict, Forget,
           IInv, TypeOK, hand
  <1>2. CASE ReadHand
    <2>1. Solid \subseteq Solid'
      BY <1>2 DEF ReadHand, Solid, Resident, Listed, Doomed, hand
    <2> QED
      BY <1>1, <1>2, <2>1, CoveredByMore DEF ReadHand, IInv
  <1>3. CASE KeepHot
    <2>1. PICK b \in {seen, state[hand]} : Leave([b EXCEPT !.ref = FALSE])
      BY <1>3 DEF KeepHot
    <2>2. b \in State /\ [b EXCEPT !.ref = FALSE] \in State
          /\ [b EXCEPT !.ref = FALSE].mode = b.mode
      BY <2>1, <1>1, <1>3 DEF KeepHot, IInv, TypeOK, State
    <2>3. b.mode = "test" => state[hand].mode = "test"
      BY <2>1, <1>3 DEF KeepHot
    <2>4. pc = "act" /\ seen.mode # "test" /\ pc' # "act" /\ size' <= size
      BY <1>1, <1>3 DEF KeepHot, Sweep
    <2> DEFINE c == [b EXCEPT !.ref = FALSE]
    <2>5. c \in State /\ Leave(c) /\ (c.mode = "test" => state[hand].mode = "test")
      BY <2>1, <2>2, <2>3
    <2> HIDE DEF c
    <2> QED
      BY <2>4, <2>5, LeaveCovered
  <1>4. CASE Demote
    <2>1. /\ pc = "act" /\ seen.mode # "test" /\ pc' # "act" /\ size' <= size
          /\ Leave([mode |-> "cold", ref |-> FALSE])
      BY <1>1, <1>4 DEF Demote, Sweep
    <2>2. [mode |-> "cold", ref |-> FALSE] \in State
      BY DEF State
    <2> QED
      BY <2>1, <2>2, LeaveCovered
  <1>5. CASE Promote
    <2>1. /\ pc = "act" /\ seen.mode # "test" /\ pc' # "act" /\ size' <= size
          /\ Leave([mode |-> "hot", ref |-> FALSE])
      BY <1>1, <1>5 DEF Promote, Sweep
    <2>2. [mode |-> "hot", ref |-> FALSE] \in State
      BY DEF State
    <2> QED
      BY <2>1, <2>2, LeaveCovered
  <1> QED
    BY <1>2, <1>3, <1>4, <1>5, EvictCovered, ForgetCovered DEF evictIfNeeded

(* A reader that loads from a resident entry dooms nothing, and one that   *)
(* makes a ghost of an entry has doomed it before.                         *)
LEMMA ReaderCovered ==
  ASSUME IInv, IInv', SolidCovered, NEW r \in Readers, Reader(r)
  PROVE  SolidCovered'
  <1>1. UNCHANGED <<ring, weight, size, pc, seen>> /\ size \in Int
    BY DEF Reader, Find, LoadState, StoreState, clockVars, IInv, TypeOK
  <1>2. Solid \subseteq Entries
    BY DEF Solid, Resident, Listed, ToSet, IInv, TypeOK
  <1>3. CASE \E e \in Entries : Find(r, e)
    <2>1. Solid \subseteq Solid'
      BY <1>1, <1>3 DEF Find, Solid, Resident, Listed, Doomed, hand, IInv, TypeOK
    <2> QED
      BY <1>1, <2>1, CoveredByMore DEF IInv
  <1>4. CASE LoadState(r)
    <2>1. /\ byte' = [byte EXCEPT ![r] = state[held[r]]]
          /\ held' = held /\ state' = state
      BY <1>4 DEF LoadState
    <2>2. ASSUME NEW x \in Solid PROVE x \in Solid'
      <3>1. x \in Resident'
        BY <1>1, <2>1 DEF Solid, Resident, Listed
      <3>2. \A q \in Readers : held[q] = x /\ byte'[q] # None => byte'[q].mode # "test"
        BY <2>1 DEF Solid, Resident, Doomed, IInv, TypeOK
      <3> QED
        BY <1>1, <2>1, <3>1, <3>2 DEF Solid, Doomed, hand
    <2>3. Solid \subseteq Solid'
      BY <2>2
    <2> QED
      BY <1>1, <2>3, CoveredByMore DEF IInv
  <1>5. CASE StoreState(r)
    <2>1. /\ held[r] \in Entries /\ byte[r] \in State /\ byte[r] # None
          /\ held' = [held EXCEPT ![r] = None]
          /\ byte' = [byte EXCEPT ![r] = None]
      BY <1>5 DEF StoreState, IInv, TypeOK
    <2>2. /\ state'[held[r]].mode = byte[r].mode
          /\ \A x \in Entries \ {held[r]} : state'[x] = state[x]
      BY <1>5, <2>1 DEF StoreState, IInv, TypeOK, State
    <2>3. ASSUME NEW x \in Solid PROVE x \in Solid'
      <3>1. x = held[r] => byte[r].mode # "test"
        BY <2>1 DEF Solid, Doomed
      <3>2. x \in Resident'
        BY <1>1, <1>2, <2>2, <3>1 DEF Solid, Resident, Listed
      <3>3. ~Doomed(x)'
        BY <1>1, <2>1 DEF Solid, Doomed, hand, IInv, TypeOK
      <3> QED
        BY <3>2, <3>3 DEF Solid
    <2>4. Solid \subseteq Solid'
      BY <2>3
    <2> QED
      BY <1>1, <2>4, CoveredByMore DEF IInv
  <1> QED
    BY <1>3, <1>4, <1>5 DEF Reader

LEMMA InitCovered == Init => SolidCovered
  <1> SUFFICES ASSUME Init PROVE SolidCovered
    OBVIOUS
  <1>1. Bytes(Solid, weight) \in Nat
    <2>1. Solid \subseteq Entries
      BY InitIInv DEF IInv, TypeOK, Solid, Resident, Listed, ToSet
    <2> QED
      BY <2>1, BytesType
  <1> QED
    BY <1>1 DEF Init, SolidCovered

THEOREM CoveredInvariance ==
  ASSUME "shrink" \notin Reweigh
  PROVE  Spec => [](IInv /\ SolidCovered)
<1>1. IInv /\ IInv' /\ SolidCovered /\ [Next]_vars => SolidCovered'
  <2> SUFFICES ASSUME IInv, IInv', SolidCovered, [Next]_vars PROVE SolidCovered'
    OBVIOUS
  <2>1. CASE \E e \in Entries, w \in Weights, g \in Gens : Insert(e, w, g)
    BY <2>1, InsertCovered
  <2>2. CASE \E e \in Entries : RemoveEntry(e)
    BY <2>2, RemoveCovered
  <2>3. CASE \E g \in Gens : GenerationEvicted(g)
    BY <2>3, GenerationCovered
  <2>4. CASE \E e \in Entries, w \in Weights, g \in Gens : Update(e, w, g)
    BY <2>4, UpdateCovered
  <2>5. CASE evictIfNeeded
    BY <2>5, TurnCovered
  <2>6. CASE \E r \in Readers : Reader(r)
    BY <2>6, ReaderCovered
  <2>7. CASE UNCHANGED vars
    <3>1. Solid' = Solid /\ weight' = weight /\ size' = size
      BY <2>7 DEF vars, Solid, Resident, Listed, Doomed, hand
    <3> QED
      BY <3>1 DEF SolidCovered
  <2> QED
    BY <2>1, <2>2, <2>3, <2>4, <2>5, <2>6, <2>7 DEF Next, Writer
<1> QED
  BY InitCovered, Invariance, <1>1, PTL DEF Spec

(* The policy never charges more than what is resident, whatever readers   *)
(* race with, as long as no Put lowers a weight (clockpro.go:145, 160,     *)
(* 184, 226).                                                              *)
THEOREM NeverOverChargedCorrect ==
  ASSUME "shrink" \notin Reweigh
  PROVE  Spec => []NeverOverCharged
<1>1. IInv /\ SolidCovered => NeverOverCharged
  <2> SUFFICES ASSUME IInv, SolidCovered PROVE NeverOverCharged
    OBVIOUS
  <2>1. /\ Solid \subseteq Resident /\ Resident \subseteq Entries
        /\ Solid \subseteq Entries
        /\ weight \in [Entries -> Weights] /\ size \in Int
    BY DEF IInv, TypeOK, Solid, Resident, Listed, ToSet
  <2>2. \A e \in Solid : weight[e] <= weight[e]
    BY <2>1, ClockProAssumption DEF Weights
  <2>3. Bytes(Solid, weight) <= Bytes(Resident, weight)
    BY <2>1, <2>2, BytesMonotone
  <2>4. Bytes(Solid, weight) \in Nat /\ Bytes(Resident, weight) \in Nat
    BY <2>1, BytesType
  <2>5. Footprint(Resident) = Bytes(Resident, weight)
    BY FootprintIsBytes
  <2> QED
    BY <2>1, <2>3, <2>4, <2>5 DEF SolidCovered, NeverOverCharged
<1> QED
  BY CoveredInvariance, <1>1, PTL

-----------------------------------------------------------------------------
(* The policy by itself: nobody races with it and nobody changes a weight. *)
Undisturbed == Readers = {} /\ Reweigh = {} /\ ~MayRemoveGhosts

AloneInv == IInv /\ SizeExact /\ SeenIsCurrent

LEMMA SeenStaysCurrent ==
  ASSUME Readers = {}, IInv, SeenIsCurrent, [Next]_vars
  PROVE  SeenIsCurrent'
  <1>1. CASE ReadHand
    BY <1>1 DEF ReadHand, SeenIsCurrent, hand
  <1>2. CASE UNCHANGED vars
    BY <1>2 DEF vars, SeenIsCurrent, hand
  <1>3. CASE Next /\ ~ReadHand
    <2>1. pc' # "act"
      BY <1>3 DEF Next, Writer, Insert, RemoveEntry, GenerationEvicted, Update,
                  evictIfNeeded, KeepHot, Demote, Promote, Evict, Forget, Sweep
    <2> QED
      BY <2>1 DEF SeenIsCurrent
  <1> QED
    BY <1>1, <1>2, <1>3

(* What is resident is listed, and what is listed is an entry.             *)
LEMMA ResidentsInList == IInv => Resident \subseteq Entries /\ Listed \subseteq Entries
  BY DEF IInv, TypeOK, Resident, Listed, ToSet

LEMMA InsertExact ==
  ASSUME IInv, IInv', SizeExact,
         NEW e \in Entries, NEW w \in Weights, NEW g \in Gens, Insert(e, w, g)
  PROVE  SizeExact'
  <1>1. /\ weight \in [Entries -> Weights] /\ weight' \in [Entries -> Weights]
        /\ weight' = [weight EXCEPT ![e] = w] /\ size' = size + w
        /\ Resident \subseteq Entries /\ e \notin Resident
    BY ResidentsInList DEF Insert, IInv, TypeOK, Resident
  <1>2. Resident' = Resident \cup {e}
    <2>1. Listed' = Listed \cup {e} /\ e \notin Listed
      BY AppendLemma DEF Insert, IInv, TypeOK, Listed
    <2>2. /\ \A x \in Entries \ {e} : state'[x] = state[x]
          /\ state'[e].mode = "cold"
      BY DEF Insert, IInv, TypeOK
    <2>3. Listed \subseteq Entries
      BY ResidentsInList
    <2> QED
      BY <2>1, <2>2, <2>3 DEF Resident
  <1>3. Bytes(Resident \cup {e}, weight') = Bytes(Resident, weight') + w
    <2>1. Resident \subseteq Entries /\ e \notin Resident /\ weight'[e] = w
          /\ weight' \in [Entries -> Weights]
      BY <1>1
    <2>2. Bytes(Resident \cup {e}, weight') = Bytes(Resident, weight') + weight'[e]
      BY <2>1, BytesAdd
    <2> QED
      BY <2>1, <2>2
  <1>4. Bytes(Resident, weight') = Bytes(Resident, weight)
    <2>1. \A x \in Resident : weight'[x] = weight[x]
      BY <1>1
    <2> QED
      BY <2>1, BytesCongruent
  <1>5. SizeExact' <=> size' = Bytes(Resident', weight')
    BY DEF SizeExact, Footprint, Bytes, Units
  <1>6. size = Bytes(Resident, weight)
    BY DEF SizeExact, Footprint, Bytes, Units
  <1> QED
    BY <1>1, <1>2, <1>3, <1>4, <1>5, <1>6

(* When the entries of T, and no others, cease to be resident and their    *)
(* bytes are taken off, the size stays exact.                              *)
LEMMA ExactWithout ==
  ASSUME IInv, IInv', SizeExact, weight' = weight,
         NEW T, T \subseteq Resident, Resident' = Resident \ T,
         size' = size - Bytes(T, weight)
  PROVE  SizeExact'
  <1>1. /\ weight \in [Entries -> Weights]
        /\ T \subseteq Entries /\ Resident \subseteq Entries
    BY ResidentsInList DEF IInv, TypeOK
  <1>2. Bytes(Resident, weight) - Bytes(T, weight) = Bytes(Resident \ T, weight)
    BY <1>1, BytesDifference
  <1>3. SizeExact' <=> size' = Bytes(Resident', weight')
    BY DEF SizeExact, Footprint, Bytes, Units
  <1>4. size = Bytes(Resident, weight)
    BY DEF SizeExact, Footprint, Bytes, Units
  <1> QED
    BY <1>2, <1>3, <1>4

LEMMA ExactUnchanged ==
  ASSUME SizeExact, UNCHANGED <<weight, size>>, Resident' = Resident
  PROVE  SizeExact'
  BY DEF SizeExact, Footprint

LEMMA LockedExact ==
  ASSUME Undisturbed, IInv, IInv', SizeExact,
         \/ \E e \in Entries : RemoveEntry(e)
         \/ \E g \in Gens : GenerationEvicted(g)
         \/ \E e \in Entries, w \in Weights, g \in Gens : Update(e, w, g)
  PROVE  SizeExact'
  <1>1. ASSUME NEW e \in Entries, RemoveEntry(e) PROVE SizeExact'
    <2>1. PICK i \in DOMAIN ring : ring[i] = e /\ ring' = RemoveAt(ring, i)
      BY <1>1 DEF RemoveEntry
    <2>2. Listed' = Listed \ {e}
      BY <2>1, RemoveAtLemma DEF IInv, TypeOK, Listed
    <2>3. Resident' = Resident \ {e} /\ {e} \subseteq Resident /\ weight' = weight
      BY <1>1, <2>2 DEF RemoveEntry, Resident, Undisturbed
    <2>4. size' = size - Bytes({e}, weight)
      <3>1. Bytes({e}, weight) = weight[e]
        BY BytesSingleton DEF IInv, TypeOK
      <3> QED
        BY <1>1, <3>1 DEF RemoveEntry
    <2> QED
      BY <2>3, <2>4, ExactWithout
  <1>2. ASSUME NEW g \in Gens, GenerationEvicted(g) PROVE SizeExact'
    <2> DEFINE dead == {e \in Resident : genID[e] = g}
    <2>1. dead \subseteq Resident /\ Resident \subseteq Entries
      BY ResidentsInList
    <2>2. Resident' = Resident \ dead
      <3>1. /\ UNCHANGED ring
            /\ \A e \in Entries \ dead : state'[e] = state[e]
            /\ \A e \in Entries : e \in dead => state'[e].mode = "test"
        BY <1>2 DEF GenerationEvicted
      <3>2. Listed' = Listed /\ Listed \subseteq Entries
        BY <3>1, ResidentsInList DEF Listed
      <3> HIDE DEF dead
      <3> QED
        BY <2>1, <3>1, <3>2 DEF Resident
    <2>3. size' = size - Footprint(dead) /\ weight' = weight
      BY <1>2 DEF GenerationEvicted
    <2> HIDE DEF dead
    <2>4. Footprint(dead) = Bytes(dead, weight)
      BY FootprintIsBytes
    <2> QED
      BY <2>1, <2>2, <2>3, <2>4, ExactWithout
  <1>3. ASSUME NEW e \in Entries, NEW w \in Weights, NEW g \in Gens,
               Update(e, w, g)
        PROVE SizeExact'
    <2>1. w = weight[e]
      BY <1>3, ClockProAssumption DEF Update, Undisturbed, IInv, TypeOK, Weights
    <2>2. weight' = weight /\ size' = size /\ Resident' = Resident
      BY <1>3, <2>1 DEF Update, Resident, Listed, IInv, TypeOK
    <2> QED
      BY <2>2, ExactUnchanged
  <1> QED
    BY <1>1, <1>2, <1>3

(* Which entries a turn of the sweep leaves resident.                      *)
LEMMA LeaveResidents ==
  ASSUME IInv, pc = "act", NEW b \in State, Leave(b)
  PROVE  /\ weight' = weight
         /\ Resident' = IF b.mode = "test" THEN Resident \ {hand}
                                           ELSE Resident \cup {hand}
  <1>1. Listed' = Listed /\ hand \in Listed /\ Listed \subseteq Entries
    <2>1. ring \in Seq(Entries) /\ ring # <<>> /\ IsInjective(ring)
          /\ ring' = Append(Tail(ring), ring[1])
      BY DEF Leave, hand, IInv, TypeOK
    <2>2. ToSet(ring') = ToSet(ring)
      BY <2>1, RotateLemma
    <2>3. ring[1] \in ToSet(ring)
      BY <2>1 DEF ToSet
    <2> QED
      BY <2>2, <2>3, ResidentsInList DEF Listed, hand
  <1>2. state'[hand] = b /\ \A x \in Entries \ {hand} : state'[x] = state[x]
    BY <1>1 DEF Leave, IInv, TypeOK
  <1> QED
    BY <1>1, <1>2 DEF Leave, Resident

LEMMA TurnExact ==
  ASSUME IInv, IInv', SizeExact, SeenIsCurrent, evictIfNeeded
  PROVE  SizeExact'
  <1>1. /\ hand \in Listed /\ hand \in Entries /\ state[hand] \in State
        /\ pc = "act" => seen = state[hand]
    BY DEF evictIfNeeded, ReadHand, KeepHot, Demote, Promote, Evict, Forget,
           IInv, TypeOK, hand, Listed, ToSet, SeenIsCurrent
  <1>2. CASE ReadHand
    BY <1>2, ExactUnchanged DEF ReadHand, Resident, Listed
  <1>3. CASE KeepHot \/ Demote \/ Promote
    <2>1. PICK b \in State : b.mode # "test" /\ Leave(b)
      <3>1. /\ [seen EXCEPT !.ref = FALSE] \in State
            /\ [seen EXCEPT !.ref = FALSE].mode = seen.mode
            /\ [mode |-> "cold", ref |-> FALSE] \in State
            /\ [mode |-> "hot", ref |-> FALSE] \in State
        BY <1>1, <1>3 DEF State, KeepHot, Demote, Promote
      <3>2. CASE KeepHot
        <4>1. Leave([seen EXCEPT !.ref = FALSE]) /\ seen.mode = "hot"
          BY <1>1, <3>2 DEF KeepHot
        <4> QED
          BY <3>1, <4>1
      <3> QED
        BY <1>3, <3>1, <3>2 DEF Demote, Promote
    <2>2. pc = "act" /\ size' = size /\ hand \in Resident
      BY <1>1, <1>3 DEF KeepHot, Demote, Promote, Resident
    <2> QED
      BY <2>1, <2>2, LeaveResidents, ExactUnchanged
  <1>4. CASE Evict
    <2>1. [mode |-> "test", ref |-> FALSE] \in State
      BY DEF State
    <2>2. Resident' = Resident \ {hand} /\ weight' = weight
      BY <1>4, <2>1, LeaveResidents DEF Evict
    <2>3. {hand} \subseteq Resident
      BY <1>1, <1>4 DEF Evict, Resident
    <2>4. size' = size - Bytes({hand}, weight)
      <3>1. Bytes({hand}, weight) = weight[hand]
        BY <1>1, BytesSingleton DEF IInv, TypeOK
      <3> QED
        BY <1>4, <3>1 DEF Evict
    <2> QED
      BY <2>2, <2>3, <2>4, ExactWithout
  <1>5. CASE Forget
    <2>1. hand \notin Resident
      BY <1>1, <1>5 DEF Forget, Resident
    <2>2. Listed' = Listed \/ Listed' = Listed \ {hand}
      BY <1>5, TailLemma DEF Forget, IInv, TypeOK, Listed, hand
    <2>3. Resident' = Resident /\ weight' = weight /\ size' = size
      BY <1>5, <2>1, <2>2 DEF Forget, Resident
    <2> QED
      BY <2>3, ExactUnchanged
  <1> QED
    BY <1>2, <1>3, <1>4, <1>5 DEF evictIfNeeded

LEMMA InitAlone == Init => AloneInv
  <1> SUFFICES ASSUME Init PROVE SizeExact /\ SeenIsCurrent
    BY InitIInv DEF AloneInv
  <1>1. Resident = {}
    BY DEF Init, Resident, Listed, ToSet
  <1>2. Units({}, weight) = {}
    BY DEF Units
  <1>3. Bytes({}, weight) = 0
    BY <1>2, FS_EmptySet DEF Bytes
  <1>4. Footprint(Resident) = 0
    BY <1>1, <1>3, FootprintIsBytes
  <1> QED
    BY <1>4 DEF Init, SizeExact, SeenIsCurrent

THEOREM AloneInvariance ==
  ASSUME Undisturbed
  PROVE  Spec => []AloneInv
<1>1. AloneInv /\ IInv' /\ [Next]_vars => AloneInv'
  <2> SUFFICES ASSUME IInv, SizeExact, SeenIsCurrent, IInv', [Next]_vars
               PROVE  SizeExact'
    BY SeenStaysCurrent DEF AloneInv, Undisturbed
  <2>1. CASE \E e \in Entries, w \in Weights, g \in Gens : Insert(e, w, g)
    BY <2>1, InsertExact
  <2>2. CASE \/ \E e \in Entries : RemoveEntry(e)
             \/ \E g \in Gens : GenerationEvicted(g)
             \/ \E e \in Entries, w \in Weights, g \in Gens : Update(e, w, g)
    BY <2>2, LockedExact
  <2>3. CASE evictIfNeeded
    BY <2>3, TurnExact
  <2>4. CASE UNCHANGED vars
    BY <2>4, ExactUnchanged DEF vars, Resident, Listed
  <2> QED
    BY <2>1, <2>2, <2>3, <2>4 DEF Next, Writer, Undisturbed
<1> QED
  BY InitAlone, Invariance, <1>1, PTL DEF Spec

(* The bytes charged are those of the resident entries (clockpro.go:85),   *)
(* when nobody changes a weight behind the policy's back, deletes a ghost  *)
(* or stores a stale state byte.                                           *)
THEOREM SizeExactCorrect ==
  ASSUME Undisturbed
  PROVE  Spec => []SizeExact
<1>1. AloneInv => SizeExact
  BY DEF AloneInv
<1> QED
  BY AloneInvariance, <1>1, PTL

(* Between two operations the residents fit into the capacity              *)
(* (clockpro.go:86), under the same conditions.                            *)
THEOREM ResidentsFitCorrect ==
  ASSUME Undisturbed
  PROVE  Spec => []ResidentsFit
<1>1. AloneInv => ResidentsFit
  BY ClockProAssumption DEF AloneInv, IInv, TypeOK, SizeExact, ResidentsFit
<1> QED
  BY AloneInvariance, <1>1, PTL

-----------------------------------------------------------------------------
(* A new entry that fits is admitted.  The newcomer starts last in line    *)
(* and with as many turns left as an entry can have.  Nobody sets a        *)
(* reference bit while the sweep runs, so each visit of the hand costs a   *)
(* turn: when the newcomer has one left, the others have none, and it      *)
(* alone is charged.                                                       *)
LEMMA TurnsType ==
  ASSUME NEW st \in State
  PROVE  /\ Turns(st) \in 0 .. 3
         /\ Turns(st) = 0 <=> st.mode = "test"
  BY DEF Turns, State

LEMMA TurnsCases ==
  ASSUME NEW st \in State
  PROVE  /\ st.mode = "hot" /\ st.ref => Turns(st) = 3
         /\ st.mode = "hot" /\ ~st.ref => Turns(st) = 2
         /\ st.mode = "cold" /\ st.ref => Turns(st) = 3
         /\ st.mode = "cold" /\ ~st.ref => Turns(st) = 1
  BY DEF Turns, State

(* NewcomerLasts for the newcomer at position p.                           *)
LastsAt(p, r, st, e) ==
  /\ p \in DOMAIN r /\ r[p] = e
  /\ \A i \in 1 .. p : Turns(st[r[i]]) <= Turns(st[e])
  /\ \A i \in p + 1 .. Len(r) : Turns(st[r[i]]) < Turns(st[e])

LEMMA LastsIsAt == NewcomerLasts <=> (pc # "idle" => \E p \in DOMAIN ring : LastsAt(p, ring, state, ent))
  BY DEF NewcomerLasts, LastsAt

(* One turn of the hand keeps the newcomer ahead of those it has passed.   *)
LEMMA RotateLasts ==
  ASSUME NEW r \in Seq(Entries), r # <<>>, IsInjective(r),
         NEW st \in [Entries -> State], NEW su \in [Entries -> State],
         \A x \in Entries \ {r[1]} : su[x] = st[x],
         Turns(su[r[1]]) = Turns(st[r[1]]) - 1,
         NEW p, NEW e, LastsAt(p, r, st, e)
  PROVE  \E q \in DOMAIN r : LastsAt(q, Append(Tail(r), r[1]), su, e)
  <1> DEFINE n == Len(r)
             t == Append(Tail(r), r[1])
  <1>1. /\ n \in Nat /\ n >= 1 /\ DOMAIN r = 1 .. n /\ p \in 1 .. n
        /\ \A i \in 1 .. n : r[i] \in Entries
        /\ DOMAIN t = 1 .. n /\ Len(t) = n
        /\ t[n] = r[1] /\ \A i \in 1 .. n - 1 : t[i] = r[i + 1]
    BY DEF LastsAt
  <1>2. \A i \in 1 .. n : i # 1 => r[i] # r[1] /\ su[r[i]] = st[r[i]]
    BY <1>1 DEF IsInjective
  <1>3. \A i \in 1 .. n : Turns(st[r[i]]) \in Int /\ Turns(su[r[i]]) \in Int
    <2>1. \A x \in State : Turns(x) \in Int
      BY TurnsType
    <2> QED
      BY <1>1, <2>1
  <1>4. /\ r[p] = e
        /\ \A i \in 1 .. p : Turns(st[r[i]]) <= Turns(st[e])
        /\ \A i \in p + 1 .. n : Turns(st[r[i]]) < Turns(st[e])
    BY DEF LastsAt
  <1> HIDE DEF n, t
  <1>5. CASE p = 1
    <2>1. e = r[1] /\ t[n] = e
      BY <1>1, <1>4, <1>5
    <2>2. ASSUME NEW i \in 1 .. n PROVE Turns(su[t[i]]) <= Turns(su[e])
      <3>1. CASE i = n
        BY <1>1, <1>3, <2>1, <3>1
      <3>2. CASE i # n
        <4>1. i + 1 \in 2 .. n /\ i + 1 # 1 /\ t[i] = r[i + 1]
          BY <1>1, <3>2
        <4>2. Turns(st[r[i + 1]]) < Turns(st[r[1]])
          BY <1>1, <1>4, <1>5, <2>1, <4>1
        <4>3. /\ Turns(su[r[i + 1]]) = Turns(st[r[i + 1]])
              /\ Turns(st[r[i + 1]]) \in Int /\ Turns(st[r[1]]) \in Int
          BY <1>1, <1>2, <1>3, <4>1
        <4> QED
          BY <2>1, <4>1, <4>2, <4>3
      <3> QED
        BY <3>1, <3>2
    <2>3. LastsAt(n, t, su, e)
      BY <1>1, <2>1, <2>2 DEF LastsAt
    <2> QED
      BY <1>1, <2>3 DEF t
  <1>6. CASE p # 1
    <2>1. /\ p - 1 \in 1 .. n - 1 /\ p - 1 \in 1 .. n /\ t[p - 1] = e
          /\ su[e] = st[e] /\ Turns(st[e]) \in Int
      BY <1>1, <1>2, <1>3, <1>4, <1>6
    <2>2. ASSUME NEW i \in 1 .. p - 1 PROVE Turns(su[t[i]]) <= Turns(su[e])
      <3>1. t[i] = r[i + 1] /\ i + 1 \in 1 .. p /\ i + 1 \in 1 .. n /\ i + 1 # 1
        BY <1>1, <2>1
      <3> QED
        BY <1>2, <1>4, <2>1, <3>1
    <2>3. ASSUME NEW i \in (p - 1) + 1 .. n PROVE Turns(su[t[i]]) < Turns(su[e])
      <3>1. CASE i = n
        <4>1. Turns(su[t[i]]) = Turns(st[r[1]]) - 1 /\ Turns(st[r[1]]) \in Int
          BY <1>1, <1>3, <3>1
        <4>2. Turns(st[r[1]]) <= Turns(st[e])
          BY <1>1, <1>4
        <4> QED
          BY <2>1, <4>1, <4>2
      <3>2. CASE i # n
        <4>1. t[i] = r[i + 1] /\ i + 1 \in p + 1 .. n /\ i + 1 \in 1 .. n /\ i + 1 # 1
          BY <1>1, <2>1, <3>2
        <4> QED
          BY <1>2, <1>4, <2>1, <4>1
      <3> QED
        BY <3>1, <3>2
    <2>4. LastsAt(p - 1, t, su, e)
      BY <1>1, <2>1, <2>2, <2>3 DEF LastsAt
    <2> QED
      BY <1>1, <2>1, <2>4 DEF t
  <1> QED
    BY <1>5, <1>6

(* Nor does it matter to the newcomer that another entry is forgotten.     *)
LEMMA TailLasts ==
  ASSUME NEW r \in Seq(Entries), NEW st, NEW p, NEW e,
         r # <<>>, r[1] # e, LastsAt(p, r, st, e)
  PROVE  \E q \in DOMAIN Tail(r) : LastsAt(q, Tail(r), st, e)
  <1> DEFINE n == Len(r)
             t == Tail(r)
  <1>1. /\ n \in Nat /\ DOMAIN r = 1 .. n /\ p \in 1 .. n /\ p # 1
        /\ DOMAIN t = 1 .. n - 1 /\ Len(t) = n - 1
        /\ \A i \in 1 .. n - 1 : t[i] = r[i + 1]
    BY DEF LastsAt
  <1>2. /\ r[p] = e
        /\ \A i \in 1 .. p : Turns(st[r[i]]) <= Turns(st[e])
        /\ \A i \in p + 1 .. n : Turns(st[r[i]]) < Turns(st[e])
    BY DEF LastsAt
  <1> HIDE DEF n, t
  <1>3. p - 1 \in 1 .. n - 1 /\ t[p - 1] = e
    BY <1>1, <1>2
  <1>4. ASSUME NEW i \in 1 .. p - 1 PROVE Turns(st[t[i]]) <= Turns(st[e])
    <2>1. t[i] = r[i + 1] /\ i + 1 \in 1 .. p
      BY <1>1
    <2> QED
      BY <1>2, <2>1
  <1>5. ASSUME NEW i \in (p - 1) + 1 .. n - 1 PROVE Turns(st[t[i]]) < Turns(st[e])
    <2>1. t[i] = r[i + 1] /\ i + 1 \in p + 1 .. n
      BY <1>1
    <2> QED
      BY <1>2, <2>1
  <1>6. LastsAt(p - 1, t, st, e)
    BY <1>1, <1>3, <1>4, <1>5 DEF LastsAt
  <1> QED
    BY <1>1, <1>3, <1>6 DEF t

(* A turn that costs the hand's entry one of its own.                      *)
LEMMA LeaveLasts ==
  ASSUME IInv, NewcomerLasts, pc = "act", NEW b \in State, Leave(b),
         Turns(b) = Turns(state[hand]) - 1, ent' = ent
  PROVE  \E p \in DOMAIN ring' : LastsAt(p, ring', state', ent')
  <1>1. /\ ring \in Seq(Entries) /\ ring # <<>> /\ IsInjective(ring)
        /\ state \in [Entries -> State] /\ hand \in Entries
    BY DEF IInv, TypeOK, hand
  <1>2. ring' = Append(Tail(ring), ring[1])
    BY DEF Leave, hand
  <1>3. /\ state' \in [Entries -> State] /\ state'[ring[1]] = b
        /\ \A x \in Entries \ {ring[1]} : state'[x] = state[x]
    BY <1>1 DEF Leave, hand
  <1>4. PICK p \in DOMAIN ring : LastsAt(p, ring, state, ent)
    BY LastsIsAt
  <1>5. Turns(state'[ring[1]]) = Turns(state[ring[1]]) - 1
    BY <1>3 DEF hand
  <1>6. \E q \in DOMAIN ring : LastsAt(q, ring', state', ent)
    BY <1>1, <1>2, <1>3, <1>4, <1>5, RotateLasts
  <1> QED
    BY <1>6 DEF LastsAt

LEMMA TurnLasts ==
  ASSUME IInv, IInv', SeenIsCurrent, NewcomerLasts, evictIfNeeded
  PROVE  NewcomerLasts'
  <1> SUFFICES ASSUME pc' # "idle"
               PROVE  \E p \in DOMAIN ring' : LastsAt(p, ring', state', ent')
    BY DEF NewcomerLasts, LastsAt
  <1>1. /\ pc # "idle" /\ ent' = ent /\ ent \in Entries
        /\ ring \in Seq(Entries) /\ ring # <<>> /\ hand \in Entries
        /\ state[hand] \in State
        /\ pc = "act" => seen = state[hand]
    BY DEF evictIfNeeded, ReadHand, KeepHot, Demote, Promote, Evict, Forget,
           Sweep, IInv, TypeOK, hand, SeenIsCurrent
  <1>2. PICK p \in DOMAIN ring : LastsAt(p, ring, state, ent)
    BY <1>1, LastsIsAt
  <1>3. CASE ReadHand
    BY <1>1, <1>2, <1>3 DEF ReadHand
  <1>4. CASE KeepHot \/ Demote \/ Promote \/ Evict
    <2>1. PICK b \in State : Leave(b) /\ Turns(b) = Turns(state[hand]) - 1
      <3>1. /\ [mode |-> "hot", ref |-> FALSE] \in State
            /\ [mode |-> "cold", ref |-> FALSE] \in State
            /\ [mode |-> "test", ref |-> FALSE] \in State
            /\ Turns([mode |-> "hot", ref |-> FALSE]) = 2
            /\ Turns([mode |-> "cold", ref |-> FALSE]) = 1
            /\ Turns([mode |-> "test", ref |-> FALSE]) = 0
        BY DEF State, Turns
      <3>2. CASE KeepHot
        <4> DEFINE c == [seen EXCEPT !.ref = FALSE]
        <4>1. seen = state[hand] /\ seen.mode = "hot" /\ seen.ref
          BY <1>1, <3>2 DEF KeepHot
        <4>2. c \in State /\ c.mode = "hot" /\ ~c.ref
          BY <1>1, <4>1 DEF State
        <4>3. Leave(c)
          BY <3>2, <4>1 DEF KeepHot
        <4> HIDE DEF c
        <4>4. Turns(c) = 2 /\ Turns(state[hand]) = 3
          BY <1>1, <4>1, <4>2, TurnsCases
        <4> QED
          BY <4>2, <4>3, <4>4
      <3>3. CASE Demote
        <4>1. Turns(state[hand]) = 2
          <5>1. state[hand].mode = "hot" /\ ~state[hand].ref
            BY <1>1, <3>3 DEF Demote
          <5> QED
            BY <1>1, <5>1, TurnsCases
        <4> QED
          BY <3>1, <3>3, <4>1 DEF Demote
      <3>4. CASE Promote
        <4>1. Turns(state[hand]) = 3
          <5>1. state[hand].mode = "cold" /\ state[hand].ref
            BY <1>1, <3>4 DEF Promote
          <5> QED
            BY <1>1, <5>1, TurnsCases
        <4> QED
          BY <3>1, <3>4, <4>1 DEF Promote
      <3>5. CASE Evict
        <4>1. Turns(state[hand]) = 1
          <5>1. state[hand].mode = "cold" /\ ~state[hand].ref
            BY <1>1, <3>5 DEF Evict
          <5> QED
            BY <1>1, <5>1, TurnsCases
        <4> QED
          BY <3>1, <3>5, <4>1 DEF Evict
      <3> QED
        BY <1>4, <3>2, <3>3, <3>4, <3>5
    <2>2. pc = "act"
      BY <1>4 DEF KeepHot, Demote, Promote, Evict
    <2> QED
      BY <1>1, <2>1, <2>2, LeaveLasts
  <1>5. CASE Forget
    <2>1. hand # ent
      BY <1>1, <1>5 DEF Forget, IInv, SweepHasVictim, SeenNewcomer, Resident
    <2>2. ring' = Tail(ring)
      <3>1. Len(ring) # 1
        BY <1>1, <1>2, <2>1 DEF LastsAt, hand
      <3> QED
        BY <1>5, <3>1 DEF Forget
    <2>3. \E q \in DOMAIN Tail(ring) : LastsAt(q, Tail(ring), state, ent)
      BY <1>1, <1>2, <2>1, TailLasts DEF hand
    <2> QED
      BY <1>1, <1>5, <2>2, <2>3 DEF Forget
  <1> QED
    BY <1>3, <1>4, <1>5 DEF evictIfNeeded

LEMMA InsertLasts ==
  ASSUME IInv, IInv',
         NEW e \in Entries, NEW w \in Weights, NEW g \in Gens, Insert(e, w, g)
  PROVE  NewcomerLasts'
  <1> DEFINE n == Len(ring)
  <1>1. /\ ring' = Append(ring, e) /\ ring' \in Seq(Entries)
        /\ n \in Nat /\ DOMAIN ring' = 1 .. n + 1 /\ Len(ring') = n + 1
        /\ ring'[n + 1] = e
        /\ \A i \in 1 .. n + 1 : ring'[i] \in Entries
    BY DEF Insert, IInv, TypeOK
  <1>2. state'[e] = [mode |-> "cold", ref |-> TRUE] /\ state' \in [Entries -> State]
    BY DEF Insert, IInv, TypeOK
  <1>3. Turns(state'[e]) = 3
    BY <1>2 DEF Turns
  <1>4. \A i \in 1 .. n + 1 : Turns(state'[ring'[i]]) \in 0 .. 3
    BY <1>1, <1>2, TurnsType
  <1>5. LastsAt(n + 1, ring', state', e)
    <2>1. \A i \in 1 .. n + 1 : Turns(state'[ring'[i]]) <= Turns(state'[e])
      BY <1>3, <1>4
    <2>2. (n + 1) + 1 .. Len(ring') = {}
      BY <1>1
    <2> QED
      BY <1>1, <2>1, <2>2 DEF LastsAt
  <1>6. pc' # "idle" => ent' = e
    BY DEF Insert, Sweep
  <1> HIDE DEF n
  <1> QED
    BY <1>1, <1>5, <1>6 DEF NewcomerLasts, LastsAt

LEMMA NewcomerStaysAhead ==
  ASSUME Readers = {}, IInv, IInv', SeenIsCurrent, NewcomerLasts, [Next]_vars
  PROVE  NewcomerLasts'
  <1>1. CASE \E e \in Entries, w \in Weights, g \in Gens : Insert(e, w, g)
    BY <1>1, InsertLasts
  <1>2. CASE \/ \E e \in Entries : RemoveEntry(e)
             \/ \E g \in Gens : GenerationEvicted(g)
             \/ \E e \in Entries, w \in Weights, g \in Gens : Update(e, w, g)
    <2>1. pc' = "idle"
      BY <1>2 DEF RemoveEntry, GenerationEvicted, Update
    <2> QED
      BY <2>1 DEF NewcomerLasts
  <1>3. CASE evictIfNeeded
    BY <1>3, TurnLasts
  <1>4. CASE UNCHANGED vars
    BY <1>4 DEF vars, NewcomerLasts
  <1> QED
    BY <1>1, <1>2, <1>3, <1>4 DEF Next, Writer

(* The turn that ends the sweep: it does not evict a newcomer that fits.   *)
LEMMA FittingNewcomerStays ==
  ASSUME IInv, IInv', SizeExact, SeenIsCurrent, NewcomerLasts, evictIfNeeded,
         weight[ent] <= Capacity
  PROVE  ent \in Resident'
  <1>1. /\ pc # "idle" /\ ent \in Entries /\ ent \in Resident
        /\ size \in Int /\ size > Capacity
        /\ weight \in [Entries -> Weights]
        /\ ring \in Seq(Entries) /\ IsInjective(ring) /\ state \in [Entries -> State]
    BY DEF evictIfNeeded, ReadHand, KeepHot, Demote, Promote, Evict, Forget,
           IInv, TypeOK, SweepHasVictim
  <1>2. CASE pc' # "idle"
    <2>1. ent' = ent
      BY <1>2 DEF evictIfNeeded, ReadHand, KeepHot, Demote, Promote, Evict,
                  Forget, Sweep
    <2> QED
      BY <1>2, <2>1 DEF IInv, SweepHasVictim
  <1>3. CASE pc' = "idle"
    <2>1. Evict
      BY <1>1, <1>3 DEF evictIfNeeded, ReadHand, KeepHot, Demote, Promote,
                        Evict, Forget, Sweep
    <2>2. [mode |-> "test", ref |-> FALSE] \in State
      BY DEF State
    <2>3. Resident' = Resident \ {hand}
      BY <2>1, <2>2, LeaveResidents DEF Evict
    <2>4. hand # ent
      <3> SUFFICES ASSUME hand = ent PROVE FALSE
        OBVIOUS
      <3>1. PICK p \in DOMAIN ring : LastsAt(p, ring, state, ent)
        BY <1>1, LastsIsAt
      <3>2. DOMAIN ring = 1 .. Len(ring) /\ Len(ring) \in Nat /\ 1 \in DOMAIN ring
        BY <1>1, <3>1
      <3>3. p = 1
        BY <1>1, <3>1, <3>2 DEF LastsAt, IsInjective, hand
      <3>4. Turns(state[ent]) = 1
        BY <2>1 DEF Evict, SeenIsCurrent, Turns
      <3>5. \A i \in 2 .. Len(ring) : state[ring[i]].mode = "test"
        <4> TAKE i \in 2 .. Len(ring)
        <4>1. Turns(state[ring[i]]) < 1
          BY <3>1, <3>3, <3>4 DEF LastsAt
        <4>2. state[ring[i]] \in State
          BY <1>1, <3>2
        <4> QED
          BY <4>1, <4>2, TurnsType
      <3>6. Resident = {ent}
        <4>1. \A i \in DOMAIN ring : ring[i] \in Resident => ring[i] = ent
          BY <3>2, <3>5 DEF Resident, hand
        <4> QED
          BY <1>1, <4>1 DEF Resident, Listed, ToSet
      <3>7. size = weight[ent]
        <4>1. Bytes({ent}, weight) = weight[ent]
          BY <1>1, BytesSingleton
        <4> QED
          BY <3>6, <4>1, FootprintIsBytes DEF SizeExact
      <3> QED
        BY <1>1, <3>7, ClockProAssumption
    <2> QED
      BY <1>1, <2>3, <2>4
  <1> QED
    BY <1>2, <1>3

(* A new entry that fits into the capacity survives the sweep of its own   *)
(* Put (clockpro.go:146), when the policy is undisturbed.                  *)
THEOREM AdmissionCorrect ==
  ASSUME Undisturbed
  PROVE  Spec => AdmittedIfFits
<1>1. Init => NewcomerLasts
  BY DEF Init, NewcomerLasts
<1>2. AloneInv /\ IInv' /\ NewcomerLasts /\ [Next]_vars => NewcomerLasts'
  BY NewcomerStaysAhead DEF AloneInv, Undisturbed
<1>3. AloneInv /\ IInv' /\ NewcomerLasts /\ [Next]_vars
        => [ent # None /\ weight[ent] <= Capacity => ent \in Resident']_vars
  <2> SUFFICES ASSUME AloneInv, IInv', NewcomerLasts, [Next]_vars,
                      ent # None, weight[ent] <= Capacity
               PROVE  ent \in Resident' \/ UNCHANGED vars
    OBVIOUS
  <2>1. pc # "idle"
    BY DEF AloneInv, IInv, TypeOK
  <2>2. evictIfNeeded \/ UNCHANGED vars
    BY <2>1 DEF Next, Writer, Insert, RemoveEntry, GenerationEvicted, Update,
                Undisturbed
  <2> QED
    BY <2>2, FittingNewcomerStays DEF AloneInv
<1>4. AloneInv => IInv
  BY DEF AloneInv
<1> QED
  BY AloneInvariance, <1>1, <1>2, <1>3, <1>4, PTL DEF Spec, AdmittedIfFits
=============================================================================
