--------------------------- MODULE MetaListProof ---------------------------
(***************************************************************************)
(* Proofs about MetaList, for every finite set of nodes and every set of   *)
(* entries: the pointers are a circle, both ways round, and the circle is  *)
(* the list of HandList.                                                   *)
(*                                                                         *)
(* What the operations do to a circle is proved for any functions nx and   *)
(* pv and any sequence s of nodes; that the next pointers admit only one   *)
(* circle (OneCircle) then tells what Order is before and after a step.    *)
(***************************************************************************)
EXTENDS MetaList, FiniteSetTheorems, WellFoundedInduction, SequenceTheorems, TLAPS

(* The index that comes after i in a circle of L nodes.                    *)
After(L, i) == IF i = L THEN 1 ELSE i + 1

Forward(nx, s) ==
  /\ s \in Seq(Nodes) /\ s # <<>>
  /\ \A i, j \in 1 .. Len(s) : s[i] = s[j] => i = j
  /\ \A i \in 1 .. Len(s) : nx[s[i]] = s[After(Len(s), i)]

Doubly(nx, pv, s) ==
  /\ Forward(nx, s)
  /\ \A i \in 1 .. Len(s) : pv[s[After(Len(s), i)]] = s[i]

PointersOK ==
  /\ next \in [Nodes -> Nodes \cup {Nil}]
  /\ prev \in [Nodes -> Nodes \cup {Nil}]
  /\ entry \in [Nodes -> Entries \cup {Nil}]
  /\ head \in Nodes \cup {Nil}
  /\ hand \in Nodes \cup {Nil}

(* s is the list, from the cursor on.                                      *)
ListIs(s) ==
  /\ Doubly(next, prev, s) /\ s[1] = Cursor
  /\ \A i \in 1 .. Len(s) : entry[s[i]] \in Entries

IInv == PointersOK /\ (Cursor # Nil => \E s \in Seq(Nodes) : ListIs(s))

-----------------------------------------------------------------------------
(* Every set of naturals has a least element, unless it is empty.          *)
LEMMA LeastIndex ==
  ASSUME NEW T \in SUBSET Nat, T # {}
  PROVE  \E m \in T : \A n \in T : m <= n
  <1>1. PICK m \in T : \A n \in T : <<n, m>> \notin OpToRel(<, Nat)
    BY NatLessThanWellFounded, WFMin
  <1>2. \A n \in T : ~ (n < m)
    BY <1>1 DEF OpToRel
  <1> QED
    BY <1>2

(* Two circles from one node agree as far as both go: at the first place   *)
(* where they did not, the pointer before it would lead to two nodes.      *)
LEMMA SamePrefix ==
  ASSUME NEW nx, NEW s, NEW t, Forward(nx, s), Forward(nx, t), s[1] = t[1],
         NEW i \in 1 .. Len(s), i <= Len(t)
  PROVE  s[i] = t[i]
  <1> DEFINE D == {j \in Nat : j \in 1 .. Len(s) /\ j <= Len(t) /\ s[j] # t[j]}
  <1>0. Len(s) \in Nat /\ Len(t) \in Nat
    BY DEF Forward
  <1>1. SUFFICES ASSUME D # {} PROVE FALSE
    BY <1>0
  <1>2. PICK m \in D : \A n \in D : m <= n
    <2> HIDE DEF D
    <2>1. D \in SUBSET Nat
      BY DEF D
    <2> QED
      BY <1>1, <2>1, LeastIndex
  <1>3. m - 1 \in 1 .. Len(s) /\ m - 1 <= Len(t) - 1 /\ m - 1 # Len(s)
    BY <1>0, <1>2
  <1>4. s[m - 1] = t[m - 1]
    BY <1>0, <1>2, <1>3
  <1>5. nx[s[m - 1]] = s[m] /\ nx[t[m - 1]] = t[m]
    BY <1>0, <1>2, <1>3 DEF Forward, After
  <1> QED
    BY <1>2, <1>4, <1>5

(* A circle is determined by its pointers and where it begins.             *)
LEMMA OneCircle ==
  ASSUME NEW nx, NEW s, NEW t, Forward(nx, s), Forward(nx, t), s[1] = t[1]
  PROVE  s = t
  <1>0. /\ Len(s) \in Nat \ {0} /\ Len(t) \in Nat \ {0}
        /\ s \in Seq(Nodes) /\ t \in Seq(Nodes)
    BY EmptySeq DEF Forward
  <1>1. ASSUME NEW u, NEW v, Forward(nx, u), Forward(nx, v), u[1] = v[1],
               Len(u) \in Nat \ {0}, Len(v) \in Nat \ {0}
        PROVE  ~ (Len(u) < Len(v))
    <2>1. SUFFICES ASSUME Len(u) < Len(v) PROVE FALSE
      OBVIOUS
    <2>2. u[Len(u)] = v[Len(u)]
      BY <1>1, <2>1, SamePrefix
    <2>3. nx[u[Len(u)]] = u[1]
      BY <1>1 DEF Forward, After
    <2>4. nx[v[Len(u)]] = v[Len(u) + 1]
      BY <1>1, <2>1 DEF Forward, After
    <2>5. Len(u) + 1 = 1
      BY <1>1, <2>1, <2>2, <2>3, <2>4 DEF Forward
    <2> QED
      BY <1>1, <2>5
  <1>2. Len(s) = Len(t)
    BY <1>0, <1>1
  <1>3. \A i \in 1 .. Len(s) : s[i] = t[i]
    BY <1>0, <1>2, SamePrefix
  <1> QED
    BY <1>0, <1>2, <1>3, SeqEqual

(* A circle has no more nodes than there are.                              *)
LEMMA CircleBound ==
  ASSUME NEW nx, NEW s, Forward(nx, s)
  PROVE  s \in SeqOf(Nodes, Cardinality(Nodes))
  <1>1. Len(s) \in Nat /\ s \in [1 .. Len(s) -> Nodes]
    BY DEF Forward
  <1>2. IsFiniteSet(Nodes) /\ Cardinality(Nodes) \in Nat
    BY MetaListAssumption, FS_CardinalityType
  <1>3. IsFiniteSet(1 .. Len(s)) /\ Cardinality(1 .. Len(s)) = Len(s)
    BY <1>1, FS_Interval
  <1>4. ~ (Cardinality(Nodes) < Len(s))
    BY <1>1, <1>2, <1>3, FS_PigeonHole DEF Forward
  <1>5. Len(s) \in 0 .. Cardinality(Nodes)
    BY <1>1, <1>2, <1>4
  <1> QED
    BY <1>1, <1>5 DEF SeqOf

-----------------------------------------------------------------------------
(* Order is the circle that begins at the cursor.                          *)
LEMMA OrderIs ==
  ASSUME NEW s, Forward(next, s), s[1] = Cursor, Cursor # Nil
  PROVE  Order = s
  <1>1. IsCircle(s)
    BY DEF Forward, IsCircle, After
  <1>2. s \in SeqOf(Nodes, Cardinality(Nodes))
    BY CircleBound
  <1>3. \A t \in SeqOf(Nodes, Cardinality(Nodes)) : IsCircle(t) => t = s
    <2> SUFFICES ASSUME NEW t \in SeqOf(Nodes, Cardinality(Nodes)), IsCircle(t)
                 PROVE  t = s
      OBVIOUS
    <2>1. t \in Seq(Nodes)
      BY DEF SeqOf
    <2>2. Forward(next, t) /\ t[1] = s[1]
      BY <2>1 DEF Forward, IsCircle, After
    <2> QED
      BY <2>2, OneCircle
  <1> QED
    BY <1>1, <1>2, <1>3 DEF Order

LEMMA OrderIsNext ==
  ASSUME NEW s, Forward(next', s), s[1] = Cursor', Cursor' # Nil
  PROVE  Order' = s
  <1>1. IsCircle(s)'
    BY DEF Forward, IsCircle, After
  <1>2. s \in SeqOf(Nodes, Cardinality(Nodes))
    BY CircleBound
  <1>3. \A t \in SeqOf(Nodes, Cardinality(Nodes)) : IsCircle(t)' => t = s
    <2> SUFFICES ASSUME NEW t \in SeqOf(Nodes, Cardinality(Nodes)), IsCircle(t)'
                 PROVE  t = s
      OBVIOUS
    <2>1. t \in Seq(Nodes)
      BY DEF SeqOf
    <2>2. Forward(next', t) /\ t[1] = s[1]
      BY <2>1 DEF Forward, IsCircle, After
    <2> QED
      BY <2>2, OneCircle
  <1> QED
    BY <1>1, <1>2, <1>3 DEF Order

-----------------------------------------------------------------------------
(* A node is joined between the last and the first.                        *)
LEMMA JoinCircle ==
  ASSUME NEW nx \in [Nodes -> Nodes \cup {Nil}], NEW pv \in [Nodes -> Nodes \cup {Nil}],
         NEW s, Doubly(nx, pv, s), NEW n \in Nodes, \A i \in 1 .. Len(s) : s[i] # n
  PROVE  LET h == s[1]
             tail == pv[h]
         IN  Doubly([nx EXCEPT ![tail] = n, ![n] = h], [pv EXCEPT ![n] = tail, ![h] = n],
                    Append(s, n))
  <1> DEFINE L == Len(s)
             t == Append(s, n)
             nx2 == [nx EXCEPT ![s[L]] = n, ![n] = s[1]]
             pv2 == [pv EXCEPT ![n] = s[L], ![s[1]] = n]
  <1>1. s \in Seq(Nodes) /\ L \in Nat \ {0} /\ \A i \in 1 .. L : s[i] \in Nodes
    BY EmptySeq DEF Doubly, Forward
  <1>2. pv[s[1]] = s[L]
    BY <1>1 DEF Doubly, After
  <1>3. /\ t \in Seq(Nodes) /\ Len(t) = L + 1 /\ t[L + 1] = n
        /\ \A i \in 1 .. L : t[i] = s[i]
    BY <1>1
  <1>4. /\ \A i, j \in 1 .. L : s[i] = s[j] => i = j
        /\ \A i \in 1 .. L : nx[s[i]] = s[After(L, i)] /\ pv[s[After(L, i)]] = s[i]
    BY DEF Doubly, Forward
  <1> HIDE DEF t
  <1>5. \A i, j \in 1 .. L + 1 : t[i] = t[j] => i = j
    <2> SUFFICES ASSUME NEW i \in 1 .. L + 1, NEW j \in 1 .. L + 1, t[i] = t[j]
                 PROVE  i = j
      OBVIOUS
    <2>1. CASE i \in 1 .. L /\ j \in 1 .. L
      BY <1>3, <1>4, <2>1
    <2>2. CASE i = L + 1 \/ j = L + 1
      BY <1>1, <1>3, <2>2
    <2> QED
      BY <1>1, <2>1, <2>2
  <1>6. \A i \in 1 .. L + 1 : nx2[t[i]] = t[After(L + 1, i)]
    <2> SUFFICES ASSUME NEW i \in 1 .. L + 1 PROVE nx2[t[i]] = t[After(L + 1, i)]
      OBVIOUS
    <2>1. CASE i < L
      <3>1. t[i] = s[i] /\ s[i] # n /\ s[i] # s[L] /\ t[i + 1] = s[i + 1]
        BY <1>1, <1>3, <1>4, <2>1
      <3>2. nx2[s[i]] = nx[s[i]]
        BY <1>1, <2>1, <3>1
      <3> QED
        BY <1>1, <1>4, <2>1, <3>1, <3>2 DEF After
    <2>2. CASE i = L
      <3>1. nx2[s[L]] = n
        BY <1>1
      <3> QED
        BY <1>1, <1>3, <2>2, <3>1 DEF After
    <2>3. CASE i = L + 1
      <3>1. nx2[n] = s[1]
        BY <1>1
      <3> QED
        BY <1>1, <1>3, <2>3, <3>1 DEF After
    <2> QED
      BY <1>1, <2>1, <2>2, <2>3
  <1>7. \A i \in 1 .. L + 1 : pv2[t[After(L + 1, i)]] = t[i]
    <2> SUFFICES ASSUME NEW i \in 1 .. L + 1 PROVE pv2[t[After(L + 1, i)]] = t[i]
      OBVIOUS
    <2>1. CASE i < L
      <3>1. t[i] = s[i] /\ t[i + 1] = s[i + 1] /\ s[i + 1] # n /\ s[i + 1] # s[1]
        BY <1>1, <1>3, <1>4, <2>1
      <3>2. pv2[s[i + 1]] = pv[s[i + 1]]
        BY <1>1, <2>1, <3>1
      <3> QED
        BY <1>1, <1>4, <2>1, <3>1, <3>2 DEF After
    <2>2. CASE i = L
      <3>1. s[1] # n
        BY <1>1
      <3>2. pv2[n] = s[L]
        BY <1>1, <3>1
      <3> QED
        BY <1>1, <1>3, <2>2, <3>2 DEF After
    <2>3. CASE i = L + 1
      <3>1. pv2[s[1]] = n
        BY <1>1
      <3> QED
        BY <1>1, <1>3, <2>3, <3>1 DEF After
    <2> QED
      BY <1>1, <2>1, <2>2, <2>3
  <1>8. t # <<>>
    BY <1>1, <1>3
  <1>9. Doubly(nx2, pv2, t)
    BY <1>3, <1>5, <1>6, <1>7, <1>8 DEF Doubly, Forward
  <1> QED
    BY <1>2, <1>9 DEF t

(* A circle of one node.                                                   *)
LEMMA SingleCircle ==
  ASSUME NEW nx \in [Nodes -> Nodes \cup {Nil}], NEW pv \in [Nodes -> Nodes \cup {Nil}],
         NEW n \in Nodes
  PROVE  Doubly([nx EXCEPT ![n] = n], [pv EXCEPT ![n] = n], <<n>>)
  BY DEF Doubly, Forward, After

(* A sequence without its k-th element.                                    *)
LEMMA RemoveAtProps ==
  ASSUME NEW S, NEW s \in Seq(S), NEW k \in 1 .. Len(s)
  PROVE  /\ RemoveAt(s, k) \in Seq(S) /\ Len(RemoveAt(s, k)) = Len(s) - 1
         /\ \A j \in 1 .. Len(s) - 1 : RemoveAt(s, k)[j] = s[IF j < k THEN j ELSE j + 1]
  <1> DEFINE L == Len(s)
             t == RemoveAt(s, k)
             u == SubSeq(s, 1, k - 1)
             v == SubSeq(s, k + 1, L)
  <1>1. L \in Nat
    OBVIOUS
  <1>2. /\ u \in Seq(S) /\ Len(u) = k - 1
        /\ \A j \in 1 .. k - 1 : u[j] = s[j]
    BY <1>1
  <1>3. /\ v \in Seq(S) /\ Len(v) = L - k
        /\ \A j \in 1 .. L - k : v[j] = s[k + j]
    BY <1>1
  <1>4. t = u \o v
    BY DEF RemoveAt
  <1> HIDE DEF u, v, t
  <1>5. /\ t \in Seq(S) /\ Len(t) = L - 1
        /\ \A j \in 1 .. L - 1 : t[j] = IF j <= k - 1 THEN u[j] ELSE v[j - (k - 1)]
    BY <1>1, <1>2, <1>3, <1>4, ConcatProperties
  <1>6. \A j \in 1 .. L - 1 : t[j] = s[IF j < k THEN j ELSE j + 1]
    BY <1>1, <1>2, <1>3, <1>5
  <1> QED
    BY <1>5, <1>6 DEF t

(* A node is taken out; what is left begins where it began, or with the    *)
(* next one if it was the first.                                           *)
LEMMA UnlinkCircle ==
  ASSUME NEW nx \in [Nodes -> Nodes \cup {Nil}], NEW pv \in [Nodes -> Nodes \cup {Nil}],
         NEW s, Doubly(nx, pv, s), NEW k \in 1 .. Len(s), Len(s) # 1
  PROVE  LET n == s[k]
         IN  /\ Doubly([nx EXCEPT ![pv[n]] = nx[n]], [pv EXCEPT ![nx[n]] = pv[n]],
                       RemoveAt(s, k))
             /\ RemoveAt(s, k)[1] = IF k = 1 THEN s[2] ELSE s[1]
  <1> DEFINE L == Len(s)
             t == RemoveAt(s, k)
             b == IF k = 1 THEN L ELSE k - 1
             a == After(L, k)
             nx2 == [nx EXCEPT ![s[b]] = s[a]]
             pv2 == [pv EXCEPT ![s[a]] = s[b]]
             Old(j) == IF j < k THEN j ELSE j + 1
  <1>0. s \in Seq(Nodes) /\ L \in Nat \ {0}
    BY EmptySeq DEF Doubly, Forward
  <1>1. s \in Seq(Nodes) /\ L \in Nat /\ L > 1 /\ \A i \in 1 .. L : s[i] \in Nodes
    <2>0. \A m \in Nat \ {0} : m # 1 => m > 1
      OBVIOUS
    <2>1. L > 1
      <3> HIDE DEF L
      <3>1. L \in Nat \ {0} /\ L # 1
        BY <1>0 DEF L
      <3> QED
        BY <2>0, <3>1
    <2>2. \A i \in 1 .. L : s[i] \in Nodes
      BY <1>0
    <2> QED
      BY <1>0, <2>1, <2>2
  <1>2. /\ \A i, j \in 1 .. L : s[i] = s[j] => i = j
        /\ \A i \in 1 .. L : nx[s[i]] = s[After(L, i)] /\ pv[s[After(L, i)]] = s[i]
    BY DEF Doubly, Forward
  <1>3. a \in 1 .. L /\ b \in 1 .. L /\ After(L, b) = k /\ a # k /\ b # k
    BY <1>1 DEF After
  <1>4. nx[s[k]] = s[a] /\ pv[s[k]] = s[b]
    BY <1>2, <1>3
  <1>5. t \in Seq(Nodes) /\ Len(t) = L - 1 /\ \A j \in 1 .. L - 1 : t[j] = s[Old(j)]
    BY <1>1, RemoveAtProps
  <1>6. \A j \in 1 .. L - 1 : Old(j) \in 1 .. L /\ Old(j) # k
    BY <1>1
  <1> HIDE DEF t
  <1>7. \A i, j \in 1 .. L - 1 : t[i] = t[j] => i = j
    <2> SUFFICES ASSUME NEW i \in 1 .. L - 1, NEW j \in 1 .. L - 1, t[i] = t[j]
                 PROVE  i = j
      OBVIOUS
    <2>1. Old(i) = Old(j)
      BY <1>2, <1>5, <1>6
    <2> QED
      BY <1>1, <2>1
  <1>8. \A j \in 1 .. L - 1 :
          \/ Old(j) = b /\ Old(After(L - 1, j)) = a
          \/ Old(j) # b /\ Old(After(L - 1, j)) # a /\ Old(After(L - 1, j)) = After(L, Old(j))
    BY <1>1 DEF After
  <1>9. \A j \in 1 .. L - 1 : After(L - 1, j) \in 1 .. L - 1
    BY <1>1 DEF After
  <1> HIDE DEF Old, a, b
  <1>10. ASSUME NEW j \in 1 .. L - 1
         PROVE  nx2[t[j]] = t[After(L - 1, j)] /\ pv2[t[After(L - 1, j)]] = t[j]
    <2> DEFINE c == Old(j)
               d == Old(After(L - 1, j))
    <2>1. /\ c \in 1 .. L /\ d \in 1 .. L
          /\ t[j] = s[c] /\ t[After(L - 1, j)] = s[d]
      BY <1>5, <1>6, <1>9
    <2>2. \/ c = b /\ d = a
          \/ c # b /\ d # a /\ d = After(L, c)
      BY <1>8
    <2> HIDE DEF c, d
    <2>3. s[a] \in Nodes /\ s[b] \in Nodes /\ s[c] \in Nodes /\ s[d] \in Nodes
      BY <1>1, <1>3, <2>1
    <2>4. CASE c = b /\ d = a
      BY <2>1, <2>3, <2>4
    <2>5. CASE c # b /\ d # a /\ d = After(L, c)
      <3>1. s[c] # s[b] /\ s[d] # s[a]
        BY <1>2, <1>3, <2>1, <2>5
      <3>2. nx2[s[c]] = nx[s[c]] /\ pv2[s[d]] = pv[s[d]]
        BY <2>3, <3>1
      <3> QED
        BY <1>2, <2>1, <2>5, <3>2
    <2> QED
      BY <2>2, <2>4, <2>5
  <1>11. t # <<>>
    BY <1>1, <1>5
  <1>12. Doubly(nx2, pv2, t)
    BY <1>5, <1>7, <1>10, <1>11 DEF Doubly, Forward
  <1>13. t[1] = IF k = 1 THEN s[2] ELSE s[1]
    BY <1>1, <1>5 DEF Old
  <1> QED
    BY <1>4, <1>12, <1>13 DEF t

(* The circle as it looks from its second node.                            *)
LEMMA TurnCircle ==
  ASSUME NEW nx, NEW pv, NEW s, Doubly(nx, pv, s)
  PROVE  /\ Doubly(nx, pv, Append(Tail(s), s[1]))
         /\ Append(Tail(s), s[1])[1] = nx[s[1]]
         /\ Append(Tail(s), s[1]) \in Seq(Nodes) /\ Len(Append(Tail(s), s[1])) = Len(s)
         /\ \A i \in 1 .. Len(s) : Append(Tail(s), s[1])[i] = s[After(Len(s), i)]
  <1> DEFINE L == Len(s)
             t == Append(Tail(s), s[1])
  <1>1. s \in Seq(Nodes) /\ L \in Nat /\ L > 0 /\ \A i \in 1 .. L : s[i] \in Nodes
    BY EmptySeq DEF Doubly, Forward
  <1>2. /\ \A i, j \in 1 .. L : s[i] = s[j] => i = j
        /\ \A i \in 1 .. L : nx[s[i]] = s[After(L, i)] /\ pv[s[After(L, i)]] = s[i]
    BY DEF Doubly, Forward
  <1>3. /\ Tail(s) \in Seq(Nodes) /\ Len(Tail(s)) = L - 1
        /\ \A i \in 1 .. L - 1 : Tail(s)[i] = s[i + 1]
    BY HeadTailProperties DEF Doubly, Forward
  <1>4. t \in Seq(Nodes) /\ Len(t) = L /\ \A i \in 1 .. L : t[i] = s[After(L, i)]
    <2> DEFINE r == Tail(s)
    <2>1. r \in Seq(Nodes) /\ Len(r) = L - 1 /\ \A i \in 1 .. L - 1 : r[i] = s[i + 1]
      BY <1>3
    <2>2. t = Append(r, s[1])
      OBVIOUS
    <2> HIDE DEF r, t
    <2>3. /\ t \in Seq(Nodes) /\ Len(t) = L
          /\ \A i \in 1 .. L - 1 : t[i] = r[i]
          /\ t[L] = s[1]
      BY <1>1, <2>1, <2>2
    <2> QED
      BY <1>1, <2>1, <2>3 DEF After
  <1> HIDE DEF t
  <1>5. \A i \in 1 .. L : After(L, i) \in 1 .. L
    BY <1>1 DEF After
  <1>6. \A i, j \in 1 .. L : After(L, i) = After(L, j) => i = j
    BY <1>1 DEF After
  <1>7. \A i, j \in 1 .. L : t[i] = t[j] => i = j
    BY <1>2, <1>4, <1>5, <1>6
  <1>8. \A i \in 1 .. L : nx[t[i]] = t[After(L, i)] /\ pv[t[After(L, i)]] = t[i]
    BY <1>2, <1>4, <1>5
  <1>9. t # <<>>
    BY <1>1, <1>4
  <1>10. Doubly(nx, pv, t)
    BY <1>4, <1>7, <1>8, <1>9 DEF Doubly, Forward
  <1>11. t[1] = nx[s[1]]
    BY <1>1, <1>2, <1>4
  <1> QED
    BY <1>4, <1>10, <1>11 DEF t

-----------------------------------------------------------------------------
(* The entries along s.                                                    *)
Along(en, s) == [i \in 1 .. Len(s) |-> en[s[i]]]

LEMMA AlongIsSeq ==
  ASSUME NEW s \in Seq(Nodes), NEW en, \A i \in 1 .. Len(s) : en[s[i]] \in Entries
  PROVE  /\ Along(en, s) \in Seq(Entries) /\ Len(Along(en, s)) = Len(s)
         /\ \A i \in 1 .. Len(s) : Along(en, s)[i] = en[s[i]]
  BY DEF Along

LEMMA ListLemma ==
  ASSUME NEW s, PointersOK, ListIs(s)
  PROVE  /\ Cursor # Nil /\ Order = s /\ DOMAIN Order = 1 .. Len(s)
         /\ Linked = {s[i] : i \in 1 .. Len(s)}
         /\ ListOfNodes = Along(entry, s)
  <1>1. s \in Seq(Nodes) /\ Len(s) \in Nat \ {0}
    BY EmptySeq DEF ListIs, Doubly, Forward
  <1>2. s[1] \in Nodes
    BY <1>1
  <1>3. Cursor # Nil
    BY <1>2, MetaListAssumption DEF ListIs
  <1>4. Order = s
    BY <1>3, OrderIs DEF ListIs, Doubly
  <1> QED
    BY <1>1, <1>3, <1>4 DEF Linked, ToSet, ListOfNodes, Along

LEMMA ListLemmaNext ==
  ASSUME NEW s, ListIs(s)'
  PROVE  ListOfNodes' = Along(entry', s)
  <1>1. s \in Seq(Nodes) /\ Len(s) \in Nat \ {0}
    BY EmptySeq DEF ListIs, Doubly, Forward
  <1>2. s[1] \in Nodes
    BY <1>1
  <1>3. Cursor' # Nil
    BY <1>2, MetaListAssumption DEF ListIs
  <1>4. Order' = s
    BY <1>3, OrderIsNext DEF ListIs, Doubly
  <1> QED
    BY <1>4 DEF ListOfNodes, Along

LEMMA EmptyList ==
  ASSUME Cursor = Nil
  PROVE  Order = <<>> /\ Linked = {} /\ ListOfNodes = <<>>
  BY DEF Order, Linked, ToSet, ListOfNodes

LEMMA EmptyListNext ==
  ASSUME Cursor' = Nil
  PROVE  ListOfNodes' = <<>>
  BY DEF Order, ListOfNodes

-----------------------------------------------------------------------------
(* Each operation keeps the circle and does to the list what HandList      *)
(* allows.                                                                 *)
Refined == Circle!Next \/ UNCHANGED ListOfNodes

LEMMA AppendFirst ==
  ASSUME IInv, NEW n \in Nodes, NEW e \in Entries, append(n, e), head = Nil
  PROVE  IInv' /\ Refined
  <1>1. Cursor = Nil /\ Cursor' = n /\ n # Nil
    BY MetaListAssumption DEF append, Cursor
  <1>2. PointersOK'
    BY DEF IInv, PointersOK, append
  <1>3. Doubly(next', prev', <<n>>)
    <2>1. /\ next \in [Nodes -> Nodes \cup {Nil}] /\ next' = [next EXCEPT ![n] = n]
          /\ prev \in [Nodes -> Nodes \cup {Nil}] /\ prev' = [prev EXCEPT ![n] = n]
      BY DEF IInv, PointersOK, append
    <2> QED
      BY <2>1, SingleCircle
  <1>4. entry'[n] = e
    BY DEF IInv, PointersOK, append
  <1>5. ListIs(<<n>>)'
    BY <1>1, <1>3, <1>4 DEF ListIs
  <1>6. ListOfNodes' = <<e>>
    <2>1. ListOfNodes' = Along(entry', <<n>>)
      BY <1>5, ListLemmaNext
    <2> QED
      BY <2>1, <1>4 DEF Along
  <1>7. ListOfNodes = <<>>
    BY <1>1, EmptyList
  <1>8. Circle!Join(e)
    BY <1>6, <1>7 DEF Circle!Join, Circle!ToSet
  <1>9. <<n>> \in Seq(Nodes)
    OBVIOUS
  <1> QED
    BY <1>2, <1>5, <1>8, <1>9 DEF IInv, Refined, Circle!Next

LEMMA AppendLast ==
  ASSUME IInv, NEW n \in Nodes, NEW e \in Entries, append(n, e), head # Nil
  PROVE  IInv' /\ Refined
  <1>1. hand = Nil /\ Cursor = head /\ Cursor # Nil /\ Cursor' = head
    BY DEF append, Cursor
  <1>2. PICK s \in Seq(Nodes) : ListIs(s)
    BY <1>1 DEF IInv
  <1>3. Order = s /\ Linked = {s[i] : i \in 1 .. Len(s)} /\ ListOfNodes = Along(entry, s)
    BY <1>2, ListLemma DEF IInv
  <1>4. \A i \in 1 .. Len(s) : s[i] # n
    BY <1>3 DEF append
  <1>5. s[1] = head
    BY <1>1, <1>2 DEF ListIs
  <1>6. Doubly(next', prev', Append(s, n))
    <2>1. /\ next \in [Nodes -> Nodes \cup {Nil}] /\ prev \in [Nodes -> Nodes \cup {Nil}]
          /\ next' = [next EXCEPT ![prev[s[1]]] = n, ![n] = s[1]]
          /\ prev' = [prev EXCEPT ![n] = prev[s[1]], ![s[1]] = n]
      BY <1>5 DEF IInv, PointersOK, append
    <2>2. Doubly(next, prev, s)
      BY <1>2 DEF ListIs
    <2> QED
      BY <1>4, <2>1, <2>2, JoinCircle
  <1>7. Len(s) \in Nat \ {0} /\ Append(s, n) \in Seq(Nodes) /\ Len(Append(s, n)) = Len(s) + 1
    BY <1>2, EmptySeq DEF ListIs, Doubly, Forward
  <1>8. /\ \A i \in 1 .. Len(s) : Append(s, n)[i] = s[i]
        /\ Append(s, n)[Len(s) + 1] = n
    BY <1>7
  <1>9. /\ \A i \in 1 .. Len(s) : entry'[s[i]] = entry[s[i]] /\ entry[s[i]] \in Entries
        /\ entry'[n] = e
    BY <1>2, <1>4 DEF IInv, PointersOK, append, ListIs
  <1>10. \A i \in 1 .. Len(s) + 1 : entry'[Append(s, n)[i]] \in Entries
    <2> SUFFICES ASSUME NEW i \in 1 .. Len(s) + 1 PROVE entry'[Append(s, n)[i]] \in Entries
      OBVIOUS
    <2>1. i \in 1 .. Len(s) \/ i = Len(s) + 1
      BY <1>7
    <2> QED
      BY <1>8, <1>9, <2>1
  <1>11. Append(s, n)[1] = s[1]
    BY <1>7, <1>8
  <1>12. ListIs(Append(s, n))'
    BY <1>1, <1>5, <1>6, <1>7, <1>10, <1>11 DEF ListIs
  <1>13. PointersOK'
    <2>1. prev[head] \in Nodes
      BY <1>2, <1>5, <1>7 DEF ListIs, Doubly, After
    <2> QED
      BY <2>1 DEF IInv, PointersOK, append
  <1>14. ListOfNodes' = Append(ListOfNodes, e)
    <2>1. ListOfNodes' = Along(entry', Append(s, n))
      BY <1>12, ListLemmaNext
    <2>2. /\ Along(entry, s) \in Seq(Entries) /\ Len(Along(entry, s)) = Len(s)
          /\ \A i \in 1 .. Len(s) : Along(entry, s)[i] = entry[s[i]]
      BY <1>9, AlongIsSeq
    <2>0. \A i \in 1 .. Len(Append(s, n)) : entry'[Append(s, n)[i]] \in Entries
      BY <1>7, <1>10
    <2>3. /\ Along(entry', Append(s, n)) \in Seq(Entries)
          /\ Len(Along(entry', Append(s, n))) = Len(s) + 1
          /\ \A i \in 1 .. Len(s) + 1 :
               Along(entry', Append(s, n))[i] = entry'[Append(s, n)[i]]
      <3> DEFINE w == Append(s, n)
      <3>1. w \in Seq(Nodes) /\ Len(w) = Len(s) + 1 /\ \A i \in 1 .. Len(w) : entry'[w[i]] \in Entries
        BY <1>7, <2>0
      <3> HIDE DEF w
      <3>2. /\ Along(entry', w) \in Seq(Entries) /\ Len(Along(entry', w)) = Len(w)
            /\ \A i \in 1 .. Len(w) : Along(entry', w)[i] = entry'[w[i]]
        BY <3>1, AlongIsSeq
      <3> QED
        BY <3>1, <3>2 DEF w
    <2> DEFINE u == Along(entry, s)
               v == Along(entry', Append(s, n))
    <2>4. /\ \A i \in 1 .. Len(s) : v[i] = u[i]
          /\ v[Len(s) + 1] = e
      BY <1>7, <1>8, <1>9, <2>2, <2>3
    <2>5. u \in Seq(Entries) /\ v \in Seq(Entries) /\ Len(u) = Len(s) /\ Len(v) = Len(s) + 1
      BY <2>2, <2>3
    <2> HIDE DEF u, v
    <2>6. v = Append(u, e)
      <3>1. Append(u, e) \in Seq(Entries) /\ Len(Append(u, e)) = Len(v)
        BY <2>5
      <3>2. \A i \in 1 .. Len(v) : v[i] = Append(u, e)[i]
        BY <1>7, <2>4, <2>5
      <3> QED
        BY <2>5, <3>1, <3>2, SeqEqual
    <2> QED
      BY <1>3, <2>1, <2>6 DEF u, v
  <1>15. \A i \in 1 .. Len(s) : entry[s[i]] # e
    BY <1>3 DEF append
  <1>16. Circle!Join(e)
    <2>1. DOMAIN Along(entry, s) = 1 .. Len(s)
      BY DEF Along
    <2>2. e \notin Circle!ToSet(ListOfNodes)
      BY <1>3, <1>15, <2>1 DEF Circle!ToSet, Along
    <2> QED
      BY <2>2, <1>14 DEF Circle!Join
  <1> QED
    BY <1>7, <1>12, <1>13, <1>16 DEF IInv, Refined, Circle!Next

(* What unlink leaves of the list: nothing of a list of one, ...           *)
LEMMA UnlinkOnly ==
  ASSUME NEW s, NEW k \in 1 .. Len(s), ListIs(s), next[s[k]] = s[k]
  PROVE  Len(s) = 1 /\ k = 1
  <1>1. s \in Seq(Nodes) /\ Len(s) \in Nat \ {0}
    BY EmptySeq DEF ListIs, Doubly, Forward
  <1>2. After(Len(s), k) \in 1 .. Len(s)
    BY <1>1 DEF After
  <1>3. s[After(Len(s), k)] = s[k]
    BY DEF ListIs, Doubly, Forward
  <1>4. After(Len(s), k) = k
    BY <1>2, <1>3 DEF ListIs, Doubly, Forward
  <1>5. \A L \in Nat \ {0} : \A i \in 1 .. L : After(L, i) = i => L = 1 /\ i = 1
    BY DEF After
  <1> QED
    BY <1>1, <1>4, <1>5

(* ... and of a longer one what is left without the node.                  *)
LEMMA UnlinkOneOf ==
  ASSUME IInv, NEW s, NEW k \in 1 .. Len(s), ListIs(s), next[s[k]] # s[k],
         unlink(s[k]), UNCHANGED entry, hand' \in Nodes \cup {Nil},
         Cursor' = IF k = 1 THEN s[2] ELSE s[1]
  PROVE  /\ IInv' /\ Len(s) > 1
         /\ ListOfNodes' = RemoveAt(ListOfNodes, k)
  <1> DEFINE L == Len(s)
             t == RemoveAt(s, k)
  <1>1. s \in Seq(Nodes) /\ L \in Nat \ {0} /\ \A i \in 1 .. L : s[i] \in Nodes
    BY EmptySeq DEF ListIs, Doubly, Forward
  <1>2. L # 1
    BY DEF ListIs, Doubly, Forward, After
  <1>3. /\ next' = [next EXCEPT ![prev[s[k]]] = next[s[k]]]
        /\ prev' = [prev EXCEPT ![next[s[k]]] = prev[s[k]]]
        /\ head' = IF head = s[k] THEN next[s[k]] ELSE head
    BY DEF unlink
  <1>4. Doubly(next', prev', t) /\ t[1] = IF k = 1 THEN s[2] ELSE s[1]
    <2>1. /\ next \in [Nodes -> Nodes \cup {Nil}] /\ prev \in [Nodes -> Nodes \cup {Nil}]
          /\ Doubly(next, prev, s)
      BY DEF IInv, PointersOK, ListIs
    <2> QED
      BY <1>2, <1>3, <2>1, UnlinkCircle
  <1>5. /\ t \in Seq(Nodes) /\ Len(t) = L - 1
        /\ \A i \in 1 .. L - 1 : t[i] = s[IF i < k THEN i ELSE i + 1]
    BY <1>1, RemoveAtProps
  <1>6. \A i \in 1 .. L : entry[s[i]] \in Entries
    BY DEF ListIs
  <1> HIDE DEF t
  <1>7. \A i \in 1 .. Len(t) : entry[t[i]] \in Entries
    <2> SUFFICES ASSUME NEW i \in 1 .. Len(t) PROVE entry[t[i]] \in Entries
      OBVIOUS
    <2>1. i \in 1 .. L - 1 /\ (IF i < k THEN i ELSE i + 1) \in 1 .. L
      BY <1>1, <1>5
    <2> QED
      BY <1>5, <1>6, <2>1
  <1>8. ListIs(t)'
    BY <1>4, <1>7 DEF ListIs
  <1>9. PointersOK'
    <2>1. After(L, k) \in 1 .. L /\ next[s[k]] = s[After(L, k)]
      BY <1>1 DEF After, ListIs, Doubly, Forward
    <2>2. next[s[k]] \in Nodes
      BY <1>1, <2>1
    <2>3. \E j \in 1 .. L : After(L, j) = k
      <3> DEFINE j == IF k = 1 THEN L ELSE k - 1
      <3>1. j \in 1 .. L /\ After(L, j) = k
        BY <1>1 DEF After
      <3> QED
        BY <3>1
    <2>4. prev[s[k]] \in Nodes
      BY <1>1, <2>3 DEF ListIs, Doubly
    <2> QED
      BY <1>3, <2>2, <2>4 DEF IInv, PointersOK
  <1>10. ListOfNodes = Along(entry, s) /\ ListOfNodes' = Along(entry, t)
    BY <1>8, ListLemma, ListLemmaNext DEF IInv
  <1>11. Along(entry, t) = RemoveAt(Along(entry, s), k)
    <2>1. /\ Along(entry, s) \in Seq(Entries) /\ Len(Along(entry, s)) = L
          /\ \A i \in 1 .. L : Along(entry, s)[i] = entry[s[i]]
      BY <1>1, <1>6, AlongIsSeq
    <2>2. /\ Along(entry, t) \in Seq(Entries) /\ Len(Along(entry, t)) = L - 1
          /\ \A i \in 1 .. L - 1 : Along(entry, t)[i] = entry[t[i]]
      BY <1>5, <1>7, AlongIsSeq
    <2> DEFINE u == Along(entry, s)
               v == Along(entry, t)
               w == RemoveAt(u, k)
    <2> HIDE DEF u, v
    <2>3. k \in 1 .. Len(u) /\ u \in Seq(Entries) /\ v \in Seq(Entries)
      BY <2>1, <2>2 DEF u, v
    <2>4. /\ w \in Seq(Entries) /\ Len(w) = Len(u) - 1
          /\ \A i \in 1 .. Len(u) - 1 : w[i] = u[IF i < k THEN i ELSE i + 1]
      BY <2>3, RemoveAtProps
    <2> HIDE DEF w
    <2>5. ASSUME NEW i \in 1 .. L - 1 PROVE v[i] = w[i]
      <3>1. (IF i < k THEN i ELSE i + 1) \in 1 .. L
        BY <1>1
      <3>2. v[i] = entry[t[i]] /\ t[i] = s[IF i < k THEN i ELSE i + 1]
        BY <1>5, <2>2 DEF v
      <3>3. w[i] = u[IF i < k THEN i ELSE i + 1]
        BY <2>1, <2>4 DEF u
      <3> QED
        BY <2>1, <3>1, <3>2, <3>3 DEF u
    <2>6. Len(v) = Len(w) /\ Len(v) = L - 1
      BY <2>1, <2>2, <2>4 DEF u, v
    <2> QED
      BY <2>3, <2>4, <2>5, <2>6, SeqEqual DEF u, v, w
  <1>12. L > 1
    <2> HIDE DEF L
    <2> QED
      BY <1>1, <1>2
  <1> QED
    BY <1>5, <1>8, <1>9, <1>10, <1>11, <1>12 DEF IInv

LEMMA RemoveKeeps ==
  ASSUME IInv, NEW e \in Entries, RemoveEntry(e)
  PROVE  IInv' /\ Refined
  <1>1. hand = Nil /\ hand' = Nil /\ UNCHANGED entry /\ Cursor = head /\ Cursor # Nil /\ Cursor' = head'
    BY DEF RemoveEntry, Cursor
  <1>2. PICK s \in Seq(Nodes) : ListIs(s)
    BY <1>1 DEF IInv
  <1>3. Order = s /\ DOMAIN Order = 1 .. Len(s) /\ ListOfNodes = Along(entry, s)
    BY <1>2, ListLemma DEF IInv
  <1>4. PICK k \in 1 .. Len(s) : entry[s[k]] = e /\ unlink(s[k])
    BY <1>3 DEF RemoveEntry
  <1>5. Len(s) \in Nat \ {0} /\ s[1] = head /\ \A i \in 1 .. Len(s) : s[i] \in Nodes
    BY <1>1, <1>2, EmptySeq DEF ListIs, Doubly, Forward
  <1>6. ListOfNodes[k] = e /\ k \in DOMAIN ListOfNodes
    BY <1>3, <1>4 DEF Along
  <1>7. CASE next[s[k]] = s[k]
    <2>1. Len(s) = 1 /\ k = 1
      BY <1>2, <1>7, UnlinkOnly
    <2>2. head' = Nil /\ UNCHANGED <<next, prev>>
      BY <1>4, <1>7 DEF unlink
    <2>3. IInv'
      BY <1>1, <2>2 DEF IInv, PointersOK
    <2>4. ListOfNodes' = <<>>
      BY <1>1, <2>2, EmptyListNext
    <2>5. ListOfNodes = <<e>>
      BY <1>3, <1>4, <2>1 DEF Along
    <2>6. ListOfNodes' = RemoveAt(ListOfNodes, k)
      BY <2>1, <2>4, <2>5 DEF RemoveAt
    <2>7. Circle!Leave(e)
      BY <1>6, <2>6 DEF Circle!Leave, Circle!RemoveAt, RemoveAt
    <2> QED
      BY <2>3, <2>7 DEF Refined, Circle!Next
  <1>8. CASE next[s[k]] # s[k]
    <2>1. head' = IF head = s[k] THEN next[s[k]] ELSE head
      BY <1>4, <1>8 DEF unlink
    <2>2. k = 1 => next[s[k]] = s[2]
      BY <1>2, <1>5, <1>8 DEF ListIs, Doubly, Forward, After
    <2>3. head = s[k] <=> k = 1
      BY <1>2, <1>5 DEF ListIs, Doubly, Forward
    <2>4. Cursor' = IF k = 1 THEN s[2] ELSE s[1]
      BY <1>1, <1>5, <2>1, <2>2, <2>3
    <2>5. IInv' /\ ListOfNodes' = RemoveAt(ListOfNodes, k)
      BY <1>1, <1>2, <1>4, <1>8, <2>4, UnlinkOneOf
    <2>6. Circle!Leave(e)
      BY <1>6, <2>5 DEF Circle!Leave, Circle!RemoveAt, RemoveAt
    <2> QED
      BY <2>5, <2>6 DEF Refined, Circle!Next
  <1> QED
    BY <1>7, <1>8

(* The sweep begins and ends without touching the list: the hand takes the *)
(* place of the head, and gives it back.                                   *)
LEMMA CursorKept ==
  ASSUME IInv, UNCHANGED <<next, prev, entry, Cursor>>,
         head' \in Nodes \cup {Nil}, hand' \in Nodes \cup {Nil}
  PROVE  IInv' /\ UNCHANGED ListOfNodes
  <1>1. PointersOK'
    BY DEF IInv, PointersOK
  <1>2. IInv'
    BY <1>1 DEF IInv, ListIs
  <1>3. UNCHANGED ListOfNodes
    BY DEF ListOfNodes, Order, IsCircle
  <1> QED
    BY <1>2, <1>3

LEMMA AdvanceKeeps ==
  ASSUME IInv, Advance
  PROVE  IInv' /\ Refined
  <1>1. /\ hand # Nil /\ Cursor = hand /\ Cursor # Nil /\ hand' = next[hand]
        /\ UNCHANGED <<next, prev, entry, head>>
    BY DEF Advance, Cursor
  <1>2. PICK s \in Seq(Nodes) : ListIs(s)
    BY <1>1 DEF IInv
  <1> DEFINE t == Append(Tail(s), s[1])
             L == Len(s)
  <1>3. /\ L \in Nat \ {0} /\ s[1] = hand /\ Doubly(next, prev, s)
        /\ \A i \in 1 .. L : s[i] \in Nodes /\ entry[s[i]] \in Entries
    BY <1>1, <1>2, EmptySeq DEF ListIs, Doubly, Forward
  <1>4. /\ Doubly(next, prev, t) /\ t[1] = next[s[1]] /\ t \in Seq(Nodes)
        /\ Len(t) = L /\ \A i \in 1 .. L : t[i] = s[After(L, i)]
    BY <1>3, TurnCircle
  <1> HIDE DEF t
  <1>5. \A i \in 1 .. L : After(L, i) \in 1 .. L
    BY <1>3 DEF After
  <1>6. next[hand] \in Nodes /\ next[hand] # Nil
    <2>1. t[1] \in Nodes
      BY <1>3, <1>4, <1>5
    <2> QED
      BY <1>3, <1>4, <2>1, MetaListAssumption
  <1>7. Cursor' = t[1]
    BY <1>1, <1>3, <1>4, <1>6 DEF Cursor
  <1>8. \A i \in 1 .. Len(t) : entry[t[i]] \in Entries
    BY <1>3, <1>4, <1>5
  <1>9. ListIs(t)'
    BY <1>1, <1>4, <1>7, <1>8 DEF ListIs
  <1>10. PointersOK'
    BY <1>1, <1>6 DEF IInv, PointersOK
  <1>11. ListOfNodes = Along(entry, s) /\ ListOfNodes' = Along(entry, t)
    BY <1>1, <1>2, <1>9, ListLemma, ListLemmaNext DEF IInv
  <1> DEFINE u == Along(entry, s)
             v == Along(entry, t)
  <1>12. /\ u \in Seq(Entries) /\ Len(u) = L /\ \A i \in 1 .. L : u[i] = entry[s[i]]
         /\ v \in Seq(Entries) /\ Len(v) = L /\ \A i \in 1 .. L : v[i] = entry[t[i]]
    BY <1>3, <1>4, <1>8, AlongIsSeq
  <1> HIDE DEF u, v
  <1>13. u # <<>> /\ \A i \in 1 .. L : v[i] = u[After(L, i)]
    BY <1>3, <1>4, <1>5, <1>12
  <1>14. v = Append(Tail(u), u[1])
    <2> DEFINE r == Tail(u)
    <2>1. r \in Seq(Entries) /\ Len(r) = L - 1 /\ \A i \in 1 .. L - 1 : r[i] = u[i + 1]
      BY <1>12, <1>13, HeadTailProperties
    <2> HIDE DEF r
    <2>2. u[1] \in Entries
      BY <1>3, <1>12
    <2>3. /\ Append(r, u[1]) \in Seq(Entries) /\ Len(Append(r, u[1])) = L
          /\ \A i \in 1 .. L - 1 : Append(r, u[1])[i] = r[i]
          /\ Append(r, u[1])[L] = u[1]
      BY <1>3, <2>1, <2>2
    <2>4. \A i \in 1 .. L : v[i] = Append(r, u[1])[i]
      BY <1>3, <1>13, <2>1, <2>3 DEF After
    <2> QED
      BY <1>12, <2>3, <2>4, SeqEqual DEF r
  <1>15. Circle!Pass
    BY <1>11, <1>13, <1>14 DEF Circle!Pass, u, v
  <1> QED
    BY <1>4, <1>9, <1>10, <1>15 DEF IInv, Refined, Circle!Next

LEMMA ForgetKeeps ==
  ASSUME IInv, Forget
  PROVE  IInv' /\ Refined
  <1>1. /\ hand # Nil /\ Cursor = hand /\ Cursor # Nil /\ hand' = next[hand]
        /\ unlink(hand) /\ UNCHANGED entry
    BY DEF Forget, Cursor
  <1>2. PICK s \in Seq(Nodes) : ListIs(s)
    BY <1>1 DEF IInv
  <1>3. /\ Len(s) \in Nat \ {0} /\ s[1] = hand /\ 1 \in 1 .. Len(s)
        /\ \A i \in 1 .. Len(s) : s[i] \in Nodes
    BY <1>1, <1>2, EmptySeq DEF ListIs, Doubly, Forward
  <1>4. CASE next[hand] = hand
    <2>1. UNCHANGED <<next, prev, entry, hand>> /\ head' = Nil
      BY <1>1, <1>4 DEF unlink
    <2>2. Cursor' = Cursor
      BY <1>1, <2>1 DEF Cursor
    <2> QED
      BY <2>1, <2>2, CursorKept DEF Refined, IInv, PointersOK
  <1>5. CASE next[hand] # hand
    <2>1. Len(s) # 1
      BY <1>2, <1>3, <1>5 DEF ListIs, Doubly, Forward, After
    <2>2. next[hand] = s[2] /\ s[2] \in Nodes
      <3>1. next[s[1]] = s[After(Len(s), 1)]
        BY <1>2, <1>3 DEF ListIs, Doubly, Forward
      <3>2. After(Len(s), 1) = 2
        BY <2>1 DEF After
      <3>3. \A L \in Nat \ {0} : L # 1 => 2 \in 1 .. L
        OBVIOUS
      <3>4. 2 \in 1 .. Len(s)
        BY <1>3, <2>1, <3>3
      <3> QED
        BY <1>3, <3>1, <3>2, <3>4
    <2>3. Cursor' = s[2] /\ hand' \in Nodes
      BY <1>1, <2>2, MetaListAssumption DEF Cursor
    <2>4. IInv' /\ Len(s) > 1 /\ ListOfNodes' = RemoveAt(ListOfNodes, 1)
      <3> DEFINE k == 1
      <3>1. k \in 1 .. Len(s) /\ next[s[k]] # s[k] /\ unlink(s[k])
        BY <1>1, <1>3, <1>5
      <3>2. Cursor' = IF k = 1 THEN s[2] ELSE s[1]
        BY <2>3
      <3> HIDE DEF k
      <3>3. IInv' /\ Len(s) > 1 /\ ListOfNodes' = RemoveAt(ListOfNodes, k)
        BY <1>1, <1>2, <2>3, <3>1, <3>2, UnlinkOneOf
      <3> QED
        BY <3>3 DEF k
    <2> DEFINE u == ListOfNodes
    <2>5. u \in Seq(Entries) /\ Len(u) = Len(s)
      BY <1>2, ListLemma, AlongIsSeq DEF IInv, ListIs
    <2> HIDE DEF u
    <2>6. RemoveAt(u, 1) = Tail(u)
      <3>1. SubSeq(u, 1, 0) = <<>>
        BY <2>5, SubSeqEmpty
      <3>2. u # <<>>
        BY <2>4, <2>5
      <3>3. SubSeq(u, 2, Len(u)) = Tail(u) /\ Tail(u) \in Seq(Entries)
        BY <2>5, <3>2, TailIsSubSeq, HeadTailProperties
      <3> QED
        BY <3>1, <3>3, ConcatEmptySeq DEF RemoveAt
    <2>7. Circle!Drop
      BY <2>4, <2>5, <2>6 DEF Circle!Drop, u
    <2> QED
      BY <2>4, <2>7 DEF Refined, Circle!Next
  <1> QED
    BY <1>4, <1>5

LEMMA StepKeeps ==
  ASSUME IInv, Next
  PROVE  IInv' /\ Refined
  <1>1. CASE \E n \in Nodes, e \in Entries : append(n, e)
    BY <1>1, AppendFirst, AppendLast
  <1>2. CASE \E e \in Entries : RemoveEntry(e)
    BY <1>2, RemoveKeeps
  <1>3. CASE StartSweep \/ EndSweep
    <2>1. UNCHANGED <<next, prev, entry, Cursor>>
      BY <1>3 DEF StartSweep, EndSweep, Cursor
    <2>2. head' \in Nodes \cup {Nil} /\ hand' \in Nodes \cup {Nil}
      BY <1>3 DEF StartSweep, EndSweep, IInv, PointersOK
    <2> QED
      BY <2>1, <2>2, CursorKept DEF Refined
  <1>4. CASE Advance
    BY <1>4, AdvanceKeeps
  <1>5. CASE Forget
    BY <1>5, ForgetKeeps
  <1> QED
    BY <1>1, <1>2, <1>3, <1>4, <1>5 DEF Next

LEMMA InitIInv == Init => IInv /\ Circle!Init
  <1> SUFFICES ASSUME Init PROVE IInv /\ Circle!Init
    OBVIOUS
  <1>1. Cursor = Nil
    BY DEF Init, Cursor
  <1> QED
    BY <1>1, EmptyList DEF Init, IInv, PointersOK, Circle!Init

(* Everybody in the list has neighbours there who know of it.              *)
LEMMA LinkedLemma ==
  ASSUME IInv, NEW n \in Linked
  PROVE  /\ n \in Nodes /\ entry[n] \in Entries
         /\ next[n] \in Linked /\ prev[next[n]] = n
         /\ prev[n] \in Linked /\ next[prev[n]] = n
         /\ Nil \notin {next[n], prev[n], entry[n]}
  <1>1. Cursor # Nil
    BY EmptyList
  <1>2. PICK s \in Seq(Nodes) : ListIs(s)
    BY <1>1 DEF IInv
  <1>3. Linked = {s[i] : i \in 1 .. Len(s)} /\ Linked \subseteq Nodes
    BY <1>2, ListLemma DEF IInv
  <1>4. PICK i \in 1 .. Len(s) : n = s[i]
    BY <1>3
  <1>5. Len(s) \in Nat \ {0}
    BY <1>2, EmptySeq DEF ListIs, Doubly, Forward
  <1>6. After(Len(s), i) \in 1 .. Len(s)
    BY <1>5 DEF After
  <1>7. PICK j \in 1 .. Len(s) : After(Len(s), j) = i
    <2> DEFINE j == IF i = 1 THEN Len(s) ELSE i - 1
    <2>1. j \in 1 .. Len(s) /\ After(Len(s), j) = i
      BY <1>5 DEF After
    <2> QED
      BY <2>1
  <1>8. next[n] = s[After(Len(s), i)] /\ prev[next[n]] = n
    BY <1>2, <1>4 DEF ListIs, Doubly, Forward
  <1>9. prev[n] = s[j] /\ next[prev[n]] = n
    BY <1>2, <1>4, <1>7 DEF ListIs, Doubly, Forward
  <1>10. next[n] \in Linked /\ prev[n] \in Linked
    BY <1>3, <1>6, <1>8, <1>9
  <1>11. n \in Nodes /\ entry[n] \in Entries
    BY <1>2, <1>3, <1>4 DEF ListIs
  <1>12. Nil \notin Nodes /\ Nil \notin Entries
    BY MetaListAssumption
  <1> QED
    BY <1>3, <1>8, <1>9, <1>10, <1>11, <1>12

THEOREM Invariance == Spec => []IInv
<1>1. IInv /\ [Next]_vars => IInv'
  <2> SUFFICES ASSUME IInv, [Next]_vars PROVE IInv'
    OBVIOUS
  <2>1. CASE Next
    BY <2>1, StepKeeps
  <2>2. CASE UNCHANGED vars
    BY <2>2, CursorKept DEF vars, Cursor, IInv, PointersOK
  <2> QED
    BY <2>1, <2>2
<1> QED
  BY InitIInv, <1>1, PTL DEF Spec

(* The pointers are nodes or nil, and those of a listed node are never nil *)
(* (clockpro.go:109-133).                                                  *)
THEOREM TypeCorrect == Spec => []TypeOK
<1>1. IInv => TypeOK
  <2> SUFFICES ASSUME IInv, NEW n \in Linked PROVE Nil \notin {next[n], prev[n], entry[n]}
    BY DEF TypeOK, IInv, PointersOK
  <2> QED
    BY LinkedLemma DEF IInv
<1> QED
  BY Invariance, <1>1, PTL

(* The forward and the backward pointers of the list agree all the way     *)
(* round, for any number of nodes (clockpro.go:109-133, 230-237).          *)
THEOREM LinksCorrect == Spec => []WellLinked
<1>1. IInv => WellLinked
  BY LinkedLemma DEF WellLinked
<1> QED
  BY Invariance, <1>1, PTL

(* The pointers are the circle that the policy sweeps: entries join behind *)
(* the hand, the hand passes or drops the entry it points to, and any      *)
(* entry may leave (clockpro.go:109-238).                                  *)
THEOREM CircleCorrect == Spec => ImplementsHandList
<1>1. IInv /\ [Next]_vars => [Circle!Next]_ListOfNodes
  <2> SUFFICES ASSUME IInv, [Next]_vars PROVE Circle!Next \/ UNCHANGED ListOfNodes
    OBVIOUS
  <2>1. CASE Next
    BY <2>1, StepKeeps DEF Refined
  <2>2. CASE UNCHANGED vars
    BY <2>2, CursorKept DEF vars, Cursor, IInv, PointersOK
  <2> QED
    BY <2>1, <2>2
<1> QED
  BY InitIInv, <1>1, Invariance, PTL DEF Spec, ImplementsHandList, Circle!Spec
=============================================================================
