------------------------------ MODULE MetaList ------------------------------
(***************************************************************************)
(* The doubly linked circular list under the replacement policy: metaNode  *)
(* and the helpers append and remove of internal/clockpro/clockpro.go, as  *)
(* Insert, Remove and evictIfNeeded use them, pointer by pointer.          *)
(*                                                                         *)
(* c.head is where the hand rests between sweeps.  During a sweep the hand *)
(* is a local variable of evictIfNeeded that moves on its own, while       *)
(* `remove' may move c.head under it; the sweep ends by storing the hand   *)
(* into c.head.  A node that was unlinked keeps its own pointers.          *)
(***************************************************************************)
EXTENDS Integers, FiniteSets, SequencesExt

CONSTANTS Nodes, Entries, Nil

ASSUME MetaListAssumption == IsFiniteSet(Nodes) /\ Nil \notin Nodes \cup Entries

VARIABLES
  next, prev,  \* metaNode.next, metaNode.prev
  entry,       \* metaNode.entry
  head,        \* Clock.head
  hand         \* evictIfNeeded's hand, Nil when no sweep is running

vars == <<next, prev, entry, head, hand>>

Init ==
  /\ next = [n \in Nodes |-> Nil]
  /\ prev = [n \in Nodes |-> Nil]
  /\ entry = [n \in Nodes |-> Nil]
  /\ head = Nil
  /\ hand = Nil

(* Where the list begins: the hand of the sweep, or where it rests.        *)
Cursor == IF hand = Nil THEN head ELSE hand

(* The next pointers lead through s and back to where it begins.           *)
IsCircle(s) ==
  /\ s # <<>> /\ s[1] = Cursor
  /\ \A i, j \in 1 .. Len(s) : s[i] = s[j] => i = j
  /\ \A i \in 1 .. Len(s) : next[s[i]] = IF i = Len(s) THEN s[1] ELSE s[i + 1]

(* The nodes of the list, in the order in which a walk meets them.         *)
Order ==
  IF Cursor = Nil THEN <<>>
  ELSE CHOOSE s \in SeqOf(Nodes, Cardinality(Nodes)) : IsCircle(s)

Linked == ToSet(Order)

-----------------------------------------------------------------------------
\* Bug: a single node is not its own predecessor.
BugAppendFirst(n, e) ==
  /\ hand = Nil /\ n \notin Linked
  /\ \A m \in Linked : entry[m] # e
  /\ entry' = [entry EXCEPT ![n] = e]
  /\ IF head = Nil
       THEN /\ next' = [next EXCEPT ![n] = n]
            /\ prev' = [prev EXCEPT ![n] = Nil]
            /\ head' = n
       ELSE LET tail == prev[head]
            IN  /\ next' = [next EXCEPT ![tail] = n, ![n] = head]
                /\ prev' = [prev EXCEPT ![n] = tail, ![head] = n]
                /\ UNCHANGED head
  /\ UNCHANGED hand

(* append: the node goes between the tail and the head.                    *)
append(n, e) ==
  /\ hand = Nil /\ n \notin Linked
  /\ \A m \in Linked : entry[m] # e
  /\ entry' = [entry EXCEPT ![n] = e]
  /\ IF head = Nil
       THEN /\ next' = [next EXCEPT ![n] = n]
            /\ prev' = [prev EXCEPT ![n] = n]
            /\ head' = n
       ELSE LET tail == prev[head]
            IN  /\ next' = [next EXCEPT ![tail] = n, ![n] = head]
                /\ prev' = [prev EXCEPT ![n] = tail, ![head] = n]
                /\ UNCHANGED head
  /\ UNCHANGED hand

\* Bug: the back pointer of the successor is not updated.
BugUnlink(n) ==
  IF next[n] = n
    THEN head' = Nil /\ UNCHANGED <<next, prev>>
    ELSE /\ next' = [next EXCEPT ![prev[n]] = next[n]]
         /\ UNCHANGED prev
         /\ head' = IF head = n THEN next[n] ELSE head

(* remove                                                                  *)
unlink(n) ==
  IF next[n] = n
    THEN head' = Nil /\ UNCHANGED <<next, prev>>
    ELSE /\ next' = [next EXCEPT ![prev[n]] = next[n]]
         /\ prev' = [prev EXCEPT ![next[n]] = prev[n]]
         /\ head' = IF head = n THEN next[n] ELSE head

(* Remove: walk from the head to the first node that holds the entry, or   *)
(* round to the head again.                                                *)
RemoveEntry(e) ==
  /\ hand = Nil /\ head # Nil
  /\ \E i \in DOMAIN Order :
       /\ entry[Order[i]] = e
       /\ \A j \in 1 .. i - 1 : entry[Order[j]] # e
       /\ unlink(Order[i])
  /\ UNCHANGED <<entry, hand>>

(* evictIfNeeded: the sweep starts at the head, ...                        *)
StartSweep ==
  /\ hand = Nil /\ head # Nil
  /\ hand' = head
  /\ UNCHANGED <<next, prev, entry, head>>

(* ... passes an entry, ...                                                *)
Advance ==
  /\ hand # Nil
  /\ hand' = next[hand]
  /\ UNCHANGED <<next, prev, entry, head>>

(* ... or removes it and goes on with its successor, ...                   *)
Forget ==
  /\ hand # Nil
  /\ unlink(hand)
  /\ hand' = next[hand]
  /\ UNCHANGED entry

\* Bug: the head is left where the sweep began.
BugEndSweep ==
  /\ hand # Nil
  /\ hand' = Nil
  /\ UNCHANGED <<next, prev, entry, head>>

(* ... and rests where it stops.                                           *)
EndSweep ==
  /\ hand # Nil
  /\ head' = hand
  /\ hand' = Nil
  /\ UNCHANGED <<next, prev, entry>>

Next ==
  \/ \E n \in Nodes, e \in Entries : append(n, e)
  \/ \E e \in Entries : RemoveEntry(e)
  \/ StartSweep \/ Advance \/ Forget \/ EndSweep

Spec == Init /\ [][Next]_vars

-----------------------------------------------------------------------------
TypeOK ==
  /\ next \in [Nodes -> Nodes \cup {Nil}]
  /\ prev \in [Nodes -> Nodes \cup {Nil}]
  /\ entry \in [Nodes -> Entries \cup {Nil}]
  /\ head \in Nodes \cup {Nil}
  /\ hand \in Nodes \cup {Nil}
  /\ \A n \in Linked : Nil \notin {next[n], prev[n], entry[n]}

(* The forward and the backward pointers of the list agree all the way     *)
(* round, also after the last node was unlinked in a sweep and stored back *)
(* into c.head by its end (clockpro.go:109-133, 230-237).                  *)
WellLinked ==
  \A n \in Linked : /\ next[n] \in Linked /\ prev[next[n]] = n
                    /\ prev[n] \in Linked /\ next[prev[n]] = n

(* Read from the hand onwards, the pointers are the list of HandList: the  *)
(* code keeps the order in which the hand comes to the entries, joins new  *)
(* ones just behind the hand, and loses or repeats none.                   *)
ListOfNodes == [i \in 1 .. Len(Order) |-> entry[Order[i]]]

Circle == INSTANCE HandList WITH list <- ListOfNodes

ImplementsHandList == Circle!Spec
=============================================================================
