------------------------------ MODULE HandList ------------------------------
(***************************************************************************)
(* What the replacement policy needs of its list of entries: a circle read *)
(* from the hand onwards, where entries join behind the hand, leave from   *)
(* anywhere, and the hand passes or drops the entry it points to.          *)
(***************************************************************************)
EXTENDS Naturals, Sequences, SequencesExt

CONSTANT Entries

VARIABLE list   \* the entries from the hand onwards

Init == list = <<>>

Join(e) == e \notin ToSet(list) /\ list' = Append(list, e)

Leave(e) == \E i \in DOMAIN list : list[i] = e /\ list' = RemoveAt(list, i)

Pass == list # <<>> /\ list' = Append(Tail(list), list[1])

(* The hand cannot drop the last entry: it has nowhere else to go.         *)
Drop == Len(list) > 1 /\ list' = Tail(list)

Next == (\E e \in Entries : Join(e) \/ Leave(e)) \/ Pass \/ Drop

Spec == Init /\ [][Next]_list
=============================================================================
