------------------------------ MODULE MCCache ------------------------------
(* Cache for TLC.                                                          *)
EXTENDS Cache, TLC

SomeCaps == {-4, 0, 1, 3, 4, 5}
SomeTtls == {-1, 0, 3, 22}
AllShardCounts == 0 .. 255

Option(f, v) == [field |-> f, value |-> v]

(* Nothing; each option with and without nil; a nil before and after a     *)
(* value; two values; two options.                                         *)
SomeOptionLists ==
  {<<>>}
  \cup {<<Option(f, v)>> : f \in Fields, v \in {None, "a"}}
  \cup {<<Option(f, v), Option(f, w)>> : f \in Fields, v, w \in {None, "a", "b"}}
  \cup {<<Option("weightFn", "a"), Option("ejectCb", "b"), Option("weightFn", None)>>}

Key(kind, content, memory) == [kind |-> kind, content |-> content, memory |-> memory]

(* One string twice in memory, another one that collides with it in all    *)
(* shards but the first, and a struct twice in memory.                     *)
MCKeys ==
  {Key("string", 1, 11), Key("string", 1, 12), Key("string", 2, 13),
   Key("other", 3, 14), Key("other", 3, 15)}

MCHash ==
  [s \in 0 .. 255 |->
     IF s = 0 THEN 1 :> 1 @@ 2 :> 5 @@ 3 :> 9 @@ 11 :> 1 @@ 12 :> 2 @@ 13 :> 3
                   @@ 14 :> 5 @@ 15 :> 3
              ELSE 1 :> 7 @@ 2 :> 7 @@ 3 :> 6 @@ 11 :> 1 @@ 12 :> 2 @@ 13 :> 3
                   @@ 14 :> 7 @@ 15 :> 5]
=============================================================================
