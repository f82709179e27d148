------------------------------ MODULE MCShard ------------------------------
(* Shard for TLC: two goroutines, two keys of one hash, three values.      *)
EXTENDS Shard, TLC

CONSTANTS p1, p2, k1, k2, h1, v1, v2, v3, e1, e2, e3

EntriesAreAlike == Permutations(Entries)

MCKeys == {k1, k2}
Colliding == k1 :> h1 @@ k2 :> h1

(* Modulo 2: one of each sign that is cut, two that are not.               *)
MCPutWeights == -1 .. 2

MakePut(k, v, w) == [op |-> "put", key |-> k, val |-> v, weight |-> w]
Make(op, k) == [op |-> op, key |-> k, val |-> v1, weight |-> 0]

(* Both write, each its own key, though the keys share a hash; the second  *)
(* also reads and deletes the key of the first.                            *)
TwoWriters ==
  p1 :> {MakePut(k1, v1, 1), MakePut(k1, v2, -1)}
  @@ p2 :> {MakePut(k2, v3, 2), Make("get", k1), Make("delete", k1)}

(* One writes, the other reads.                                            *)
OneWriter ==
  p1 :> {MakePut(k1, v1, 1), MakePut(k1, v2, 1), MakePut(k2, v3, 1)}
  @@ p2 :> {Make("get", k1)}

(* Both write one key; one of them also counts, deletes, reads the size    *)
(* and shuts down.                                                         *)
Contending ==
  p1 :> {MakePut(k1, v1, 1)}
  @@ p2 :> {MakePut(k1, v2, 1), Make("len", k1), Make("delete", k1),
            Make("size", k1), Make("close", k1)}
=============================================================================
