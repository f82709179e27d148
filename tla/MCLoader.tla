------------------------------ MODULE MCLoader ------------------------------
(* Loader for TLC.                                                         *)
EXTENDS Loader, TLC

CONSTANTS c1, c2, k1, k2, x1, x2

MCHash == k1 :> x1 @@ k2 :> x2

(* Each flight may be led by a load or by a loadAsync, and joined by       *)
(* either.                                                                 *)
Mixed ==
  c1 :> {<<"load", k1>>, <<"load", k2>>, <<"loadAsync", k1>>, <<"getOrLoad", k1>>}
  @@ c2 :> {<<"load", k1>>, <<"loadAsync", k1>>, <<"loadAsync", k2>>}
=============================================================================
