----------------------------- MODULE MCMetaList -----------------------------
(* MetaList for TLC.                                                       *)
EXTENDS MetaList, TLC

NodesAreAlike == Permutations(Nodes)
=============================================================================
