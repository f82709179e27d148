------------------------------ MODULE MCGenRing ------------------------------
(* GenRing for TLC.                                                        *)
EXTENDS GenRing

(* A shrinking entry, a normal one and one of a whole budget.              *)
MCDeltas == {-1, 1, 2}
=============================================================================
