--------------------------- MODULE InspectorProof ---------------------------
(***************************************************************************)
(* Proof that the inspector reports what it breaks off.  For the steps     *)
(* that write a file to keep this, no profile may be broken off before     *)
(* main has ended: the first one that is, ends it.                         *)
(***************************************************************************)
EXTENDS Inspector, TLAPS

IInv ==
  /\ DOMAIN file = Profiles
  /\ \A p \in Profiles : file[p] = "partial" => pc = "exit" /\ status = 1

LEMMA InitIInv == Init => IInv
  BY DEF Init, IInv

(* main is at most once in downloadProfile, and then no longer.            *)
LEMMA SaveKeepsIInv ==
  ASSUME IInv, NEW p \in Profiles, Save(p) \/ SaveCancelled(p)
  PROVE  IInv'
  <1>1. pc # "exit" /\ \A q \in Profiles : file[q] # "partial"
    BY DEF Save, SaveCancelled, IInv, Profiles
  <1>2. CASE Save(p)
    BY <1>1, <1>2 DEF Save, Exit, IInv
  <1>3. CASE SaveCancelled(p)
    BY <1>1, <1>3 DEF SaveCancelled, Exit, IInv
  <1> QED
    BY <1>2, <1>3

(* Nothing else writes a file, or goes on once main has ended.             *)
LEMMA OthersKeepIInv ==
  ASSUME IInv,
         \/ Start \/ Dump \/ DumpCancelled \/ Again \/ Stop
         \/ Signal \/ Cancel \/ Tick \/ UNCHANGED vars
  PROVE  IInv'
  <1>1. file' = file
    BY DEF Start, Dump, DumpCancelled, Dumped, Again, Stop, Signal, Cancel, Tick, vars
  <1>2. pc = "exit" => UNCHANGED <<pc, status>>
    BY DEF Start, Dump, DumpCancelled, Dumped, Again, Stop, Signal, Cancel, Tick, vars
  <1> QED
    BY <1>1, <1>2 DEF IInv

THEOREM Invariance == Spec => []IInv
<1>1. IInv /\ [Next]_vars => IInv'
  BY SaveKeepsIInv, OthersKeepIInv DEF Next, Main, Server
<1> QED
  BY InitIInv, <1>1, PTL DEF Spec

(* A profile that was broken off is never reported as a success            *)
(* (main.go:52-63, 147-171).                                               *)
THEOREM PartialCorrect == Spec => []PartialIsReported
<1>1. IInv => PartialIsReported
  BY DEF IInv, PartialIsReported
<1> QED
  BY Invariance, <1>1, PTL
=============================================================================
