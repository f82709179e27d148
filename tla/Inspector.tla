----------------------------- MODULE Inspector -----------------------------
(***************************************************************************)
(* The command arena-cache-inspect: cmd/arena-cache-inspect.               *)
(*                                                                         *)
(* It saves a profile, prints one snapshot, or prints snapshots until it   *)
(* is interrupted.  Requests carry a context that the first SIGINT or      *)
(* SIGTERM cancels, and no timeout: a server may never answer.             *)
(***************************************************************************)
EXTENDS FiniteSets

Flags == {"version", "watch", "heap", "goroutine", "badInterval"}
Profiles == {"heap", "goroutine"}

VARIABLES
  flags,      \* the flags given; badInterval is -interval with a value <= 0
  pc,         \* where main is
  status,     \* the exit status, once pc is "exit"
  signalled,  \* a signal is in the channel, or has been received from it
  cancelled,  \* the context is cancelled
  tick,       \* the ticker has fired and nobody has noticed
  file        \* per profile: "none", "partial" or "whole"

vars == <<flags, pc, status, signalled, cancelled, tick, file>>

Init ==
  /\ flags \in SUBSET Flags
  /\ pc = "parse"
  /\ status = 0
  /\ signalled = FALSE
  /\ cancelled = FALSE
  /\ tick = FALSE
  /\ file = [p \in Profiles |-> "none"]

Exit(s) == pc' = "exit" /\ status' = s

Goto(step) == pc' = step /\ UNCHANGED status

Misused ==
  \/ "watch" \in flags /\ flags \cap Profiles # {}
  \/ "badInterval" \in flags

(* parseFlags, and main's choice of what to do.                            *)
Start ==
  /\ pc = "parse"
  /\ IF Misused THEN Exit(2)
     ELSE IF "version" \in flags THEN Exit(0)
     ELSE IF "heap" \in flags THEN Goto("heap")
     ELSE IF "goroutine" \in flags THEN Goto("goroutine")
     ELSE Goto("dump")
  /\ UNCHANGED <<flags, signalled, cancelled, tick, file>>

(* SIGINT or SIGTERM arrives; before Notify it would kill the process, and *)
(* after the first one nobody reads the channel.                           *)
Signal ==
  /\ pc \notin {"parse", "exit"} /\ ~signalled
  /\ signalled' = TRUE
  /\ UNCHANGED <<flags, pc, status, cancelled, tick, file>>

(* The goroutine that waits for it.                                        *)
Cancel ==
  /\ pc # "exit" /\ signalled /\ ~cancelled
  /\ cancelled' = TRUE
  /\ UNCHANGED <<flags, pc, status, signalled, tick, file>>

\* Bug: an error of the copy is overlooked.
BugSave(p) ==
  /\ pc = p
  /\ \/ /\ file' = [file EXCEPT ![p] = "whole"]
        /\ Exit(0)
     \/ /\ file' = [file EXCEPT ![p] = "partial"]
        /\ Exit(0)
     \/ UNCHANGED file /\ Exit(1)
  /\ UNCHANGED <<flags, signalled, cancelled, tick>>

(* downloadProfile, when the server answers: the file is created and       *)
(* filled, or the answer is refused before, or breaks off, or the disk is  *)
(* full.  What has been written stays.                                     *)
Save(p) ==
  /\ pc = p
  /\ \/ /\ file' = [file EXCEPT ![p] = "whole"]
        /\ Exit(0)
     \/ /\ file' = [file EXCEPT ![p] = "partial"]
        /\ Exit(1)
     \/ UNCHANGED file /\ Exit(1)
  /\ UNCHANGED <<flags, signalled, cancelled, tick>>

(* The cancelled context makes the request, or the copy of its body, fail. *)
SaveCancelled(p) ==
  /\ pc = p /\ cancelled
  /\ file' \in {file, [file EXCEPT ![p] = "partial"]}
  /\ Exit(1)
  /\ UNCHANGED <<flags, signalled, cancelled, tick>>

(* dumpOnce fails or not; an error ends the one-shot mode only.            *)
Dumped(failed) ==
  /\ IF "watch" \in flags THEN Goto("select")
     ELSE IF failed THEN Exit(1) ELSE Exit(0)
  /\ UNCHANGED <<flags, signalled, cancelled, tick, file>>

Dump ==
  /\ pc = "dump"
  /\ \E failed \in BOOLEAN : Dumped(failed)

DumpCancelled == pc = "dump" /\ cancelled /\ Dumped(TRUE)

Tick ==
  /\ "watch" \in flags /\ pc \in {"dump", "select"} /\ ~tick
  /\ tick' = TRUE
  /\ UNCHANGED <<flags, pc, status, signalled, cancelled, file>>

(* The select: when both channels are ready either may be taken.           *)
Again ==
  /\ pc = "select" /\ tick
  /\ tick' = FALSE
  /\ Goto("dump")
  /\ UNCHANGED <<flags, signalled, cancelled, file>>

\* Bug: the context is not listened to.
BugStop == FALSE /\ UNCHANGED vars

Stop ==
  /\ pc = "select" /\ cancelled
  /\ Exit(0)
  /\ UNCHANGED <<flags, signalled, cancelled, tick, file>>

Main ==
  \/ Start \/ DumpCancelled \/ Again \/ Stop
  \/ \E p \in Profiles : SaveCancelled(p)

Server == Dump \/ \E p \in Profiles : Save(p)

Next == Main \/ Server \/ Signal \/ Cancel \/ Tick

Spec == Init /\ [][Next]_vars

(* main goes on, the server need not; a select that is reached again and   *)
(* again with both channels ready does not always choose the same.         *)
FairSpec == Spec /\ WF_vars(Main) /\ WF_vars(Cancel) /\ SF_vars(Stop)
-----------------------------------------------------------------------------
(* An interrupt ends the command, whatever it is waiting for, though the   *)
(* server may never answer and the ticker keeps firing (main.go:44-49,     *)
(* 65-80).                                                                 *)
InterruptEnds == signalled ~> pc = "exit"

(* A profile that was broken off is never reported as a success            *)
(* (main.go:52-63, 147-171).                                               *)
PartialIsReported ==
  pc = "exit" /\ status = 0 => \A p \in Profiles : file[p] # "partial"
=============================================================================
