------------------------------- MODULE RWMutex -------------------------------
(***************************************************************************)
(* sync.RWMutex, the lock of a shard.  It belongs to the Go library: what  *)
(* is modelled is what pkg/cache.go relies on.                             *)
(*                                                                         *)
(* A writer first claims the lock, which stops further readers, and holds  *)
(* it once the readers have left.  Readers that come in the meantime wait  *)
(* and are all let in when the writer unlocks, before another writer.      *)
(* A lock that is never released is not tied to the goroutine that took    *)
(* it, so a goroutine may leave a read lock behind and take another.       *)
(***************************************************************************)
EXTENDS Naturals

CONSTANTS Procs, None

VARIABLES
  writer,   \* the goroutine that has claimed the lock, or None
  readers,  \* how many read locks each goroutine has taken and not released
  rwait     \* the goroutines that wait for a read lock

Free ==
  /\ writer = None
  /\ readers = [p \in Procs |-> 0]
  /\ rwait = {}

RLock(p) ==
  /\ IF writer = None
       THEN readers' = [readers EXCEPT ![p] = @ + 1] /\ UNCHANGED rwait
       ELSE rwait' = rwait \cup {p} /\ UNCHANGED readers
  /\ UNCHANGED writer

HoldsRead(p) == p \notin rwait /\ readers[p] > 0

RUnlock(p) ==
  /\ readers' = [readers EXCEPT ![p] = @ - 1]
  /\ UNCHANGED <<writer, rwait>>

Lock(p) ==
  /\ writer = None
  /\ writer' = p
  /\ UNCHANGED <<readers, rwait>>

HoldsWrite(p) == writer = p /\ \A q \in Procs : readers[q] = 0

Unlock(p) ==
  /\ writer' = None
  /\ readers' = [q \in Procs |-> readers[q] + (IF q \in rwait THEN 1 ELSE 0)]
  /\ rwait' = {}
=============================================================================
