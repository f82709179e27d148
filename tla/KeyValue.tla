------------------------------ MODULE KeyValue ------------------------------
(***************************************************************************)
(* What a shard promises to those who change it: a store with one place    *)
(* per hash.                                                               *)
(*                                                                         *)
(* A Put or a Delete takes effect once, at a single moment between its     *)
(* call and its return.  A Put writes its own key and value into the place *)
(* of its hash, whatever was there; a Delete empties that place only if it *)
(* holds its own key.  Nothing else writes: no eviction, no rotation, no   *)
(* read.  Puts that are in progress together may take each other's value,  *)
(* as they may allocate the same memory.                                   *)
(***************************************************************************)
CONSTANTS
  Procs, Keys, Hashes, HashOf, Vals,
  Writes,   \* the calls that change the store
  None

VARIABLES
  store,    \* per hash: the key and the value in its place, or None
  pending,  \* per process: its call, until that takes effect
  lot,      \* per process: the values its Put may write besides its own
  stopped   \* the store has been closed or its process has ended

Empty == [x \in Hashes |-> None]

Init ==
  /\ store = Empty
  /\ pending = [p \in Procs |-> None]
  /\ lot = [p \in Procs |-> {}]
  /\ stopped = FALSE

Waiting(p, op) == pending[p] # None /\ pending[p].op = op

Call(p) ==
  /\ pending[p] = None
  /\ \E c \in Writes : pending' = [pending EXCEPT ![p] = c]
  /\ UNCHANGED <<store, lot, stopped>>

(* Puts overlap.                                                           *)
Mix(S) ==
  /\ \A p \in S : Waiting(p, "put")
  /\ UNCHANGED <<stopped, pending, store>>
  /\ lot' = [p \in Procs |->
       IF p \in S THEN lot[p] \cup {pending[q].val : q \in S} ELSE lot[p]]

Finish(p) ==
  /\ pending' = [pending EXCEPT ![p] = None]
  /\ lot' = [lot EXCEPT ![p] = {}]
  /\ UNCHANGED stopped

Place(p) == HashOf[pending[p].key]

Put(p) ==
  /\ Waiting(p, "put") /\ ~stopped
  /\ \E v \in lot[p] \cup {pending[p].val} :
       store' = [store EXCEPT ![Place(p)] = [key |-> pending[p].key, val |-> v]]
  /\ Finish(p)

Delete(p) ==
  /\ Waiting(p, "delete") /\ ~stopped
  /\ store' = IF store[Place(p)] # None /\ store[Place(p)].key = pending[p].key
                THEN [store EXCEPT ![Place(p)] = None] ELSE store
  /\ Finish(p)

(* Once the store has stopped, a call has no effect any more.              *)
Fail(p) == stopped /\ pending[p] # None /\ UNCHANGED store /\ Finish(p)

(* The store is closed, and calls go on; or the process ends with them.    *)
Stop ==
  /\ ~stopped
  /\ stopped' = TRUE
  /\ store' = Empty
  /\ \/ UNCHANGED <<pending, lot>>
     \/ /\ pending' = [p \in Procs |-> None]
        /\ lot' = [p \in Procs |-> {}]

Next ==
  \/ \E S \in SUBSET Procs : Mix(S)
  \/ \E p \in Procs : Call(p) \/ Put(p) \/ Delete(p) \/ Fail(p)
  \/ Stop

Spec == Init /\ [][Next]_<<store, pending, lot, stopped>>
=============================================================================
