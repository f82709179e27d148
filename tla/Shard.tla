-------------------------------- MODULE Shard --------------------------------
(***************************************************************************)
(* One shard of the cache: pkg/cache.go and pkg/shard.go.                  *)
(*                                                                         *)
(* A map from the hash of a key to an entry, the CLOCK-Pro policy          *)
(* (ClockPro) and the generation ring (GenRing), under a reader/writer     *)
(* lock (RWMutex).  Goroutines call the operations of the shard; every     *)
(* access to what they share is a step of its own, unless the lock makes   *)
(* it invisible to the others.  `at' is where a goroutine is in its call.  *)
(*                                                                         *)
(* Handovers says how a put may pass its entry to the policy.  The code    *)
(* passes a pointer of type *entry where Clock.Insert asserts an           *)
(* unsafe.Pointer, so Insert panics: {"entry"} is the code.  "pointer" is  *)
(* the hand-over that the comments of clockpro.go:63-68 describe: it shows *)
(* what the rest of the shard does once the argument is converted as they  *)
(* say.  With both, each Put may go either way.                            *)
(***************************************************************************)
EXTENDS Integers, Sequences, FiniteSets, SequencesExt

CONSTANTS
  Procs,      \* goroutines
  Keys, Hashes, HashOf,   \* shard.hash; keys may collide
  Vals,       \* values
  Entries,    \* entry objects
  CallsOf,    \* per goroutine: the calls it makes
  Handovers,  \* the hand-overs, a subset of {"entry", "pointer"}
  CapBytes,   \* the capacity of the shard
  PutWeights,    \* the weights that Puts pass, ints of either sign
  MaxPutWeight,  \* the largest of them
  WeightMod,  \* 2^32 in the code: entry.weight is a uint32
  NumGens,    \* defaultGenerations
  IdMod,      \* 2^32 in the code
  MaxDebt,    \* bound: how far below zero Clock.size and a generation may go
  None

Ops == {"get", "put", "delete", "len", "size", "close"}

CallSet == [op : Ops, key : Keys, val : Vals, weight : PutWeights]

ASSUME ShardAssumption ==
  /\ Keys # {} /\ HashOf \in [Keys -> Hashes]
  /\ IsFiniteSet(Entries)
  /\ CallsOf \in [Procs -> SUBSET CallSet]
  /\ Handovers \subseteq {"entry", "pointer"}
  /\ CapBytes \in Nat \ {0}
  /\ PutWeights \subseteq Int /\ MaxPutWeight \in Nat
  /\ \A w \in PutWeights : w <= MaxPutWeight
  /\ WeightMod \in Nat \ {0}
  /\ NumGens \in Nat \ {0}
  /\ IdMod \in Nat /\ NumGens < IdMod
  /\ MaxDebt \in Nat

(* None is nothing of what it stands for the absence of.                   *)
ASSUME NoneAssumption ==
  /\ None \notin Entries \cup Procs \cup Vals \cup (0 .. IdMod - 1) \cup CallSet
  /\ None \notin [mode : {"cold", "hot", "test"}, ref : BOOLEAN]
  /\ None \notin [id : 0 .. IdMod - 1, bytes : Int, created : Nat]
  /\ None \notin [val : Vals, gen : 0 .. IdMod - 1 \cup {None}]

VARIABLES
  writer, readers, rwait,                   \* shard.mu
  index,                                    \* shard.index
  nilled,     \* the fields of the shard that close has set to nil
  key,        \* entry.key
  vptr,       \* entry.vptr: the value and the generation of its arena
  ring, state, weight, genID, size, sweep, fresh, seen, held, byte,
                                            \* shard.clock, see ClockPro
  gens, activeIdx, idCtr, due, now,         \* shard.genRing, see GenRing
  at,         \* per goroutine: the next step of its call
  arg,        \* ... the call
  mine,       \* ... the entry in its local variable
  lot,        \* ... the values that may end up in the memory it allocates
  dead,       \* rotate's deadGen
  got,        \* per goroutine: the cell that get has read
  window      \* history, per get: what its key has led to since the call

lockVars == <<writer, readers, rwait>>
clockVars == <<ring, state, weight, genID, size, sweep, fresh, seen, held, byte>>
ringVars == <<gens, activeIdx, idCtr, due, now>>
mapVars == <<index, nilled>>
cellVars == <<key, vptr>>
callVars == <<arg, mine, lot, dead, got>>
vars == <<lockVars, clockVars, ringVars, mapVars, cellVars, at, callVars, window>>

Mu == INSTANCE RWMutex

CP == INSTANCE ClockPro WITH
        Readers <- Procs, Gens <- 0 .. IdMod - 1, Capacity <- CapBytes,
        MaxWeight <- WeightMod - 1,
        Reweigh <- {"grow", "shrink"}, MayRemoveGhosts <- TRUE,
        pc <- sweep, ent <- fresh

GR == INSTANCE GenRing WITH
        Deltas <- PutWeights, MaxDelta <- MaxPutWeight, Nil <- None,
        MaxNow <- 0

h(p) == HashOf[arg[p].key]

(* The conversion of put: the policy gets the weight cut to 32 bits, the   *)
(* ring gets it whole.                                                     *)
uint32(w) == w % WeightMod

Indexed == {index[x] : x \in Hashes} \ {None}

Init ==
  /\ Mu!Free /\ CP!Init /\ GR!Init
  /\ genID = [e \in Entries |-> 0]
  /\ index = [x \in Hashes |-> None]
  /\ nilled = {}
  /\ key = [e \in Entries |-> CHOOSE k \in Keys : TRUE]
  /\ vptr = [e \in Entries |-> None]
  /\ at = [p \in Procs |-> "idle"]
  /\ arg = [p \in Procs |-> None]
  /\ mine = [p \in Procs |-> None]
  /\ lot = [p \in Procs |-> {}]
  /\ dead = None
  /\ got = [p \in Procs |-> None]
  /\ window = [p \in Procs |-> {}]

-----------------------------------------------------------------------------
(* Steps of a call.                                                        *)
Goto(p, step) == at' = [at EXCEPT ![p] = step]

(* The call returns and its local variables go.                            *)
Done(p) ==
  /\ Goto(p, "idle")
  /\ arg' = [arg EXCEPT ![p] = None]
  /\ mine' = [mine EXCEPT ![p] = None]
  /\ lot' = [lot EXCEPT ![p] = {}]
  /\ got' = [got EXCEPT ![p] = None]
  /\ window' = [window EXCEPT ![p] = {}]
  /\ UNCHANGED dead

Stay == UNCHANGED <<callVars, window>>

(* A panic.  put's deferred Unlock runs; no other unlock is deferred.      *)
Panic(p) == Goto(p, "panicked") /\ Stay

(* The caller recovers, as the HTTP server does for its handlers.          *)
Recover(p) ==
  /\ at[p] = "panicked"
  /\ Done(p)
  /\ UNCHANGED <<lockVars, clockVars, ringVars, mapVars, cellVars>>

(* The value that the index leads a key to.                                *)
Value(k) ==
  LET e == index[HashOf[k]]
  IN  IF e = None \/ key[e] # k THEN None ELSE vptr[e].val

(* From this step on the index leads k to v.                               *)
Show(k, v) ==
  window' = [q \in Procs |->
    IF arg[q] # None /\ arg[q].op = "get" /\ arg[q].key = k
      THEN window[q] \cup {v} ELSE window[q]]

Doing(p, op) == arg[p] # None /\ arg[p].op = op

(* An iteration over the map meets a write: the runtime may notice, and    *)
(* ends the process.                                                       *)
MapWrite(p, next) ==
  \/ Goto(p, next)
  \/ /\ \E q \in Procs : at[q] = "iterating"
     /\ at' = [q \in Procs |-> "killed"]

Reachable ==
  Indexed \cup ToSet(ring) \cup {mine[q] : q \in Procs} \cup {held[q] : q \in Procs}

(* The entry that the index holds under the hash of the key, if any.       *)
Entry(p) == IF "index" \in nilled THEN None ELSE index[h(p)]

\* Bug: the key is not compared.
BugKnown(p) == Entry(p) # None

Known(p) == Entry(p) # None /\ key[Entry(p)] = arg[p].key

-----------------------------------------------------------------------------
(* A call up to its first access to the lock or, without a lock, the shard.*)
Call(p) ==
  /\ at[p] = "idle"
  /\ \E c \in CallsOf[p] :
       /\ c.op = "put" => Cardinality(Entries \ Reachable) >
                            Cardinality({q \in Procs : Doing(q, "put")})
       /\ c.op = "delete" => size >= CP!Footprint(Entries) + WeightMod - 1 - MaxDebt
       /\ c.weight < 0 => GR!Active.bytes >= 0
       /\ arg' = [arg EXCEPT ![p] = c]
       /\ window' = [window EXCEPT ![p] =
                       IF c.op = "get" THEN {Value(c.key)} ELSE {}]
       /\ CASE c.op \in {"get", "put", "len"} -> Goto(p, "reading") /\ Mu!RLock(p)
            [] c.op = "delete" -> Goto(p, "lock") /\ UNCHANGED lockVars
            [] c.op = "size"   -> Goto(p, "iterating") /\ UNCHANGED lockVars
            [] c.op = "close"  -> Goto(p, "index = nil") /\ UNCHANGED lockVars
  /\ UNCHANGED <<clockVars, ringVars, mapVars, cellVars, mine, lot, dead, got>>

Reading(p, op) == at[p] = "reading" /\ Mu!HoldsRead(p) /\ Doing(p, op)

(* get: the read lock covers the look-up only.                             *)
GetLookup(p) ==
  /\ Reading(p, "get")
  /\ Mu!RUnlock(p)
  /\ \/ /\ Known(p)
        /\ CP!Find(p, Entry(p))
        /\ mine' = [mine EXCEPT ![p] = Entry(p)]
        /\ Goto(p, "mark")
        /\ UNCHANGED <<arg, lot, dead, got, window>>
     \/ ~Known(p) /\ Done(p) /\ UNCHANGED clockVars
  /\ UNCHANGED <<ringVars, mapVars, cellVars>>

(* SetReferenced, a load and a store.                                      *)
GetMark(p) ==
  /\ at[p] = "mark"
  /\ \/ CP!LoadState(p) /\ UNCHANGED at
     \/ CP!StoreState(p) /\ Goto(p, "deref")
  /\ Stay
  /\ UNCHANGED <<lockVars, ringVars, mapVars, cellVars>>

(* The value is read through vptr, whatever has become of the entry.       *)
GetDeref(p) ==
  /\ at[p] = "deref"
  /\ got' = [got EXCEPT ![p] = vptr[mine[p]]]
  /\ Goto(p, "return")
  /\ UNCHANGED <<lockVars, clockVars, ringVars, mapVars, cellVars, arg, mine,
                 lot, dead, window>>

GetReturn(p) ==
  /\ at[p] = "return"
  /\ Done(p)
  /\ UNCHANGED <<lockVars, clockVars, ringVars, mapVars, cellVars>>

Get(p) == GetLookup(p) \/ GetMark(p) \/ GetDeref(p) \/ GetReturn(p)

-----------------------------------------------------------------------------
\* Bug: the read lock is kept while the write lock is taken.
BugPutLookup(p) ==
  /\ Reading(p, "put")
  /\ \/ /\ Known(p)
        /\ mine' = [mine EXCEPT ![p] = Entry(p)]
        /\ Goto(p, "update")
        /\ UNCHANGED <<lockVars, arg, lot, dead, got>>
     \/ /\ ~Known(p)
        /\ Goto(p, "lock")
        /\ UNCHANGED <<lockVars, callVars>>
  /\ UNCHANGED <<clockVars, ringVars, mapVars, cellVars, window>>

(* put, first under the read lock: a known key keeps it for the update, an *)
(* unknown one needs the write lock, which is taken without a second look. *)
PutLookup(p) ==
  /\ Reading(p, "put")
  /\ \/ /\ Known(p)
        /\ mine' = [mine EXCEPT ![p] = Entry(p)]
        /\ Goto(p, "update")
        /\ UNCHANGED <<lockVars, arg, lot, dead, got>>
     \/ /\ ~Known(p)
        /\ Mu!RUnlock(p)
        /\ Goto(p, "lock")
        /\ UNCHANGED callVars
  /\ UNCHANGED <<clockVars, ringVars, mapVars, cellVars, window>>

(* The arena is not safe for concurrent use: two overlapping allocations   *)
(* may return the same memory, which then holds the value of either.       *)
UpdateAlloc(p) ==
  /\ at[p] = "update"
  /\ \/ /\ "genRing" \in nilled
        /\ Panic(p)
     \/ /\ "genRing" \notin nilled
        /\ LET others == {q \in Procs : at[q] = "allocating"}
               vals == {arg[q].val : q \in others \cup {p}}
           IN  lot' = [q \in Procs |->
                         IF q \in others \cup {p} THEN lot[q] \cup vals ELSE lot[q]]
        /\ Goto(p, "allocating")
        /\ UNCHANGED <<arg, mine, dead, got, window>>
  /\ UNCHANGED <<lockVars, clockVars, ringVars, mapVars, cellVars>>

UpdateValue(p) ==
  /\ at[p] = "allocating"
  /\ \E v \in lot[p] :
       /\ vptr' = [vptr EXCEPT ![mine[p]] = [val |-> v, gen |-> GR!Active.id]]
       /\ Show(arg[p].key, v)
  /\ Goto(p, "weigh")
  /\ UNCHANGED <<lockVars, clockVars, ringVars, mapVars, key, callVars>>

UpdateWeight(p) ==
  /\ at[p] = "weigh"
  /\ CP!Update(mine[p], uint32(arg[p].weight), genID[mine[p]])
  /\ Goto(p, "tag")
  /\ Stay
  /\ UNCHANGED <<lockVars, ringVars, mapVars, cellVars>>

\* Bug: the generation is not updated with the value.
BugUpdateGen(p) ==
  /\ at[p] = "tag"
  /\ Mu!RUnlock(p)
  /\ Done(p)
  /\ UNCHANGED <<clockVars, ringVars, mapVars, cellVars>>

\* Bug: the read lock is released twice.
BugUpdateGenTwice(p) ==
  /\ at[p] = "tag"
  /\ CP!Update(mine[p], weight[mine[p]], GR!Active.id)
  /\ readers' = [readers EXCEPT ![p] = @ - 2]
  /\ Done(p)
  /\ UNCHANGED <<writer, rwait, ringVars, mapVars, cellVars>>

(* Neither the policy nor the ring is told of the new weight.              *)
UpdateGen(p) ==
  /\ at[p] = "tag"
  /\ CP!Update(mine[p], weight[mine[p]], GR!Active.id)
  /\ Mu!RUnlock(p)
  /\ Done(p)
  /\ UNCHANGED <<ringVars, mapVars, cellVars>>

PutFast(p) == UpdateAlloc(p) \/ UpdateValue(p) \/ UpdateWeight(p) \/ UpdateGen(p)

-----------------------------------------------------------------------------
(* put with the write lock.                                                *)
Lock(p) ==
  /\ at[p] = "lock"
  /\ Mu!Lock(p)
  /\ Goto(p, "locked")
  /\ Stay
  /\ UNCHANGED <<clockVars, ringVars, mapVars, cellVars>>

Locked(p, op) == at[p] = "locked" /\ Mu!HoldsWrite(p) /\ Doing(p, op)

PanicUnlocking(p) == Mu!Unlock(p) /\ Panic(p)

(* A fresh entry with its value in the active generation.                  *)
PutNew(p) ==
  /\ Locked(p, "put")
  /\ \/ /\ "genRing" \in nilled
        /\ PanicUnlocking(p)
        /\ UNCHANGED <<clockVars, cellVars>>
     \/ /\ "genRing" \notin nilled
        /\ \E e \in Entries \ Reachable :
             /\ key' = [key EXCEPT ![e] = arg[p].key]
             /\ vptr' = [vptr EXCEPT ![e] = [val |-> arg[p].val,
                                             gen |-> GR!Active.id]]
             /\ CP!Update(e, uint32(arg[p].weight), GR!Active.id)
             /\ mine' = [mine EXCEPT ![p] = e]
        /\ Goto(p, "index it")
        /\ UNCHANGED <<lockVars, arg, lot, dead, got, window>>
  /\ UNCHANGED <<ringVars, mapVars>>

PutIndex(p) ==
  /\ at[p] = "index it"
  /\ \/ /\ "index" \in nilled
        /\ PanicUnlocking(p)
        /\ UNCHANGED index
     \/ /\ "index" \notin nilled
        /\ index' = [index EXCEPT ![h(p)] = mine[p]]
        /\ Show(arg[p].key, arg[p].val)
        /\ MapWrite(p, "insert")
        /\ UNCHANGED <<lockVars, callVars>>
  /\ UNCHANGED <<clockVars, ringVars, nilled, cellVars>>

\* Bug: a Put that panics takes back what is under its hash.
BugPutInsert(p) ==
  /\ at[p] = "insert"
  /\ \/ /\ "clock" \in nilled \/ "entry" \in Handovers
        /\ PanicUnlocking(p)
        /\ index' = [index EXCEPT ![h(p)] = None]
        /\ UNCHANGED clockVars
     \/ /\ "clock" \notin nilled /\ "pointer" \in Handovers
        /\ CP!Insert(mine[p], weight[mine[p]], genID[mine[p]])
        /\ Goto(p, "sweep")
        /\ Stay
        /\ UNCHANGED <<lockVars, index>>
  /\ UNCHANGED <<ringVars, nilled, cellVars>>

PutInsert(p) ==
  /\ at[p] = "insert"
  /\ \/ /\ "clock" \in nilled \/ "entry" \in Handovers
        /\ PanicUnlocking(p)
        /\ UNCHANGED clockVars
     \/ /\ "clock" \notin nilled /\ "pointer" \in Handovers
        /\ CP!Insert(mine[p], weight[mine[p]], genID[mine[p]])
        /\ Goto(p, "sweep")
        /\ Stay
        /\ UNCHANGED lockVars
  /\ UNCHANGED <<ringVars, mapVars, cellVars>>

PutSweep(p) ==
  /\ at[p] = "sweep"
  /\ CP!evictIfNeeded
  /\ UNCHANGED <<lockVars, ringVars, mapVars, cellVars, at, callVars, window>>

PutCharge(p) ==
  /\ at[p] = "sweep" /\ sweep = "idle"
  /\ \/ /\ "genRing" \in nilled
        /\ PanicUnlocking(p)
        /\ UNCHANGED ringVars
     \/ /\ "genRing" \notin nilled
        /\ GR!CheckRotationNeeded(arg[p].weight)
        /\ Goto(p, "rotate")
        /\ Stay
        /\ UNCHANGED lockVars
  /\ UNCHANGED <<clockVars, mapVars, cellVars>>

(* Rotate frees the arena of the generation it replaces.  The memory stays *)
(* readable for whoever has a pointer into it.                             *)
Freed(g) ==
  [e \in Entries |-> IF vptr[e] # None /\ vptr[e].gen = g
                       THEN [vptr[e] EXCEPT !.gen = None] ELSE vptr[e]]

\* Bug: the old generation is used again, under its old ID.
BugRotate(p) ==
  /\ at[p] = "rotate" /\ due
  /\ GR!Rotate \/ /\ gens[GR!NextIdx] # None
                  /\ gens' = [gens EXCEPT ![GR!NextIdx].bytes = 0]
                  /\ activeIdx' = GR!NextIdx
                  /\ due' = FALSE
                  /\ UNCHANGED <<idCtr, now>>
  /\ LET old == gens[GR!NextIdx]
     IN  /\ dead' = IF old = None THEN None ELSE old.id
         /\ vptr' = IF old = None THEN vptr ELSE Freed(old.id)
  /\ Goto(p, "tell")
  /\ UNCHANGED <<lockVars, clockVars, mapVars, key, arg, mine, lot, got, window>>

Rotate(p) ==
  /\ at[p] = "rotate" /\ due
  /\ \/ /\ "genRing" \in nilled
        /\ PanicUnlocking(p)
        /\ UNCHANGED <<ringVars, vptr>>
     \/ /\ "genRing" \notin nilled
        /\ GR!Rotate
        /\ LET old == gens[GR!NextIdx]
           IN  /\ dead' = IF old = None THEN None ELSE old.id
               /\ vptr' = IF old = None THEN vptr ELSE Freed(old.id)
        /\ Goto(p, "tell")
        /\ UNCHANGED <<lockVars, arg, mine, lot, got, window>>
  /\ UNCHANGED <<clockVars, mapVars, key>>

\* Bug: the policy is told of the fresh generation.
BugRotateTell(p) ==
  /\ at[p] = "tell" /\ dead # None
  /\ CP!GenerationEvicted(GR!Active.id)
  /\ dead' = None
  /\ Goto(p, "rotate")
  /\ UNCHANGED <<lockVars, ringVars, mapVars, cellVars, arg, mine, lot, got, window>>

\* Bug: rotate does not expect an empty slot.
BugRotateTellNil(p) ==
  /\ at[p] = "tell" /\ dead = None
  /\ PanicUnlocking(p)
  /\ UNCHANGED <<clockVars, ringVars, mapVars, cellVars>>

(* The policy learns which generation is gone.                             *)
RotateTell(p) ==
  /\ at[p] = "tell" /\ dead # None
  /\ \/ /\ "clock" \in nilled
        /\ PanicUnlocking(p)
        /\ UNCHANGED clockVars
     \/ /\ "clock" \notin nilled
        /\ CP!GenerationEvicted(dead)
        /\ dead' = None
        /\ Goto(p, "rotate")
        /\ UNCHANGED <<lockVars, arg, mine, lot, got, window>>
  /\ UNCHANGED <<ringVars, mapVars, cellVars>>

PutReturn(p) ==
  /\ \/ at[p] = "rotate" /\ ~due
     \/ at[p] = "tell" /\ dead = None
  /\ Mu!Unlock(p)
  /\ Done(p)
  /\ UNCHANGED <<clockVars, ringVars, mapVars, cellVars>>

PutSlow(p) ==
  \/ PutNew(p) \/ PutIndex(p) \/ PutInsert(p) \/ PutSweep(p) \/ PutCharge(p)
  \/ Rotate(p) \/ RotateTell(p) \/ PutReturn(p)

Put(p) == PutLookup(p) \/ PutFast(p) \/ PutSlow(p)

-----------------------------------------------------------------------------
Delete(p) ==
  /\ Locked(p, "delete")
  /\ \/ /\ Known(p)
        /\ mine' = [mine EXCEPT ![p] = Entry(p)]
        /\ index' = [index EXCEPT ![h(p)] = None]
        /\ MapWrite(p, "remove")
        /\ UNCHANGED <<lockVars, arg, lot, dead, got, window>>
     \/ /\ ~Known(p)
        /\ Mu!Unlock(p)
        /\ Done(p)
        /\ UNCHANGED index
  /\ UNCHANGED <<clockVars, ringVars, nilled, cellVars>>

\* Bug: the entry is unlinked and its bytes stay charged.
BugDeleteRemove(p) ==
  /\ at[p] = "remove"
  /\ ring' = SelectSeq(ring, LAMBDA e : e # mine[p])
  /\ UNCHANGED <<state, weight, genID, size, sweep, fresh, seen, held, byte>>
  /\ Mu!Unlock(p)
  /\ Done(p)
  /\ UNCHANGED <<ringVars, mapVars, cellVars>>

(* Clock.Remove, which has nothing to do for an entry the policy has       *)
(* forgotten.  Its type assertion is reached only when the list is not     *)
(* empty, hence never while Insert panics.  The Unlock is not deferred.    *)
DeleteRemove(p) ==
  /\ at[p] = "remove"
  /\ \/ /\ "clock" \in nilled
        /\ Panic(p)
        /\ UNCHANGED <<lockVars, clockVars>>
     \/ /\ "clock" \notin nilled
        /\ IF mine[p] \in ToSet(ring) THEN CP!RemoveEntry(mine[p])
                                      ELSE UNCHANGED clockVars
        /\ Mu!Unlock(p)
        /\ Done(p)
  /\ UNCHANGED <<ringVars, mapVars, cellVars>>

len == IF "index" \in nilled THEN 0
       ELSE Cardinality({x \in Hashes : index[x] # None})

LenCall(p) ==
  /\ Reading(p, "len")
  /\ Mu!RUnlock(p)
  /\ Done(p)
  /\ UNCHANGED <<clockVars, ringVars, mapVars, cellVars>>

(* sizeBytes iterates over the map without the lock.                       *)
SizeBytes(p) ==
  /\ at[p] = "iterating"
  /\ Done(p)
  /\ UNCHANGED <<lockVars, clockVars, ringVars, mapVars, cellVars>>

(* close sets three fields to nil, without the lock.                       *)
Close(p) ==
  /\ \/ /\ at[p] = "index = nil"
        /\ nilled' = nilled \cup {"index"}
        /\ Goto(p, "clock = nil") /\ Stay
     \/ /\ at[p] = "clock = nil"
        /\ nilled' = nilled \cup {"clock"}
        /\ Goto(p, "genRing = nil") /\ Stay
     \/ /\ at[p] = "genRing = nil"
        /\ nilled' = nilled \cup {"genRing"}
        /\ Done(p)
  /\ UNCHANGED <<lockVars, clockVars, ringVars, index, cellVars>>

Step(p) ==
  \/ Get(p) \/ Put(p) \/ Lock(p) \/ Delete(p) \/ DeleteRemove(p)
  \/ LenCall(p) \/ SizeBytes(p) \/ Close(p) \/ Recover(p)

Next == \E p \in Procs : Call(p) \/ Step(p)

Spec == Init /\ [][Next]_vars

(* A call goes on once it has started, and a writer is not passed over for *)
(* ever: RWMutex lets writers in by turns.                                 *)
FairSpec == Spec /\ \A p \in Procs : WF_vars(Step(p)) /\ SF_vars(Lock(p))
-----------------------------------------------------------------------------
Cells == [val : Vals, gen : 0 .. IdMod - 1 \cup {None}]

Steps ==
  {"idle", "reading", "mark", "deref", "return", "update", "allocating",
   "weigh", "tag", "lock", "locked", "index it", "insert", "sweep", "rotate",
   "tell", "remove", "iterating", "index = nil", "clock = nil",
   "genRing = nil", "panicked", "killed"}

TypeOK ==
  /\ writer \in Procs \cup {None} /\ readers \in [Procs -> Nat] /\ rwait \subseteq Procs
  /\ index \in [Hashes -> Entries \cup {None}]
  /\ nilled \subseteq {"index", "clock", "genRing"}
  /\ key \in [Entries -> Keys]
  /\ vptr \in [Entries -> Cells \cup {None}]
  /\ CP!TypeOK /\ GR!TypeOK
  /\ at \in [Procs -> Steps]
  /\ arg \in [Procs -> CallSet \cup {None}]
  /\ mine \in [Procs -> Entries \cup {None}]
  /\ lot \in [Procs -> SUBSET Vals]
  /\ dead \in 0 .. IdMod - 1 \cup {None}
  /\ got \in [Procs -> Cells \cup {None}]
  /\ window \in [Procs -> SUBSET (Vals \cup {None})]

(* A get that hits returns a value its key led to while the call ran       *)
(* (cache.go:138-168): of this very key, though keys share hashes, and     *)
(* neither overwritten nor deleted before the call, though the value is    *)
(* read after the lock has been released, from an entry that may have been *)
(* evicted, replaced or updated and an arena that may have been freed.     *)
GetIsCurrent ==
  \A p \in Procs : at[p] = "return" =>
    got[p] # None /\ got[p].val \in window[p]

Updated(e) == \E q \in Procs : mine[q] = e /\ at[q] \in {"weigh", "tag"}

(* genID is the "generation that owns this value" (cache.go:64), of every  *)
(* entry in the index that no Put is just updating: vptr and genID move    *)
(* together although a Put writes them one by one under the read lock.     *)
OwnedByGeneration ==
  \A e \in Indexed : ~Updated(e) /\ vptr[e].gen # None => vptr[e].gen = genID[e]

(* What the policy takes for resident, by the state byte or by the copy of *)
(* it that the sweep is working on.                                        *)
Believed(e) ==
  /\ e \in CP!Listed
  /\ \/ state[e].mode # "test"
     \/ sweep = "act" /\ e = CP!hand /\ seen.mode # "test"

Stranded(e) == Believed(e) /\ ~Updated(e) /\ vptr[e].gen = None /\ genID[e] # dead

(* What the policy believes resident has its value in a generation of the  *)
(* ring, or in the dead one that put is about to tell it of (cache.go:243):*)
(* a freed arena leaves no resident entry behind, whatever entries were    *)
(* evicted, updated or removed before.  Only a hit can strand one, when it *)
(* stores a state byte from before the entry became a ghost.               *)
OnlyHitsStrand ==
  [][\A e \in Entries : Stranded(e)' =>
       \/ Stranded(e)
       \/ \E q \in Procs : mine[q] = e /\ byte[q] # None /\ byte'[q] = None]_vars

(* The shard uses the policy as ClockPro assumes and specifies: one        *)
(* operation at a time, whole sweeps, fresh entries only.                  *)
UsesClockPro == CP!Spec

(* The shard uses the ring as GenRing specifies: every charge that is due  *)
(* a rotation is followed by one before the next charge (cache.go:218).    *)
UsesGenRing == GR!Spec

(* The shard as KeyValue sees it: what a look-up would find under each     *)
(* hash, and the Puts and Deletes that have not taken effect yet.          *)
Running == "index" \notin nilled /\ \A p \in Procs : at[p] # "killed"

Found(x) ==
  IF ~Running \/ index[x] = None THEN None
  ELSE [key |-> key[index[x]], val |-> vptr[index[x]].val]

Pending(p) ==
  /\ Doing(p, "put") \/ Doing(p, "delete")
  /\ at[p] \in {"reading", "update", "allocating", "lock", "locked", "index it"}

KV == INSTANCE KeyValue WITH
        Writes <- {c \in CallSet : c.op \in {"put", "delete"}},
        store <- [x \in Hashes |-> Found(x)],
        pending <- [p \in Procs |-> IF Pending(p) THEN arg[p] ELSE None],
        lot <- [p \in Procs |-> IF Pending(p) THEN lot[p] ELSE {}],
        stopped <- ~Running

(* A Put or a Delete takes effect at one moment of its call, on its own    *)
(* key alone, and nothing else changes what the index leads to             *)
(* (cache.go:175-237): not the entry that two Puts of a new key race to    *)
(* make, not the displaced entry of a colliding key, no sweep, no rotation *)
(* and no update of an entry that has left the index in the meantime.      *)
ImplementsKeyValue == KV!Spec

(* Every call returns, though calls may panic half-way (cache.go:178-197,  *)
(* 206-221): no lock is left behind, no writer and no reader waits for     *)
(* ever.  After Close this is not promised: a Put of a known key may then  *)
(* panic with the read lock, whose RUnlock is not deferred (cache.go:183). *)
CallsReturn ==
  \A p \in Procs :
    at[p] # "idle" ~> at[p] \in {"idle", "killed"} \/ nilled # {}

(* But for the hand-over, no call panics unless the shard has been closed  *)
(* (cache.go:243-252, shard.go:47-53): rotate is not confused by a slot    *)
(* that was empty, nor anybody by a call that panicked before.             *)
PanicsOnlyIfClosed ==
  [][\A p \in Procs : at'[p] = "panicked" /\ at[p] # "panicked" =>
       nilled # {} \/ (at[p] = "insert" /\ "entry" \in Handovers)]_vars

(* "Inserts a value into the cache" (docs/api.md:24): Put does not panic.  *)
NoPanic == \A p \in Procs : at[p] # "panicked"

(* "all entries referencing data are either promoted to TEST (ghost) or    *)
(* removed" when a generation is freed (arena.go:26-29): a get serves      *)
(* nothing from a freed arena.                                             *)
FreedNotServed ==
  \A p \in Procs : at[p] = "return" => got[p].gen # None
=============================================================================
