# arena-cache in TLA+

A verification project for arena-cache, a sharded in-process cache for Go that keeps its
values in arenas, replaces them with a simplified CLOCK-Pro and frees memory a generation at
a time. The modules here are translated from the source (`src/pkg`, `src/internal`,
`src/cmd`); TLC checks them on small instances, and TLAPS proves their safety properties and
refinements for every value of their constants.

What it says in short: the policy, its list and the generation ring do what they should when
they are used one operation at a time, and the policy's sweep ends even when nothing else
holds. Around them the shard breaks several promises of its documentation; three of those are
runs whose counterexamples show how, and section 4 lists those that reading alone shows.

## 1. The system

| component | state | operations | interacts with |
|---|---|---|---|
| cache facade, `pkg/cache.go`, `pkg/config.go` | the shards | `New`, `Put`, `GetOrLoad`, `Len`, `SizeBytes`, `Close` | one shard (by hash), or all in turn |
| shard, `pkg/cache.go`, `pkg/shard.go` | `index` (hash → entry), the entries, `mu` | `get`, `put` (fast and slow path), `delete`, `rotate`, `len`, `sizeBytes`, `close`, `getOrLoad` | owns a policy, a ring and an RWMutex |
| replacement policy, `internal/clockpro` | a circular list, a state byte per entry, `size`, the hand | `Insert` (with `evictIfNeeded`), `Remove`, `GenerationEvicted`, `SetReferenced` | shares the entries with the shard by pointer |
| generation ring, `internal/genring` | slots with generations, the active one, an ID counter | `Active`, `CheckRotationNeeded`, `Rotate`, `LiveBytes` | tells the shard which generation died |
| arena, `internal/arena` | memory | `New`, `Free`, `NewValue` | wraps the experimental standard library |
| loading, `pkg/loader.go`, `pkg/loaderfunc.go` | flights (singleflight) | `load`, `loadAsync` | the user's loader; not called by the cache |
| metrics, `pkg/metrics.go` | counters, a gauge and its mirror | `inc*`, `addArenaBytes`, `setArenaBytes` | Prometheus; not called by the cache |
| inspector, `cmd/arena-cache-inspect` | flags, context, ticker, profile files | one-shot, `-watch`, `-heap`, `-goroutine` | an HTTP server in another process |
| unsafe helpers, examples, tools, bench, build | none that matters | | |

`delete`, the loader group and the metrics sink have no caller in the repository. The first two
are modelled as they stand, for whoever calls them next.

### What is hard about it

- *Concurrency.* `get` holds the read lock for the look-up only and touches the entry
  afterwards. `put` of a known key writes the entry and allocates under the *read* lock.
  `SetReferenced`, `sizeBytes` and `close` take no lock.
- *Two accounts of one thing.* The policy charges an entry with its weight at insertion and
  gives it back at eviction; the weight, the generation and the state byte change behind its
  back in between. The ring charges generations by itself.
- *Order.* An entry passes through `index`, policy and ring in three steps, an arena is freed
  before the policy hears of it, and panics may stop a call between two of them.
- *Termination.* The sweep loops with the shard locked until enough has been evicted.
- *Boundaries.* A 32-bit generation ID that wraps, capacities divided down to nothing, a
  `uint8` bit trick.

### What makes each component correct

- Policy: what is charged is what is resident; residents fit; a newcomer that fits is
  admitted; a sweep ends; a ghost stays a ghost.
- List: forward and backward pointers agree, and the order the hand sees is kept.
- Ring: it is a queue; IDs name one generation each; budgets are kept; the oldest dies first.
- Shard: to those who write, it is a store with one place per hash, in which a Put or a Delete
  takes effect at one moment; a hit returns a value its key had during the call; an entry's generation owns its
  value; what dies with its generation becomes a ghost before anybody else may write, unless a late hit
  brings it back; calls return and do not panic; it uses policy,
  ring and lock as they are meant to be used.
- Loading: a value is that of the key asked, cancellations reach those they concern, every call
  is answered.
- Facade: `New` accepts what it says, honours its options and shares the capacity; what is put is
  found, in the one shard that is asked for it; `Len` is between two truths.
- Inspector: an interrupt ends it; a broken profile is an error.

`PROJECT.json` lists the hazards line by line with the properties that cover them.

## 2. The modules

| module | models | state | proved in |
|---|---|---|---|
| `ClockPro` | the policy, and the readers that race with it | `ring` (from the hand on), `state`, `weight`, `genID`, `size`, the sweep's `pc`, `ent`, `seen`, the readers' `held` and `byte` | `ClockProProof` |
| `MetaList` | the policy's list, pointer by pointer | `next`, `prev`, `entry`, `head`, `hand` | `MetaListProof` |
| `HandList` | abstract: the circle the policy needs | `list` | |
| `GenRing` | the ring | `gens`, `activeIdx`, `idCtr`, `due`, `now` | `GenRingProof` |
| `KeyValue` | abstract: what a shard is to those who change it | `store` per hash, `pending` calls, `lot` (what overlapping Puts may take from each other), `stopped` | |
| `RWMutex` | sync.RWMutex (external) | `writer`, `readers`, `rwait` | |
| `Shard` | one shard; composes `ClockPro`, `GenRing` and `RWMutex` by INSTANCE | all of theirs, `index`, `key`, `vptr`, `nilled`, and per goroutine where it is in its call | `ShardProof`, `ShardPartsProof` |
| `Loader` | `getOrLoad`, `load`, `loadAsync` | flights, and per caller its call, context and answer | `LoaderProof` |
| `Cache` | `New` with its options, `Put`, `Len`, `Close` over shards | arguments, `cfg`, progress of `New`, keys per shard, `Len`'s running totals | `CacheProof` |
| `Inspector` | the command | flags, `pc`, exit status, context, ticker, files | `InspectorProof` |

`MC*` modules hold the values of constants for TLC. A definition named `Bug...` is a plausible
mistake in the definition that follows it; with it in the place of the definition, the
property named beside it in `PROJECT.json` fails. They take no part in the specifications.

### How the models correspond to the code

- **A step is what another goroutine can tell apart.** Under the exclusive lock the policy's
  and the ring's operations are one action each, except the sweep: readers without a lock
  write the state byte it reads, so each of its turns is two actions (`ReadHand`, and what it
  does with the byte). The fast path of `put` is four actions, `get` is five, `close` three.
- **Instances.** `Shard` calls the operations of `ClockPro` and `GenRing` inside its own
  actions; `UsesClockPro` and `UsesGenRing` check that its behaviours are then behaviours of
  those specifications. What is shown of `ClockPro` with all its hazards switched on
  therefore holds inside the shard.
- **The abstract store.** `ImplementsKeyValue` maps a shard to `KeyValue`: a place of the store
  is what a look-up under that hash would find, a call is pending until it has changed the index
  or the value that the index leads to. So neither the race of two Puts for a new key, nor a
  displaced entry with the same hash, a sweep, a rotation, a panic in the hand-over or an update
  of an entry may change anything but the place of the call's own key, once. That two Puts of
  known keys may get the same memory is part of the promise (`Mix`), as it is of the code. Once a
  Close has begun or the process has ended, the store is empty for good.
- **The list.** `MetaList` reads its pointers as a circle: `Order` is the sequence of nodes that
  a walk along `next` meets until it is back. `ClockPro` takes the list as a sequence from the hand onwards. `UsesHandList`
  says that it changes it only as the abstract `HandList` allows, and `MetaList` shows that the
  pointers implement that `HandList`: the two meet there. One oddity is kept in both: when a sweep unlinks the
  only node, the hand stays on that node, and the last line of the sweep lists it again.
- **The hand-over.** `Clock.Insert` asserts `unsafe.Pointer` where `put` passes `*entry`, so
  the code panics on the first `Put` of any key. A model of only that would end there. The
  constant `Handovers` says what a `Put` may do: `"entry"` is the code, `"pointer"` the
  hand-over that the comment at clockpro.go:63-68 describes, with everything else as written.
  `shard_panic` has the first only. `shard_calls` has both, each `Put` choosing, so that calls
  meet what a panicked `Put` has left behind. `shard` and `shard_freed` have the second: they
  say what the rest of the shard does once that argument is converted.
- **Arenas.** `vptr` is a value with the generation that owns its memory; freeing sets the
  generation to `None`. The memory is taken to stay readable after that, as `Arena.Free`
  (arena.go:55-57) only resets the wrapper; this is an assumption about the library's arena,
  and `GetIsCurrent` rests on it. A zero `arena.Arena` is assumed to allocate. Two allocations that
  overlap in one arena may or may not get the same memory.
- **Data races** (the state byte, `vptr`/`weight`/`genID`, the map) are interleavings of
  single loads and stores, and a fatal error for a map that is written while iterated over.
  In the sweep, `&^=` may use the byte that was read before or read it again; both are
  modelled.
- **Weights.** `put` cuts the weight to 32 bits for the entry, hence the policy, and hands it
  whole to the ring. `Shard` does the same with `uint32` modulo `WeightMod`, and passes
  weights that are negative or too large.
- **Hashes** in `Shard` are a function from keys that need not be injective; its runs give both
  keys one hash, so every look-up meets the comparison of keys. In `Cache` a key has a content and
  a place in memory: strings are hashed by the first, other types by the second (`Hashed`), and
  every shard has a hash function of its own, of which the first chooses the shard.
- **Options** are values for fields of the configuration, applied one after the other; `None` is
  nil. Every value of `weightFn` and `logger` is as good as another, as nothing calls them.
- **History.** `window` in `Shard`, and `stored` and `atCall` in `Cache`, record what a
  property compares with. Nothing reads them.

## 3. The runs

Every run is a `.cfg` of the same name; the first line of it says what it sets up. Deadlock
checking is off where the system may stop: `cache` (a New that failed, a closed cache),
`inspector` (the command exits) and `shard_calls` (below).

| run | question | result |
|---|---|---|
| `genring` | is the ring a queue with distinct IDs, kept budgets and the oldest freed first, over wraps of the ID? | holds |
| `clockpro` | is the policy's account exact and do residents fit, newcomers stay and sweeps end, when used by itself, and does it treat its list as `HandList`? | holds |
| `clockpro_races` | can racing hits, rising weights and removed ghosts make it charge too much, run out of victims or sweep for ever? | no: its errors only enlarge the cache |
| `clockpro_ghost` | does a ghost stay one ("atomically", clockpro.go:47)? | violated: a hit that straddles the eviction revives it |
| `metalist` | are the pointers the circle that the policy sweeps? | holds |
| `shard` | does the shard implement `KeyValue`, does a hit return a value its key had during the call, do value and generation stay together, does nothing but a hit leave residents in a dead generation, and does the shard keep to the policy's and the ring's protocols? | holds |
| `shard_calls` | does the shard implement `KeyValue` with two writers of one key, panics and a Close, does every call return, and is nothing but the hand-over and Close a reason to panic? | holds |
| `shard_panic` | does Put insert (docs/api.md:24)? | violated: it panics |
| `shard_freed` | is nothing served from a freed arena (arena.go:26-29)? | violated: ghosts stay in the index |
| `loader` | are values of the right key, is a cancellation one's own, and is every call answered? | holds |
| `cache` | does New accept exactly the valid arguments, honour the options and share out the capacity, is what was put found, and is Len between the counts at its start and end? | holds |
| `inspector` | does an interrupt end the command, and is a partial profile an error? | holds |

### Bounds, and why they are enough

- `ClockPro`: 3 entries, capacity 2, weights 0 to 3. That gives lists with every mix of cold,
  hot and ghost around the hand, weights that fit exactly, not at all, and weigh nothing. The
  runs with readers have 2 entries: a race concerns one entry and the byte of one turn.
  `MaxDebt` bounds how far the faulty accounting takes `size` below zero.
- `MetaList`: 3 entries on 4 nodes, since the operations look at a node and its two
  neighbours; unlinked nodes keep their pointers and are used again.
- `GenRing`: 3 slots, budget 2, charges -1, 1 and 2, IDs modulo 5, so that the ring fills,
  turns round several times and the ID wraps within it. `MaxDebt` and `MaxNow` bound the
  negative bytes and the clock.
- `Shard`: 2 goroutines, 2 keys with one hash, 3 values, 2 or 3 entry objects (one that
  nothing refers to any more is used again, so there is no limit to the number of Puts), 2
  generations, 3 IDs, capacity 1. `Call` starts a `put` only while there are entry objects
  to spare, and a `delete` only while the size debt leaves room: these two guards stand for
  nothing in the code. What each goroutine calls is a constant (`CallsOf`), so that a run
  concentrates on one kind of interleaving. In `shard` each goroutine writes a key of its own
  and the second also reads and deletes that of the first; the weights are -1, 1 and 2 and
  `WeightMod` is 2, so one of them is not changed by the cut, one is cut to nothing and the
  negative one becomes positive. A negative weight is passed only while the generation's bytes
  are not negative already (a third guard of that kind). `MaxPutWeight` is the largest of the
  weights; nothing in the model compares with it, `BudgetsKept` of the ring does. In `shard_calls` both write one key, so that a fast path meets
  another one and a slow path the other's new entry. `MaxDebt` keeps the negative counters
  small. The entries are symmetric; the symmetry is not used with liveness.
- `Loader`: 2 callers, 2 keys. A flight with its leader, one who joins, and one that leaves.
- `Cache`: all 256 numbers of shards, 6 capacities and 4 TTLs around the limits, so that caches
  of 1, 2 and 4 shards are built, with and without a rest. Option lists of up to 3: every option
  with and without nil, two values or a nil before and after a value of the same field, two fields
  mixed. 5 keys: one string twice in memory, one that collides with it in all shards but the
  first, and one struct twice in memory, whose hashes differ. One `Len`, since calls of `Len` do
  not touch each other, among Puts and a Close.

### Fairness

- `ClockPro`: weak fairness of the sweep. Its goroutine holds the lock and is runnable.
- `Shard`: weak fairness of each call's steps once it has begun, none of calls being made, and
  strong fairness of taking the write lock, as `sync.RWMutex` lets a waiting writer in before
  later readers and the mutex among writers does not starve. Deadlock checking is off in
  `shard_calls`: a deadlock in the middle of a call is a violation of `CallsReturn` anyway, and
  after a Close the read lock may be left behind and stop everybody.
- `Loader`: goroutines go on and loaders return, with an error if they like.
- `Inspector`: main and the signal goroutine go on; `select` with two ready channels does not
  choose the same for ever (strong fairness of `Stop`). The server need not answer.

## 4. What reading alone shows

Three divergences from the documentation are runs: `shard_panic`, `shard_freed`, `clockpro_ghost`.
The models keep the following ones too, but for the counters, the gauge, `Shared` and keys that cannot
be compared, which are not modelled;
no run is spent on what one look at the line shows.

- Ring: `Ring.ttl` is stored and never read, so generations die by bytes alone (genring.go:137
  against 128). A capacity below the number of generations is given whole to each (genring.go:103).
- Policy: the eject callback is never called (clockpro.go:240-252 against config.go:139).
  `Remove` takes the weight of a ghost off the size a second time (clockpro.go:160). A `Put` of a
  known key changes its weight and charges nobody (cache.go:188), so the residents may outgrow
  the budget of clockpro.go:86. `clockpro_races` shows how far these can go.
- Shard: a hit that stores a state byte from before its entry became a ghost makes the entry
  resident again, in a generation that may have been freed, charged to nobody (cache.go:158,
  clockpro.go:50). `OnlyHitsStrand` says that nothing else does this. `put` allocates and writes an entry under the read lock (cache.go:184-191), so two Puts of
  one key may share memory or mix value and weight (against arena.go:20-22). `sizeBytes` iterates
  over the map without a lock (shard.go:40). `len` counts entries whose values are gone (cache.go:258
  against 254). `close` takes no lock (shard.go:46-53), and a Put that panics for it with the read
  lock leaves that behind (cache.go:183).
- Loading: `load` drops the error of the flight (loader.go:70 against 54). `getOrLoad` neither
  joins a flight nor stores what it loaded (shard.go:33 against README.md:53, loaderfunc.go:25).
  `Shared` is true for the leader too once somebody has joined (loader.go:95 against 32).
- Options: `registry`, `logger`, `rotationStep` and the weight function are read by nobody
  (config.go:74-81; the last is handed down to `Clock`, clockpro.go:89, which never calls it, against
  config.go:39). The callback is handed down too, see above.
- Counters: `evictions` counts Deletes and nothing else (cache.go:234; metrics.go:104 calls the
  counter "Number of items evicted by CLOCK-Pro").
- Keys: equal keys that are not strings may hash differently (cache.go:124), so that what was put
  under one is not found under the other. `PutIsFound` promises the look-up for strings and for
  keys that lie alike in memory. A key of an interface type that holds a `[]byte` is hashed
  (cache.go:119) and panics when it is compared (cache.go:151, 180).
- Facade: `New` panics when there are more shards than bytes (cache.go:299 against docs/api.md:18).
- Metrics: of two overlapping gauge updates the older may stay (metrics.go:145).
- Inspector: asked for both profiles, it saves one (main.go:53-60).

## 5. The proofs

Every safety property that a passing run checks is a theorem, for all values of the constants
that the named `ASSUME`s admit; TLC evaluates those in every run. The plan is always the same: an
invariant holds initially, every action keeps it (a lemma per action, or per group of actions),
and it implies the property, or that a step of the module is a step of the abstract one. Where a
theorem assumes more than the named assumptions, it says so below and in its statement.

- **GenRing** (`GenRingProof`). `IInv == TypeOK /\ RingIsQueue /\ BudgetsKept`. `RingIsQueue`
  says that, walking back from the active slot, IDs are consecutive modulo 2^32, creation times
  do not increase, and empty slots come last. It is needed as a whole: that IDs are distinct
  (`IdsCorrect`) follows from consecutive IDs and fewer slots than IDs, and that the oldest is
  freed (`FreeingCorrect`, an action property) from the order of the times; neither is
  inductive alone. `AgeLemma` and `WrapLemma` do the arithmetic of the ring without `%`.
- **ClockPro** (`ClockProProof`), in four parts.
  - The sweep: `IInv == TypeOK /\ SweepHasVictim /\ SeenNewcomer`, with every hazard on: any
    readers, weights that rise or fall in place, ghosts removed. `SweepHasVictim` says that during
    a sweep its newcomer is resident, unknown to readers, and that `size <= Capacity + weight` of
    it. So evicting the newcomer ends the sweep at the latest: it never spins over ghosts. For the
    newcomer the byte read one step earlier must be the current one (`SeenNewcomer`). The lemmas
    before it say what moving the first element of a list to its end, or leaving one out, does to
    the set of its elements and to its being free of duplicates.
  - The list: `ListCorrect` shows that every behaviour of the policy is one of `HandList`. It needs
    the invariant because an entry must not be listed when it joins and the list not be empty when
    the hand moves.
  - The account with readers: `NeverOverCharged` is not inductive, as a reader that loaded the byte
    of a ghost may store it after the ghost has been brought back, and a sweep may then forget a
    resident without taking it off the size. `SolidCovered` counts the residents only that no step
    in progress can take for ghosts. Assumed: no weight is lowered in place, `"shrink" \notin
    Reweigh`; a Put of a lighter value does lower one (cache.go:188), and then the property fails,
    so the run has rising weights only as well.
  - The account without: `SizeExact`, `ResidentsFit` and `AdmittedIfFits` for the policy used by
    itself (`Undisturbed`: no readers, no weights changed in place, no ghosts removed; each of
    these breaks the account). That a newcomer that fits survives its own insertion needs an order:
    `NewcomerLasts` says that the newcomer survives more turns of the hand (`Turns`) than whatever
    comes after it in the list, and at least as many as whatever comes before. So when the sweep
    comes to evict it, all the others are evicted and it fits.
  - Sums of weights are cardinalities of sets of pairs (`Bytes`), so that `BytesUnion`,
    `BytesAdd` and `BytesCongruent` follow from the library's facts about cardinality, without
    induction over data.
- **MetaList** (`MetaListProof`). `IInv`: the pointers have their types and, unless the list is
  empty, some sequence of nodes is the circle from the cursor on (`ListIs`). `OneCircle` says that there is one such
  sequence only, so the `Order` that the module picks is it; it is shown by the least index at
  which two would differ (`LeastIndex`). `JoinCircle`,
  `UnlinkCircle` and `TurnCircle` say what the pointer assignments do to a circle, for
  arbitrary `next` and `prev`. From them follow `LinksCorrect` and, with a refinement mapping,
  `CircleCorrect`: the pointers implement the `HandList` that `ClockPro` keeps to.
- **Shard** (`ShardProof`), for any goroutines, keys, hash function with collisions, values, entries,
  weights and generations, any calls and either hand-over. Eight invariants, each resting on the
  ones before:
  1. `Control` (`ControlCorrect`): where a goroutine is in its call, which locks it holds there, and
     that no two are in sections that exclude each other. It holds after a Put's panic has left the
     read lock behind, too.
  2. `Calm`: outside of the critical section that does it, no sweep, rotation or report of a dead
     generation is left half done, unless the shard has been closed.
  3. `RingOK`: the active slot is never empty. With it, `RingUseCorrect`: every step is a step
     of `GenRing` or leaves it alone.
  4. `CellTypes`: entries, values and generations keep their types, weights their width. With it,
     `PolicyUseCorrect`: every step is a step of `ClockPro`, all goroutines as its readers.
  5. `ListOK`: a sweep never finds the list empty, so its hand is an entry.
  6. `Data`: the index leads a hash to an entry of a key of that hash; an update works on the entry
     in the index, an insertion on an entry that nobody else knows.
  7. `Ownership`: the generation noted at an entry owns its value, but while a Put is between
     storing the one and the other, and then the value is of the active generation.
     `OwnedByGeneration` follows.
  8. `Windows`: what a get is going to return is a value its key led to during the call, although
     get touches the entry after releasing the lock. `GetIsCurrent` follows.

  From these: `PanicsOnlyIfClosed`, `OnlyHitsStrand` and, with the `FoundLemma` on what a step does
  to look-ups, `RefinementCorrect`: a shard implements `KeyValue`.

  `OnlyHitsStrand` takes the place of an invariant that no resident entry is in a freed
  generation. That one held in the small run; its proof failed at two steps, and both are steps of
  the code: a hit that loaded the state byte before a rotation reported the generation dead stores
  it afterwards (cache.go:158 against 251), and a sweep that has read such a byte writes it back.
  What is true, and proved, is that nothing but the late store of a hit leaves an entry that the
  policy believes resident in a freed generation.
- **Shard from its parts** (`ShardPartsProof`). The theorems about `ClockPro` and `GenRing` are
  instantiated with the shard's variables and carried over by `PolicyUseCorrect` and
  `RingUseCorrect`: `TypeOK` of the whole, `SweepHasVictim` and `UsesHandList` of the shard's
  policy, `RingIsQueue`, `BudgetsKept`, `IdsDistinct` and `OldestFreed` of its ring. With
  `CircleCorrect` that reaches from the calls of the goroutines down to the list's pointers.
- **Loader** (`LoaderProof`). `FlightIsTheirs`: a flight is for a key of its hash, and whoever waits
  for it asked for a key of that hash. `AnswerIsWorth`, `ResultIsWorth`: the same of what it leaves
  behind. So an answer is for a key of the same hash, and `AnswersCorrect`, that it is for the
  same key, assumes that no two keys share a hash (`NoCollision`): the code names the flight
  after the hash alone (loader.go:63). `CancelCorrect` assumes nothing.
- **Cache** (`CacheProof`). `BuildInv`: what has passed the checks at each phase of `New`;
  `OptionsInv`: each field is what the last option for it makes it, at every prefix of the
  options; `IndexInv` and `FoundOrDisplaced`: a key lies in the shard of its hash, alone with it;
  `LenInv`: the running total of a `Len` lies between what was there at its call and what is there.
  `PowerOfTwoLemma` shows the check `n & (n - 1)` right for all 256 numbers of shards.
- **Inspector** (`InspectorProof`). That a profile broken off ends in an error.

What stays with TLC: liveness under fairness (`EvictionTerminates`, `CallsReturn`,
`CallsAnswered`, `InterruptEnds`), which is out of TLAPS's reach, and the three runs that show a
violation. `EvictionTerminates` has its safety half proved: while the sweep runs there is
something to evict.

## 6. Not modelled

- The standard library's arena allocator, maps, mutexes, singleflight, Prometheus and HTTP, but
  for what the code relies on.
- The shard's hit, miss and eviction counters and the sink's counters: one atomic increment
  each, and nothing reads them but an exporter.
- Keys that have no comparison (see section 4), and which bytes of a key are padding or pointers:
  `Cache` lets equal keys lie differently or alike.
- `metrics.go`: four counters and a gauge that nothing calls.
- `LoadResult.Shared`, and `res.(V)` in the loader, which panics when `V` is an interface type and the loader returns nil.
- Unsafe helpers, examples, the dataset generator, benchmarks, build files.

## 7. The plan

The order was: ring, policy, list, lock, shard, loading, facade, inspector; then `KeyValue`, the
cut of weights, the options and hashes of the facade, the refinement of the list; then the proofs
of section 5. What comes next:

1. Proofs: how many entries can be stranded, and by how much the account can be off, as functions
   of the number of goroutines; the variant of the sweep as a safety property (how many turns are
   left), from which `EvictionTerminates` follows but for fairness.
2. Models: the gauge of the metrics sink against its mirror, once something calls it; two writers
   and a reader of one key in one run, if the instance can be made small enough (it has more than
   4 million states now; the two halves are in `shard` and `shard_calls`).
