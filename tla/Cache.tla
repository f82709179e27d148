------------------------------- MODULE Cache -------------------------------
(***************************************************************************)
(* The cache as its users see it: New with its options and its validation, *)
(* and the operations that go to one shard or round all of them            *)
(* (pkg/cache.go, pkg/config.go).                                          *)
(*                                                                         *)
(* A shard is abstracted to the keys that its index holds: Put adds one    *)
(* or puts it in the place of another with the same hash, and nothing but  *)
(* Close ever takes one away, as eviction leaves the index alone and       *)
(* Delete is not offered.  Len locks one shard after the other.  GetOrLoad *)
(* looks its key up (`found') and changes nothing, see Loader.             *)
(***************************************************************************)
EXTENDS Integers, Sequences, FiniteSets, FiniteSetsExt

CONSTANTS
  Caps,         \* values of capBytes, an int64
  Ttls,         \* values of ttl
  ShardCounts,  \* values of shards, a uint8
  OptionLists,  \* values of opts
  Millisecond,
  Keys,         \* keys as they lie in memory: equal ones may differ there
  Hash,         \* per seed: the hash of what is hashed
  Callers,      \* goroutines that call Len
  MayClose,     \* Close is called
  None          \* nil

Fields == {"registry", "logger", "weightFn", "ejectCb"}

ASSUME CacheAssumption ==
  /\ Caps \subseteq Int /\ Ttls \subseteq Int
  /\ ShardCounts \subseteq 0 .. 255
  /\ \A o \in OptionLists :
       /\ Len(o) \in Nat /\ DOMAIN o = 1 .. Len(o)
       /\ \A i \in DOMAIN o : o[i].field \in Fields
  /\ Millisecond \in Nat \ {0}
  /\ IsFiniteSet(Keys)
  /\ \A k \in Keys : k.kind \in {"string", "other"}
  /\ \A s \in 0 .. 255, k \in Keys :
       Hash[s][k.content] \in Nat /\ Hash[s][k.memory] \in Nat
  /\ MayClose \in BOOLEAN
  /\ None \notin Nat

VARIABLES
  capBytes, ttl, shards, opts,  \* the arguments of New
  cfg,      \* New's configuration, while it runs
  applied,  \* how many options have been applied
  phase,    \* where New is; "open" once it has returned a cache
  built,    \* how many shards New has built
  index,    \* per shard: the keys in its index
  closed,   \* how many shards Close has closed
  next,     \* per caller: the next shard its Len looks at, None outside Len
  total,    \* per caller: Len's running total
  stored,   \* history: the keys that have been put
  atCall    \* history, per caller: how many entries there were when Len was called

newVars == <<capBytes, ttl, shards, opts, cfg, applied, phase, built>>
indexVars == <<index, closed, stored>>
lenVars == <<next, total, atCall>>
vars == <<newVars, indexVars, lenVars>>

Init ==
  /\ capBytes \in Caps /\ ttl \in Ttls /\ shards \in ShardCounts
  /\ opts \in OptionLists
  /\ cfg = None
  /\ applied = 0
  /\ phase = "validate"
  /\ built = 0
  /\ index = [i \in 0 .. shards - 1 |-> {}]
  /\ closed = 0
  /\ next = [c \in Callers |-> None]
  /\ total = [c \in Callers |-> 0]
  /\ stored = {}
  /\ atCall = [c \in Callers |-> 0]

-----------------------------------------------------------------------------
Bits(n) == {b \in 0 .. 7 : (n \div 2 ^ b) % 2 = 1}

\* Bug: any even number of shards will do.
BugIsPowerOfTwo(n) == n # 0 /\ (n % 2 = 0 \/ n = 1)

(* n & (n - 1) is zero.                                                    *)
IsPowerOfTwo(n) == n # 0 /\ Bits(n) \cap Bits(n - 1) = {}

Refused == capBytes <= 0 \/ ttl <= 0 \/ ~IsPowerOfTwo(shards)

defaultConfig ==
  [registry |-> None, logger |-> "nop", weightFn |-> "size", ejectCb |-> None,
   rotationStep |-> 0]

Validate ==
  /\ phase = "validate"
  /\ IF Refused
       THEN phase' = "refused" /\ UNCHANGED cfg
       ELSE phase' = "options" /\ cfg' = defaultConfig
  /\ UNCHANGED <<capBytes, ttl, shards, opts, applied, built, indexVars, lenVars>>

\* Bug: a nil logger or weight function is taken.
BugWith(o) == [cfg EXCEPT ![o.field] = o.value]

(* The four options.  A nil registry or callback is taken as "none", a nil *)
(* logger or weight function is ignored.                                   *)
With(o) ==
  IF o.value = None /\ o.field \in {"logger", "weightFn"}
    THEN cfg ELSE [cfg EXCEPT ![o.field] = o.value]

(* applyOptions: one option after the other, ...                           *)
ApplyOption ==
  /\ phase = "options" /\ applied < Len(opts)
  /\ cfg' = With(opts[applied + 1])
  /\ applied' = applied + 1
  /\ UNCHANGED <<capBytes, ttl, shards, opts, phase, built, indexVars, lenVars>>

(* ... New's checks again, as an option might have changed something, and  *)
(* the step of the rotation, which nothing reads.                          *)
EndOptions ==
  /\ phase = "options" /\ applied = Len(opts)
  /\ IF Refused
       THEN phase' = "refused" /\ UNCHANGED cfg
       ELSE /\ phase' = "build"
            /\ cfg' = [cfg EXCEPT !.rotationStep = Max({ttl \div 4, Millisecond})]
  /\ UNCHANGED <<capBytes, ttl, shards, opts, applied, built, indexVars, lenVars>>

\* Bug: the division rounds up.
BugShardCap == (capBytes + shards - 1) \div shards

ShardCap == capBytes \div shards

(* newShard, for one shard after the other; its generation ring panics     *)
(* when the shard's part of the capacity is nothing.  The last one done,   *)
(* New returns, and the configuration is gone.                             *)
Build ==
  /\ phase = "build"
  /\ IF ShardCap <= 0
       THEN phase' = "panicked" /\ UNCHANGED <<built, cfg, opts, applied>>
       ELSE /\ built' = built + 1
            /\ IF built' = shards
                 THEN phase' = "open" /\ cfg' = None /\ opts' = <<>> /\ applied' = 0
                 ELSE UNCHANGED <<phase, cfg, opts, applied>>
  /\ UNCHANGED <<capBytes, ttl, shards, indexVars, lenVars>>

-----------------------------------------------------------------------------
\* Bug: strings are hashed where they lie.
BugHashed(k) == k.memory

(* What the hash of a key is computed from: the characters of a string or, *)
(* for keys of other types, the bytes of their memory.  (A []byte has no   *)
(* comparison and is left out.)                                            *)
Hashed(k) == IF k.kind = "other" THEN k.memory ELSE k.content

(* Every shard has a seed of its own.                                      *)
hash(i, k) == Hash[i][Hashed(k)]

(* The shard of a key is chosen with the seed of the first shard.          *)
shardIndex(k) == hash(0, k) % shards

Colliding(i, k) == {j \in index[i] : hash(i, j) = hash(i, k)}

found(k) == \E j \in Colliding(shardIndex(k), k) : j.content = k.content

(* The Put of a key, if its shard has not been closed: then it panics.     *)
Put(k) ==
  LET i == shardIndex(k)
  IN  /\ phase = "open"
      /\ i >= closed
      /\ index' = IF found(k) THEN index
                  ELSE [index EXCEPT ![i] = (@ \ Colliding(i, k)) \cup {k}]
      /\ stored' = stored \cup {k}
      /\ UNCHANGED <<newVars, closed, lenVars>>

(* The entries of all shards.                                              *)
Held == {e \in (0 .. shards - 1) \X Keys : e[2] \in index[e[1]]}

Count == Cardinality(Held)

LenCall(c) ==
  /\ phase = "open" /\ next[c] = None
  /\ next' = [next EXCEPT ![c] = 0]
  /\ total' = [total EXCEPT ![c] = 0]
  /\ atCall' = [atCall EXCEPT ![c] = Count]
  /\ UNCHANGED <<newVars, indexVars>>

\* Bug: the total starts with the second shard.
BugLenShard(c) ==
  /\ next[c] # None
  /\ total' = [total EXCEPT ![c] = IF next[c] = 0 THEN 0 ELSE @ + Cardinality(index[next[c]])]
  /\ next' = [next EXCEPT ![c] = IF @ = shards - 1 THEN None ELSE @ + 1]
  /\ UNCHANGED <<newVars, indexVars, atCall>>

\* Bug: the loop goes one shard too far.
BugLenPast(c) ==
  /\ next[c] # None
  /\ total' = [total EXCEPT ![c] = @ + Cardinality(index[next[c]])]
  /\ next' = [next EXCEPT ![c] = IF @ = shards THEN None ELSE @ + 1]
  /\ UNCHANGED <<newVars, indexVars, atCall>>

(* One turn of Len's loop.                                                 *)
LenShard(c) ==
  /\ next[c] # None
  /\ total' = [total EXCEPT ![c] = @ + Cardinality(index[next[c]])]
  /\ next' = [next EXCEPT ![c] = IF @ = shards - 1 THEN None ELSE @ + 1]
  /\ UNCHANGED <<newVars, indexVars, atCall>>

(* One turn of Close's loop: the index is gone, and Len counts nothing.    *)
Close ==
  /\ MayClose /\ phase = "open" /\ closed < shards
  /\ index' = [index EXCEPT ![closed] = {}]
  /\ closed' = closed + 1
  /\ UNCHANGED <<newVars, stored, lenVars>>

Next ==
  \/ Validate \/ ApplyOption \/ EndOptions \/ Build \/ Close
  \/ \E k \in Keys : Put(k)
  \/ \E c \in Callers : LenCall(c) \/ LenShard(c)

Spec == Init /\ [][Next]_vars
-----------------------------------------------------------------------------
TypeOK ==
  /\ capBytes \in Caps /\ ttl \in Ttls /\ shards \in ShardCounts
  /\ opts \in OptionLists \cup {<<>>}
  /\ phase \in {"validate", "options", "refused", "build", "panicked", "open"}
  /\ applied \in 0 .. Len(opts)
  /\ built \in 0 .. shards
  /\ index \in [0 .. shards - 1 -> SUBSET Keys]
  /\ stored \in SUBSET Keys
  /\ closed \in 0 .. shards
  /\ next \in [Callers -> 0 .. shards - 1 \cup {None}]
  /\ total \in [Callers -> 0 .. Cardinality(Keys)]

(* New builds a cache only from a positive capacity and TTL and a power of *)
(* two of shards, and refuses nothing else (cache.go:276-284): the test    *)
(* n & (n - 1) means what the message says for every uint8.                *)
AcceptsTheValid ==
  LET valid == /\ capBytes > 0 /\ ttl > 0
               /\ \E e \in 0 .. 7 : shards = 2 ^ e
  IN  /\ phase = "refused" => ~valid
      /\ phase \in {"build", "open"} => valid

(* Whatever options are given, in whatever order and how often (config.go: *)
(* 113-147, 177-181): of several the last one counts, a nil registry       *)
(* "disables metrics", a nil logger or weight function never reaches the   *)
(* shards, and four rotation steps fit into a TTL of four milliseconds.    *)
OptionsHonoured ==
  LET given(f, vals) == {i \in DOMAIN opts : opts[i].field = f /\ opts[i].value \in vals}
      all == {opts[i].value : i \in DOMAIN opts}
      last(f, vals, none) ==
        IF given(f, vals) = {} THEN none ELSE opts[Max(given(f, vals))].value
  IN  phase = "build" =>
        /\ cfg.registry = last("registry", all, None)
        /\ cfg.ejectCb = last("ejectCb", all, None)
        /\ cfg.logger = last("logger", all \ {None}, "nop")
        /\ cfg.weightFn = last("weightFn", all \ {None}, "size")
        /\ cfg.rotationStep >= Millisecond
        /\ ttl >= 4 * Millisecond => ttl - 4 * cfg.rotationStep \in 0 .. 3

(* The shards of a cache together have no more than the capacity that was  *)
(* asked for, and less than a byte per shard is lost (cache.go:299).       *)
CapacityIsShared ==
  phase = "open" =>
    /\ built * ShardCap <= capBytes
    /\ capBytes - built * ShardCap < shards

(* What has been put is found, by anybody who has an equal key, until a    *)
(* key with the same hash displaces it or Close begins, though each shard  *)
(* hashes with its own seed and the first one's chooses the shard          *)
(* (cache.go:112-130, 305-338).  For keys that are not strings the equal   *)
(* key must lie in memory as the one that was put does (cache.go:124).     *)
PutIsFound ==
  LET same(j, k) == /\ j.kind = k.kind /\ j.content = k.content
                    /\ j.kind = "other" => j.memory = k.memory
      displaces(d, k) == /\ d.content # k.content
                         /\ shardIndex(d) = shardIndex(k)
                         /\ hash(shardIndex(k), d) = hash(shardIndex(k), k)
  IN  closed = 0 =>
        \A k \in stored, j \in Keys :
          same(j, k) => found(j) \/ \E d \in stored : displaces(d, k)

(* Len is not a snapshot, but it returns a number between that of the keys *)
(* in the cache when it was called and when it returns (cache.go:318-324), *)
(* unless Close has begun: no index shrinks.                               *)
LenIsBetween ==
  [][\A c \in Callers : next[c] # None /\ next'[c] = None /\ closed = 0 =>
       atCall[c] <= total'[c] /\ total'[c] <= Count]_vars
=============================================================================
