----------------------------- MODULE CacheProof -----------------------------
(***************************************************************************)
(* Proofs about Cache, for every capacity, TTL, number of shards, list of  *)
(* options, hash function and set of keys and callers.                     *)
(***************************************************************************)
EXTENDS Cache, FiniteSetTheorems, TLAPS

Fields0 == {"registry", "logger", "weightFn", "ejectCb", "rotationStep"}

(* A cache that is being built has passed the checks.                      *)
BuildInv ==
  /\ phase \in {"options", "build", "panicked", "open"} => ~Refused
  /\ phase = "refused" => Refused
  /\ phase = "validate" => applied = 0
  /\ phase \in {"validate", "options", "refused"} => built = 0
  /\ phase = "build" => built < shards
  /\ phase = "open" => built = shards
  /\ phase # "open" => closed = 0 /\ stored = {} /\ \A c \in Callers : next[c] = None

(* What the first n of the options make of field f: the last of them that  *)
(* is given and is not refused, or else the default.                       *)
Counts(f, i) ==
  opts[i].field = f /\ (f \in {"logger", "weightFn"} => opts[i].value # None)

Applied(f, n, v) ==
  \/ /\ v = defaultConfig[f]
     /\ \A i \in 1 .. n : ~Counts(f, i)
  \/ \E i \in 1 .. n :
       /\ Counts(f, i) /\ v = opts[i].value
       /\ \A j \in i + 1 .. n : ~Counts(f, j)

OptionsInv ==
  phase \in {"options", "build"} =>
    /\ cfg = [f \in Fields0 |-> cfg[f]]
    /\ \A f \in Fields : Applied(f, applied, cfg[f])
    /\ phase = "build" =>
         /\ applied = Len(opts)
         /\ cfg.rotationStep = Max({ttl \div 4, Millisecond})

(* A key lies in the shard of its hash, alone with its hash there.         *)
IndexInv ==
  \A i \in 0 .. shards - 1 :
    /\ \A k \in index[i] : shardIndex(k) = i
    /\ \A j, k \in index[i] : hash(i, j) = hash(i, k) => j = k

Displaces(d, k) ==
  /\ d.content # k.content
  /\ shardIndex(d) = shardIndex(k)
  /\ hash(shardIndex(k), d) = hash(shardIndex(k), k)

FoundOrDisplaced ==
  closed = 0 => \A k \in stored : found(k) \/ \E d \in stored : Displaces(d, k)

(* The keys of the first n shards, and the entries of the shards in Q.     *)
KeysBelow(n) == {k \in Keys : shardIndex(k) < n}

HeldIn(Q) == {e \in Held : e[1] \in Q}

LenInv ==
  \A c \in Callers :
    next[c] # None =>
      /\ total[c] <= Cardinality(KeysBelow(next[c]))
      /\ closed = 0 =>
           /\ total[c] <= Cardinality(HeldIn(0 .. next[c] - 1))
           /\ atCall[c] <= total[c] + Cardinality(HeldIn(next[c] .. shards - 1))

IInv ==
  /\ TypeOK /\ BuildInv /\ OptionsInv /\ IndexInv /\ FoundOrDisplaced
  /\ atCall \in [Callers -> Nat] /\ LenInv

-----------------------------------------------------------------------------
(* What CacheAssumption says of the arguments of New.                      *)
LEMMA ConstantTypes ==
  /\ Caps \subseteq Int /\ Ttls \subseteq Int /\ ShardCounts \subseteq 0 .. 255
  /\ Millisecond \in Nat \ {0} /\ None \notin Nat
  BY CacheAssumption

LEMMA ArgumentTypes ==
  ASSUME TypeOK
  PROVE  capBytes \in Int /\ ttl \in Int /\ shards \in 0 .. 255
  <1>1. capBytes \in Caps /\ ttl \in Ttls /\ shards \in ShardCounts
    BY DEF TypeOK
  <1> QED
    BY <1>1, ConstantTypes

LEMMA OptionListTypes ==
  ASSUME NEW o \in OptionLists
  PROVE  /\ Len(o) \in Nat /\ DOMAIN o = 1 .. Len(o)
         /\ \A i \in DOMAIN o : o[i].field \in Fields
  BY CacheAssumption

(* n & (n - 1) tells the powers of two among the values of a uint8.        *)
LEMMA PowerOfTwoLemma ==
  ASSUME NEW n \in 0 .. 255
  PROVE  IsPowerOfTwo(n) <=> \E e \in 0 .. 7 : n = 2 ^ e
  <1> DEFINE Powers == {1, 2, 4, 8, 16, 32, 64, 128}
             Clash(d) == (n \div d) % 2 = 1 /\ ((n - 1) \div d) % 2 = 1
  <1>1. /\ 2 ^ 0 = 1 /\ 2 ^ 1 = 2 /\ 2 ^ 2 = 4 /\ 2 ^ 3 = 8
        /\ 2 ^ 4 = 16 /\ 2 ^ 5 = 32 /\ 2 ^ 6 = 64 /\ 2 ^ 7 = 128
    OBVIOUS
  <1>2. 0 .. 7 = {0, 1, 2, 3, 4, 5, 6, 7}
    OBVIOUS
  <1>3. (\E e \in 0 .. 7 : n = 2 ^ e) <=> n \in Powers
    BY <1>1, <1>2
  <1>4. Bits(n) \cap Bits(n - 1) = {} <=> \A d \in Powers : ~Clash(d)
    <2>1. Bits(n) \cap Bits(n - 1) = {b \in 0 .. 7 : Clash(2 ^ b)}
      BY DEF Bits
    <2> HIDE DEF Clash
    <2>2. (\E b \in 0 .. 7 : Clash(2 ^ b)) <=> \E d \in Powers : Clash(d)
      BY <1>1, <1>2
    <2> QED
      BY <2>1, <2>2
  <1>5. n # 0 => ((\A d \in Powers : ~Clash(d)) <=> n \in Powers)
    <2>1. n \in 1 .. 255 /\ (\A d \in Powers : ~Clash(d)) => n \in Powers
      OBVIOUS
    <2>2. n \in Powers => \A d \in Powers : ~Clash(d)
      OBVIOUS
    <2> QED
      BY <2>1, <2>2
  <1>6. n = 0 => n \notin Powers
    OBVIOUS
  <1> HIDE DEF Powers, Clash
  <1> QED
    BY <1>3, <1>4, <1>5, <1>6 DEF IsPowerOfTwo

LEMMA InitIInv == Init => IInv
  <1> SUFFICES ASSUME Init PROVE IInv
    OBVIOUS
  <1>1. shards \in 0 .. 255 /\ Len(opts) \in Nat
    BY CacheAssumption DEF Init
  <1>2. TypeOK
    <2>1. Cardinality(Keys) \in Nat
      BY CacheAssumption, FS_CardinalityType
    <2>2. applied \in 0 .. Len(opts) /\ built \in 0 .. shards /\ closed \in 0 .. shards
      BY <1>1 DEF Init
    <2>3. /\ index \in [0 .. shards - 1 -> SUBSET Keys]
          /\ next \in [Callers -> 0 .. shards - 1 \cup {None}]
          /\ total \in [Callers -> 0 .. Cardinality(Keys)]
      BY <2>1 DEF Init
    <2> QED
      BY <2>2, <2>3 DEF Init, TypeOK
  <1>3. BuildInv /\ OptionsInv /\ IndexInv /\ FoundOrDisplaced /\ LenInv
    BY DEF Init, BuildInv, OptionsInv, IndexInv, FoundOrDisplaced, LenInv
  <1>4. atCall \in [Callers -> Nat]
    BY DEF Init
  <1> QED
    BY <1>2, <1>3, <1>4 DEF IInv

-----------------------------------------------------------------------------
(* The steps of New touch neither an index nor a Len.                      *)
LEMMA NewKeepsRest ==
  ASSUME IInv, phase # "open", UNCHANGED <<shards, indexVars, lenVars>>
  PROVE  /\ IndexInv' /\ FoundOrDisplaced'
         /\ atCall' \in [Callers -> Nat] /\ LenInv'
  <1>1. closed = 0 /\ stored = {} /\ \A c \in Callers : next[c] = None
    BY DEF IInv, BuildInv
  <1> QED
    BY <1>1 DEF IInv, IndexInv, FoundOrDisplaced, LenInv, indexVars, lenVars,
                shardIndex

LEMMA ValidateKeepsIInv ==
  ASSUME IInv, Validate
  PROVE  IInv'
  <1>1. /\ phase = "validate"
        /\ UNCHANGED <<capBytes, ttl, shards, opts, applied, built, indexVars, lenVars>>
        /\ Refused' <=> Refused
    BY DEF Validate, Refused
  <1>2. TypeOK' /\ BuildInv'
    BY <1>1 DEF Validate, IInv, TypeOK, BuildInv, indexVars, lenVars
  <1>3. OptionsInv'
    <2> SUFFICES ASSUME phase' = "options" PROVE OptionsInv'
      BY <1>1 DEF Validate, OptionsInv
    <2>1. cfg' = defaultConfig /\ applied' = 0 /\ opts' = opts
      BY <1>1 DEF Validate, IInv, BuildInv
    <2>2. /\ cfg' = [f \in Fields0 |-> cfg'[f]]
          /\ \A f \in Fields : Applied(f, applied, cfg[f])'
      BY <2>1 DEF defaultConfig, Fields, Fields0, Applied
    <2> QED
      BY <2>2 DEF OptionsInv
  <1> QED
    BY <1>1, <1>2, <1>3, NewKeepsRest DEF IInv

(* One option more: it counts, or the field stays as it is.                *)
LEMMA AppliedStep ==
  ASSUME NEW f, NEW n \in Nat, NEW v, Applied(f, n, v)
  PROVE  /\ Counts(f, n + 1) => Applied(f, n + 1, opts[n + 1].value)
         /\ ~Counts(f, n + 1) => Applied(f, n + 1, v)
  <1> HIDE DEF Counts
  <1>1. /\ n + 1 \in 1 .. n + 1 /\ (n + 1) + 1 .. n + 1 = {}
        /\ 1 .. n + 1 = 1 .. n \cup {n + 1}
        /\ \A i \in 1 .. n : i + 1 .. n + 1 = (i + 1 .. n) \cup {n + 1}
    OBVIOUS
  <1>2. Counts(f, n + 1) => Applied(f, n + 1, opts[n + 1].value)
    BY <1>1 DEF Applied
  <1>3. ASSUME ~Counts(f, n + 1) PROVE Applied(f, n + 1, v)
    <2>1. CASE v = defaultConfig[f] /\ \A i \in 1 .. n : ~Counts(f, i)
      BY <1>1, <1>3, <2>1 DEF Applied
    <2>2. CASE \E i \in 1 .. n :
                 /\ Counts(f, i) /\ v = opts[i].value
                 /\ \A j \in i + 1 .. n : ~Counts(f, j)
      <3>1. PICK i \in 1 .. n : /\ Counts(f, i) /\ v = opts[i].value
                                /\ \A j \in i + 1 .. n : ~Counts(f, j)
        BY <2>2
      <3>2. i \in 1 .. n + 1 /\ \A j \in i + 1 .. n + 1 : ~Counts(f, j)
        BY <1>1, <1>3, <3>1
      <3> QED
        BY <3>1, <3>2 DEF Applied
    <2> QED
      BY <2>1, <2>2 DEF Applied
  <1> QED
    BY <1>2, <1>3

LEMMA ApplyOptionKeepsIInv ==
  ASSUME IInv, ApplyOption
  PROVE  IInv'
  <1>1. /\ phase = "options" /\ applied \in Nat /\ applied < Len(opts)
        /\ applied' = applied + 1
        /\ UNCHANGED <<capBytes, ttl, shards, opts, phase, built, indexVars, lenVars>>
        /\ Refused' <=> Refused
    BY DEF ApplyOption, IInv, TypeOK, Refused
  <1>2. Len(opts) \in Nat /\ applied + 1 \in 1 .. Len(opts)
        /\ opts[applied + 1].field \in Fields
    <2>1. opts \in OptionLists \/ opts = <<>>
      BY DEF IInv, TypeOK
    <2>2. opts # <<>>
      BY <1>1
    <2>3. opts \in OptionLists
      BY <2>1, <2>2
    <2>4. Len(opts) \in Nat /\ DOMAIN opts = 1 .. Len(opts)
      BY <2>3, OptionListTypes
    <2>5. applied + 1 \in 1 .. Len(opts)
      BY <1>1, <2>4
    <2> QED
      BY <2>3, <2>4, <2>5, OptionListTypes
  <1>3. TypeOK' /\ BuildInv'
    BY <1>1, <1>2 DEF IInv, TypeOK, BuildInv, indexVars, lenVars
  <1>4. OptionsInv'
    <2> DEFINE o == opts[applied + 1]
    <2>1. /\ cfg = [f \in Fields0 |-> cfg[f]]
          /\ \A f \in Fields : Applied(f, applied, cfg[f])
      BY <1>1 DEF IInv, OptionsInv
    <2>2. /\ cfg' = [f \in Fields0 |-> cfg'[f]]
          /\ \A f \in Fields :
               cfg'[f] = IF Counts(f, applied + 1) THEN o.value ELSE cfg[f]
      <3> HIDE DEF o
      <3>1. cfg' = IF o.value = None /\ o.field \in {"logger", "weightFn"}
                     THEN cfg ELSE [cfg EXCEPT ![o.field] = o.value]
        BY DEF ApplyOption, With, o
      <3>2. \A f \in Fields : Counts(f, applied + 1) <=>
              o.field = f /\ (f \in {"logger", "weightFn"} => o.value # None)
        BY DEF Counts, o
      <3>3. o.field \in Fields /\ Fields \subseteq Fields0
        BY <1>2 DEF o, Fields, Fields0
      <3> QED
        BY <2>1, <3>1, <3>2, <3>3
    <2>3. \A f \in Fields : Applied(f, applied + 1, cfg'[f])
      <3> TAKE f \in Fields
      <3>1. Applied(f, applied, cfg[f])
        BY <2>1
      <3> QED
        BY <1>1, <2>2, <3>1, AppliedStep
    <2>4. \A f \in Fields : Applied(f, applied, cfg[f])'
      BY <1>1, <2>3 DEF Applied, Counts, defaultConfig
    <2> QED
      BY <1>1, <2>2, <2>4 DEF OptionsInv
  <1> QED
    BY <1>1, <1>3, <1>4, NewKeepsRest DEF IInv

LEMMA EndOptionsKeepsIInv ==
  ASSUME IInv, EndOptions
  PROVE  IInv'
  <1>1. /\ phase = "options" /\ applied = Len(opts) /\ ~Refused
        /\ phase' = "build"
        /\ cfg' = [cfg EXCEPT !.rotationStep = Max({ttl \div 4, Millisecond})]
        /\ UNCHANGED <<capBytes, ttl, shards, opts, applied, built, indexVars, lenVars>>
        /\ Refused' <=> Refused
    BY DEF EndOptions, IInv, BuildInv, Refused
  <1>2. shards \in Nat /\ shards > 0 /\ built = 0
    <2>1. shards \in 0 .. 255 /\ built = 0
      BY <1>1, ArgumentTypes DEF IInv, BuildInv
    <2>2. shards # 0
      BY <1>1 DEF Refused, IsPowerOfTwo
    <2> QED
      BY <2>1, <2>2
  <1>3. TypeOK' /\ BuildInv'
    BY <1>1, <1>2 DEF IInv, TypeOK, BuildInv, indexVars, lenVars
  <1>4. OptionsInv'
    <2>1. /\ cfg = [f \in Fields0 |-> cfg[f]]
          /\ \A f \in Fields : Applied(f, applied, cfg[f])
      BY <1>1 DEF IInv, OptionsInv
    <2>2. /\ cfg' = [f \in Fields0 |-> cfg'[f]]
          /\ \A f \in Fields : cfg'[f] = cfg[f]
          /\ cfg'.rotationStep = Max({ttl \div 4, Millisecond})
      BY <1>1, <2>1 DEF Fields0, Fields
    <2>3. \A f \in Fields : Applied(f, applied, cfg[f])'
      <3>1. \A f \in Fields : Applied(f, applied, cfg'[f])
        BY <2>1, <2>2
      <3>2. opts' = opts /\ applied' = applied
        BY <1>1
      <3> QED
        BY <3>1, <3>2 DEF Applied, Counts, defaultConfig
    <2> QED
      BY <1>1, <2>2, <2>3 DEF OptionsInv
  <1> QED
    BY <1>1, <1>3, <1>4, NewKeepsRest DEF IInv

LEMMA BuildKeepsIInv ==
  ASSUME IInv, Build
  PROVE  IInv'
  <1>1. /\ phase = "build" /\ built < shards /\ shards \in Nat /\ built \in Nat
        /\ UNCHANGED <<capBytes, ttl, shards, indexVars, lenVars>>
        /\ phase' \in {"build", "panicked", "open"}
        /\ Refused' <=> Refused
    <2>1. shards \in 0 .. 255 /\ built \in 0 .. shards
      BY ArgumentTypes DEF IInv, TypeOK
    <2>2. phase = "build" /\ built < shards
      BY DEF Build, IInv, BuildInv
    <2> QED
      BY <2>1, <2>2 DEF Build, Refused
  <1>2. /\ phase' # "panicked" => built' = built + 1
        /\ phase' = "panicked" => built' = built
        /\ phase' = "open" <=> built' = shards
        /\ phase' # "open" => UNCHANGED <<cfg, opts, applied>>
        /\ phase' = "open" => opts' = <<>> /\ applied' = 0
    BY <1>1 DEF Build
  <1>3. TypeOK'
    <2>1. applied' \in 0 .. Len(opts') /\ opts' \in OptionLists \cup {<<>>}
      <3>1. CASE phase' = "open"
        <4>1. opts' = <<>> /\ applied' = 0 /\ Len(<<>>) = 0
          BY <1>2, <3>1
        <4> QED
          BY <4>1
      <3>2. CASE phase' # "open"
        BY <1>2, <3>2 DEF IInv, TypeOK
      <3> QED
        BY <3>1, <3>2
    <2> QED
      BY <1>1, <1>2, <2>1 DEF IInv, TypeOK, indexVars, lenVars
  <1>4. BuildInv'
    BY <1>1, <1>2 DEF IInv, BuildInv, indexVars, lenVars
  <1>5. OptionsInv'
    <2> SUFFICES ASSUME phase' = "build" PROVE OptionsInv'
      BY <1>1 DEF OptionsInv
    <2> QED
      BY <1>1, <1>2
      DEF IInv, OptionsInv, Applied, Counts, defaultConfig
  <1> QED
    BY <1>1, <1>3, <1>4, <1>5, NewKeepsRest DEF IInv

-----------------------------------------------------------------------------
(* An open cache has a shard for every key.                                *)
LEMMA OpenLemma ==
  ASSUME TypeOK, BuildInv, phase = "open"
  PROVE  /\ shards \in 1 .. 255
         /\ \A k \in Keys : shardIndex(k) \in 0 .. shards - 1
         /\ DOMAIN index = 0 .. shards - 1
  <1>1. shards \in 0 .. 255 /\ shards # 0
    <2>1. shards # 0
      BY DEF BuildInv, Refused, IsPowerOfTwo
    <2> QED
      BY <2>1, ArgumentTypes
  <1>2. ASSUME NEW k \in Keys PROVE hash(0, k) \in Nat
    <2>1. Hash[0][k.content] \in Nat /\ Hash[0][k.memory] \in Nat
      <3>1. 0 \in 0 .. 255
        OBVIOUS
      <3> QED
        BY <3>1, CacheAssumption
    <2>2. Hashed(k) = k.content \/ Hashed(k) = k.memory
      BY DEF Hashed
    <2> QED
      BY <2>1, <2>2 DEF hash
  <1>3. \A h \in Nat : h % shards \in 0 .. shards - 1
    BY <1>1
  <1>4. \A k \in Keys : shardIndex(k) \in 0 .. shards - 1
    BY <1>2, <1>3 DEF shardIndex
  <1>5. DOMAIN index = 0 .. shards - 1
    BY DEF TypeOK
  <1> QED
    BY <1>1, <1>4, <1>5

(* It has a positive number of shards.                                     *)
LEMMA OpenShards ==
  ASSUME IInv, phase = "open"
  PROVE  shards \in Nat /\ shards > 0
  <1>1. shards \in 1 .. 255
    BY OpenLemma DEF IInv
  <1> QED
    BY <1>1

LEMMA HeldFinite ==
  ASSUME TypeOK, NEW Q
  PROVE  IsFiniteSet(HeldIn(Q)) /\ Cardinality(HeldIn(Q)) \in Nat
  <1>0. shards \in Int /\ shards - 1 \in Int
    BY ArgumentTypes
  <1>1. IsFiniteSet(0 .. shards - 1)
    BY <1>0, FS_Interval
  <1>2. IsFiniteSet((0 .. shards - 1) \X Keys)
    BY <1>1, CacheAssumption, FS_Product
  <1>3. HeldIn(Q) \subseteq (0 .. shards - 1) \X Keys
    BY DEF HeldIn, Held
  <1> QED
    BY <1>2, <1>3, FS_Subset, FS_CardinalityType

LEMMA KeysFinite ==
  ASSUME NEW n
  PROVE  /\ IsFiniteSet(KeysBelow(n)) /\ Cardinality(KeysBelow(n)) \in Nat
         /\ Cardinality(KeysBelow(n)) <= Cardinality(Keys)
  <1>1. KeysBelow(n) \subseteq Keys
    BY DEF KeysBelow
  <1> QED
    BY <1>1, CacheAssumption, FS_Subset, FS_CardinalityType

(* The new contents of a finite set that has lost at most one element and  *)
(* won another.                                                            *)
LEMMA SwapLemma ==
  ASSUME NEW S, IsFiniteSet(S), NEW C, NEW x, x \notin S,
         \A a, b \in S \cap C : a = b
  PROVE  Cardinality(S) <= Cardinality((S \ C) \cup {x})
  <1>1. IsFiniteSet(S \ C) /\ Cardinality(S \ C) = Cardinality(S) - Cardinality(S \cap C)
    BY FS_Difference
  <1>2. Cardinality((S \ C) \cup {x}) = Cardinality(S \ C) + 1
    BY <1>1, FS_AddElement
  <1>3. Cardinality(S \cap C) \in Nat /\ Cardinality(S \cap C) <= 1
    <2>1. CASE S \cap C = {}
      <3>1. Cardinality({}) = 0
        BY FS_EmptySet
      <3> QED
        BY <2>1, <3>1
    <2>2. CASE S \cap C # {}
      <3>1. PICK a : S \cap C = {a}
        BY <2>2
      <3>2. Cardinality({a}) = 1
        BY FS_Singleton
      <3> QED
        BY <3>1, <3>2
    <2> QED
      BY <2>1, <2>2
  <1>4. Cardinality(S) \in Nat
    BY FS_CardinalityType
  <1> QED
    BY <1>1, <1>2, <1>3, <1>4

(* A Put never makes a shard, or a set of shards, hold fewer entries.      *)
LEMMA PutGrows ==
  ASSUME IInv, NEW k \in Keys, Put(k), NEW Q
  PROVE  Cardinality(HeldIn(Q)) <= Cardinality(HeldIn(Q)')
  <1> DEFINE i == shardIndex(k)
  <1>1. /\ shards' = shards /\ i \in 0 .. shards - 1 /\ DOMAIN index = 0 .. shards - 1
    BY OpenLemma DEF Put, IInv, newVars
  <1>2. IsFiniteSet(HeldIn(Q)) /\ Cardinality(HeldIn(Q)) \in Nat
    BY HeldFinite DEF IInv
  <1>3. CASE found(k)
    <2>1. HeldIn(Q)' = HeldIn(Q)
      BY <1>1, <1>3 DEF Put, HeldIn, Held
    <2> QED
      BY <1>2, <2>1
  <1>4. CASE ~found(k)
    <2>1. /\ index' = [index EXCEPT ![i] = (@ \ Colliding(i, k)) \cup {k}]
          /\ k \notin index[i]
      BY <1>4 DEF Put, found, Colliding
    <2> DEFINE x == <<i, k>>
               C == {<<i, m>> : m \in Colliding(i, k)}
    <2>2. Held' = (Held \ C) \cup {x} /\ x \notin Held
      <3>1. ASSUME NEW a \in 0 .. shards - 1, NEW m \in Keys
            PROVE  m \in index'[a] <=>
                     (m \in index[a] /\ ~(a = i /\ m \in Colliding(i, k)))
                       \/ (a = i /\ m = k)
        BY <1>1, <2>1
      <3>2. \A a \in 0 .. shards - 1, m \in Keys :
              <<a, m>> \in C <=> a = i /\ m \in Colliding(i, k)
        OBVIOUS
      <3> HIDE DEF C, i
      <3> QED
        BY <1>1, <2>1, <3>1, <3>2 DEF Held
    <2>3. \A a, b \in Held \cap C : a = b
      BY <1>1 DEF IInv, IndexInv, Colliding, Held
    <2> HIDE DEF x, C
    <2>4. CASE x[1] \in Q
      <3>1. HeldIn(Q)' = (HeldIn(Q) \ C) \cup {x}
        BY <2>2, <2>4 DEF HeldIn
      <3>2. x \notin HeldIn(Q) /\ \A a, b \in HeldIn(Q) \cap C : a = b
        BY <2>2, <2>3 DEF HeldIn
      <3> QED
        BY <1>2, <3>1, <3>2, SwapLemma
    <2>5. CASE x[1] \notin Q
      <3>1. \A a \in C : a[1] = x[1]
        BY DEF C, x
      <3>2. HeldIn(Q)' = HeldIn(Q)
        BY <2>2, <2>5, <3>1 DEF HeldIn
      <3> QED
        BY <1>2, <3>2
    <2> QED
      BY <2>4, <2>5
  <1> QED
    BY <1>3, <1>4

(* The entries of a Len's two parts, after a Put.                          *)
LEMMA PutKeepsLenInv ==
  ASSUME IInv, NEW k \in Keys, Put(k)
  PROVE  LenInv'
  <1>1. UNCHANGED <<shards, next, total, atCall, closed>>
    BY DEF Put, newVars, lenVars
  <1>2. \A Q : /\ Cardinality(HeldIn(Q)) <= Cardinality({e \in Held' : e[1] \in Q})
               /\ Cardinality(HeldIn(Q)) \in Nat
               /\ Cardinality({e \in Held' : e[1] \in Q}) \in Nat
    <2> TAKE Q
    <2>1. HeldIn(Q)' = {e \in Held' : e[1] \in Q}
      BY DEF HeldIn
    <2>2. HeldIn(Q)' \subseteq (0 .. shards - 1) \X Keys
      BY <1>1, <2>1 DEF Held
    <2>3. IsFiniteSet((0 .. shards - 1) \X Keys)
      <3>1. IsFiniteSet(0 .. shards - 1)
        BY OpenShards, FS_Interval DEF Put
      <3> QED
        BY <3>1, CacheAssumption, FS_Product
    <2>4. Cardinality(HeldIn(Q)') \in Nat
      BY <2>2, <2>3, FS_Subset, FS_CardinalityType
    <2>5. Cardinality(HeldIn(Q)) <= Cardinality(HeldIn(Q)')
      BY PutGrows
    <2>6. Cardinality(HeldIn(Q)) \in Nat
      BY HeldFinite DEF IInv
    <2> QED
      BY <2>1, <2>4, <2>5, <2>6
  <1>3. \A n : KeysBelow(n)' = KeysBelow(n)
    BY <1>1 DEF KeysBelow, shardIndex
  <1> SUFFICES ASSUME NEW c \in Callers, next[c] # None
               PROVE  /\ total[c] <= Cardinality(KeysBelow(next[c]))
                      /\ closed = 0 =>
                           /\ total[c] <= Cardinality({e \in Held' : e[1] \in 0 .. next[c] - 1})
                           /\ atCall[c] <= total[c]
                                + Cardinality({e \in Held' : e[1] \in next[c] .. shards - 1})
    BY <1>1, <1>3 DEF LenInv, HeldIn, KeysBelow, shardIndex
  <1>4. total[c] \in Nat /\ atCall[c] \in Nat
    <2>1. Cardinality(Keys) \in Nat
      BY CacheAssumption, FS_CardinalityType
    <2> QED
      BY <2>1 DEF IInv, TypeOK
  <1>5. /\ total[c] <= Cardinality(KeysBelow(next[c]))
        /\ closed = 0 =>
             /\ total[c] <= Cardinality(HeldIn(0 .. next[c] - 1))
             /\ atCall[c] <= total[c] + Cardinality(HeldIn(next[c] .. shards - 1))
    BY DEF IInv, LenInv
  <1> DEFINE P == 0 .. next[c] - 1
             Q == next[c] .. shards - 1
             After(R) == {e \in Held' : e[1] \in R}
  <1> HIDE DEF P, Q, After
  <1>6. /\ total[c] <= Cardinality(KeysBelow(next[c]))
        /\ closed = 0 => /\ total[c] <= Cardinality(HeldIn(P))
                         /\ atCall[c] <= total[c] + Cardinality(HeldIn(Q))
    BY <1>5 DEF P, Q
  <1>7. \A R : /\ Cardinality(HeldIn(R)) <= Cardinality(After(R))
               /\ Cardinality(HeldIn(R)) \in Nat /\ Cardinality(After(R)) \in Nat
    BY <1>2 DEF After
  <1>8. /\ total[c] <= Cardinality(KeysBelow(next[c]))
        /\ closed = 0 => /\ total[c] <= Cardinality(After(P))
                         /\ atCall[c] <= total[c] + Cardinality(After(Q))
    BY <1>4, <1>6, <1>7
  <1> QED
    BY <1>8 DEF P, Q, After

LEMMA PutKeepsIInv ==
  ASSUME IInv, NEW k \in Keys, Put(k)
  PROVE  IInv'
  <1> DEFINE i == shardIndex(k)
  <1>1. /\ phase = "open" /\ UNCHANGED newVars /\ UNCHANGED lenVars
        /\ closed' = closed /\ stored' = stored \cup {k}
        /\ i \in 0 .. shards - 1 /\ DOMAIN index = 0 .. shards - 1
        /\ \A m : shardIndex(m)' = shardIndex(m)
        /\ index' = IF found(k) THEN index
                    ELSE [index EXCEPT ![i] = (@ \ Colliding(i, k)) \cup {k}]
    BY OpenLemma DEF Put, IInv, newVars, shardIndex
  <1>2. TypeOK' /\ BuildInv' /\ OptionsInv' /\ atCall' \in [Callers -> Nat]
    BY <1>1 DEF IInv, TypeOK, BuildInv, OptionsInv, Refused, newVars, lenVars
  <1>3. IndexInv'
    <2>1. CASE found(k)
      BY <1>1, <2>1 DEF IInv, IndexInv, newVars
    <2>2. CASE ~found(k)
      <3> SUFFICES ASSUME NEW a \in 0 .. shards - 1
                   PROVE  /\ \A m \in index'[a] : shardIndex(m) = a
                          /\ \A j, m \in index'[a] : hash(a, j) = hash(a, m) => j = m
        BY <1>1 DEF IndexInv, newVars
      <3>1. /\ \A m \in index[a] : shardIndex(m) = a
            /\ \A j, m \in index[a] : hash(a, j) = hash(a, m) => j = m
        BY DEF IInv, IndexInv
      <3>2. CASE a # i
        BY <1>1, <2>2, <3>1, <3>2
      <3>3. CASE a = i
        <4>1. index'[a] = (index[a] \ Colliding(a, k)) \cup {k}
          BY <1>1, <2>2, <3>3
        <4> QED
          BY <3>1, <3>3, <4>1 DEF Colliding
      <3> QED
        BY <3>2, <3>3
    <2> QED
      BY <2>1, <2>2
  <1>4. FoundOrDisplaced'
    <2> SUFFICES ASSUME closed = 0, NEW m \in stored'
                 PROVE  found(m)' \/ \E d \in stored' : Displaces(d, m)'
      BY <1>1 DEF FoundOrDisplaced
    <2>1. /\ \A d : Displaces(d, m)' <=> Displaces(d, m)
          /\ found(m)' <=> \E j \in index'[shardIndex(m)] :
               hash(shardIndex(m), j) = hash(shardIndex(m), m) /\ j.content = m.content
          /\ found(m) <=> \E j \in index[shardIndex(m)] :
               hash(shardIndex(m), j) = hash(shardIndex(m), m) /\ j.content = m.content
          /\ m \in Keys
      BY <1>1 DEF Displaces, found, Colliding, IInv, TypeOK
    <2>2. CASE found(k)
      BY <1>1, <2>1, <2>2 DEF IInv, FoundOrDisplaced
    <2>3. CASE ~found(k) /\ m = k
      <3>1. k \in index'[i]
        BY <1>1, <2>3
      <3> QED
        BY <2>1, <2>3, <3>1
    <2>4. CASE ~found(k) /\ m # k
      <3>1. m \in stored
        BY <1>1, <2>4
      <3>2. CASE \E d \in stored : Displaces(d, m)
        BY <1>1, <2>1, <3>2
      <3>3. CASE found(m)
        <4>1. PICK j \in index[shardIndex(m)] :
                hash(shardIndex(m), j) = hash(shardIndex(m), m) /\ j.content = m.content
          BY <2>1, <3>3
        <4>2. CASE j \in index'[shardIndex(m)]
          BY <2>1, <4>1, <4>2
        <4>3. CASE j \notin index'[shardIndex(m)]
          <5>0. shardIndex(m) \in DOMAIN index
            BY <1>1, <2>1, OpenLemma DEF IInv
          <5>1. shardIndex(m) = i /\ j \in Colliding(i, k)
            BY <1>1, <2>4, <4>1, <4>3, <5>0
          <5>2. k.content # m.content
            BY <2>4, <4>1, <5>1 DEF found
          <5>3. hash(i, k) = hash(i, m)
            BY <4>1, <5>1 DEF Colliding
          <5>4. Displaces(k, m)
            BY <5>1, <5>2, <5>3 DEF Displaces
          <5> QED
            BY <1>1, <2>1, <5>4
        <4> QED
          BY <4>2, <4>3
      <3> QED
        BY <3>1, <3>2, <3>3 DEF IInv, FoundOrDisplaced
    <2> QED
      BY <2>2, <2>3, <2>4
  <1> QED
    BY <1>2, <1>3, <1>4, PutKeepsLenInv DEF IInv

LEMMA CloseKeepsIInv ==
  ASSUME IInv, Close
  PROVE  IInv'
  <1>1. /\ phase = "open" /\ UNCHANGED newVars /\ UNCHANGED lenVars
        /\ closed \in Nat /\ closed' = closed + 1 /\ closed < shards
        /\ stored' = stored /\ shards \in Nat
        /\ index' = [index EXCEPT ![closed] = {}]
        /\ \A m : shardIndex(m)' = shardIndex(m)
    <2>1. phase = "open" /\ closed < shards /\ closed \in 0 .. shards
      BY DEF Close, IInv, TypeOK
    <2>2. shards \in Nat
      BY <2>1, OpenShards
    <2> QED
      BY <2>1, <2>2 DEF Close, newVars, shardIndex
  <1>2. TypeOK' /\ BuildInv' /\ OptionsInv' /\ atCall' \in [Callers -> Nat]
    BY <1>1 DEF IInv, TypeOK, BuildInv, OptionsInv, Refused, newVars, lenVars
  <1>3. IndexInv'
    <2>1. shards' = shards /\ \A a \in 0 .. shards - 1 : index'[a] \subseteq index[a]
      BY <1>1 DEF newVars, IInv, TypeOK
    <2> QED
      BY <1>1, <2>1 DEF IInv, IndexInv
  <1>4. closed' # 0
    BY <1>1
  <1>5. FoundOrDisplaced'
    BY <1>4 DEF FoundOrDisplaced
  <1>6. LenInv'
    BY <1>1, <1>4 DEF IInv, LenInv, lenVars, KeysBelow
  <1> QED
    BY <1>2, <1>3, <1>5, <1>6 DEF IInv

-----------------------------------------------------------------------------
LEMMA LenCallKeepsIInv ==
  ASSUME IInv, NEW c \in Callers, LenCall(c)
  PROVE  IInv'
  <1>1. /\ phase = "open" /\ UNCHANGED newVars /\ UNCHANGED indexVars
        /\ next' = [next EXCEPT ![c] = 0]
        /\ total' = [total EXCEPT ![c] = 0]
        /\ atCall' = [atCall EXCEPT ![c] = Count]
    BY DEF LenCall
  <1>2. shards \in Nat /\ 0 \in 0 .. shards - 1
    BY <1>1, OpenShards
  <1>3. HeldIn(0 .. shards - 1) = Held /\ Count \in Nat
    <2>1. HeldIn(0 .. shards - 1) = Held
      BY DEF HeldIn, Held
    <2> QED
      BY <2>1, HeldFinite DEF Count, IInv
  <1>4. Cardinality(Keys) \in Nat
    BY CacheAssumption, FS_CardinalityType
  <1>5. TypeOK' /\ atCall' \in [Callers -> Nat]
    BY <1>1, <1>2, <1>3, <1>4 DEF IInv, TypeOK, newVars, indexVars
  <1>6. BuildInv' /\ OptionsInv' /\ IndexInv' /\ FoundOrDisplaced'
    BY <1>1 DEF IInv, BuildInv, OptionsInv, Refused, IndexInv, FoundOrDisplaced,
                newVars, indexVars, shardIndex, found, Colliding, Displaces
  <1>7. LenInv'
    <2>1. /\ \A Q : HeldIn(Q)' = HeldIn(Q)
          /\ \A n : KeysBelow(n)' = KeysBelow(n)
          /\ shards' = shards /\ closed' = closed
      BY <1>1 DEF HeldIn, Held, KeysBelow, shardIndex, newVars, indexVars
    <2> SUFFICES ASSUME NEW b \in Callers, next'[b] # None
                 PROVE  /\ total'[b] <= Cardinality(KeysBelow(next'[b]))
                        /\ closed = 0 =>
                             /\ total'[b] <= Cardinality(HeldIn(0 .. next'[b] - 1))
                             /\ atCall'[b] <= total'[b]
                                  + Cardinality(HeldIn(next'[b] .. shards - 1))
      BY <2>1 DEF LenInv, HeldIn, Held, KeysBelow, shardIndex
    <2>2. CASE b # c
      BY <1>1, <2>2 DEF IInv, LenInv, TypeOK
    <2>3. CASE b = c
      <3>1. next'[b] = 0 /\ total'[b] = 0 /\ atCall'[b] = Count
        BY <1>1, <2>3 DEF IInv, TypeOK
      <3>2. Cardinality(KeysBelow(0)) \in Nat /\ Cardinality(HeldIn(0 .. 0 - 1)) \in Nat
        BY KeysFinite, HeldFinite DEF IInv
      <3>3. atCall'[b] = 0 + Cardinality(HeldIn(0 .. shards - 1))
        BY <1>3, <3>1 DEF Count
      <3> QED
        BY <1>3, <3>1, <3>2, <3>3 DEF Count
    <2> QED
      BY <2>2, <2>3
  <1> QED
    BY <1>5, <1>6, <1>7 DEF IInv

(* A turn of Len adds to what is below the shard what is in the shard.     *)
LEMMA TurnLemma ==
  ASSUME IInv, NEW n \in 0 .. shards - 1, phase = "open"
  PROVE  /\ Cardinality(HeldIn({n})) = Cardinality(index[n])
         /\ Cardinality(index[n]) \in Nat
         /\ Cardinality(HeldIn(0 .. n))
              = Cardinality(HeldIn(0 .. n - 1)) + Cardinality(index[n])
         /\ Cardinality(HeldIn(n .. shards - 1))
              = Cardinality(HeldIn(n + 1 .. shards - 1)) + Cardinality(index[n])
         /\ Cardinality(KeysBelow(n)) + Cardinality(index[n])
              <= Cardinality(KeysBelow(n + 1))
  <1>1. shards \in Nat /\ n \in Nat
    BY OpenShards
  <1>2. index[n] \subseteq Keys /\ IsFiniteSet(index[n]) /\ Cardinality(index[n]) \in Nat
    <2>1. index[n] \subseteq Keys
      BY DEF IInv, TypeOK
    <2> QED
      BY <2>1, CacheAssumption, FS_Subset, FS_CardinalityType
  <1>3. Cardinality(HeldIn({n})) = Cardinality(index[n])
    <2>1. HeldIn({n}) = {n} \X index[n]
      <3>1. \A e \in HeldIn({n}) : e \in {n} \X index[n]
        BY DEF HeldIn, Held
      <3>2. \A e \in {n} \X index[n] : e \in HeldIn({n})
        BY <1>2 DEF HeldIn, Held
      <3> QED
        BY <3>1, <3>2
    <2>2. IsFiniteSet({n}) /\ Cardinality({n}) = 1
      BY FS_Singleton
    <2>3. Cardinality({n} \X index[n]) = Cardinality({n}) * Cardinality(index[n])
      BY <1>2, <2>2, FS_Product
    <2>4. 1 * Cardinality(index[n]) = Cardinality(index[n])
      BY <1>2
    <2> QED
      BY <2>1, <2>2, <2>3, <2>4
  <1>4. ASSUME NEW P, NEW Q, P \cap Q = {}
        PROVE  Cardinality(HeldIn(P \cup Q)) = Cardinality(HeldIn(P)) + Cardinality(HeldIn(Q))
    <2>1. HeldIn(P \cup Q) = HeldIn(P) \cup HeldIn(Q)
      BY DEF HeldIn
    <2>2. HeldIn(P) \cap HeldIn(Q) = {}
      BY <1>4 DEF HeldIn
    <2>3. IsFiniteSet(HeldIn(P)) /\ IsFiniteSet(HeldIn(Q))
      BY HeldFinite DEF IInv
    <2>4. Cardinality(HeldIn(P)) \in Nat /\ Cardinality(HeldIn(Q)) \in Nat
      BY HeldFinite DEF IInv
    <2>5. Cardinality(HeldIn(P) \cap HeldIn(Q)) = 0
      BY <2>2, FS_EmptySet
    <2>6. Cardinality(HeldIn(P) \cup HeldIn(Q))
            = Cardinality(HeldIn(P)) + Cardinality(HeldIn(Q))
                - Cardinality(HeldIn(P) \cap HeldIn(Q))
      BY <2>3, FS_Union
    <2>7. \A a, b \in Nat : a + b - 0 = a + b
      OBVIOUS
    <2>8. Cardinality(HeldIn(P)) + Cardinality(HeldIn(Q)) - 0
            = Cardinality(HeldIn(P)) + Cardinality(HeldIn(Q))
      BY <2>4, <2>7
    <2>9. Cardinality(HeldIn(P \cup Q)) = Cardinality(HeldIn(P) \cup HeldIn(Q))
      BY <2>1
    <2> QED
      BY <2>5, <2>6, <2>8, <2>9, Zenon
  <1>5. /\ 0 .. n = (0 .. n - 1) \cup {n} /\ (0 .. n - 1) \cap {n} = {}
        /\ n .. shards - 1 = (n + 1 .. shards - 1) \cup {n}
        /\ (n + 1 .. shards - 1) \cap {n} = {}
    BY <1>1
  <1>6. /\ Cardinality(HeldIn(0 .. n))
             = Cardinality(HeldIn(0 .. n - 1)) + Cardinality(index[n])
        /\ Cardinality(HeldIn(n .. shards - 1))
             = Cardinality(HeldIn(n + 1 .. shards - 1)) + Cardinality(index[n])
    BY <1>3, <1>4, <1>5
  <1>7. Cardinality(KeysBelow(n)) + Cardinality(index[n])
          <= Cardinality(KeysBelow(n + 1))
    <2>1. /\ IsFiniteSet(KeysBelow(n)) /\ IsFiniteSet(KeysBelow(n + 1))
          /\ Cardinality(KeysBelow(n)) \in Nat /\ Cardinality(KeysBelow(n + 1)) \in Nat
      BY KeysFinite
    <2>2. \A k \in index[n] : shardIndex(k) = n
      BY DEF IInv, IndexInv
    <2>3. KeysBelow(n) \cap index[n] = {}
      BY <1>1, <2>2 DEF KeysBelow
    <2>4. KeysBelow(n) \cup index[n] \subseteq KeysBelow(n + 1)
      <3>1. \A k \in Keys : shardIndex(k) \in Int
        BY OpenLemma DEF IInv
      <3> QED
        BY <1>1, <1>2, <2>2, <3>1 DEF KeysBelow
    <2>5. Cardinality(KeysBelow(n) \cup index[n])
            = Cardinality(KeysBelow(n)) + Cardinality(index[n])
      <3>1. Cardinality(KeysBelow(n) \cap index[n]) = 0
        BY <2>3, FS_EmptySet
      <3>2. Cardinality(KeysBelow(n) \cup index[n])
              = Cardinality(KeysBelow(n)) + Cardinality(index[n])
                  - Cardinality(KeysBelow(n) \cap index[n])
        BY <1>2, <2>1, FS_Union
      <3> QED
        BY <1>2, <2>1, <3>1, <3>2
    <2>6. Cardinality(KeysBelow(n) \cup index[n]) <= Cardinality(KeysBelow(n + 1))
      BY <2>1, <2>4, FS_Subset
    <2> QED
      BY <2>5, <2>6
  <1> QED
    BY <1>2, <1>3, <1>6, <1>7

(* What a turn leaves for the next one.                                    *)
LEMMA LenTurn ==
  ASSUME IInv, NEW c \in Callers, LenShard(c)
  PROVE  LET n == next[c]
         IN  /\ phase = "open" /\ n \in 0 .. shards - 1 /\ shards \in Nat
             /\ UNCHANGED <<newVars, indexVars, atCall>>
             /\ total' = [total EXCEPT ![c] = total[c] + Cardinality(index[n])]
             /\ next' = [next EXCEPT ![c] = IF n = shards - 1 THEN None ELSE n + 1]
             /\ total[c] + Cardinality(index[n]) \in Nat
             /\ total[c] + Cardinality(index[n]) <= Cardinality(KeysBelow(n + 1))
             /\ closed = 0 =>
                  /\ total[c] + Cardinality(index[n]) <= Cardinality(HeldIn(0 .. n))
                  /\ atCall[c] <= total[c] + Cardinality(index[n])
                                    + Cardinality(HeldIn(n + 1 .. shards - 1))
  <1> DEFINE n == next[c]
  <1>1. n # None /\ phase = "open"
    BY DEF LenShard, IInv, BuildInv
  <1>2. n \in 0 .. shards - 1 /\ total[c] \in Nat /\ atCall[c] \in Nat /\ shards \in Nat
    <2>1. Cardinality(Keys) \in Nat
      BY CacheAssumption, FS_CardinalityType
    <2>2. shards \in Nat
      BY <1>1, OpenShards
    <2> QED
      BY <1>1, <2>1, <2>2 DEF IInv, TypeOK
  <1>3. /\ total[c] <= Cardinality(KeysBelow(n))
        /\ closed = 0 =>
             /\ total[c] <= Cardinality(HeldIn(0 .. n - 1))
             /\ atCall[c] <= total[c] + Cardinality(HeldIn(n .. shards - 1))
    BY <1>1 DEF IInv, LenInv
  <1>4. /\ total' = [total EXCEPT ![c] = total[c] + Cardinality(index[n])]
        /\ next' = [next EXCEPT ![c] = IF n = shards - 1 THEN None ELSE n + 1]
        /\ UNCHANGED <<newVars, indexVars, atCall>>
    BY DEF LenShard
  <1> HIDE DEF n
  <1>5. /\ Cardinality(index[n]) \in Nat
        /\ Cardinality(HeldIn(0 .. n))
             = Cardinality(HeldIn(0 .. n - 1)) + Cardinality(index[n])
        /\ Cardinality(HeldIn(n .. shards - 1))
             = Cardinality(HeldIn(n + 1 .. shards - 1)) + Cardinality(index[n])
        /\ Cardinality(KeysBelow(n)) + Cardinality(index[n])
             <= Cardinality(KeysBelow(n + 1))
    BY <1>1, <1>2, TurnLemma
  <1>6. /\ Cardinality(KeysBelow(n)) \in Nat /\ Cardinality(KeysBelow(n + 1)) \in Nat
        /\ Cardinality(HeldIn(0 .. n - 1)) \in Nat
        /\ Cardinality(HeldIn(n + 1 .. shards - 1)) \in Nat
    BY KeysFinite, HeldFinite DEF IInv
  <1>7. /\ total[c] + Cardinality(index[n]) \in Nat
        /\ total[c] + Cardinality(index[n]) <= Cardinality(KeysBelow(n + 1))
        /\ closed = 0 =>
             /\ total[c] + Cardinality(index[n]) <= Cardinality(HeldIn(0 .. n))
             /\ atCall[c] <= total[c] + Cardinality(index[n])
                               + Cardinality(HeldIn(n + 1 .. shards - 1))
    BY <1>2, <1>3, <1>5, <1>6
  <1> QED
    BY <1>1, <1>2, <1>4, <1>7 DEF n

LEMMA LenShardKeepsIInv ==
  ASSUME IInv, NEW c \in Callers, LenShard(c)
  PROVE  IInv'
  <1> DEFINE n == next[c]
             t == total[c] + Cardinality(index[n])
  <1>1. /\ phase = "open" /\ n \in 0 .. shards - 1 /\ shards \in Nat
        /\ UNCHANGED <<newVars, indexVars, atCall>>
        /\ total' = [total EXCEPT ![c] = t]
        /\ next' = [next EXCEPT ![c] = IF n = shards - 1 THEN None ELSE n + 1]
        /\ t \in Nat /\ t <= Cardinality(KeysBelow(n + 1))
        /\ closed = 0 =>
             /\ t <= Cardinality(HeldIn(0 .. n))
             /\ atCall[c] <= t + Cardinality(HeldIn(n + 1 .. shards - 1))
    BY LenTurn
  <1> HIDE DEF n, t
  <1>2. t \in 0 .. Cardinality(Keys)
    <2>1. Cardinality(Keys) \in Nat
      BY CacheAssumption, FS_CardinalityType
    <2> QED
      BY <1>1, <2>1, KeysFinite
  <1>3. n # shards - 1 => n + 1 \in 0 .. shards - 1
    BY <1>1
  <1>4. TypeOK' /\ atCall' \in [Callers -> Nat]
    BY <1>1, <1>2, <1>3 DEF IInv, TypeOK, newVars, indexVars
  <1>5. BuildInv' /\ OptionsInv' /\ IndexInv' /\ FoundOrDisplaced'
    BY <1>1 DEF IInv, BuildInv, OptionsInv, Refused, IndexInv, FoundOrDisplaced,
                newVars, indexVars, shardIndex, found, Colliding, Displaces
  <1>6. LenInv'
    <2>1. shards' = shards /\ closed' = closed
      BY <1>1 DEF newVars, indexVars
    <2> SUFFICES ASSUME NEW b \in Callers, next'[b] # None
                 PROVE  /\ total'[b] <= Cardinality(KeysBelow(next'[b]))
                        /\ closed = 0 =>
                             /\ total'[b] <= Cardinality(HeldIn(0 .. next'[b] - 1))
                             /\ atCall'[b] <= total'[b]
                                  + Cardinality(HeldIn(next'[b] .. shards - 1))
      BY <1>1, <2>1 DEF LenInv, HeldIn, Held, KeysBelow, shardIndex, indexVars
    <2>2. CASE b # c
      BY <1>1, <2>2 DEF IInv, LenInv, TypeOK
    <2>3. CASE b = c
      <3>1. next'[b] = n + 1 /\ total'[b] = t /\ atCall'[b] = atCall[c] /\ n + 1 - 1 = n
        BY <1>1, <2>3 DEF IInv, TypeOK
      <3> QED
        BY <1>1, <3>1
    <2> QED
      BY <2>2, <2>3
  <1> QED
    BY <1>4, <1>5, <1>6 DEF IInv

-----------------------------------------------------------------------------
LEMMA StutterKeepsIInv ==
  ASSUME IInv, UNCHANGED vars
  PROVE  IInv'
  <1>1. /\ UNCHANGED <<capBytes, ttl, shards, opts, cfg, applied, phase, built>>
        /\ UNCHANGED <<index, closed, stored, next, total, atCall>>
    BY DEF vars, newVars, indexVars, lenVars
  <1>2. TypeOK' /\ BuildInv' /\ atCall' \in [Callers -> Nat]
    BY <1>1 DEF IInv, TypeOK, BuildInv, Refused
  <1>3. OptionsInv'
    BY <1>1 DEF IInv, OptionsInv, Applied, Counts, defaultConfig
  <1>4. IndexInv' /\ FoundOrDisplaced'
    BY <1>1 DEF IInv, IndexInv, FoundOrDisplaced, shardIndex, found, Colliding,
                Displaces
  <1>5. LenInv'
    BY <1>1 DEF IInv, LenInv, KeysBelow, HeldIn, Held, shardIndex
  <1> QED
    BY <1>2, <1>3, <1>4, <1>5 DEF IInv

(* IInv is an inductive invariant.                                         *)
THEOREM Invariance == Spec => []IInv
<1>1. IInv /\ [Next]_vars => IInv'
  <2> SUFFICES ASSUME IInv, [Next]_vars PROVE IInv'
    OBVIOUS
  <2>1. CASE Validate
    BY <2>1, ValidateKeepsIInv
  <2>2. CASE ApplyOption
    BY <2>2, ApplyOptionKeepsIInv
  <2>3. CASE EndOptions
    BY <2>3, EndOptionsKeepsIInv
  <2>4. CASE Build
    BY <2>4, BuildKeepsIInv
  <2>5. CASE Close
    BY <2>5, CloseKeepsIInv
  <2>6. ASSUME NEW k \in Keys, Put(k) PROVE IInv'
    BY <2>6, PutKeepsIInv
  <2>7. ASSUME NEW c \in Callers, LenCall(c) PROVE IInv'
    BY <2>7, LenCallKeepsIInv
  <2>8. ASSUME NEW c \in Callers, LenShard(c) PROVE IInv'
    BY <2>8, LenShardKeepsIInv
  <2>9. CASE UNCHANGED vars
    BY <2>9, StutterKeepsIInv
  <2> QED
    BY <2>1, <2>2, <2>3, <2>4, <2>5, <2>6, <2>7, <2>8, <2>9 DEF Next
<1> QED
  BY InitIInv, <1>1, PTL DEF Spec

(* Every reachable state is well typed; that a Len never counts more than  *)
(* there are keys needs LenInv.                                            *)
THEOREM TypeCorrect == Spec => []TypeOK
<1>1. IInv => TypeOK
  BY DEF IInv
<1> QED
  BY Invariance, <1>1, PTL

(* New refuses what is not a positive capacity, a positive TTL and a power *)
(* of two of shards, and nothing else (cache.go:276-284).                  *)
THEOREM ValidationCorrect == Spec => []AcceptsTheValid
<1>1. IInv => AcceptsTheValid
  <2> SUFFICES ASSUME IInv PROVE AcceptsTheValid
    OBVIOUS
  <2>1. capBytes \in Int /\ ttl \in Int /\ shards \in 0 .. 255
    BY ArgumentTypes DEF IInv
  <2>2. IsPowerOfTwo(shards) <=> \E e \in 0 .. 7 : shards = 2 ^ e
    BY <2>1, PowerOfTwoLemma
  <2>3. /\ phase = "refused" => Refused
        /\ phase \in {"build", "open"} => ~Refused
    BY DEF IInv, BuildInv
  <2> DEFINE power == \E e \in 0 .. 7 : shards = 2 ^ e
  <2> HIDE DEF power
  <2>4. Refused <=> ~(capBytes > 0 /\ ttl > 0 /\ power)
    BY <2>1, <2>2 DEF Refused, power
  <2>5. AcceptsTheValid <=>
          /\ phase = "refused" => ~(capBytes > 0 /\ ttl > 0 /\ power)
          /\ phase \in {"build", "open"} => (capBytes > 0 /\ ttl > 0 /\ power)
    BY Zenon DEF AcceptsTheValid, power
  <2> QED
    BY <2>3, <2>4, <2>5
<1> QED
  BY Invariance, <1>1, PTL

(* Applied says which option counts, in the words of OptionsHonoured.      *)
LEMMA LastCounts ==
  ASSUME NEW f, NEW n \in Nat, NEW v, NEW S,
         Applied(f, n, v), S = {i \in 1 .. n : Counts(f, i)}
  PROVE  v = IF S = {} THEN defaultConfig[f] ELSE opts[Max(S)].value
  <1>1. CASE v = defaultConfig[f] /\ \A i \in 1 .. n : ~Counts(f, i)
    BY <1>1
  <1>2. CASE \E i \in 1 .. n : /\ Counts(f, i) /\ v = opts[i].value
                                /\ \A j \in i + 1 .. n : ~Counts(f, j)
    <2>1. PICK i \in 1 .. n : /\ Counts(f, i) /\ v = opts[i].value
                              /\ \A j \in i + 1 .. n : ~Counts(f, j)
      BY <1>2
    <2> HIDE DEF Counts
    <2>2. i \in S /\ \A j \in S : i >= j
      BY <2>1
    <2>3. \A x \in S : (\A y \in S : x >= y) => x = i
      BY <2>2
    <2>4. Max(S) = i
      BY <2>2, <2>3 DEF Max
    <2> QED
      BY <2>1, <2>2, <2>4
  <1> QED
    BY <1>1, <1>2 DEF Applied

(* The last of several options counts, a nil one where it means something, *)
(* and the step of the rotation is a quarter of the TTL but at least a     *)
(* millisecond (config.go:113-147, 177-181).                               *)
THEOREM OptionsCorrect == Spec => []OptionsHonoured
<1>1. IInv => OptionsHonoured
  <2> DEFINE given(f, vals) ==
               {i \in DOMAIN opts : opts[i].field = f /\ opts[i].value \in vals}
             all == {opts[i].value : i \in DOMAIN opts}
             last(f, vals, none) ==
               IF given(f, vals) = {} THEN none ELSE opts[Max(given(f, vals))].value
  <2> SUFFICES ASSUME IInv, phase = "build"
               PROVE  /\ cfg.registry = last("registry", all, None)
                      /\ cfg.ejectCb = last("ejectCb", all, None)
                      /\ cfg.logger = last("logger", all \ {None}, "nop")
                      /\ cfg.weightFn = last("weightFn", all \ {None}, "size")
                      /\ cfg.rotationStep >= Millisecond
                      /\ ttl >= 4 * Millisecond =>
                           ttl - 4 * cfg.rotationStep \in 0 .. 3
    BY DEF OptionsHonoured
  <2>1. Len(opts) \in Nat /\ DOMAIN opts = 1 .. Len(opts)
    <3>1. opts \in OptionLists \/ opts = <<>>
      BY DEF IInv, TypeOK
    <3>2. Len(<<>>) = 0 /\ DOMAIN <<>> = 1 .. 0
      OBVIOUS
    <3> QED
      BY <3>1, <3>2, OptionListTypes
  <2>2. /\ \A f \in Fields : Applied(f, Len(opts), cfg[f])
        /\ cfg.rotationStep = Max({ttl \div 4, Millisecond})
    BY DEF IInv, OptionsInv
  <2>3. \A f \in {"registry", "ejectCb"} :
          given(f, all) = {i \in 1 .. Len(opts) : Counts(f, i)}
    BY <2>1 DEF Counts
  <2>4. \A f \in {"logger", "weightFn"} :
          given(f, all \ {None}) = {i \in 1 .. Len(opts) : Counts(f, i)}
    BY <2>1 DEF Counts
  <2>5. /\ defaultConfig["registry"] = None /\ defaultConfig["ejectCb"] = None
        /\ defaultConfig["logger"] = "nop" /\ defaultConfig["weightFn"] = "size"
    BY DEF defaultConfig
  <2> HIDE DEF given, all
  <2>6. \A f \in {"registry", "ejectCb"} : cfg[f] = last(f, all, defaultConfig[f])
    <3> TAKE f \in {"registry", "ejectCb"}
    <3>1. Applied(f, Len(opts), cfg[f])
      BY <2>2 DEF Fields
    <3> QED
      BY <2>1, <2>3, <3>1, LastCounts
  <2>7. \A f \in {"logger", "weightFn"} :
          cfg[f] = last(f, all \ {None}, defaultConfig[f])
    <3> TAKE f \in {"logger", "weightFn"}
    <3>1. Applied(f, Len(opts), cfg[f])
      BY <2>2 DEF Fields
    <3> QED
      BY <2>1, <2>4, <3>1, LastCounts
  <2>8. /\ cfg.rotationStep >= Millisecond
        /\ ttl >= 4 * Millisecond => ttl - 4 * cfg.rotationStep \in 0 .. 3
    <3> DEFINE q == ttl \div 4
    <3>1. ttl \in Int /\ Millisecond \in Int /\ q \in Int /\ ttl - 4 * q \in 0 .. 3
      <4>1. ttl \in Int /\ Millisecond \in Int
        BY ArgumentTypes, ConstantTypes DEF IInv
      <4>2. \A n \in Int : n \div 4 \in Int /\ n - 4 * (n \div 4) \in 0 .. 3
        OBVIOUS
      <4> QED
        BY <4>1, <4>2
    <3> HIDE DEF q
    <3>2. \E x \in {q, Millisecond} : \A y \in {q, Millisecond} : x >= y
      BY <3>1
    <3>3. /\ Max({q, Millisecond}) \in {q, Millisecond}
          /\ \A y \in {q, Millisecond} : Max({q, Millisecond}) >= y
      BY <3>2 DEF Max
    <3>4. cfg.rotationStep = Max({q, Millisecond})
      BY <2>2 DEF q
    <3> QED
      BY <3>1, <3>3, <3>4
  <2> QED
    BY <2>5, <2>6, <2>7, <2>8
<1> QED
  BY Invariance, <1>1, PTL

(* The shards together have what was asked for, but for less than a byte   *)
(* each (cache.go:299).                                                    *)
THEOREM CapacityCorrect == Spec => []CapacityIsShared
<1>1. IInv => CapacityIsShared
  <2> SUFFICES ASSUME IInv, phase = "open"
               PROVE  /\ built * ShardCap <= capBytes
                      /\ capBytes - built * ShardCap < shards
    BY DEF CapacityIsShared
  <2>1. built = shards /\ shards \in Nat /\ shards > 0 /\ capBytes \in Int
    BY OpenShards, ArgumentTypes DEF IInv, BuildInv
  <2>2. \A c \in Int, n \in Nat : n > 0 => /\ n * (c \div n) <= c
                                           /\ c - n * (c \div n) < n
    OBVIOUS
  <2> QED
    BY <2>1, <2>2 DEF ShardCap
<1> QED
  BY Invariance, <1>1, PTL

(* Whoever looks with an equal key for what has been put finds it or has   *)
(* been displaced (cache.go:112-130, 305-338).                             *)
THEOREM PutCorrect == Spec => []PutIsFound
<1>1. IInv => PutIsFound
  <2> SUFFICES ASSUME IInv, closed = 0, NEW k \in stored, NEW j \in Keys,
                      j.kind = k.kind, j.content = k.content,
                      j.kind = "other" => j.memory = k.memory
               PROVE  found(j) \/ \E d \in stored : Displaces(d, k)
    BY DEF PutIsFound, Displaces
  <2>1. Hashed(j) = Hashed(k)
    BY DEF Hashed
  <2>2. shardIndex(j) = shardIndex(k) /\ hash(shardIndex(k), j) = hash(shardIndex(k), k)
    BY <2>1 DEF shardIndex, hash
  <2>3. found(k) => found(j)
    BY <2>2 DEF found, Colliding
  <2> QED
    BY <2>3 DEF IInv, FoundOrDisplaced
<1> QED
  BY Invariance, <1>1, PTL

(* Len returns a number between the count at its call and the count at its *)
(* return (cache.go:318-324).                                              *)
THEOREM LenCorrect == Spec => LenIsBetween
<1> DEFINE Between(c) ==
             next[c] # None /\ next'[c] = None /\ closed = 0 =>
               atCall[c] <= total'[c] /\ total'[c] <= Count
<1>1. IInv /\ [Next]_vars => \A c \in Callers : Between(c)
  <2> SUFFICES ASSUME IInv, [Next]_vars, NEW c \in Callers,
                      next[c] # None, next'[c] = None, closed = 0
               PROVE  atCall[c] <= total'[c] /\ total'[c] <= Count
    OBVIOUS
  <2>1. LenShard(c)
    <3>1. next' # next
      OBVIOUS
    <3>2. \E b \in Callers : LenCall(b) \/ LenShard(b)
      BY <3>1 DEF Next, vars, lenVars, Validate, ApplyOption, EndOptions, Build,
                  Close, Put
    <3>3. ASSUME NEW b \in Callers, LenCall(b) PROVE FALSE
      <4>1. next'[c] = next[c] \/ next'[c] = 0
        BY <3>3 DEF LenCall, IInv, TypeOK
      <4> QED
        BY <4>1, ConstantTypes
    <3>4. ASSUME NEW b \in Callers, LenShard(b), b # c PROVE FALSE
      BY <3>4 DEF LenShard, IInv, TypeOK
    <3> QED
      BY <3>2, <3>3, <3>4
  <2> DEFINE n == next[c]
             t == total[c] + Cardinality(index[n])
  <2>2. /\ phase = "open" /\ n \in 0 .. shards - 1 /\ shards \in Nat
        /\ total' = [total EXCEPT ![c] = t]
        /\ next' = [next EXCEPT ![c] = IF n = shards - 1 THEN None ELSE n + 1]
        /\ t \in Nat
        /\ t <= Cardinality(HeldIn(0 .. n))
        /\ atCall[c] <= t + Cardinality(HeldIn(n + 1 .. shards - 1))
    BY <2>1, LenTurn
  <2> HIDE DEF n, t
  <2>3. n = shards - 1
    <3>1. n + 1 \in Nat /\ None \notin Nat
      BY <2>2, ConstantTypes
    <3>2. next'[c] = IF n = shards - 1 THEN None ELSE n + 1
      BY <2>2 DEF IInv, TypeOK
    <3> QED
      BY <3>1, <3>2
  <2>4. HeldIn(0 .. n) = Held
    BY <2>3 DEF HeldIn, Held
  <2>5. Cardinality(HeldIn(n + 1 .. shards - 1)) = 0
    <3>1. n + 1 .. shards - 1 = {}
      BY <2>2, <2>3
    <3>2. HeldIn(n + 1 .. shards - 1) = {}
      BY <3>1 DEF HeldIn
    <3> QED
      BY <3>2, FS_EmptySet
  <2>6. total'[c] = t /\ atCall[c] \in Nat
    BY <2>2 DEF IInv, TypeOK
  <2> QED
    BY <2>2, <2>4, <2>5, <2>6 DEF Count
<1> QED
  BY Invariance, <1>1, PTL DEF Spec, LenIsBetween
=============================================================================
