----------------------------- MODULE KeyGenProofs -----------------------------
(***************************************************************************)
(* vbucketkeygen keeps, for every vbucket, the first keys that map to it,  *)
(* and its exit status says whether they suffice: for every number of      *)
(* vbuckets, of keys and of slots, and every hash.                         *)
(***************************************************************************)
EXTENDS KeyGen, FiniteSetTheorems, TLAPS

(* Every place a key has been stored at holds a number, every other NULL.    *)
LEMMA InitKeys == Init => TypeOK /\ CollectsFirst
<1>. SUFFICES ASSUME Init PROVE TypeOK /\ CollectsFirst
  OBVIOUS
<1>1. TypeOK
  BY KeyGenAssumption DEF Init, TypeOK
<1>2. \A v \in VBuckets, k \in Slots : keys[v][k] = NULL
  BY DEF Init
<1>3. 0 .. i - 1 = {}
  BY DEF Init
<1>. QED  BY <1>1, <1>2, <1>3 DEF CollectsFirst, InOrder, Slots

(* The next key exists. *)
LEMMA NextKey ==
  ASSUME TypeOK, Generate
  PROVE  /\ i \in Keys
         /\ hash[i] \in VBuckets
         /\ i + 1 \in 0 .. MaxKeys
<1>1. i \in Nat /\ i < num_keys_to_generate
  BY KeyGenAssumption DEF TypeOK, Generate
<1>2. /\ num_keys_to_generate \in Int
      /\ num_keys_to_generate <= MaxKeys
      /\ MaxKeys \in Nat
  BY KeyGenAssumption DEF TypeOK
<1>3. i \in Keys
  BY <1>1, <1>2 DEF Keys
<1>4. hash[i] \in VBuckets
  BY <1>3 DEF TypeOK
<1>. QED  BY <1>1, <1>2, <1>3, <1>4

(* What a slot holds. *)
LEMMA SlotType ==
  ASSUME TypeOK, NEW v \in VBuckets, NEW k \in Slots, keys[v][k] # NULL
  PROVE  keys[v][k] \in Keys
<1>1. keys \in [VBuckets -> [Slots -> Keys \cup {NULL}]]
  BY DEF TypeOK
<1>2. keys[v] \in [Slots -> Keys \cup {NULL}]
  BY <1>1
<1>. QED  BY <1>2

(* A key that goes to the first free slot: one entry changes, and the row    *)
(* has been filled without gaps.                                             *)
LEMMA StoreKeeps ==
  ASSUME TypeOK, CollectsFirst, Generate, InFirstFree(hash[i])
  PROVE  TypeOK' /\ CollectsFirst'
<1>1. /\ i \in Keys
      /\ hash[i] \in VBuckets
      /\ i + 1 \in 0 .. MaxKeys
  BY NextKey
<1>2. UNCHANGED <<hash, num_keys_per_vbucket, num_keys_to_generate, pc, rval>> /\ i' = i + 1
  BY DEF Generate, args
<1>3. PICK k \in Slots :
        /\ keys[hash[i]][k] = NULL
        /\ \A j \in 0 .. k - 1 : keys[hash[i]][j] # NULL
        /\ keys' = [keys EXCEPT ![hash[i]][k] = i]
  BY DEF InFirstFree
<1>4. /\ num_keys_per_vbucket \in Int
      /\ k \in Nat /\ k < num_keys_per_vbucket
      /\ i \in Nat
      /\ NULL \notin Int
  <2>1. num_keys_per_vbucket \in Int
    BY KeyGenAssumption DEF TypeOK
  <2>2. k \in 0 .. num_keys_per_vbucket - 1
    BY DEF Slots
  <2>3. i \in Nat
    BY <1>1 DEF Keys
  <2>. QED  BY <2>1, <2>2, <2>3, KeyGenAssumption
<1>5. UNCHANGED Slots
  BY <1>2 DEF Slots
<1>6. TypeOK'
  BY <1>1, <1>2, <1>3, <1>5 DEF TypeOK
<1>7. ASSUME NEW v \in VBuckets, NEW j \in Slots
      PROVE  keys'[v][j] = IF v = hash[i] /\ j = k THEN i ELSE keys[v][j]
  BY <1>1, <1>3, <1>7 DEF TypeOK
<1>8. ASSUME NEW v \in VBuckets
      PROVE  InOrder(keys'[v], num_keys_per_vbucket)
  <2>. SUFFICES ASSUME NEW m \in 0 .. num_keys_per_vbucket - 1, keys'[v][m] # NULL,
                       NEW j \in 0 .. m - 1
                PROVE  keys'[v][j] # NULL /\ keys'[v][j] < keys'[v][m]
    BY DEF InOrder
  <2>1. m \in Slots /\ j \in Slots /\ j # m /\ j < m
    BY <1>4 DEF Slots
  <2>2. \A l \in Slots : keys[v][l] # NULL =>
          /\ keys[v][l] < i
          /\ \A n \in 0 .. l - 1 : keys[v][n] # NULL /\ keys[v][n] < keys[v][l]
    BY DEF CollectsFirst, InOrder, Slots
  <2>3. CASE v = hash[i] /\ m = k
    <3>1. keys[v][j] # NULL
      BY <1>3, <2>3
    <3>. QED  BY <1>7, <2>1, <2>2, <2>3, <3>1
  <2>4. CASE v = hash[i] /\ j = k
    <3>1. keys[v][m] # NULL
      BY <1>7, <2>1, <2>4
    <3>. QED  BY <1>3, <2>1, <2>2, <2>4, <3>1
  <2>5. CASE ~(v = hash[i] /\ m = k) /\ ~(v = hash[i] /\ j = k)
    BY <1>7, <2>1, <2>2, <2>5
  <2>. QED  BY <2>3, <2>4, <2>5
<1>9. ASSUME NEW v \in VBuckets, NEW m \in Slots, keys'[v][m] # NULL
      PROVE  hash[keys'[v][m]] = v /\ keys'[v][m] < i + 1
  <2>1. CASE v = hash[i] /\ m = k
    BY <1>4, <1>7, <2>1
  <2>2. CASE ~(v = hash[i] /\ m = k)
    <3>1. keys'[v][m] = keys[v][m]
      BY <1>7, <2>2
    <3>2. keys[v][m] \in Keys
      BY <1>9, <3>1, SlotType
    <3>3. hash[keys[v][m]] = v /\ keys[v][m] < i
      BY <1>9, <3>1 DEF CollectsFirst
    <3>. QED  BY <1>4, <3>1, <3>2, <3>3 DEF Keys
  <2>. QED  BY <2>1, <2>2
<1>10. ASSUME NEW v \in VBuckets, NEW key \in 0 .. i, hash[key] = v
       PROVE  \/ \E m \in Slots : keys'[v][m] = key
              \/ \A m \in Slots : keys'[v][m] # NULL /\ keys'[v][m] < key
  <2>1. CASE key = i
    BY <1>7, <1>10, <2>1
  <2>2. CASE key # i
    <3>1. key \in 0 .. i - 1 /\ key # NULL
      BY <1>4, <2>2
    <3>2. \/ \E m \in Slots : keys[v][m] = key
          \/ \A m \in Slots : keys[v][m] # NULL /\ keys[v][m] < key
      BY <1>10, <3>1 DEF CollectsFirst
    <3>3. CASE \E m \in Slots : keys[v][m] = key
      BY <1>3, <1>7, <3>1, <3>3
    <3>4. CASE \A m \in Slots : keys[v][m] # NULL /\ keys[v][m] < key
      <4>1. v # hash[i]
        BY <1>3, <3>4
      <4>. QED  BY <1>7, <3>4, <4>1
    <3>. QED  BY <3>2, <3>3, <3>4
  <2>. QED  BY <2>1, <2>2
<1>11. 0 .. i' - 1 = 0 .. i
  BY <1>2, <1>4
<1>. QED  BY <1>2, <1>5, <1>6, <1>8, <1>9, <1>10, <1>11 DEF CollectsFirst

(* A key that finds no free slot is larger than all keys of its vbucket.     *)
LEMMA DropKeeps ==
  ASSUME TypeOK, CollectsFirst, Generate, NoneFree(hash[i])
  PROVE  TypeOK' /\ CollectsFirst'
<1>1. /\ i \in Keys
      /\ hash[i] \in VBuckets
      /\ i + 1 \in 0 .. MaxKeys
  BY NextKey
<1>2. UNCHANGED <<hash, num_keys_per_vbucket, num_keys_to_generate, pc, rval, keys>> /\ i' = i + 1
  BY DEF Generate, args, NoneFree
<1>3. UNCHANGED Slots
  BY <1>2 DEF Slots
<1>4. TypeOK'
  BY <1>1, <1>2, <1>3 DEF TypeOK
<1>5. ASSUME NEW v \in VBuckets, NEW k \in Slots, keys[v][k] # NULL
      PROVE  hash[keys[v][k]] = v /\ keys[v][k] < i + 1
  <2>1. keys[v][k] \in Keys
    BY <1>5, SlotType
  <2>2. hash[keys[v][k]] = v /\ keys[v][k] < i
    BY <1>5 DEF CollectsFirst
  <2>. QED  BY <1>1, <2>1, <2>2 DEF Keys
<1>6. ASSUME NEW v \in VBuckets, NEW key \in 0 .. i, hash[key] = v
      PROVE  \/ \E k \in Slots : keys[v][k] = key
             \/ \A k \in Slots : keys[v][k] # NULL /\ keys[v][k] < key
  <2>1. CASE key = i
    <3>1. \A k \in Slots : keys[v][k] # NULL
      BY <1>6, <2>1 DEF NoneFree
    <3>. QED  BY <2>1, <3>1 DEF CollectsFirst
  <2>2. CASE key # i
    <3>1. key \in 0 .. i - 1
      BY <1>1, <2>2 DEF Keys
    <3>. QED  BY <1>6, <3>1 DEF CollectsFirst
  <2>. QED  BY <2>1, <2>2
<1>7. 0 .. i' - 1 = 0 .. i
  BY <1>1, <1>2 DEF Keys
<1>8. CollectsFirst'
  <2>1. \A v \in VBuckets : InOrder(keys'[v], num_keys_per_vbucket')
    BY <1>2 DEF CollectsFirst, InOrder
  <2>2. \A v \in VBuckets, k \in Slots' :
          keys'[v][k] # NULL => hash'[keys'[v][k]] = v /\ keys'[v][k] < i'
    BY <1>2, <1>3, <1>5
  <2>3. ASSUME NEW v \in VBuckets, NEW key \in 0 .. i' - 1, hash'[key] = v
        PROVE  \/ \E k \in Slots' : keys'[v][k] = key
               \/ \A k \in Slots' : keys'[v][k] # NULL /\ keys'[v][k] < key
    <3>1. key \in 0 .. i /\ hash[key] = v
      BY <1>2, <1>7, <2>3
    <3>2. \/ \E k \in Slots : keys[v][k] = key
          \/ \A k \in Slots : keys[v][k] # NULL /\ keys[v][k] < key
      BY <1>6, <3>1
    <3>. QED  BY <1>2, <1>3, <3>2
  <2>. QED  BY <2>1, <2>2, <2>3 DEF CollectsFirst
<1>. QED  BY <1>4, <1>8

LEMMA StepKeys == TypeOK /\ CollectsFirst /\ [Next]_vars => TypeOK' /\ CollectsFirst'
<1>. SUFFICES ASSUME TypeOK, CollectsFirst, [Next]_vars
              PROVE  TypeOK' /\ CollectsFirst'
  OBVIOUS
<1>1. CASE Generate
  <2>1. InFirstFree(hash[i]) \/ NoneFree(hash[i])
    BY <1>1 DEF Generate
  <2>. QED  BY <1>1, <2>1, StoreKeeps, DropKeeps
<1>2. CASE UNCHANGED <<args, keys, i>>
  <2>1. UNCHANGED <<hash, num_keys_per_vbucket, num_keys_to_generate, keys, i, Slots>>
    BY <1>2 DEF args, Slots
  <2>2. CollectsFirst'
    BY <2>1 DEF CollectsFirst
  <2>3. pc' \in {"load", "generate", "print", "exit", "no map"} /\ rval' \in {0, 1}
    <3>1. CASE UNCHANGED vars
      BY <3>1 DEF TypeOK, vars
    <3>2. CASE Next
      <4>1. CASE Generate
        BY <4>1 DEF Generate, TypeOK
      <4>. QED  BY <3>2, <4>1 DEF Next, NoMap, Load, EndGenerate, Summarise, TypeOK
    <3>. QED  BY <3>1, <3>2
  <2>. QED  BY <2>1, <2>2, <2>3 DEF TypeOK
<1>. QED
  BY <1>1, <1>2 DEF Next, vars, args, NoMap, Load, EndGenerate, Summarise

(* Every vbucket holds the first of the keys that map to it, in order and    *)
(* without gaps.                                                             *)
THEOREM KeysAreFirst == Spec => []CollectsFirst
<1>1. Init => TypeOK /\ CollectsFirst
  BY InitKeys
<1>2. TypeOK /\ CollectsFirst /\ [Next]_vars => (TypeOK /\ CollectsFirst)'
  BY StepKeys
<1>. QED  BY <1>1, <1>2, PTL DEF Spec

(* The loops stay inside the arrays: every entry written is a slot, every    *)
(* key stored a key that was generated.                                      *)
THEOREM KeysTyped == Spec => []TypeOK
<1>1. Init => TypeOK /\ CollectsFirst
  BY InitKeys
<1>2. TypeOK /\ CollectsFirst /\ [Next]_vars => (TypeOK /\ CollectsFirst)'
  BY StepKeys
<1>. QED  BY <1>1, <1>2, PTL DEF Spec

-------------------------------------------------------------------------------
LEMMA Counts ==
  ASSUME TypeOK
  PROVE  /\ i \in Nat
         /\ num_keys_to_generate \in Int
         /\ num_keys_per_vbucket \in Int
         /\ NumVBuckets \in Nat \ {0}
<1>1. i \in Nat
  <2>1. i \in 0 .. MaxKeys /\ MaxKeys \in Nat
    BY KeyGenAssumption DEF TypeOK
  <2>. QED  BY <2>1
<1>2. num_keys_to_generate \in Int
  BY KeyGenAssumption DEF TypeOK
<1>3. num_keys_per_vbucket \in Int
  BY KeyGenAssumption DEF TypeOK
<1>. QED  BY <1>1, <1>2, <1>3, KeyGenAssumption

(* The exit status.  What is known of the stages: no key beyond those asked  *)
(* for has been generated, all of them when the summary is printed, and the  *)
(* status is that of the slots filled then.                                  *)
AllGenerated ==
  /\ i > 0 => i <= num_keys_to_generate
  /\ pc \in {"print", "exit"} => i >= num_keys_to_generate
  /\ pc = "exit" => (rval = 0) = ~(Total < NumVBuckets * num_keys_per_vbucket)

LEMMA AllGeneratedAlways == Spec => []AllGenerated
<1>1. Init => AllGenerated
  BY DEF Init, AllGenerated
<1>2. TypeOK /\ AllGenerated /\ [Next]_vars => AllGenerated'
  <2>. SUFFICES ASSUME TypeOK, AllGenerated, [Next]_vars PROVE AllGenerated'
    OBVIOUS
  <2>1. i \in Nat /\ num_keys_to_generate \in Int /\ num_keys_per_vbucket \in Int
    BY Counts
  <2>2. CASE NoMap
    BY <2>2 DEF NoMap, AllGenerated, args
  <2>3. CASE Load
    BY <2>3 DEF Load, AllGenerated, args
  <2>4. CASE Generate
    BY <2>1, <2>4 DEF Generate, AllGenerated, args
  <2>5. CASE EndGenerate
    BY <2>1, <2>5 DEF EndGenerate, AllGenerated, args
  <2>6. CASE Summarise
    <3>1. /\ UNCHANGED <<num_keys_to_generate, num_keys_per_vbucket, keys, i>>
          /\ pc = "print" /\ pc' = "exit"
          /\ rval' = IF Total < NumVBuckets * num_keys_per_vbucket THEN 1 ELSE 0
      BY <2>6 DEF Summarise, args
    <3>2. Total' = Total
      BY <3>1 DEF Total, Slots
    <3>. QED  BY <2>1, <3>1, <3>2 DEF AllGenerated
  <2>7. CASE UNCHANGED vars
    BY <2>7 DEF vars, AllGenerated, Total, Slots
  <2>. QED  BY <2>2, <2>3, <2>4, <2>5, <2>6, <2>7 DEF Next
<1>. QED  BY <1>1, <1>2, KeysTyped, PTL DEF Spec

Full(v) == \A k \in Slots : keys[v][k] # NULL

(* The keys asked for that map to a vbucket. *)
KeysOf(v) == { key \in 0 .. num_keys_to_generate - 1 : hash[key] = v }

LEMMA KeysOfFinite ==
  ASSUME TypeOK, NEW v
  PROVE  IsFiniteSet(KeysOf(v)) /\ Cardinality(KeysOf(v)) \in Nat
<1>1. IsFiniteSet(0 .. num_keys_to_generate - 1)
  <2>1. num_keys_to_generate - 1 \in Int
    BY Counts
  <2>. QED  BY <2>1, FS_Interval
<1>2. IsFiniteSet(KeysOf(v))
  BY <1>1, FS_Subset DEF KeysOf
<1>. QED  BY <1>2, FS_CardinalityType

LEMMA SlotsCounted ==
  ASSUME TypeOK, num_keys_per_vbucket > 0
  PROVE  IsFiniteSet(Slots) /\ Cardinality(Slots) = num_keys_per_vbucket
<1>1. num_keys_per_vbucket - 1 \in Nat
  BY Counts
<1>2. IsFiniteSet(Slots) /\ Cardinality(Slots) = num_keys_per_vbucket - 1 - 0 + 1
  BY <1>1, FS_Interval DEF Slots
<1>. QED  BY <1>1, <1>2, Counts

(* As many keys are printed as there are slots exactly if no slot is free. *)
LEMMA TotalCounts ==
  ASSUME TypeOK, num_keys_per_vbucket > 0
  PROVE  ~(Total < NumVBuckets * num_keys_per_vbucket) <=> \A v \in VBuckets : Full(v)
<1> DEFINE All    == VBuckets \X Slots
           filled == { s \in All : keys[s[1]][s[2]] # NULL }
<1>1. NumVBuckets \in Nat \ {0} /\ num_keys_per_vbucket \in Nat
  BY Counts
<1>2. /\ IsFiniteSet(VBuckets) /\ Cardinality(VBuckets) = NumVBuckets
      /\ IsFiniteSet(Slots) /\ Cardinality(Slots) = num_keys_per_vbucket
  <2>1. NumVBuckets - 1 \in Nat
    BY <1>1
  <2>2. IsFiniteSet(VBuckets) /\ Cardinality(VBuckets) = NumVBuckets - 1 - 0 + 1
    BY <2>1, FS_Interval DEF VBuckets
  <2>. QED  BY <1>1, <2>2, SlotsCounted
<1>3. IsFiniteSet(All) /\ Cardinality(All) = NumVBuckets * num_keys_per_vbucket
  BY <1>2, FS_Product
<1>4. /\ IsFiniteSet(filled)
      /\ Cardinality(filled) <= Cardinality(All)
      /\ Cardinality(All) = Cardinality(filled) => All = filled
  BY <1>3, FS_Subset
<1>5. Cardinality(All) \in Nat /\ Cardinality(filled) \in Nat
  BY <1>3, <1>4, FS_CardinalityType
<1>6. Total = Cardinality(filled)
  BY DEF Total
<1>7. All = filled <=> \A v \in VBuckets : Full(v)
  <2>1. ASSUME All = filled, NEW v \in VBuckets, NEW k \in Slots
        PROVE  keys[v][k] # NULL
    <3>1. <<v, k>> \in filled
      BY <2>1
    <3>. QED  BY <3>1
  <2>2. ASSUME \A v \in VBuckets : Full(v)
        PROVE  All = filled
    BY <2>2 DEF Full
  <2>. QED  BY <2>1, <2>2 DEF Full
<1> HIDE DEF All, filled
<1>. QED  BY <1>3, <1>4, <1>5, <1>6, <1>7

(* A full row holds that many different keys of its vbucket. *)
LEMMA FullHasKeys ==
  ASSUME TypeOK, CollectsFirst, AllGenerated, num_keys_per_vbucket > 0,
         NEW v \in VBuckets, Full(v)
  PROVE  Cardinality(KeysOf(v)) >= num_keys_per_vbucket
<1>1. /\ num_keys_per_vbucket \in Nat
      /\ num_keys_to_generate \in Int
      /\ i \in Nat
  BY Counts
<1>2. IsFiniteSet(Slots) /\ Cardinality(Slots) = num_keys_per_vbucket
  BY SlotsCounted
<1>3. ASSUME NEW k \in Slots
      PROVE  keys[v][k] \in KeysOf(v)
  <2>1. keys[v][k] \in Nat
    BY SlotType DEF Full, Keys
  <2>2. hash[keys[v][k]] = v /\ keys[v][k] < i
    BY DEF CollectsFirst, Full
  <2>. QED  BY <1>1, <2>1, <2>2 DEF AllGenerated, KeysOf
<1>4. ASSUME NEW j \in Slots, NEW k \in Slots, j < k
      PROVE  keys[v][j] # keys[v][k]
  <2>1. keys[v][j] < keys[v][k]
    BY <1>1, <1>4 DEF CollectsFirst, InOrder, Full, Slots
  <2>. QED  BY <1>3, <2>1 DEF KeysOf
<1> DEFINE row == [k \in Slots |-> keys[v][k]]
<1>5. row \in Injection(Slots, KeysOf(v))
  <2>1. row \in [Slots -> KeysOf(v)]
    BY <1>3
  <2>2. ASSUME NEW j \in Slots, NEW k \in Slots, row[j] = row[k]
        PROVE  j = k
    BY <1>1, <1>4, <2>2 DEF Slots
  <2>. QED  BY <2>1, <2>2 DEF Injection, IsInjective
<1>6. Cardinality(Slots) <= Cardinality(KeysOf(v))
  BY <1>5, KeysOfFinite, FS_Injection
<1>. QED  BY <1>1, <1>2, <1>6, KeysOfFinite

(* A row with a free slot holds all keys of its vbucket: too few. *)
LEMMA FreeHasFewKeys ==
  ASSUME TypeOK, CollectsFirst, pc = "exit", AllGenerated, num_keys_per_vbucket > 0,
         NEW v \in VBuckets, ~Full(v)
  PROVE  Cardinality(KeysOf(v)) < num_keys_per_vbucket
<1>1. /\ num_keys_per_vbucket \in Nat
      /\ num_keys_to_generate \in Int
      /\ i \in Nat
  BY Counts
<1>2. PICK free \in Slots : keys[v][free] = NULL
  BY DEF Full
<1>3. /\ IsFiniteSet(Slots \ {free})
      /\ Cardinality(Slots \ {free}) = num_keys_per_vbucket - 1
  BY SlotsCounted, FS_RemoveElement
<1>4. \A key \in KeysOf(v) : \E k \in Slots \ {free} : keys[v][k] = key
  <2>. SUFFICES ASSUME NEW key \in KeysOf(v)
                PROVE  \E k \in Slots \ {free} : keys[v][k] = key
    OBVIOUS
  <2>1. key \in 0 .. i - 1 /\ hash[key] = v /\ key # NULL
    BY <1>1, KeyGenAssumption DEF KeysOf, AllGenerated
  <2>2. \E k \in Slots : keys[v][k] = key
    BY <1>2, <2>1 DEF CollectsFirst
  <2>. QED  BY <1>2, <2>1, <2>2
<1> DEFINE place == [key \in KeysOf(v) |-> CHOOSE k \in Slots \ {free} : keys[v][k] = key]
<1>5. place \in Injection(KeysOf(v), Slots \ {free})
  <2>1. \A key \in KeysOf(v) : place[key] \in Slots \ {free} /\ keys[v][place[key]] = key
    BY <1>4
  <2>2. place \in [KeysOf(v) -> Slots \ {free}]
    BY <2>1
  <2> HIDE DEF place
  <2>. QED  BY <2>1, <2>2 DEF Injection, IsInjective
<1>6. Cardinality(KeysOf(v)) <= Cardinality(Slots \ {free})
  BY <1>3, <1>5, FS_Injection
<1>. QED  BY <1>1, <1>3, <1>6, KeysOfFinite

(* The exit status is 0 exactly if the keys asked for include enough for     *)
(* every vbucket, whatever the keys hash to.                                 *)
THEOREM ExitStatusTells == Spec => []ExitStatus
<1>1. TypeOK /\ CollectsFirst /\ AllGenerated => ExitStatus
  <2>. SUFFICES ASSUME TypeOK, CollectsFirst, AllGenerated, pc = "exit"
                PROVE  rval = 0 <=> Enough
    BY DEF ExitStatus, Enough
  <2>1. rval = 0 <=> ~(Total < NumVBuckets * num_keys_per_vbucket)
    BY DEF AllGenerated
  <2>2. num_keys_per_vbucket \in Int /\ NumVBuckets \in Nat
    BY KeyGenAssumption DEF TypeOK
  <2>3. Enough <=> \A v \in VBuckets : Cardinality(KeysOf(v)) >= num_keys_per_vbucket
    BY DEF Enough, KeysOf
  <2>4. CASE num_keys_per_vbucket > 0
    <3>1. ASSUME NEW v \in VBuckets
          PROVE  Full(v) <=> Cardinality(KeysOf(v)) >= num_keys_per_vbucket
      <4>1. CASE Full(v)
        BY <2>4, <4>1, FullHasKeys
      <4>2. CASE ~Full(v)
        <5>1. Cardinality(KeysOf(v)) < num_keys_per_vbucket
          BY <2>4, <4>2, FreeHasFewKeys
        <5>. QED  BY <2>2, <4>2, <5>1, KeysOfFinite
      <4>. QED  BY <4>1, <4>2
    <3>2. Enough <=> \A v \in VBuckets : Full(v)
      BY <2>3, <3>1
    <3>. QED  BY <2>1, <2>4, <3>2, TotalCounts
  <2>5. CASE num_keys_per_vbucket <= 0
    <3>1. Enough
      BY <2>2, <2>3, <2>5, KeysOfFinite
    <3>2. Slots = {}
      BY <2>2, <2>5 DEF Slots
    <3>3. Total = 0
      BY <3>2, FS_EmptySet DEF Total
    <3>4. NumVBuckets * num_keys_per_vbucket <= 0
      BY <2>2, <2>5
    <3>5. NumVBuckets * num_keys_per_vbucket \in Int
      BY <2>2
    <3>6. ~(Total < NumVBuckets * num_keys_per_vbucket)
      BY <3>3, <3>4, <3>5
    <3>. QED  BY <2>1, <3>1, <3>6
  <2>. QED  BY <2>2, <2>4, <2>5
<1>. QED  BY <1>1, AllGeneratedAlways, KeysTyped, KeysAreFirst, PTL
================================================================================
