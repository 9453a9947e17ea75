--------------------------------- MODULE KeyGen ---------------------------------
(***************************************************************************)
(* vbucketkeygen (src/vbucketkeygen.c): collect keys until every vbucket   *)
(* has as many as asked for.  Key number i is the string "key_" with i in  *)
(* ten digits; the digest it hashes to is an arbitrary function of i.  The *)
(* map file is parsed by module VBucketConfig, and a key's vbucket is what *)
(* VBucketRouting's vbucket_get_vbucket_by_key makes of the digest.        *)
(***************************************************************************)
EXTENDS Integers, FiniteSets

CONSTANTS
  NumVBuckets,     \* vbucket_config_get_num_vbuckets of the map file
  KeysPerVBucket,  \* values argv[2] may have
  KeysToGenerate,  \* values argv[3] may have
  MaxKeys,         \* bound: keys there are
  NULL

ASSUME KeyGenAssumption ==
  /\ NumVBuckets \in Nat \ {0}
  /\ KeysPerVBucket \subseteq Int
  /\ MaxKeys \in Nat
  /\ KeysToGenerate \subseteq { n \in Int : n <= MaxKeys }
  /\ NULL \notin Int

VARIABLES
  hash,      \* the vbucket of each key, fixed
  num_keys_per_vbucket, num_keys_to_generate,
  keys,      \* per vbucket the slots for its keys
  i,         \* the next key
  pc,        \* "load": before the map is parsed, "generate", "print", "exit", or "no map"
  rval       \* the exit status

vars == <<hash, num_keys_per_vbucket, num_keys_to_generate, keys, i, pc, rval>>

VBuckets == 0 .. NumVBuckets - 1
Keys     == 0 .. MaxKeys - 1
Slots    == 0 .. num_keys_per_vbucket - 1

TypeOK ==
  /\ hash \in [Keys -> VBuckets]
  /\ num_keys_per_vbucket \in KeysPerVBucket
  /\ num_keys_to_generate \in KeysToGenerate
  /\ keys \in [VBuckets -> [Slots -> Keys \cup {NULL}]]
  /\ i \in 0 .. MaxKeys
  /\ pc \in {"load", "generate", "print", "exit", "no map"}
  /\ rval \in {0, 1}

Init ==
  /\ hash \in [Keys -> VBuckets]
  /\ num_keys_per_vbucket \in KeysPerVBucket
  /\ num_keys_to_generate \in KeysToGenerate
  /\ keys = [v \in VBuckets |-> [k \in Slots |-> NULL]]
  /\ i = 0
  /\ pc = "load"
  /\ rval = 0

-------------------------------------------------------------------------------
args == <<hash, num_keys_per_vbucket, num_keys_to_generate>>

(* The map file cannot be read or parsed: exit(1). *)
NoMap ==
  /\ pc = "load"
  /\ pc' = "no map"
  /\ rval' = 1
  /\ UNCHANGED <<args, keys, i>>

Load ==
  /\ pc = "load"
  /\ pc' = "generate"
  /\ UNCHANGED <<args, keys, i, rval>>

(* Faulty variants: the slots searched without a break, or to one too many;  *)
(* one slot too few looked at when keys are counted.                         *)
InAllFree(v) ==
  /\ \E k \in Slots : keys[v][k] = NULL
  /\ keys' = [keys EXCEPT ![v] = [k \in Slots |-> IF @[k] = NULL THEN i ELSE @[k]]]
InSlotPastEnd(v) ==
  /\ \A k \in Slots : keys[v][k] # NULL
  /\ keys' = [keys EXCEPT ![v] = [k \in 0 .. num_keys_per_vbucket |->
                                   IF k \in Slots THEN @[k] ELSE i]]
TotalShort == Cardinality({ s \in VBuckets \X Slots : s[2] # 0 /\ keys[s[1]][s[2]] # NULL })

(* The loop over k: the key goes to the first free slot of its vbucket.      *)
InFirstFree(v) ==
  \E k \in Slots :
    /\ keys[v][k] = NULL
    /\ \A j \in 0 .. k - 1 : keys[v][j] # NULL
    /\ keys' = [keys EXCEPT ![v][k] = i]

NoneFree(v) ==
  /\ \A k \in Slots : keys[v][k] # NULL
  /\ UNCHANGED keys

Generate ==
  /\ pc = "generate"
  /\ i < num_keys_to_generate
  /\ InFirstFree(hash[i]) \/ NoneFree(hash[i])
  /\ i' = i + 1
  /\ UNCHANGED <<args, pc, rval>>

EndGenerate ==
  /\ pc = "generate"
  /\ i >= num_keys_to_generate
  /\ pc' = "print"
  /\ UNCHANGED <<args, keys, i, rval>>

(* The keys printed. *)
Total == Cardinality({ s \in VBuckets \X Slots : keys[s[1]][s[2]] # NULL })

Summarise ==
  /\ pc = "print"
  /\ rval' = IF Total < NumVBuckets * num_keys_per_vbucket THEN 1 ELSE 0
  /\ pc' = "exit"
  /\ UNCHANGED <<args, keys, i>>

Next == NoMap \/ Load \/ Generate \/ EndGenerate \/ Summarise

Spec == Init /\ [][Next]_vars

-------------------------------------------------------------------------------
(* At any time each vbucket holds the first of the keys generated so far     *)
(* that map to it, in order, each once and without gaps: one that is left    *)
(* out found the row full of smaller keys.                                   *)
InOrder(row, n) ==
  \A k \in 0 .. n - 1 : row[k] # NULL =>
    \A j \in 0 .. k - 1 : row[j] # NULL /\ row[j] < row[k]

CollectsFirst ==
  \A v \in VBuckets :
    /\ InOrder(keys[v], num_keys_per_vbucket)
    /\ \A k \in Slots : keys[v][k] # NULL => hash[keys[v][k]] = v /\ keys[v][k] < i
    /\ \A key \in 0 .. i - 1 : hash[key] = v =>
         \/ \E k \in Slots : keys[v][k] = key
         \/ \A k \in Slots : keys[v][k] # NULL /\ keys[v][k] < key

(* The exit status says whether the keys listed "equally distribute amongst  *)
(* every vbucket": it is 0 exactly if the keys asked for include enough for  *)
(* each of them.                                                             *)
Enough ==
  \A v \in VBuckets :
    Cardinality({ key \in 0 .. num_keys_to_generate - 1 : hash[key] = v })
      >= num_keys_per_vbucket

ExitStatus == pc = "exit" => (rval = 0) = Enough
=================================================================================
