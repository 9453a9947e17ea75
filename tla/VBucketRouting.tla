---------------------------- MODULE VBucketRouting ----------------------------
(***************************************************************************)
(* The routing tables of a successfully parsed handle in "vbucket"         *)
(* distribution, and the calls that read or repair them: vbucket_map,      *)
(* vbucket_get_vbucket_by_key, vbucket_get_master, vbucket_get_replica and *)
(* vbucket_found_incorrect_master (src/vbucket.c).                         *)
(***************************************************************************)
EXTENDS Integers

CONSTANTS
  NumVBuckets,   \* vb->num_vbuckets
  NumServers,    \* vb->num_servers
  NumReplicas,   \* vb->num_replicas
  MaxReplicas,   \* MAX_REPLICAS: a row has MaxReplicas + 1 entries
  NULL           \* the null pointer

VBuckets  == 0 .. NumVBuckets - 1
Servers   == 0 .. NumServers - 1
ServerIds == Servers \cup {-1}

(* struct vbucket_st: entry 0 is the master, entry i + 1 is replica i. *)
Row == [0 .. MaxReplicas -> ServerIds]
Map == [VBuckets -> Row]

(* What populate_buckets leaves: calloc zeroes the entries past numReplicas. *)
LoadedMap == { m \in Map : \A v \in VBuckets :
                 \A j \in NumReplicas + 1 .. MaxReplicas : m[v][j] = 0 }

ASSUME RoutingAssumption ==
  /\ NumVBuckets \in Nat \ {0}
  /\ NumServers \in Nat \ {0}
  /\ MaxReplicas \in Nat
  /\ NumReplicas \in 0 .. MaxReplicas
  /\ NULL \notin Map

VARIABLES
  vbuckets,    \* the current map
  fvbuckets    \* the forward map, or NULL if the configuration had none

-------------------------------------------------------------------------------
(* The mask is num_vbuckets - 1 and num_vbuckets is a power of two, so       *)
(* digest & mask is the remainder.                                           *)
vbucket_get_vbucket_by_key(digest) == digest % NumVBuckets

vbucket_get_master(v) == vbuckets[v][0]

vbucket_get_replica(v, i) ==
  IF i + 1 < NumServers THEN vbuckets[v][i + 1] ELSE -1

(* The pair <<vbucket_id, server_idx>>. *)
vbucket_map(digest) ==
  LET v == vbucket_get_vbucket_by_key(digest) IN <<v, vbucket_get_master(v)>>

-------------------------------------------------------------------------------
(* vbucket_found_incorrect_master(vb, v, wrongserver), branch by branch.     *)

(* Faulty variants: a copy that stops one replica short, or that forgets the *)
(* master; a correction that ignores which server was reported; a step that  *)
(* skips a server, or that forgets to wrap.                                  *)
ForwardRowShort(row, frow) ==
  [j \in DOMAIN row |-> IF j < NumReplicas THEN frow[j] ELSE row[j]]
ForwardReplicasOnly(row, frow) ==
  [j \in DOMAIN row |-> IF j \in 1 .. NumReplicas THEN frow[j] ELSE row[j]]
NextServerUnwrapped(s) == s + 1
NextServerSkips(s) == (s + 2) % NumServers
IsCurrentMasterAny(v, wrongserver) == TRUE

(* The master and num_replicas replicas are copied, the rest of the row stays. *)
ForwardRow(row, frow) ==
  [j \in DOMAIN row |-> IF j <= NumReplicas THEN frow[j] ELSE row[j]]

NextServer(s) == (s + 1) % NumServers

IsCurrentMaster(v, wrongserver) == vbuckets[v][0] = wrongserver

UseForwardRow(v) ==
  /\ fvbuckets # NULL
  /\ vbuckets' = [vbuckets EXCEPT ![v] = ForwardRow(@, fvbuckets[v])]

TryNextServer(v, wrongserver) ==
  /\ fvbuckets = NULL
  /\ IsCurrentMaster(v, wrongserver)
  /\ vbuckets' = [vbuckets EXCEPT ![v][0] = NextServer(@)]

KeepMaster(v, wrongserver) ==
  /\ fvbuckets = NULL
  /\ ~IsCurrentMaster(v, wrongserver)
  /\ UNCHANGED vbuckets

vbucket_found_incorrect_master(v, wrongserver) ==
  /\ \/ UseForwardRow(v)
     \/ TryNextServer(v, wrongserver)
     \/ KeepMaster(v, wrongserver)
  /\ UNCHANGED fvbuckets

(* Faulty variant: rv is still the master read on entry. *)
FoundMasterOnEntry(v) == vbuckets[v][0]

(* rv: on every branch the value just stored, or the one left, in entry 0. *)
FoundMaster(v) == vbuckets'[v][0]
===============================================================================
