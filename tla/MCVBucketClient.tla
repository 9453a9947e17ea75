---------------------------- MODULE MCVBucketClient ----------------------------
(* Small instances of VBucketClient. *)
EXTENDS VBucketClient, TLC

CONSTANTS Masters    \* server ids the loaded maps use as masters

(* Rows with one replica, on the next server round the list; entries past    *)
(* NumReplicas are zero. *)
ReplicaOf(s) == (s + 1) % NumServers

RowOf(s) == [j \in 0 .. MaxReplicas |-> IF j = 0 THEN s
                                        ELSE IF j <= NumReplicas THEN ReplicaOf(s) ELSE 0]

MCMaps == { [v \in VBuckets |-> RowOf(m[v])] : m \in [VBuckets -> Masters] }

MCForwardMaps == MCMaps \cup {NULL}

NoForwardMap == {NULL}

AnyMaster == ServerIds

RequestSymmetry == Permutations(Requests)

MCDigests == 0 .. 2 * NumVBuckets - 1
================================================================================
