----------------------------- MODULE VBucketCompare -----------------------------
(***************************************************************************)
(* vbucket_compare (src/vbucket.c): what an application learns about the   *)
(* configuration it is offered, compared with the one it uses, before it   *)
(* decides to drop connections or to keep them.                            *)
(***************************************************************************)
EXTENDS Integers, Sequences, FiniteSets

CONSTANTS
  Handles,    \* the handles that may be compared
  NULL        \* an absent credential, and the end of a list of names

VARIABLES
  from, to,   \* the two handles
  diff        \* the result, or NULL before the call

vars == <<from, to, diff>>

(* What the comparison looks at: authorities in index order, credentials and *)
(* the rows of the map (<<>> on a ketama handle).  Row i is vbucket i - 1.   *)
Names(handle) == { handle.servers[i] : i \in DOMAIN handle.servers }

num_servers(handle)  == Len(handle.servers)
num_vbuckets(handle) == Len(handle.vbuckets)

Row(handle) == [master : -1 .. num_servers(handle) - 1, replica : Int]

ASSUME HandlesAssumption ==
  \A handle \in Handles :
    /\ handle.servers \in Seq(Names(handle)) \ {<<>>}
    /\ NULL \notin Names(handle)
    /\ handle.vbuckets \in Seq(Row(handle))

Init ==
  /\ from \in Handles
  /\ to \in Handles
  /\ diff = NULL

-------------------------------------------------------------------------------
(* Faulty variants: no room for the terminator; only the lengths compared;   *)
(* the names the two handles share; the last vbucket not counted.            *)
CapacityExact(a, b)      == IF num_servers(a) > num_servers(b) THEN num_servers(a) ELSE num_servers(b)
SequenceByLength(a, b)   == num_servers(a) # num_servers(b)
NamesInBoth(a, b)        == SelectSeq(b.servers, LAMBDA name : name \in Names(a))
CountButLast(a, b) ==
  IF num_vbuckets(a) = num_vbuckets(b)
  THEN Cardinality({ v \in 1 .. num_vbuckets(b) - 1 : a.vbuckets[v].master # b.vbuckets[v].master })
  ELSE -1

Capacity(a, b) ==
  (IF num_servers(a) > num_servers(b) THEN num_servers(a) ELSE num_servers(b)) + 1

(* The names of b that a lacks, in the order of b and as often as b has them. *)
compute_vb_list_diff(a, b) ==
  LET output[n \in 0 .. num_servers(b)] ==
        IF n = 0 THEN <<>>
        ELSE IF b.servers[n] \in Names(a) THEN output[n - 1]
        ELSE Append(output[n - 1], b.servers[n])
  IN  output[num_servers(b)]

(* calloc'ed array of that many pointers, the list stored from its start. *)
Array(list, capacity) ==
  [i \in 0 .. capacity - 1 |-> IF i < Len(list) THEN list[i + 1] ELSE NULL]

ServersMoved(a, b) ==
  \/ num_servers(a) # num_servers(b)
  \/ \E i \in DOMAIN a.servers : a.servers[i] # b.servers[i]

CredentialChanged(x, y) ==
  IF x # NULL /\ y # NULL THEN x # y ELSE (x # NULL) # (y # NULL)

CountChanges(a, b) ==
  IF num_vbuckets(a) = num_vbuckets(b)
  THEN Cardinality({ v \in DOMAIN b.vbuckets : a.vbuckets[v].master # b.vbuckets[v].master })
  ELSE -1

Diff(a, b) ==
  [servers_added    |-> Array(compute_vb_list_diff(a, b), Capacity(a, b)),
   servers_removed  |-> Array(compute_vb_list_diff(b, a), Capacity(a, b)),
   sequence_changed |-> \/ ServersMoved(a, b)
                        \/ CredentialChanged(a.user, b.user)
                        \/ CredentialChanged(a.password, b.password),
   n_vb_changes     |-> CountChanges(a, b)]

vbucket_compare ==
  /\ diff = NULL
  /\ diff' = Diff(from, to)
  /\ UNCHANGED <<from, to>>

vbucket_free_diff ==
  /\ diff # NULL
  /\ diff' = NULL
  /\ UNCHANGED <<from, to>>

Next == vbucket_compare \/ vbucket_free_diff

Spec == Init /\ [][Next]_vars

-------------------------------------------------------------------------------
(* The names before the first NULL, as vbucket_free_diff and callers read    *)
(* an array. *)
Listed(array) ==
  { array[i] : i \in { k \in DOMAIN array : \A j \in 0 .. k : array[j] # NULL } }

(* Both lists end in a NULL within the array allocated for them, even if no  *)
(* server is common to the two handles. *)
ListsEnd ==
  diff # NULL => /\ \E i \in DOMAIN diff.servers_added   : diff.servers_added[i] = NULL
                 /\ \E i \in DOMAIN diff.servers_removed : diff.servers_removed[i] = NULL

(* The lists hold the servers that were added and those that were removed,   *)
(* and none that both handles have: applying them to the old set of servers  *)
(* gives the new one, and nothing that stays is disconnected.                *)
ListsDescribeChange ==
  diff # NULL => /\ Listed(diff.servers_added)   = Names(to) \ Names(from)
                 /\ Listed(diff.servers_removed) = Names(from) \ Names(to)

MasterName(handle, v) ==
  LET m == handle.vbuckets[v].master IN IF m = -1 THEN NULL ELSE handle.servers[m + 1]

(* If the comparison reports nothing, the old handle may stay in use: every  *)
(* vbucket is at the server of the same name, and the credentials are the    *)
(* same.  (The masters compared are indices: they mean the same servers only *)
(* because the sequences are equal.)                                         *)
QuietMeansSame ==
  diff # NULL /\ ~diff.sequence_changed /\ diff.n_vb_changes = 0 =>
    /\ DOMAIN from.vbuckets = DOMAIN to.vbuckets
    /\ \A v \in DOMAIN to.vbuckets : MasterName(from, v) = MasterName(to, v)
    /\ <<from.user, from.password>> = <<to.user, to.password>>
================================================================================
