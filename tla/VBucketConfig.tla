------------------------------ MODULE VBucketConfig ------------------------------
(***************************************************************************)
(* The life of a handle (src/vbucket.c): create, parse, parse again,       *)
(* destroy, and the older vbucket_config_parse_file / _string built on     *)
(* them.  Parsing fills the handle piece by piece and stops at the first   *)
(* error, so what matters is which pieces a failed or a repeated parse     *)
(* leaves behind.  Each action is one function or one stage of             *)
(* parse_vbucket_config; what the configuration says is chosen when the    *)
(* code asks for it.                                                       *)
(*                                                                         *)
(* Data is reduced to what the calls on the handle depend on: a server is  *)
(* empty, named (has an authority) or described (has its REST address as   *)
(* well); a table is its number of rows, the number of entries written to  *)
(* each row and the set of ids in it; a credential is given or not.        *)
(***************************************************************************)
EXTENDS Integers, Sequences

CONSTANTS
  MaxReplicas,       \* MAX_REPLICAS
  HashMask,          \* hash_crc32 answers 0 .. HashMask (0x7fff in the code)
  MaxServers,        \* bound: servers or nodes in a configuration
  MaxRows,           \* bound: rows in its maps
  MaxParses,         \* bound: how often one handle is parsed into
  MaxConfigSize,     \* MAX_CONFIG_SIZE
  Credentials,       \* the credentials a configuration may give
  Locators,          \* values nodeLocator takes in the configurations
  AllocFails,        \* the allocations that may fail
  NULL

(* Where the code allocates: a map of vbuckets (lines 320 and 325), the      *)
(* array of servers of serverList (170) and of the nodes (448), the          *)
(* continuum (97), a credential (494, 498), an error message.  The code      *)
(* looks at the result of the first two only.  (An allocation that, failing, *)
(* fails the parse like bad input does is left to the input.)                *)
Allocations == {"map", "servers", "nodes", "continuum", "credential", "message"}

ASSUME HandleAssumption ==
  /\ {MaxReplicas, HashMask, MaxServers, MaxRows, MaxParses, MaxConfigSize} \subseteq Nat
  /\ MaxParses > 0
  /\ Credentials \subseteq {"user", "password"}
  /\ Locators \subseteq {"absent", "vbucket", "ketama", "other", "not a string"}
  /\ AllocFails \subseteq Allocations

VARIABLES
  h,         \* the handle, or NULL
  errstr,    \* the error of the older interface
  pc,        \* the function that runs, "idle" between calls, "crashed" after a fault
  ret,       \* what the last parse returned
  compat,    \* was the parse called by backwards_compat?
  announced, \* what the configuration parsed last had, of the things it may lack
  lost,      \* for the properties only: what an unchecked allocation left out of h
  parses,    \* parses into this handle so far
  file       \* the file being read and the buffer for it, or NULL

vars == <<h, errstr, pc, ret, compat, announced, lost, parses, file>>

ServerCounts == 1 .. MaxServers
Rows  == 0 .. MaxRows
Ids   == -2 .. MaxServers
Table == [rows : Rows, width : 0 .. MaxReplicas + 1, ids : SUBSET Ids]

(* Messages by what they complain about: the file, its text, or something in *)
(* the configuration. *)
Messages == {"file", "JSON", "config"}

ServerState == {"empty", "named", "described"}

Handle ==
  [errmsg : Messages \cup {NULL},
   distribution : {"vbucket", "ketama"},
   num_vbuckets : Rows, mask : Int, num_servers : 0 .. MaxServers, num_replicas : Int,
   credentials : SUBSET Credentials,
   num_continuum : Nat,    \* in units of the points per server; 0: continuum is NULL
   servers : Seq(ServerState) \cup {NULL},
   vbuckets : Table \cup {NULL}, fvbuckets : Table \cup {NULL}]

Fresh ==
  [errmsg |-> NULL, distribution |-> "vbucket", num_vbuckets |-> 0, mask |-> 0,
   num_servers |-> 0, num_replicas |-> 0,
   credentials |-> {}, num_continuum |-> 0, servers |-> NULL, vbuckets |-> NULL, fvbuckets |-> NULL]

ASSUME NullAssumption ==
  /\ NULL \notin Messages /\ NULL \notin Seq(ServerState)
  /\ NULL \notin Table /\ NULL \notin Handle

Sizes == 0 .. MaxConfigSize

TypeOK ==
  /\ h \in Handle \cup {NULL}
  /\ compat \in BOOLEAN
  /\ announced \subseteq Credentials \cup {"forward"}
  /\ lost \subseteq Credentials \cup {"nodes"}
  /\ errstr \in Messages \cup {NULL}
  /\ pc \in {"idle", "source", "read", "text", "JSON", "locator", "replicas", "servers", "nodes", "map", "forward",
             "ketama", "return", "crashed"}
  /\ ret \in {0, -1, NULL}
  /\ parses \in 0 .. MaxParses
  /\ IF pc \in {"read", "text"}
     THEN /\ {file.size, file.read, file.offset, file.left} \subseteq Sizes
          /\ file.data \in [0 .. file.size -> Sizes]
     ELSE file = NULL

Init ==
  /\ h = NULL /\ errstr = NULL
  /\ pc = "idle" /\ ret = NULL /\ compat = FALSE /\ announced = {} /\ lost = {}
  /\ parses = 0 /\ file = NULL

-------------------------------------------------------------------------------
(* The operator & of C.  (A recursive function, where Bitwise has RECURSIVE  *)
(* operators.)                                                               *)
BitAnd[xy \in Nat \X Nat] ==
  LET x == xy[1]
      y == xy[2]
  IN  IF x = 0 \/ y = 0 THEN 0 ELSE 2 * BitAnd[<<x \div 2, y \div 2>>] + (x % 2) * (y % 2)

(* The duplicate of an error message, which nobody looks at.                 *)
Duplicate(message) == {message} \cup (IF "message" \in AllocFails THEN {NULL} ELSE {})

(* Going on with the parse, and leaving it with a message.  (The buffer for  *)
(* the file, which parse_from_file frees at its end, goes when nothing reads *)
(* it any more.)                                                             *)
Continue(handle, next) ==
  /\ h' = handle
  /\ pc' = next
  /\ file' = NULL
  /\ UNCHANGED <<errstr, ret, compat, announced, lost, parses>>

Fail(handle, message) ==
  /\ \E errmsg \in Duplicate(message) : h' = [handle EXCEPT !.errmsg = errmsg]
  /\ pc' = "return"
  /\ ret' = -1
  /\ file' = NULL
  /\ UNCHANGED <<errstr, compat, announced, lost, parses>>

Succeed(handle, forward) ==
  /\ h' = handle
  /\ announced' = announced \cup forward
  /\ pc' = "return"
  /\ ret' = 0
  /\ UNCHANGED <<errstr, compat, lost, parses, file>>

(* The process ends inside the call. *)
Fault(handle) ==
  /\ h' = handle
  /\ pc' = "crashed"
  /\ UNCHANGED <<errstr, ret, compat, announced, lost, parses, file>>

-------------------------------------------------------------------------------
(* The calls of the application.  (Without memory for the handle, create     *)
(* answers NULL and changes nothing.)                                        *)
vbucket_config_create ==
  /\ pc = "idle"
  /\ h = NULL
  /\ h' = Fresh
  /\ ret' = NULL /\ compat' = FALSE /\ announced' = {} /\ lost' = {} /\ parses' = 0
  /\ UNCHANGED <<errstr, pc, file>>

vbucket_config_parse ==
  /\ pc = "idle"
  /\ h # NULL
  /\ parses < MaxParses
  /\ pc' = "source"
  /\ ret' = NULL /\ compat' = FALSE /\ announced' = {} /\ parses' = parses + 1
  /\ UNCHANGED <<h, errstr, lost, file>>

(* vbucket_config_parse_file and vbucket_config_parse_string. *)
backwards_compat ==
  /\ pc = "idle"
  /\ h = NULL
  /\ h' = Fresh
  /\ pc' = "source"
  /\ ret' = NULL /\ compat' = TRUE /\ announced' = {} /\ lost' = {} /\ parses' = 1
  /\ UNCHANGED <<errstr, file>>

(* vbucket_config_destroy frees what servers[0 .. num_servers - 1] refer to. *)
DestroyFaults(handle) == handle.num_servers > 0 /\ handle.servers = NULL

vbucket_config_destroy ==
  /\ pc = "idle"
  /\ h # NULL
  /\ \/ DestroyFaults(h) /\ Fault(h)
     \/ /\ ~DestroyFaults(h)
        /\ h' = NULL
        /\ ret' = NULL /\ compat' = FALSE /\ announced' = {} /\ lost' = {} /\ parses' = 0
        /\ UNCHANGED <<errstr, pc, file>>

-------------------------------------------------------------------------------
(* parse_from_file: size bytes are asked for, the buffer has one more for    *)
(* the terminator.  Byte k of the file is k, a zeroed byte is 0.             *)
Unread(size) ==
  [size |-> size, read |-> 0, offset |-> 0, left |-> size, data |-> [i \in 0 .. size |-> 0]]

OpenFile ==
  /\ pc = "source"
  /\ \/ Fail(h, "file")             \* cannot be opened, or no memory for the buffer
     \/ \E size \in 0 .. MaxConfigSize + 1 :
          \/ size > MaxConfigSize /\ Fail(h, "file")
          \/ /\ size <= MaxConfigSize
             /\ file' = Unread(size)
             /\ pc' = "read"
             /\ UNCHANGED <<h, errstr, ret, compat, announced, lost, parses>>

(* fread stores its n bytes from data + offset on. *)
Fread(f, n) ==
  [f EXCEPT !.read = @ + n,
            !.data = [i \in DOMAIN @ |-> IF i \in f.offset .. f.offset + n - 1
                                         THEN f.read + (i - f.offset) + 1 ELSE @[i]]]

(* Faulty variant: the offset stays at the start. *)
AdvanceSizeOnly(f, n) == [f EXCEPT !.left = @ - n]

Advance(f, n) == [f EXCEPT !.offset = @ + n, !.left = @ - n]

(* One turn of do_read_file.  A read of nothing is an error, also the first  *)
(* one of an empty file; a read of less than what is left goes on.           *)
do_read_file ==
  /\ pc = "read"
  /\ \/ Fail(h, "file")
     \/ \E n \in 1 .. file.left :
          /\ file' = Advance(Fread(file, n), n)
          /\ pc' = IF file'.left > 0 THEN "read" ELSE "text"
          /\ UNCHANGED <<h, errstr, ret, compat, announced, lost, parses>>

(* parse_from_memory, called from parse_from_file or with the text given. *)
ParseFromMemory ==
  /\ pc \in {"source", "text"}
  /\ Continue(h, "JSON")

InvalidJSON ==
  /\ pc = "JSON"
  /\ Fail(h, "JSON")

(* parse_cjson: it stores a duplicate of each credential that is given, or   *)
(* NULL without memory for it, and goes on either way; those that are not    *)
(* given it leaves alone.                                                    *)
CopyCredentials ==
  /\ pc = "JSON"
  /\ \E given \in SUBSET Credentials : \E stored \in SUBSET given :
       /\ stored = given \/ "credential" \in AllocFails
       /\ h' = [h EXCEPT !.credentials = (@ \ given) \cup stored]
       /\ announced' = given
       /\ lost' = (lost \ given) \cup (given \ stored)
  /\ pc' = "locator"
  /\ UNCHANGED <<errstr, ret, compat, parses, file>>

(* Then the locator decides; a string that names no known one ends the parse *)
(* without an error.                                                         *)
parse_cjson ==
  /\ pc = "locator"
  /\ \E locator \in Locators :
       LET found == [h EXCEPT !.distribution = IF locator = "ketama" THEN "ketama" ELSE "vbucket"]
       IN  \/ locator \in {"absent", "vbucket"} /\ Continue(found, "replicas")
           \/ locator = "ketama" /\ Continue(found, "ketama")
           \/ locator = "other" /\ Succeed(found, {})
           \/ locator = "not a string" /\ Fail(found, "config")

-------------------------------------------------------------------------------
(* parse_vbucket_config, stage by stage. *)

(* Faulty variants: one replica too many; any count taken for a power of two; *)
(* an id as large as num_servers; servers kept aside until all are stored.   *)
ReplicasLoose(n) == n <= MaxReplicas + 1
CountNonZero(n)  == n # 0
ServerIdLoose(id, n) == id >= -1 /\ id <= n
WithCompleteServers(handle, n, servers) ==
  [handle EXCEPT !.num_servers = n,
                 !.servers = IF \E i \in 1 .. n : servers[i] = "empty" THEN @ ELSE servers]

ReplicasOK(n)     == n <= MaxReplicas
CountOK(n)        == n # 0 /\ BitAnd[<<n, n - 1>>] = 0
MaskOf(n)         == n - 1
ServerIdOK(id, n) == id >= -1 /\ id < n

NumReplicas ==
  /\ pc = "replicas"
  /\ \/ Fail(h, "config")      \* missing or not a number
     \/ \E n \in -2 .. MaxReplicas + 1 :
          \/ ~ReplicasOK(n) /\ Fail(h, "config")
          \/ ReplicasOK(n) /\ Continue([h EXCEPT !.num_replicas = n], "servers")

(* k servers stored out of the n listed. *)
Stored(k, n, what) == [i \in 1 .. n |-> IF i <= k THEN what ELSE "empty"]

(* The handle once num_servers is known and the array of n servers is there. *)
WithServers(handle, n, servers) ==
  [handle EXCEPT !.num_servers = n, !.servers = servers]

(* serverList and populate_servers. *)
ServerList ==
  /\ pc = "servers"
  /\ \/ Fail(h, "config")                              \* missing, not an array
     \/ Fail([h EXCEPT !.num_servers = 0], "config")     \* an empty array
     \/ \E n \in ServerCounts : \E k \in 0 .. n :
          \/ k < n /\ Fail(WithServers(h, n, Stored(k, n, "named")), "config")
          \/ k = n /\ Continue(WithServers(h, n, Stored(n, n, "named")), "nodes")

(* populate_servers without memory for the array: it destroys the handle,    *)
(* whose num_servers is set, and so reads through the NULL in servers.       *)
NoServersArray ==
  /\ pc = "servers"
  /\ "servers" \in AllocFails
  /\ \E n \in ServerCounts : Fault([h EXCEPT !.num_servers = n, !.servers = NULL])

(* The process is started again. *)
Restart ==
  /\ pc = "crashed"
  /\ h' = NULL /\ errstr' = NULL
  /\ pc' = "idle" /\ ret' = NULL /\ compat' = FALSE /\ announced' = {} /\ lost' = {} /\ parses' = 0
  /\ UNCHANGED file

(* nodes and update_server_info, one node at a time.  A node that names no   *)
(* server of the list is skipped, and so is one lookup_server_struct cannot  *)
(* read, but that one leaves its message, or NULL without memory for it.     *)
Nodes ==
  /\ pc = "nodes"
  /\ \/ Fail(h, "config")       \* not an array, an item not an object, no memory
     \/ \E errmsg \in Duplicate("config") : Continue([h EXCEPT !.errmsg = errmsg], "nodes")
     \/ \E i \in 1 .. h.num_servers :
          Continue([h EXCEPT !.servers[i] = "described"], "nodes")
     \/ Continue(h, "map")

(* A node of the list whose couchApiBase is not a string: the type is not    *)
(* looked at, and strdup is given the NULL cJSON has for it.                 *)
CouchBaseNotString ==
  /\ pc = "nodes"
  /\ Fault(h)

(* populate_buckets: n rows of num_replicas + 1 ids, stored one by one until *)
(* a row has another length or an id is out of range; the entries not yet    *)
(* reached, and those past num_replicas, are 0.  A map that fails half way   *)
(* is taken to be untouched or to have all its rows.                         *)
Untouched(n) == [rows |-> n, width |-> 0, ids |-> {0}]

Complete(handle, n) ==
  { [rows |-> n, width |-> handle.num_replicas + 1, ids |-> ids \cup {0}] :
      ids \in SUBSET { id \in Ids : ServerIdOK(id, handle.num_servers) } }

(* An array has num_replicas + 1 items. *)
RowsPossible(handle) == handle.num_replicas + 1 >= 0

VBucketMap ==
  /\ pc = "map"
  /\ \/ Fail(h, "config")
     \/ \E n \in Rows :
          LET counted == [h EXCEPT !.num_vbuckets = n]
              sized   == [counted EXCEPT !.mask = MaskOf(n)]
          IN  \/ ~CountOK(n) /\ Fail(counted, "config")
              \/ CountOK(n) /\ "map" \in AllocFails /\ Fail([sized EXCEPT !.vbuckets = NULL], "config")
              \/ CountOK(n) /\ Fail([sized EXCEPT !.vbuckets = Untouched(n)], "config")
              \/ /\ CountOK(n) /\ RowsPossible(h)
                 /\ \E table \in Complete(h, n) :
                      \/ Fail([sized EXCEPT !.vbuckets = table], "config")
                      \/ Continue([sized EXCEPT !.vbuckets = table], "forward")

(* The forward map has num_vbuckets rows or the parse fails; without one the *)
(* handle is left alone.                                                     *)
VBucketMapForward ==
  /\ pc = "forward"
  /\ \/ Succeed(h, {})
     \/ Fail(h, "config")
     \/ "map" \in AllocFails /\ Fail([h EXCEPT !.fvbuckets = NULL], "config")
     \/ Fail([h EXCEPT !.fvbuckets = Untouched(h.num_vbuckets)], "config")
     \/ \E table \in Complete(h, h.num_vbuckets) :
          \/ Fail([h EXCEPT !.fvbuckets = table], "config")
          \/ Succeed([h EXCEPT !.fvbuckets = table], {"forward"})

-------------------------------------------------------------------------------
(* parse_ketama_config; the continuum is in module KetamaConfig. *)
parse_ketama_config ==
  /\ pc = "ketama"
  /\ \/ Fail(h, "config")
     \/ Fail([h EXCEPT !.num_servers = 0], "config")     \* an empty array
     \/ \E n \in ServerCounts : \E k \in 0 .. n :
          \/ k < n /\ Fail(WithServers(h, n, Stored(k, n, "described")), "config")
          \/ /\ k = n
             /\ Succeed([WithServers(h, n, Stored(n, n, "described"))
                           EXCEPT !.num_continuum = n], {})

(* Its array of servers, which it does not look for: without memory it       *)
(* returns if the first node is no object or has no authority, and otherwise *)
(* stores the authority through NULL.                                        *)
NoNodesArray ==
  /\ pc = "ketama"
  /\ "nodes" \in AllocFails
  /\ \E n \in ServerCounts :
       LET without == [h EXCEPT !.num_servers = n, !.servers = NULL]
       IN  \/ Fault(without)
           \/ \E errmsg \in Duplicate("config") :
                /\ h' = [without EXCEPT !.errmsg = errmsg]
                /\ pc' = "return" /\ ret' = -1
                /\ lost' = lost \cup {"nodes"}
                /\ UNCHANGED <<errstr, compat, announced, parses, file>>

(* update_ketama_continuum does not look for its own: it stores the first    *)
(* point through NULL.                                                       *)
NoContinuum ==
  /\ pc = "ketama"
  /\ "continuum" \in AllocFails
  /\ \E n \in ServerCounts : Fault(WithServers(h, n, Stored(n, n, "described")))

-------------------------------------------------------------------------------
(* The way back to the application. *)
ReturnToCaller ==
  /\ pc = "return"
  /\ ~compat
  /\ pc' = "idle"
  /\ UNCHANGED <<h, errstr, ret, compat, announced, lost, parses, file>>

(* After a failure backwards_compat keeps a duplicate of the message, which  *)
(* there must be, and destroys the handle.                                   *)
ReturnFromCompat ==
  /\ pc = "return"
  /\ compat
  /\ \/ ret # 0 /\ (h.errmsg = NULL \/ DestroyFaults(h)) /\ Fault(h)
     \/ /\ ret = 0 \/ (h.errmsg # NULL /\ ~DestroyFaults(h))
        /\ pc' = "idle"
        /\ IF ret = 0
           THEN UNCHANGED <<h, errstr>>
           ELSE errstr' \in Duplicate(h.errmsg) /\ h' = NULL
        /\ UNCHANGED <<ret, compat, announced, lost, parses, file>>

Next ==
  \/ vbucket_config_create \/ vbucket_config_parse \/ backwards_compat
  \/ vbucket_config_destroy
  \/ OpenFile \/ do_read_file \/ ParseFromMemory \/ InvalidJSON
  \/ CopyCredentials \/ parse_cjson
  \/ NumReplicas \/ ServerList \/ NoServersArray \/ Restart \/ Nodes \/ CouchBaseNotString
  \/ VBucketMap \/ VBucketMapForward \/ parse_ketama_config \/ NoNodesArray \/ NoContinuum
  \/ ReturnToCaller \/ ReturnFromCompat

Spec == Init /\ [][Next]_vars

-------------------------------------------------------------------------------
InRange(table, handle) ==
  /\ table.rows = handle.num_vbuckets
  /\ table.width = handle.num_replicas + 1
  /\ table.ids \subseteq -1 .. handle.num_servers - 1

(* What the handle has, of the things a configuration may lack. *)
Optional(handle) == handle.credentials \cup (IF handle.fvbuckets # NULL THEN {"forward"} ELSE {})

(* A handle that no configuration has filled: its distribution is by vbucket *)
(* but there are none, nor servers.                                          *)
Unfilled(handle) ==
  /\ <<handle.num_servers, handle.num_vbuckets, handle.num_replicas>> = <<0, 0, 0>>
  /\ <<handle.servers, handle.vbuckets, handle.fvbuckets>> = <<NULL, NULL, NULL>>
  /\ handle.distribution = "vbucket"

(* A handle every call of VBucketRouting or KetamaLookup can be made on:     *)
(* every listed server has an authority, and the tables of the distribution  *)
(* have the size and refer to the servers the counters of the handle say.    *)
Filled(handle) ==
  /\ handle.num_servers > 0
  /\ handle.servers # NULL
  /\ DOMAIN handle.servers = 1 .. handle.num_servers
  /\ \A i \in 1 .. handle.num_servers : handle.servers[i] # "empty"
  /\ handle.distribution = "ketama"  => handle.num_continuum = handle.num_servers
  /\ handle.distribution = "vbucket" =>
       /\ handle.vbuckets # NULL /\ InRange(handle.vbuckets, handle)
       /\ handle.fvbuckets # NULL => InRange(handle.fvbuckets, handle)

(* A parse into a fresh handle that returns 0 leaves it filled, with the     *)
(* forward map and the credentials the configuration has, but for those that *)
(* parse_cjson had no memory to copy (lost): it goes on, and returns 0,      *)
(* without them.  The exception is a locator nobody handles: the handle it   *)
(* leaves can be told by its counts.                                         *)
UsableAfterSuccess ==
  pc = "idle" /\ h # NULL /\ parses = 1 /\ ret = 0 =>
    /\ Optional(h) = announced \ lost
    /\ Unfilled(h) \/ Filled(h)

(* However the file arrives, what is parsed is all of it, in order, and ends *)
(* in the terminator cJSON_Parse looks for; reading never leaves the buffer. *)
WholeFile ==
  /\ pc = "read" => file.offset + file.left <= file.size
  /\ pc = "text" => file.data = [i \in 0 .. file.size |-> IF i < file.size THEN i + 1 ELSE 0]

(* vbucket_config_destroy, and every call that takes a server index, goes    *)
(* through servers[0 .. num_servers - 1]: however a parse or a second parse  *)
(* ended, the array is there and that long, unless parse_ketama_config had   *)
(* no memory for one and returned before it stored anything.                 *)
DestroyStaysInside ==
  pc = "idle" /\ h # NULL /\ h.num_servers > 0 /\ "nodes" \notin lost =>
    h.servers # NULL /\ DOMAIN h.servers = 1 .. h.num_servers

(* vbucket_get_vbucket_by_key answers the remainder, a vbucket of the map,   *)
(* for every hash value (module VBucketRouting relies on it): the mask has   *)
(* no gaps because the count that passed the parse is a power of two.        *)
MaskIsRemainder ==
  pc = "idle" /\ h # NULL /\ parses = 1 /\ ret = 0 /\ h.num_vbuckets > 0 =>
    \A digest \in 0 .. HashMask : BitAnd[<<digest, h.mask>>] = digest % h.num_vbuckets

(* The handle stores the result of the parse (include/libvbucket/vbucket.h): *)
(* it has a forward map and credentials if the configuration it was parsed   *)
(* from had them, whatever was parsed into it before.                        *)
StoresResult == pc = "idle" /\ h # NULL /\ ret = 0 => Optional(h) = announced

(* Whatever the configuration says, and also when memory runs out, the parse *)
(* returns "the appropriate error code" (include/libvbucket/vbucket.h).      *)
ParseReturns == pc # "crashed"
==================================================================================
