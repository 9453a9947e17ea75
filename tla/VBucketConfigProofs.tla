--------------------------- MODULE VBucketConfigProofs ---------------------------
(***************************************************************************)
(* What a parse promises about the handle it leaves, for configurations of *)
(* every size and whatever goes wrong with them.                           *)
(***************************************************************************)
EXTENDS VBucketConfig, SequenceTheorems, WellFoundedInduction, TLAPS

-------------------------------------------------------------------------------
(* The inductive invariant: what the pieces stored so far are good for, at   *)
(* every stage of the parse.                                                 *)

(* The array of servers is as long as the handle says, if there was memory   *)
(* for it. *)
Fits(handle) ==
  handle.num_servers > 0 /\ "nodes" \notin lost =>
    handle.servers \in Seq(ServerState) /\ DOMAIN handle.servers = 1 .. handle.num_servers

Good(handle) ==
  /\ handle \in Handle
  /\ handle.num_replicas <= MaxReplicas
  /\ Fits(handle)

(* The list of servers is complete. *)
ServersListed(handle) ==
  /\ handle.num_servers > 0
  /\ handle.servers \in Seq(ServerState) /\ DOMAIN handle.servers = 1 .. handle.num_servers
  /\ \A i \in 1 .. handle.num_servers : handle.servers[i] # "empty"

StageOK(stage, handle) ==
  /\ stage \in {"nodes", "map", "forward"} => ServersListed(handle)
  /\ stage = "forward" => handle.num_replicas >= -1

(* What the handle should have of the things a configuration may lack. *)
Told == announced \ lost

(* More is known when nothing was parsed into the handle before. *)
Before   == {"source", "read", "text", "JSON", "locator"}
ByVBucket == {"replicas", "servers", "nodes", "map", "forward"}

FirstOK(stage, handle, told) ==
  /\ stage \in Before => Unfilled(handle)
  /\ stage \in Before \ {"locator"} => told = {}
  /\ stage \in Before \cup ByVBucket \cup {"ketama"} =>
       handle.fvbuckets = NULL /\ handle.credentials = told
  /\ stage \in ByVBucket => handle.distribution = "vbucket"
  /\ stage = "ketama" => handle.distribution = "ketama"
  /\ stage = "forward" => handle.vbuckets # NULL /\ InRange(handle.vbuckets, handle)

Ready(handle, told) == Optional(handle) = told /\ (Unfilled(handle) \/ Filled(handle))

FileInv ==
  /\ pc \in {"read", "text"} =>
       /\ file.offset = file.read
       /\ file.offset + file.left = file.size
       /\ file.data = [i \in 0 .. file.size |-> IF i < file.offset THEN i + 1 ELSE 0]
  /\ pc = "text" => file.left = 0

CInv ==
  /\ TypeOK
  /\ pc \notin {"idle", "crashed"} => h # NULL
  /\ h # NULL /\ pc # "crashed" => Good(h)
  /\ StageOK(pc, h)
  /\ parses = 0 => pc = "idle" /\ (h # NULL => Unfilled(h) /\ h.credentials = {})
  /\ parses = 1 => FirstOK(pc, h, Told)
  /\ parses = 1 /\ ret = 0 /\ pc \in {"return", "idle"} /\ h # NULL => Ready(h, Told)
  /\ FileInv

Working == pc \notin {"idle", "return", "crashed"}

-------------------------------------------------------------------------------
(* The ways an action ends. *)
Stages == {"JSON", "locator"} \cup ByVBucket \cup {"ketama"}

LEMMA ContinueInv ==
  ASSUME CInv, Working, NEW handle, NEW next \in Stages, Continue(handle, next),
         Good(handle), StageOK(next, handle), parses = 1 => FirstOK(next, handle, Told)
  PROVE  CInv'
<1>1. TypeOK'
  BY DEF CInv, TypeOK, Continue, Good, Stages, ByVBucket
<1>2. handle # NULL
  BY NullAssumption DEF Good
<1>3. pc' \notin {"idle", "return", "crashed", "read", "text"} /\ parses # 0
  BY DEF Continue, Stages, ByVBucket, CInv, Working
<1>4. Good(h)' /\ Told' = Told
  BY DEF Continue, Good, Fits, Told
<1>. QED  BY <1>1, <1>2, <1>3, <1>4 DEF CInv, Continue, FileInv

LEMMA MessageKept ==
  ASSUME NEW handle, NEW message \in Messages \cup {NULL}, Good(handle)
  PROVE  LET failed == [handle EXCEPT !.errmsg = message]
         IN  Good(failed) /\ failed # NULL
<1> DEFINE failed == [handle EXCEPT !.errmsg = message]
<1>1. /\ failed \in Handle
      /\ failed.num_replicas = handle.num_replicas
      /\ failed.num_servers = handle.num_servers
      /\ failed.servers = handle.servers
  BY DEF Good, Handle
<1> HIDE DEF failed
<1>2. Good(failed)
  BY <1>1 DEF Good, Fits
<1>. QED  BY <1>1, <1>2, NullAssumption DEF failed

LEMMA Duplicates == \A message \in Messages : Duplicate(message) \subseteq Messages \cup {NULL}
BY DEF Duplicate

(* The parse is left with -1, and whatever the handle has been left with. *)
LEMMA LeftInv ==
  ASSUME CInv, Working, Good(h)', h' # NULL, pc' = "return", ret' = -1, file' = NULL,
         lost' \in {lost, lost \cup {"nodes"}}, UNCHANGED <<errstr, compat, announced, parses>>
  PROVE  CInv'
<1>1. parses # 0
  BY DEF CInv, Working
<1>2. TypeOK'
  BY DEF CInv, TypeOK, Good
<1>3. StageOK(pc', h') /\ FirstOK(pc', h', Told')
  BY DEF StageOK, FirstOK, Before, ByVBucket
<1>4. FileInv'
  BY DEF FileInv
<1>. QED  BY <1>1, <1>2, <1>3, <1>4 DEF CInv

LEMMA FailInv ==
  ASSUME CInv, Working, NEW handle, NEW message \in Messages, Fail(handle, message), Good(handle)
  PROVE  CInv'
<1>1. PICK errmsg \in Duplicate(message) : h' = [handle EXCEPT !.errmsg = errmsg]
  BY DEF Fail
<1> DEFINE failed == [handle EXCEPT !.errmsg = errmsg]
<1>2. errmsg \in Messages \cup {NULL}
  BY Duplicates
<1>3. Good(failed) /\ failed # NULL
  BY <1>2, MessageKept
<1>4. h' = failed
  BY <1>1
<1> HIDE DEF failed
<1>5. /\ pc' = "return" /\ ret' = -1 /\ file' = NULL
      /\ UNCHANGED <<errstr, compat, announced, lost, parses>>
  BY DEF Fail
<1>6. Good(h)'
  BY <1>3, <1>4, <1>5 DEF Good, Fits
<1>. QED  BY <1>3, <1>4, <1>5, <1>6, LeftInv

LEMMA SucceedInv ==
  ASSUME CInv, Working, pc \notin {"read", "text"},
         NEW handle, NEW forward \in SUBSET {"forward"}, Succeed(handle, forward),
         Good(handle), parses = 1 => Ready(handle, Told \cup forward)
  PROVE  CInv'
<1>1. /\ h' = handle /\ pc' = "return" /\ ret' = 0 /\ parses # 0 /\ handle # NULL
      /\ announced' = announced \cup forward
      /\ UNCHANGED <<errstr, compat, lost, parses, file>>
  BY NullAssumption DEF Succeed, CInv, Working, Good
<1>2. TypeOK'
  BY <1>1 DEF CInv, TypeOK, Good
<1>3. StageOK(pc', h') /\ FirstOK(pc', h', Told')
  BY <1>1 DEF StageOK, FirstOK, Before, ByVBucket
<1>4. FileInv'
  BY <1>1 DEF FileInv
<1>5. Told' = Told \cup forward /\ Good(h)'
  <2>1. "forward" \notin lost
    BY HandleAssumption DEF CInv, TypeOK
  <2>. QED  BY <1>1, <2>1 DEF Told, Good, Fits
<1>. QED  BY <1>1, <1>2, <1>3, <1>4, <1>5 DEF CInv

LEMMA FaultInv ==
  ASSUME CInv, parses # 0, pc \notin {"read", "text"}, NEW handle \in Handle, Fault(handle)
  PROVE  CInv'
<1>1. /\ h' = handle /\ pc' = "crashed"
      /\ UNCHANGED <<errstr, ret, compat, announced, lost, parses, file>>
  BY DEF Fault
<1>2. TypeOK'
  BY <1>1 DEF CInv, TypeOK
<1>3. StageOK(pc', h') /\ FirstOK(pc', h', Told') /\ FileInv'
  BY <1>1 DEF StageOK, FirstOK, Before, ByVBucket, FileInv
<1>. QED  BY <1>1, <1>2, <1>3 DEF CInv

-------------------------------------------------------------------------------
(* What the stages store. *)
LEMMA Bounds ==
  /\ MaxReplicas \in Nat /\ HashMask \in Nat /\ MaxServers \in Nat
  /\ MaxRows \in Nat /\ MaxParses \in Nat \ {0} /\ MaxConfigSize \in Nat
<1>1. \A n \in {MaxReplicas, HashMask, MaxServers, MaxRows, MaxParses, MaxConfigSize} : n \in Nat
  BY HandleAssumption
<1>2. MaxParses > 0
  BY HandleAssumption
<1>. QED  BY <1>1, <1>2

LEMMA NoParses == 0 \in 0 .. MaxParses /\ 1 \in 0 .. MaxParses
BY Bounds

LEMMA FreshGood ==
  /\ Fresh \in Handle /\ Fresh.num_servers = 0 /\ Fresh.num_replicas <= MaxReplicas
  /\ Unfilled(Fresh) /\ Fresh.credentials = {} /\ Fresh # NULL
<1>1. Fresh \in Handle
  BY Bounds DEF Fresh, Handle, Messages, Rows
<1>2. Fresh.num_servers = 0 /\ Fresh.num_replicas <= MaxReplicas
  BY Bounds DEF Fresh
<1>3. Unfilled(Fresh) /\ Fresh.credentials = {}
  BY DEF Unfilled, Fresh
<1>. QED  BY <1>1, <1>2, <1>3, NullAssumption

LEMMA StoredServers ==
  ASSUME NEW n \in ServerCounts, NEW k \in 0 .. n, NEW what \in ServerState
  PROVE  /\ Stored(k, n, what) \in Seq(ServerState)
         /\ DOMAIN Stored(k, n, what) = 1 .. n
         /\ k = n /\ what # "empty" => \A i \in 1 .. n : Stored(k, n, what)[i] # "empty"
<1>1. n \in Nat /\ n > 0
  BY Bounds DEF ServerCounts
<1>2. Stored(k, n, what) \in [1 .. n -> ServerState]
  BY DEF Stored, ServerState
<1>3. Stored(k, n, what) \in Seq(ServerState)
  BY <1>1, <1>2
<1>4. k = n => \A i \in 1 .. n : Stored(k, n, what)[i] = what
  BY <1>1 DEF Stored
<1>. QED  BY <1>2, <1>3, <1>4

LEMMA WithServersGood ==
  ASSUME NEW handle, Good(handle), NEW n \in ServerCounts, NEW servers \in Seq(ServerState),
         DOMAIN servers = 1 .. n
  PROVE  LET stored == WithServers(handle, n, servers)
         IN  /\ Good(stored)
             /\ stored.num_servers = n /\ stored.servers = servers
             /\ <<stored.distribution, stored.fvbuckets, stored.credentials>>
                  = <<handle.distribution, handle.fvbuckets, handle.credentials>>
<1> DEFINE stored == WithServers(handle, n, servers)
<1>1. n \in 1 .. MaxServers
  BY DEF ServerCounts
<1>2. /\ stored \in Handle
      /\ stored.num_servers = n /\ stored.servers = servers
      /\ stored.num_replicas = handle.num_replicas
      /\ stored.distribution = handle.distribution
      /\ stored.fvbuckets = handle.fvbuckets
      /\ stored.credentials = handle.credentials
  <2> DEFINE counted == [handle EXCEPT !.num_servers = n]
  <2>1. /\ counted \in Handle /\ counted.num_servers = n
        /\ counted.num_replicas = handle.num_replicas
        /\ counted.distribution = handle.distribution
        /\ counted.fvbuckets = handle.fvbuckets
        /\ counted.credentials = handle.credentials
    <3>1. n \in 0 .. MaxServers /\ handle \in Handle
      BY <1>1, Bounds DEF Good
    <3>2. counted \in Handle
      BY <3>1 DEF Handle
    <3>. QED  BY <3>1, <3>2 DEF Handle
  <2>2. stored = [counted EXCEPT !.servers = servers]
    BY DEF WithServers
  <2> HIDE DEF counted, stored
  <2>. QED  BY <2>1, <2>2 DEF Handle
<1> HIDE DEF stored
<1>. QED  BY <1>2 DEF Good, Fits, stored

(* A parse may empty the list of servers before it complains. *)
LEMMA NoServersGood ==
  ASSUME NEW handle, Good(handle)
  PROVE  Good([handle EXCEPT !.num_servers = 0])
<1> DEFINE none == [handle EXCEPT !.num_servers = 0]
<1>1. none \in Handle /\ none.num_servers = 0 /\ none.num_replicas = handle.num_replicas
  <2>1. 0 \in 0 .. MaxServers /\ handle \in Handle
    BY Bounds DEF Good
  <2>. QED  BY <2>1 DEF Handle
<1> HIDE DEF none
<1>. QED  BY <1>1 DEF Good, Fits, none

(* The tables change without the servers. *)
LEMMA OtherFieldsGood ==
  ASSUME NEW handle, Good(handle), NEW other \in Handle,
         other.num_servers = handle.num_servers, other.servers = handle.servers,
         other.num_replicas = handle.num_replicas
  PROVE  /\ Good(other)
         /\ ServersListed(handle) => ServersListed(other)
BY DEF Good, Fits, ServersListed

LEMMA UntouchedTable == \A n \in Rows : Untouched(n) \in Table
BY Bounds DEF Untouched, Table, Ids

LEMMA CompleteTables ==
  ASSUME NEW handle, Good(handle), handle.num_replicas >= -1, handle.num_servers > 0,
         NEW n \in Rows, NEW table \in Complete(handle, n)
  PROVE  /\ table \in Table
         /\ table.rows = n /\ table.width = handle.num_replicas + 1
         /\ table.ids \subseteq -1 .. handle.num_servers - 1
<1>1. /\ handle.num_replicas \in Int /\ handle.num_replicas <= MaxReplicas
      /\ handle.num_servers \in 0 .. MaxServers
  BY DEF Good, Handle
<1>2. PICK ids \in SUBSET { id \in Ids : ServerIdOK(id, handle.num_servers) } :
        table = [rows |-> n, width |-> handle.num_replicas + 1, ids |-> ids \cup {0}]
  BY DEF Complete
<1>3. ids \cup {0} \in SUBSET Ids /\ ids \cup {0} \subseteq -1 .. handle.num_servers - 1
  BY <1>1, Bounds DEF Ids, ServerIdOK
<1>4. handle.num_replicas + 1 \in 0 .. MaxReplicas + 1
  BY <1>1, Bounds
<1>. QED  BY <1>2, <1>3, <1>4 DEF Table

-------------------------------------------------------------------------------
LEMMA NoFile == CInv /\ pc \notin {"read", "text"} => file = NULL
BY DEF CInv, TypeOK

(* The calls of the application. *)
LEMMA InitInv == Init => CInv
<1> SUFFICES ASSUME Init PROVE CInv
  OBVIOUS
<1>1. TypeOK
  BY NoParses DEF Init, TypeOK
<1>2. StageOK(pc, h) /\ FileInv
  BY DEF Init, StageOK, FileInv
<1>. QED  BY <1>1, <1>2 DEF Init, CInv

LEMMA CreateInv == CInv /\ vbucket_config_create => CInv'
<1> SUFFICES ASSUME CInv, vbucket_config_create PROVE CInv'
  OBVIOUS
<1>1. /\ h' = Fresh /\ pc' = "idle" /\ ret' = NULL /\ compat' = FALSE
      /\ announced' = {} /\ lost' = {} /\ parses' = 0 /\ file' = NULL /\ errstr' = errstr
  BY NoFile DEF vbucket_config_create
<1>2. TypeOK'
  BY <1>1, FreshGood, NoParses DEF CInv, TypeOK
<1>3. StageOK(pc', h') /\ FileInv'
  BY <1>1 DEF StageOK, FileInv
<1>. QED  BY <1>1, <1>2, <1>3, FreshGood DEF CInv, Good, Fits

LEMMA ParseInv == CInv /\ vbucket_config_parse => CInv'
<1> SUFFICES ASSUME CInv, vbucket_config_parse PROVE CInv'
  OBVIOUS
<1>1. /\ h' = h /\ h # NULL /\ pc = "idle" /\ pc' = "source" /\ ret' = NULL /\ compat' = FALSE
      /\ announced' = {} /\ lost' = lost /\ parses' = parses + 1 /\ file' = NULL /\ errstr' = errstr
      /\ parses \in Nat /\ parses < MaxParses
  BY NoFile, Bounds DEF vbucket_config_parse, CInv, TypeOK
<1>2. TypeOK'
  <2>1. parses' \in 0 .. MaxParses
    BY <1>1, Bounds
  <2>. QED  BY <1>1, <2>1 DEF CInv, TypeOK
<1>3. StageOK(pc', h') /\ FileInv'
  BY <1>1 DEF StageOK, FileInv
<1>4. parses' = 1 => FirstOK(pc', h', Told')
  <2> SUFFICES ASSUME parses = 0 PROVE FirstOK(pc', h', Told')
    BY <1>1
  <2>1. Unfilled(h) /\ h.credentials = {}
    BY <1>1 DEF CInv
  <2>2. h.fvbuckets = NULL
    BY <2>1 DEF Unfilled
  <2>. QED  BY <1>1, <2>1, <2>2 DEF FirstOK, ByVBucket, Told
<1>. QED  BY <1>1, <1>2, <1>3, <1>4 DEF CInv, Good, Fits

LEMMA CompatInv == CInv /\ backwards_compat => CInv'
<1> SUFFICES ASSUME CInv, backwards_compat PROVE CInv'
  OBVIOUS
<1>1. /\ h' = Fresh /\ pc' = "source" /\ ret' = NULL /\ compat' = TRUE
      /\ announced' = {} /\ lost' = {} /\ parses' = 1 /\ file' = NULL /\ errstr' = errstr
  BY NoFile DEF backwards_compat
<1>2. TypeOK'
  BY <1>1, FreshGood, NoParses DEF CInv, TypeOK
<1>3. StageOK(pc', h') /\ FileInv'
  BY <1>1 DEF StageOK, FileInv
<1>4. FirstOK(pc', h', Told')
  BY <1>1, FreshGood DEF FirstOK, ByVBucket, Unfilled, Told
<1>. QED  BY <1>1, <1>2, <1>3, <1>4, FreshGood DEF CInv, Good, Fits

LEMMA DestroyInv == CInv /\ (vbucket_config_destroy \/ Restart) => CInv'
<1> SUFFICES ASSUME CInv, vbucket_config_destroy \/ Restart PROVE CInv'
  OBVIOUS
<1>1. CASE /\ h' = NULL /\ pc' = "idle" /\ ret' = NULL /\ compat' = FALSE
           /\ announced' = {} /\ lost' = {} /\ parses' = 0 /\ file' = NULL
           /\ errstr' \in {errstr, NULL}
  <2>1. TypeOK'
    BY <1>1, NoParses DEF CInv, TypeOK
  <2>2. StageOK(pc', h') /\ FileInv'
    BY <1>1 DEF StageOK, FileInv
  <2>. QED  BY <1>1, <2>1, <2>2 DEF CInv
<1>2. ASSUME pc = "idle", h # NULL, DestroyFaults(h), Fault(h)
      PROVE  CInv'
  <2>1. parses # 0
    BY <1>2, NullAssumption DEF CInv, DestroyFaults, Unfilled
  <2>2. h \in Handle
    BY <1>2 DEF CInv, Good
  <2>. QED  BY <1>2, <2>1, <2>2, FaultInv
<1>. QED  BY <1>1, <1>2, NoFile DEF vbucket_config_destroy, Restart

LEMMA ReturnInv == CInv /\ (ReturnToCaller \/ ReturnFromCompat) => CInv'
<1> SUFFICES ASSUME CInv, ReturnToCaller \/ ReturnFromCompat PROVE CInv'
  OBVIOUS
<1>1. pc = "return" /\ h # NULL /\ h \in Handle /\ parses # 0
  BY DEF ReturnToCaller, ReturnFromCompat, CInv, Good
<1>2. h.errmsg \in Messages \cup {NULL}
  BY <1>1 DEF Handle
<1>3. CASE Fault(h)
  BY <1>1, <1>3, FaultInv
<1>4. CASE /\ h' \in {h, NULL} /\ pc' = "idle" /\ errstr' \in {errstr} \cup Messages \cup {NULL}
           /\ UNCHANGED <<ret, compat, announced, lost, parses, file>>
  <2>1. TypeOK'
    BY <1>1, <1>4 DEF CInv, TypeOK
  <2>2. StageOK(pc', h') /\ FirstOK(pc', h', Told') /\ FileInv'
    BY <1>1, <1>4 DEF StageOK, FirstOK, Before, ByVBucket, FileInv
  <2>3. Told' = Told /\ (h' # NULL => h' = h /\ Good(h)')
    BY <1>1, <1>4 DEF CInv, Good, Fits, Told
  <2>. QED  BY <1>1, <1>4, <2>1, <2>2, <2>3 DEF CInv
<1>5. h.errmsg # NULL => Duplicate(h.errmsg) \subseteq Messages \cup {NULL}
  BY <1>2, Duplicates
<1>. QED  BY <1>1, <1>3, <1>4, <1>5 DEF ReturnToCaller, ReturnFromCompat

-------------------------------------------------------------------------------
(* Reading the text. *)
LEMMA WorkingHandle == CInv /\ Working => h # NULL /\ Good(h) /\ parses # 0
BY DEF CInv, Working

LEMMA OpenInv == CInv /\ OpenFile => CInv'
<1> SUFFICES ASSUME CInv, OpenFile PROVE CInv'
  OBVIOUS
<1>1. Working /\ Good(h) /\ h # NULL /\ parses # 0 /\ pc = "source"
  BY WorkingHandle DEF OpenFile, Working
<1>2. CASE Fail(h, "file")
  BY <1>1, <1>2, FailInv DEF Messages
<1>3. ASSUME NEW size \in 0 .. MaxConfigSize, file' = Unread(size), pc' = "read",
             UNCHANGED <<h, errstr, ret, compat, announced, lost, parses>>
      PROVE  CInv'
  <2>1. /\ file'.size = size /\ file'.read = 0 /\ file'.offset = 0 /\ file'.left = size
        /\ file'.data = [i \in 0 .. size |-> 0]
    BY <1>3 DEF Unread
  <2>2. TypeOK'
    BY <1>3, <2>1, Bounds DEF CInv, TypeOK, Sizes
  <2>3. FileInv'
    BY <1>3, <2>1, Bounds DEF FileInv
  <2>4. StageOK(pc', h') /\ (parses' = 1 => FirstOK(pc', h', Told'))
    BY <1>1, <1>3 DEF CInv, StageOK, FirstOK, Before, ByVBucket, Told
  <2>. QED  BY <1>1, <1>3, <2>2, <2>3, <2>4 DEF CInv, Good, Fits
<1>. QED  BY <1>1, <1>2, <1>3, Bounds DEF OpenFile

LEMMA ReadInv == CInv /\ do_read_file => CInv'
<1> SUFFICES ASSUME CInv, do_read_file PROVE CInv'
  OBVIOUS
<1>1. Working /\ Good(h) /\ h # NULL /\ parses # 0 /\ pc = "read"
  BY WorkingHandle DEF do_read_file, Working
<1>2. CASE Fail(h, "file")
  BY <1>1, <1>2, FailInv DEF Messages
<1>3. ASSUME NEW n \in 1 .. file.left, file' = Advance(Fread(file, n), n),
             pc' = IF file'.left > 0 THEN "read" ELSE "text",
             UNCHANGED <<h, errstr, ret, compat, announced, lost, parses>>
      PROVE  CInv'
  <2>1. /\ file.size \in Sizes /\ file.read \in Sizes /\ file.offset \in Sizes /\ file.left \in Sizes
        /\ file.offset = file.read /\ file.offset + file.left = file.size
        /\ file.data = [i \in 0 .. file.size |-> IF i < file.offset THEN i + 1 ELSE 0]
    BY <1>1 DEF CInv, TypeOK, FileInv
  <2>2. /\ file'.size = file.size /\ file'.read = file.read + n
        /\ file'.offset = file.offset + n /\ file'.left = file.left - n
        /\ file'.data = [i \in 0 .. file.size |->
                            IF i \in file.offset .. file.offset + n - 1
                            THEN file.read + (i - file.offset) + 1 ELSE file.data[i]]
    BY <1>3, <2>1 DEF Advance, Fread
  <2>3. file'.data = [i \in 0 .. file.size |-> IF i < file.offset + n THEN i + 1 ELSE 0]
    <3>1. ASSUME NEW i \in 0 .. file.size
          PROVE  (IF i \in file.offset .. file.offset + n - 1
                  THEN file.read + (i - file.offset) + 1 ELSE file.data[i])
                   = IF i < file.offset + n THEN i + 1 ELSE 0
      BY <2>1 DEF Sizes
    <3>. QED  BY <2>2, <3>1
  <2>4. /\ {file'.size, file'.read, file'.offset, file'.left} \subseteq Sizes
        /\ file'.data \in [0 .. file'.size -> Sizes]
    <3>1. \A i \in 0 .. file.size : (IF i < file.offset + n THEN i + 1 ELSE 0) \in Sizes
      BY <2>1, Bounds DEF Sizes
    <3>2. file'.data \in [0 .. file.size -> Sizes]
      BY <2>3, <3>1
    <3>3. /\ file'.size \in Sizes /\ file'.read \in Sizes
          /\ file'.offset \in Sizes /\ file'.left \in Sizes
      BY <2>1, <2>2, Bounds DEF Sizes
    <3>. QED  BY <2>2, <3>2, <3>3
  <2>5. pc' \in {"read", "text"} /\ (pc' = "text" => file'.left = 0)
    BY <1>3, <2>1, <2>2 DEF Sizes
  <2>6. TypeOK'
    BY <1>3, <2>4, <2>5 DEF CInv, TypeOK
  <2>7. FileInv'
    BY <2>1, <2>2, <2>3, <2>5 DEF FileInv, Sizes
  <2>8. /\ StageOK(pc', h')
        /\ parses' = 1 => FirstOK(pc', h', Told')
    BY <1>1, <1>3, <2>5 DEF CInv, StageOK, FirstOK, Before, ByVBucket, Told
  <2>. QED  BY <1>1, <1>3, <2>5, <2>6, <2>7, <2>8 DEF CInv, Good, Fits
<1>. QED  BY <1>1, <1>2, <1>3 DEF do_read_file

LEMMA MemoryInv == CInv /\ ParseFromMemory => CInv'
<1> SUFFICES ASSUME CInv, ParseFromMemory PROVE CInv'
  OBVIOUS
<1>1. Working /\ Good(h) /\ pc \in {"source", "text"}
  BY WorkingHandle DEF ParseFromMemory, Working
<1>2. StageOK("JSON", h)
  BY DEF StageOK
<1>3. parses = 1 => FirstOK("JSON", h, Told)
  BY <1>1 DEF CInv, FirstOK, Before, ByVBucket
<1>4. "JSON" \in Stages
  BY DEF Stages
<1>. QED  BY <1>1, <1>2, <1>3, <1>4, ContinueInv DEF ParseFromMemory

LEMMA InvalidInv == CInv /\ InvalidJSON => CInv'
<1> SUFFICES ASSUME CInv, InvalidJSON PROVE CInv'
  OBVIOUS
<1>1. Working /\ Good(h)
  BY WorkingHandle DEF InvalidJSON, Working
<1>. QED  BY <1>1, FailInv DEF InvalidJSON, Messages

LEMMA CredentialsInv == CInv /\ CopyCredentials => CInv'
<1> SUFFICES ASSUME CInv, CopyCredentials PROVE CInv'
  OBVIOUS
<1>1. Working /\ Good(h) /\ h # NULL /\ pc = "JSON" /\ parses # 0
  BY WorkingHandle DEF CopyCredentials, Working
<1>2. PICK given \in SUBSET Credentials : \E stored \in SUBSET given :
        /\ h' = [h EXCEPT !.credentials = (@ \ given) \cup stored]
        /\ announced' = given
        /\ lost' = (lost \ given) \cup (given \ stored)
  BY DEF CopyCredentials
<1>3. PICK stored \in SUBSET given :
        /\ h' = [h EXCEPT !.credentials = (@ \ given) \cup stored]
        /\ lost' = (lost \ given) \cup (given \ stored)
  BY <1>2
<1>4. announced' = given /\ pc' = "locator" /\ UNCHANGED <<errstr, ret, compat, parses, file>>
  BY <1>2 DEF CopyCredentials
<1>5. /\ h' \in Handle /\ h'.credentials = (h.credentials \ given) \cup stored
      /\ h'.num_servers = h.num_servers /\ h'.servers = h.servers
      /\ h'.num_replicas = h.num_replicas /\ h'.num_vbuckets = h.num_vbuckets
      /\ h'.vbuckets = h.vbuckets /\ h'.fvbuckets = h.fvbuckets
      /\ h'.distribution = h.distribution
  BY <1>1, <1>2, <1>3 DEF Good, Handle
<1>6. Good(h)'
  <2>1. "nodes" \in lost' <=> "nodes" \in lost
    BY <1>3, HandleAssumption
  <2>. QED  BY <1>1, <1>5, <2>1 DEF Good, Fits
<1>7. TypeOK'
  BY <1>1, <1>2, <1>3, <1>4, <1>5 DEF CInv, TypeOK
<1>8. StageOK(pc', h') /\ FileInv'
  BY <1>4 DEF StageOK, FileInv
<1>9. parses' = 1 => FirstOK(pc', h', Told')
  <2> SUFFICES ASSUME parses = 1 PROVE FirstOK("locator", h', Told')
    BY <1>4
  <2>1. Unfilled(h) /\ h.fvbuckets = NULL /\ h.credentials = Told
    BY <1>1 DEF CInv, FirstOK, Before
  <2>2. h.credentials = {}
    BY <1>1, <2>1 DEF CInv, FirstOK, Before
  <2>3. Told' = stored
    BY <1>3, <1>4 DEF Told
  <2>4. Unfilled(h') /\ h'.fvbuckets = NULL /\ h'.credentials = Told'
    BY <1>5, <2>1, <2>2, <2>3 DEF Unfilled
  <2>. QED  BY <2>4 DEF FirstOK, ByVBucket
<1>10. h' # NULL
  BY <1>5, NullAssumption
<1>. QED  BY <1>1, <1>4, <1>6, <1>7, <1>8, <1>9, <1>10 DEF CInv

(* At a first parse, what is known of the credentials and the forward map. *)
LEMMA NoForwardYet ==
  ASSUME CInv, parses = 1, pc \in Before \cup ByVBucket \cup {"ketama"}
  PROVE  Optional(h) = Told
<1>1. h.fvbuckets = NULL /\ h.credentials = Told
  BY DEF CInv, FirstOK
<1>. QED  BY <1>1 DEF Optional

LEMMA LocatorInv == CInv /\ parse_cjson => CInv'
<1> SUFFICES ASSUME CInv, parse_cjson PROVE CInv'
  OBVIOUS
<1>1. Working /\ Good(h) /\ pc = "locator"
  BY WorkingHandle DEF parse_cjson, Working
<1>2. PICK locator \in Locators :
        LET found == [h EXCEPT !.distribution = IF locator = "ketama" THEN "ketama" ELSE "vbucket"]
        IN  \/ locator \in {"absent", "vbucket"} /\ Continue(found, "replicas")
            \/ locator = "ketama" /\ Continue(found, "ketama")
            \/ locator = "other" /\ Succeed(found, {})
            \/ locator = "not a string" /\ Fail(found, "config")
  BY DEF parse_cjson
<1> DEFINE chosen == IF locator = "ketama" THEN "ketama" ELSE "vbucket"
           found == [h EXCEPT !.distribution = chosen]
<1>3. /\ found \in Handle /\ found.distribution = chosen
      /\ found.num_servers = h.num_servers /\ found.servers = h.servers
      /\ found.num_replicas = h.num_replicas /\ found.num_vbuckets = h.num_vbuckets
      /\ found.vbuckets = h.vbuckets /\ found.fvbuckets = h.fvbuckets
      /\ found.credentials = h.credentials
  <2>1. chosen \in {"vbucket", "ketama"} /\ h \in Handle
    BY <1>1 DEF Good
  <2> HIDE DEF chosen
  <2>. QED  BY <2>1 DEF Handle
<1>4. \/ Continue(found, "replicas") /\ chosen = "vbucket"
      \/ Continue(found, "ketama") /\ chosen = "ketama"
      \/ Succeed(found, {}) /\ chosen = "vbucket"
      \/ Fail(found, "config")
  BY <1>2
<1> HIDE DEF found, chosen
<1>5. Good(found)
  BY <1>1, <1>3, OtherFieldsGood
<1>6. parses = 1 => /\ Unfilled(h) /\ h.fvbuckets = NULL /\ h.credentials = Told
                    /\ Optional(h) = Told
  <2> SUFFICES ASSUME parses = 1
               PROVE  /\ Unfilled(h) /\ h.fvbuckets = NULL /\ h.credentials = Told
                      /\ Optional(h) = Told
    OBVIOUS
  <2>1. pc \in Before
    BY <1>1 DEF Before
  <2>. QED  BY <2>1, NoForwardYet DEF CInv, FirstOK
<1>7. CASE Continue(found, "replicas") /\ chosen = "vbucket"
  <2>1. StageOK("replicas", found) /\ "replicas" \in Stages
    BY DEF StageOK, Stages, ByVBucket
  <2>2. parses = 1 => FirstOK("replicas", found, Told)
    BY <1>3, <1>6, <1>7 DEF FirstOK, Before
  <2>. QED  BY <1>1, <1>5, <1>7, <2>1, <2>2, ContinueInv
<1>8. CASE Continue(found, "ketama") /\ chosen = "ketama"
  <2>1. StageOK("ketama", found) /\ "ketama" \in Stages
    BY DEF StageOK, Stages
  <2>2. parses = 1 => FirstOK("ketama", found, Told)
    BY <1>3, <1>6, <1>8 DEF FirstOK, Before, ByVBucket
  <2>. QED  BY <1>1, <1>5, <1>8, <2>1, <2>2, ContinueInv
<1>9. CASE Succeed(found, {}) /\ chosen = "vbucket"
  <2>1. parses = 1 => Ready(found, Told \cup {})
    BY <1>3, <1>6, <1>9 DEF Ready, Optional, Unfilled
  <2>. QED  BY <1>1, <1>5, <1>9, <2>1, SucceedInv
<1>10. CASE Fail(found, "config")
  BY <1>1, <1>5, <1>10, FailInv DEF Messages
<1>. QED  BY <1>4, <1>7, <1>8, <1>9, <1>10

-------------------------------------------------------------------------------
(* The stages of parse_vbucket_config. *)
LEMMA ReplicasInv == CInv /\ NumReplicas => CInv'
<1> SUFFICES ASSUME CInv, NumReplicas PROVE CInv'
  OBVIOUS
<1>1. Working /\ Good(h) /\ pc = "replicas"
  BY WorkingHandle DEF NumReplicas, Working
<1>2. CASE Fail(h, "config")
  BY <1>1, <1>2, FailInv DEF Messages
<1>3. ASSUME NEW n \in -2 .. MaxReplicas + 1, ReplicasOK(n),
             Continue([h EXCEPT !.num_replicas = n], "servers")
      PROVE  CInv'
  <2> DEFINE counted == [h EXCEPT !.num_replicas = n]
  <2>1. n \in Int /\ n <= MaxReplicas /\ h \in Handle
    BY <1>1, <1>3, Bounds DEF ReplicasOK, Good
  <2>2. /\ counted \in Handle /\ counted.num_replicas = n
        /\ counted.num_servers = h.num_servers /\ counted.servers = h.servers
        /\ counted.distribution = h.distribution /\ counted.fvbuckets = h.fvbuckets
        /\ counted.credentials = h.credentials
    BY <2>1 DEF Handle
  <2>3. Continue(counted, "servers")
    BY <1>3
  <2> HIDE DEF counted
  <2>4. Good(counted)
    BY <1>1, <2>1, <2>2 DEF Good, Fits
  <2>5. StageOK("servers", counted) /\ "servers" \in Stages
    BY DEF StageOK, Stages, ByVBucket
  <2>6. parses = 1 => FirstOK("servers", counted, Told)
    BY <1>1, <2>2 DEF CInv, FirstOK, Before, ByVBucket
  <2>. QED  BY <1>1, <2>3, <2>4, <2>5, <2>6, ContinueInv
<1>. QED  BY <1>2, <1>3 DEF NumReplicas

LEMMA ServerListInv == CInv /\ ServerList => CInv'
<1> SUFFICES ASSUME CInv, ServerList PROVE CInv'
  OBVIOUS
<1>1. Working /\ Good(h) /\ pc = "servers"
  BY WorkingHandle DEF ServerList, Working
<1>2. CASE Fail(h, "config")
  BY <1>1, <1>2, FailInv DEF Messages
<1>3. CASE Fail([h EXCEPT !.num_servers = 0], "config")
  BY <1>1, <1>3, NoServersGood, FailInv DEF Messages
<1>4. ASSUME NEW n \in ServerCounts, NEW k \in 0 .. n,
             Fail(WithServers(h, n, Stored(k, n, "named")), "config")
      PROVE  CInv'
  <2>1. Stored(k, n, "named") \in Seq(ServerState) /\ DOMAIN Stored(k, n, "named") = 1 .. n
    BY StoredServers DEF ServerState
  <2>2. Good(WithServers(h, n, Stored(k, n, "named")))
    BY <1>1, <2>1, WithServersGood
  <2>. QED  BY <1>1, <1>4, <2>2, FailInv DEF Messages
<1>5. ASSUME NEW n \in ServerCounts,
             Continue(WithServers(h, n, Stored(n, n, "named")), "nodes")
      PROVE  CInv'
  <2> DEFINE servers == Stored(n, n, "named")
             stored  == WithServers(h, n, servers)
  <2>1. n \in 0 .. n /\ n > 0
    BY Bounds DEF ServerCounts
  <2>2. /\ servers \in Seq(ServerState) /\ DOMAIN servers = 1 .. n
        /\ \A i \in 1 .. n : servers[i] # "empty"
    BY <2>1, StoredServers DEF ServerState
  <2> HIDE DEF servers
  <2>3. /\ Good(stored) /\ stored.num_servers = n /\ stored.servers = servers
        /\ stored.distribution = h.distribution /\ stored.fvbuckets = h.fvbuckets
        /\ stored.credentials = h.credentials
    BY <1>1, <2>2, WithServersGood
  <2>4. Continue(stored, "nodes")
    BY <1>5 DEF servers
  <2> HIDE DEF stored
  <2>5. StageOK("nodes", stored) /\ "nodes" \in Stages
    BY <2>1, <2>2, <2>3 DEF StageOK, ServersListed, Stages, ByVBucket
  <2>6. parses = 1 => FirstOK("nodes", stored, Told)
    BY <1>1, <2>3 DEF CInv, FirstOK, Before, ByVBucket
  <2>. QED  BY <1>1, <2>3, <2>4, <2>5, <2>6, ContinueInv
<1>. QED  BY <1>2, <1>3, <1>4, <1>5 DEF ServerList

LEMMA WithoutServers ==
  ASSUME NEW handle \in Handle, NEW n \in ServerCounts
  PROVE  [handle EXCEPT !.num_servers = n, !.servers = NULL] \in Handle
<1> DEFINE counted == [handle EXCEPT !.num_servers = n]
<1>1. n \in 0 .. MaxServers
  BY Bounds DEF ServerCounts
<1>2. counted \in Handle
  BY <1>1 DEF Handle
<1>3. [counted EXCEPT !.servers = NULL] \in Handle
  <2> HIDE DEF counted
  <2>. QED  BY <1>2 DEF Handle
<1>. QED  BY <1>3

LEMMA FaultsInv ==
  CInv /\ (NoServersArray \/ CouchBaseNotString \/ NoContinuum) => CInv'
<1> SUFFICES ASSUME CInv, NoServersArray \/ CouchBaseNotString \/ NoContinuum PROVE CInv'
  OBVIOUS
<1>1. parses # 0 /\ Good(h) /\ pc \notin {"read", "text"}
  BY WorkingHandle DEF NoServersArray, CouchBaseNotString, NoContinuum, Working
<1>2. CASE CouchBaseNotString
  BY <1>1, <1>2, FaultInv DEF CouchBaseNotString, Good
<1>3. CASE NoServersArray
  BY <1>1, <1>3, WithoutServers, FaultInv DEF NoServersArray, Good
<1>4. ASSUME NEW n \in ServerCounts, Fault(WithServers(h, n, Stored(n, n, "described")))
      PROVE  CInv'
  <2>1. n \in 0 .. n
    BY Bounds DEF ServerCounts
  <2>2. /\ Stored(n, n, "described") \in Seq(ServerState)
        /\ DOMAIN Stored(n, n, "described") = 1 .. n
    BY <2>1, StoredServers DEF ServerState
  <2>3. WithServers(h, n, Stored(n, n, "described")) \in Handle
    BY <1>1, <2>2, WithServersGood DEF Good
  <2>. QED  BY <1>1, <1>4, <2>3, FaultInv
<1>. QED  BY <1>2, <1>3, <1>4 DEF NoContinuum

(* Without the array of servers for the nodes, a parse that returns leaves   *)
(* the count of servers without them.                                        *)
LEMMA NoNodesInv == CInv /\ NoNodesArray => CInv'
<1> SUFFICES ASSUME CInv, NoNodesArray PROVE CInv'
  OBVIOUS
<1>1. Working /\ parses # 0 /\ Good(h) /\ pc \notin {"read", "text"}
  BY WorkingHandle DEF NoNodesArray, Working
<1>2. PICK n \in ServerCounts :
        LET without == [h EXCEPT !.num_servers = n, !.servers = NULL]
        IN  \/ Fault(without)
            \/ \E errmsg \in Duplicate("config") :
                 /\ h' = [without EXCEPT !.errmsg = errmsg]
                 /\ pc' = "return" /\ ret' = -1
                 /\ lost' = lost \cup {"nodes"}
                 /\ UNCHANGED <<errstr, compat, announced, parses, file>>
  BY DEF NoNodesArray
<1> DEFINE without == [h EXCEPT !.num_servers = n, !.servers = NULL]
<1>3. without \in Handle /\ without.num_replicas = h.num_replicas
  BY <1>1, WithoutServers DEF Good, Handle
<1>4. \/ Fault(without)
      \/ \E errmsg \in Duplicate("config") :
           /\ h' = [without EXCEPT !.errmsg = errmsg]
           /\ pc' = "return" /\ ret' = -1
           /\ lost' = lost \cup {"nodes"}
           /\ UNCHANGED <<errstr, compat, announced, parses, file>>
  BY <1>2
<1> HIDE DEF without
<1>5. CASE Fault(without)
  BY <1>1, <1>3, <1>5, FaultInv
<1>6. ASSUME NEW errmsg \in Duplicate("config"), h' = [without EXCEPT !.errmsg = errmsg],
             pc' = "return", ret' = -1, lost' = lost \cup {"nodes"},
             UNCHANGED <<errstr, compat, announced, parses, file>>
      PROVE  CInv'
  <2> DEFINE left == [without EXCEPT !.errmsg = errmsg]
  <2>1. errmsg \in Messages \cup {NULL} /\ file' = NULL
    BY <1>1, <1>6, Duplicates, NoFile DEF Messages
  <2>2. left \in Handle /\ left.num_replicas = h.num_replicas
    BY <1>3, <2>1 DEF Handle
  <2>3. h' = left
    BY <1>6
  <2> HIDE DEF left
  <2>4. left # NULL
    BY <2>2, NullAssumption
  <2>5. Good(h)'
    BY <1>1, <1>6, <2>2, <2>3 DEF Good, Fits
  <2>. QED  BY <1>1, <1>6, <2>1, <2>3, <2>4, <2>5, LeftInv
<1>. QED  BY <1>4, <1>5, <1>6

LEMMA NodesInv == CInv /\ Nodes => CInv'
<1> SUFFICES ASSUME CInv, Nodes PROVE CInv'
  OBVIOUS
<1>1. Working /\ Good(h) /\ pc = "nodes" /\ ServersListed(h)
  BY WorkingHandle DEF Nodes, Working, CInv, StageOK
<1>2. parses = 1 => h.fvbuckets = NULL /\ h.credentials = Told /\ h.distribution = "vbucket"
  BY <1>1 DEF CInv, FirstOK, ByVBucket
<1>3. CASE Fail(h, "config")
  BY <1>1, <1>3, FailInv DEF Messages
<1>4. ASSUME NEW errmsg \in Duplicate("config"), Continue([h EXCEPT !.errmsg = errmsg], "nodes")
      PROVE  CInv'
  <2> DEFINE told == [h EXCEPT !.errmsg = errmsg]
  <2>1. /\ told \in Handle
        /\ told.num_servers = h.num_servers /\ told.servers = h.servers
        /\ told.num_replicas = h.num_replicas /\ told.distribution = h.distribution
        /\ told.fvbuckets = h.fvbuckets /\ told.credentials = h.credentials
    <3>1. h \in Handle /\ errmsg \in Messages \cup {NULL}
      BY <1>1, Duplicates DEF Good, Messages
    <3>. QED  BY <3>1 DEF Handle
  <2>2. Continue(told, "nodes")
    BY <1>4
  <2> HIDE DEF told
  <2>3. Good(told) /\ ServersListed(told)
    BY <1>1, <2>1, OtherFieldsGood
  <2>4. StageOK("nodes", told) /\ "nodes" \in Stages
    BY <2>3 DEF StageOK, Stages, ByVBucket
  <2>5. parses = 1 => FirstOK("nodes", told, Told)
    BY <1>2, <2>1 DEF FirstOK, Before
  <2>. QED  BY <1>1, <2>2, <2>3, <2>4, <2>5, ContinueInv
<1>5. ASSUME NEW i \in 1 .. h.num_servers, Continue([h EXCEPT !.servers[i] = "described"], "nodes")
      PROVE  CInv'
  <2> DEFINE servers == [h.servers EXCEPT ![i] = "described"]
             stored  == [h EXCEPT !.servers = servers]
  <2>1. /\ h \in Handle /\ h.servers \in Seq(ServerState)
        /\ DOMAIN h.servers = 1 .. h.num_servers /\ h.num_servers \in Nat
    BY <1>1 DEF Good, Fits, ServersListed, Handle
  <2>2. Len(h.servers) = h.num_servers
    BY <2>1
  <2>3. /\ servers \in Seq(ServerState) /\ DOMAIN servers = 1 .. h.num_servers
        /\ \A j \in 1 .. h.num_servers : servers[j] \in {"described", h.servers[j]}
    <3>1. "described" \in ServerState
      BY DEF ServerState
    <3>. QED  BY <2>1, <2>2, <3>1, ExceptSeq
  <2>4. Continue(stored, "nodes")
    BY <1>5
  <2> HIDE DEF servers
  <2>5. /\ stored \in Handle /\ stored.servers = servers
        /\ stored.num_servers = h.num_servers
        /\ stored.num_replicas = h.num_replicas /\ stored.distribution = h.distribution
        /\ stored.fvbuckets = h.fvbuckets /\ stored.credentials = h.credentials
    BY <2>1, <2>3 DEF Handle
  <2> HIDE DEF stored
  <2>6. Good(stored)
    BY <1>1, <2>3, <2>5 DEF Good, Fits
  <2>7. ServersListed(stored)
    BY <1>1, <2>3, <2>5 DEF ServersListed
  <2>8. StageOK("nodes", stored) /\ "nodes" \in Stages
    BY <2>7 DEF StageOK, Stages, ByVBucket
  <2>9. parses = 1 => FirstOK("nodes", stored, Told)
    BY <1>2, <2>5 DEF FirstOK, Before
  <2>. QED  BY <1>1, <2>4, <2>6, <2>8, <2>9, ContinueInv
<1>6. CASE Continue(h, "map")
  <2>1. StageOK("map", h) /\ "map" \in Stages
    BY <1>1 DEF StageOK, Stages, ByVBucket
  <2>2. parses = 1 => FirstOK("map", h, Told)
    BY <1>2 DEF FirstOK, Before
  <2>. QED  BY <1>1, <1>6, <2>1, <2>2, ContinueInv
<1>. QED  BY <1>3, <1>4, <1>5, <1>6 DEF Nodes

(* A map stored with its counts, or as far as it got. *)
LEMMA CountedGood ==
  ASSUME NEW handle, Good(handle), NEW n \in Rows
  PROVE  LET counted == [handle EXCEPT !.num_vbuckets = n]
             sized   == [counted EXCEPT !.mask = MaskOf(n)]
         IN  /\ Good(counted) /\ Good(sized)
             /\ sized.num_vbuckets = n /\ sized.num_replicas = handle.num_replicas
             /\ sized.num_servers = handle.num_servers /\ sized.servers = handle.servers
             /\ sized.distribution = handle.distribution
             /\ sized.fvbuckets = handle.fvbuckets /\ sized.credentials = handle.credentials
<1> DEFINE counted == [handle EXCEPT !.num_vbuckets = n]
           sized   == [counted EXCEPT !.mask = MaskOf(n)]
<1>1. handle \in Handle /\ MaskOf(n) \in Int
  BY Bounds DEF Good, MaskOf, Rows
<1>2. /\ counted \in Handle /\ counted.num_vbuckets = n
      /\ counted.num_replicas = handle.num_replicas
      /\ counted.num_servers = handle.num_servers /\ counted.servers = handle.servers
      /\ counted.distribution = handle.distribution
      /\ counted.fvbuckets = handle.fvbuckets /\ counted.credentials = handle.credentials
  BY <1>1 DEF Handle
<1> HIDE DEF counted
<1>3. /\ sized \in Handle /\ sized.num_vbuckets = counted.num_vbuckets
      /\ sized.num_replicas = counted.num_replicas
      /\ sized.num_servers = counted.num_servers /\ sized.servers = counted.servers
      /\ sized.distribution = counted.distribution
      /\ sized.fvbuckets = counted.fvbuckets /\ sized.credentials = counted.credentials
  BY <1>1, <1>2 DEF Handle
<1> HIDE DEF sized
<1>4. Good(counted) /\ Good(sized)
  BY <1>2, <1>3, OtherFieldsGood
<1>. QED  BY <1>2, <1>3, <1>4 DEF sized, counted

LEMMA MapStored ==
  ASSUME NEW handle, Good(handle), NEW table \in Table \cup {NULL}
  PROVE  LET stored == [handle EXCEPT !.vbuckets = table]
         IN  /\ Good(stored) /\ stored.vbuckets = table
             /\ ServersListed(handle) => ServersListed(stored)
             /\ stored.num_vbuckets = handle.num_vbuckets
             /\ stored.num_replicas = handle.num_replicas
             /\ stored.num_servers = handle.num_servers /\ stored.servers = handle.servers
             /\ stored.distribution = handle.distribution
             /\ stored.fvbuckets = handle.fvbuckets /\ stored.credentials = handle.credentials
<1> DEFINE stored == [handle EXCEPT !.vbuckets = table]
<1>1. handle \in Handle
  BY DEF Good
<1>2. /\ stored \in Handle /\ stored.vbuckets = table
      /\ stored.num_vbuckets = handle.num_vbuckets
      /\ stored.num_replicas = handle.num_replicas
      /\ stored.num_servers = handle.num_servers /\ stored.servers = handle.servers
      /\ stored.distribution = handle.distribution
      /\ stored.fvbuckets = handle.fvbuckets /\ stored.credentials = handle.credentials
  BY <1>1 DEF Handle
<1> HIDE DEF stored
<1>3. Good(stored) /\ (ServersListed(handle) => ServersListed(stored))
  BY <1>2, OtherFieldsGood
<1>. QED  BY <1>2, <1>3 DEF stored

LEMMA ForwardStored ==
  ASSUME NEW handle, Good(handle), NEW table \in Table \cup {NULL}
  PROVE  LET stored == [handle EXCEPT !.fvbuckets = table]
         IN  /\ Good(stored) /\ stored.fvbuckets = table
             /\ ServersListed(handle) => ServersListed(stored)
             /\ stored.num_vbuckets = handle.num_vbuckets
             /\ stored.num_replicas = handle.num_replicas
             /\ stored.num_servers = handle.num_servers /\ stored.servers = handle.servers
             /\ stored.distribution = handle.distribution
             /\ stored.vbuckets = handle.vbuckets /\ stored.credentials = handle.credentials
<1> DEFINE stored == [handle EXCEPT !.fvbuckets = table]
<1>1. handle \in Handle
  BY DEF Good
<1>2. /\ stored \in Handle /\ stored.fvbuckets = table
      /\ stored.num_vbuckets = handle.num_vbuckets
      /\ stored.num_replicas = handle.num_replicas
      /\ stored.num_servers = handle.num_servers /\ stored.servers = handle.servers
      /\ stored.distribution = handle.distribution
      /\ stored.vbuckets = handle.vbuckets /\ stored.credentials = handle.credentials
  BY <1>1 DEF Handle
<1> HIDE DEF stored
<1>3. Good(stored) /\ (ServersListed(handle) => ServersListed(stored))
  BY <1>2, OtherFieldsGood
<1>. QED  BY <1>2, <1>3 DEF stored

LEMMA MapInv == CInv /\ VBucketMap => CInv'
<1> SUFFICES ASSUME CInv, VBucketMap PROVE CInv'
  OBVIOUS
<1>1. Working /\ Good(h) /\ pc = "map" /\ ServersListed(h) /\ "config" \in Messages
  BY WorkingHandle DEF VBucketMap, Working, CInv, StageOK, Messages
<1>2. parses = 1 => h.fvbuckets = NULL /\ h.credentials = Told /\ h.distribution = "vbucket"
  BY <1>1 DEF CInv, FirstOK, ByVBucket
<1>3. CASE Fail(h, "config")
  BY <1>1, <1>3, FailInv
<1>4. ASSUME NEW n \in Rows,
             LET counted == [h EXCEPT !.num_vbuckets = n]
                 sized   == [counted EXCEPT !.mask = MaskOf(n)]
             IN  \/ ~CountOK(n) /\ Fail(counted, "config")
                 \/ CountOK(n) /\ "map" \in AllocFails /\ Fail([sized EXCEPT !.vbuckets = NULL], "config")
                 \/ CountOK(n) /\ Fail([sized EXCEPT !.vbuckets = Untouched(n)], "config")
                 \/ /\ CountOK(n) /\ RowsPossible(h)
                    /\ \E table \in Complete(h, n) :
                         \/ Fail([sized EXCEPT !.vbuckets = table], "config")
                         \/ Continue([sized EXCEPT !.vbuckets = table], "forward")
      PROVE  CInv'
  <2> DEFINE counted == [h EXCEPT !.num_vbuckets = n]
             sized   == [counted EXCEPT !.mask = MaskOf(n)]
  <2>1. /\ Good(counted) /\ Good(sized)
        /\ sized.num_vbuckets = n /\ sized.num_replicas = h.num_replicas
        /\ sized.num_servers = h.num_servers /\ sized.servers = h.servers
        /\ sized.distribution = h.distribution
        /\ sized.fvbuckets = h.fvbuckets /\ sized.credentials = h.credentials
    BY <1>1, CountedGood
  <2>2. \/ Fail(counted, "config")
        \/ Fail([sized EXCEPT !.vbuckets = NULL], "config")
        \/ Fail([sized EXCEPT !.vbuckets = Untouched(n)], "config")
        \/ /\ RowsPossible(h)
           /\ \E table \in Complete(h, n) :
                \/ Fail([sized EXCEPT !.vbuckets = table], "config")
                \/ Continue([sized EXCEPT !.vbuckets = table], "forward")
    BY <1>4
  <2> HIDE DEF counted, sized
  <2>3. CASE Fail(counted, "config")
    BY <1>1, <2>1, <2>3, FailInv
  <2>4. CASE Fail([sized EXCEPT !.vbuckets = NULL], "config")
    <3>1. Good([sized EXCEPT !.vbuckets = NULL])
      BY <2>1, MapStored
    <3>. QED  BY <1>1, <2>4, <3>1, FailInv
  <2>5. CASE Fail([sized EXCEPT !.vbuckets = Untouched(n)], "config")
    <3>1. Good([sized EXCEPT !.vbuckets = Untouched(n)])
      BY <2>1, MapStored, UntouchedTable
    <3>. QED  BY <1>1, <2>5, <3>1, FailInv
  <2>6. ASSUME RowsPossible(h), NEW table \in Complete(h, n),
               \/ Fail([sized EXCEPT !.vbuckets = table], "config")
               \/ Continue([sized EXCEPT !.vbuckets = table], "forward")
        PROVE  CInv'
    <3> DEFINE stored == [sized EXCEPT !.vbuckets = table]
    <3>1. h.num_replicas >= -1 /\ h.num_servers > 0
      <4>1. h.num_replicas \in Int
        BY <1>1 DEF Good, Handle
      <4>. QED  BY <1>1, <2>6, <4>1 DEF RowsPossible, ServersListed
    <3>2. /\ table \in Table
          /\ table.rows = n /\ table.width = h.num_replicas + 1
          /\ table.ids \subseteq -1 .. h.num_servers - 1
      BY <1>1, <3>1, CompleteTables
    <3>3. /\ Good(stored) /\ stored.vbuckets = table
          /\ ServersListed(sized) => ServersListed(stored)
          /\ stored.num_vbuckets = n
          /\ stored.num_replicas = h.num_replicas /\ stored.num_servers = h.num_servers
          /\ stored.distribution = h.distribution
          /\ stored.fvbuckets = h.fvbuckets /\ stored.credentials = h.credentials
      BY <2>1, <3>2, MapStored
    <3>4. Fail(stored, "config") \/ Continue(stored, "forward")
      BY <2>6
    <3> HIDE DEF stored
    <3>5. StageOK("forward", stored) /\ "forward" \in Stages
      BY <1>1, <2>1, <3>1, <3>3 DEF StageOK, ServersListed, Stages, ByVBucket
    <3>6. stored.vbuckets # NULL /\ InRange(stored.vbuckets, stored)
      BY <3>2, <3>3, NullAssumption DEF InRange
    <3>7. parses = 1 => FirstOK("forward", stored, Told)
      BY <1>2, <3>3, <3>6 DEF FirstOK, Before
    <3>. QED  BY <1>1, <3>3, <3>4, <3>5, <3>7, ContinueInv, FailInv
  <2>. QED  BY <2>2, <2>3, <2>4, <2>5, <2>6
<1>. QED  BY <1>3, <1>4 DEF VBucketMap

LEMMA ForwardInv == CInv /\ VBucketMapForward => CInv'
<1> SUFFICES ASSUME CInv, VBucketMapForward PROVE CInv'
  OBVIOUS
<1>1. /\ Working /\ Good(h) /\ pc = "forward" /\ ServersListed(h) /\ h.num_replicas >= -1
      /\ "config" \in Messages
  BY WorkingHandle DEF VBucketMapForward, Working, CInv, StageOK, Messages
<1>2. parses = 1 => /\ h.fvbuckets = NULL /\ h.credentials = Told
                    /\ h.distribution = "vbucket"
                    /\ h.vbuckets # NULL /\ InRange(h.vbuckets, h)
                    /\ Optional(h) = Told
  <2>1. pc \in ByVBucket
    BY <1>1 DEF ByVBucket
  <2>. QED  BY <1>1, <2>1, NoForwardYet DEF CInv, FirstOK
<1>3. /\ h.servers # NULL /\ DOMAIN h.servers = 1 .. h.num_servers /\ h.num_servers > 0
      /\ h.num_vbuckets \in Rows
      /\ \A i \in 1 .. h.num_servers : h.servers[i] # "empty"
  BY <1>1, NullAssumption DEF Good, Fits, ServersListed, Handle
<1>4. CASE Succeed(h, {})
  <2>1. parses = 1 => Ready(h, Told \cup {})
    BY <1>2, <1>3 DEF Ready, Filled
  <2>. QED  BY <1>1, <1>4, <2>1, SucceedInv
<1>5. CASE Fail(h, "config")
  BY <1>1, <1>5, FailInv
<1>6. CASE Fail([h EXCEPT !.fvbuckets = NULL], "config")
  <2>1. Good([h EXCEPT !.fvbuckets = NULL])
    BY <1>1, ForwardStored
  <2>. QED  BY <1>1, <1>6, <2>1, FailInv
<1>7. CASE Fail([h EXCEPT !.fvbuckets = Untouched(h.num_vbuckets)], "config")
  <2>1. Good([h EXCEPT !.fvbuckets = Untouched(h.num_vbuckets)])
    BY <1>1, <1>3, ForwardStored, UntouchedTable
  <2>. QED  BY <1>1, <1>7, <2>1, FailInv
<1>8. ASSUME NEW table \in Complete(h, h.num_vbuckets),
             \/ Fail([h EXCEPT !.fvbuckets = table], "config")
             \/ Succeed([h EXCEPT !.fvbuckets = table], {"forward"})
      PROVE  CInv'
  <2> DEFINE stored == [h EXCEPT !.fvbuckets = table]
  <2>1. /\ table \in Table
        /\ table.rows = h.num_vbuckets /\ table.width = h.num_replicas + 1
        /\ table.ids \subseteq -1 .. h.num_servers - 1
    BY <1>1, <1>3, CompleteTables
  <2>2. /\ Good(stored) /\ stored.fvbuckets = table
        /\ stored.num_vbuckets = h.num_vbuckets
        /\ stored.num_replicas = h.num_replicas
        /\ stored.num_servers = h.num_servers /\ stored.servers = h.servers
        /\ stored.distribution = h.distribution
        /\ stored.vbuckets = h.vbuckets /\ stored.credentials = h.credentials
    BY <1>1, <2>1, ForwardStored
  <2>3. Fail(stored, "config") \/ Succeed(stored, {"forward"})
    BY <1>8
  <2> HIDE DEF stored
  <2>4. CASE Fail(stored, "config")
    BY <1>1, <2>2, <2>4, FailInv
  <2>5. CASE Succeed(stored, {"forward"})
    <3>1. InRange(stored.fvbuckets, stored)
      BY <2>1, <2>2 DEF InRange
    <3>2. parses = 1 => InRange(stored.vbuckets, stored) /\ stored.vbuckets # NULL
      BY <1>2, <2>2 DEF InRange
    <3>3. parses = 1 => Filled(stored)
      BY <1>2, <1>3, <2>2, <3>1, <3>2 DEF Filled
    <3>4. parses = 1 => Optional(stored) = Told \cup {"forward"}
      BY <1>2, <2>1, <2>2, NullAssumption DEF Optional
    <3>5. parses = 1 => Ready(stored, Told \cup {"forward"})
      BY <3>3, <3>4 DEF Ready
    <3>. QED  BY <1>1, <2>2, <2>5, <3>5, SucceedInv
  <2>. QED  BY <2>3, <2>4, <2>5
<1>. QED  BY <1>4, <1>5, <1>6, <1>7, <1>8 DEF VBucketMapForward

LEMMA KetamaInv == CInv /\ parse_ketama_config => CInv'
<1> SUFFICES ASSUME CInv, parse_ketama_config PROVE CInv'
  OBVIOUS
<1>1. Working /\ Good(h) /\ pc = "ketama" /\ "config" \in Messages
  BY WorkingHandle DEF parse_ketama_config, Working, Messages
<1>2. CASE Fail(h, "config")
  BY <1>1, <1>2, FailInv
<1>3. CASE Fail([h EXCEPT !.num_servers = 0], "config")
  BY <1>1, <1>3, NoServersGood, FailInv
<1>4. ASSUME NEW n \in ServerCounts, NEW k \in 0 .. n,
             Fail(WithServers(h, n, Stored(k, n, "described")), "config")
      PROVE  CInv'
  <2>1. /\ Stored(k, n, "described") \in Seq(ServerState)
        /\ DOMAIN Stored(k, n, "described") = 1 .. n
    BY StoredServers DEF ServerState
  <2>2. Good(WithServers(h, n, Stored(k, n, "described")))
    BY <1>1, <2>1, WithServersGood
  <2>. QED  BY <1>1, <1>4, <2>2, FailInv
<1>5. ASSUME NEW n \in ServerCounts,
             Succeed([WithServers(h, n, Stored(n, n, "described")) EXCEPT !.num_continuum = n], {})
      PROVE  CInv'
  <2> DEFINE servers == Stored(n, n, "described")
             stored  == WithServers(h, n, servers)
             ring    == [stored EXCEPT !.num_continuum = n]
  <2>1. n \in 0 .. n /\ n > 0 /\ n \in Nat
    BY Bounds DEF ServerCounts
  <2>2. /\ servers \in Seq(ServerState) /\ DOMAIN servers = 1 .. n
        /\ \A i \in 1 .. n : servers[i] # "empty"
    BY <2>1, StoredServers DEF ServerState
  <2>3. Succeed(ring, {})
    BY <1>5
  <2> HIDE DEF servers
  <2>4. /\ Good(stored) /\ stored.num_servers = n /\ stored.servers = servers
        /\ stored.distribution = h.distribution /\ stored.fvbuckets = h.fvbuckets
        /\ stored.credentials = h.credentials
    BY <1>1, <2>2, WithServersGood
  <2> HIDE DEF stored
  <2>5. /\ ring \in Handle /\ ring.num_continuum = n
        /\ ring.num_servers = stored.num_servers /\ ring.servers = stored.servers
        /\ ring.num_replicas = stored.num_replicas
        /\ ring.distribution = stored.distribution /\ ring.fvbuckets = stored.fvbuckets
        /\ ring.credentials = stored.credentials
    <3>1. stored \in Handle
      BY <2>4 DEF Good
    <3>. QED  BY <2>1, <3>1 DEF Handle
  <2> HIDE DEF ring
  <2>6. Good(ring)
    BY <2>4, <2>5, OtherFieldsGood
  <2>7. parses = 1 => Filled(ring)
    <3> SUFFICES ASSUME parses = 1 PROVE Filled(ring)
      OBVIOUS
    <3>1. ring.distribution = "ketama"
      BY <1>1, <2>4, <2>5 DEF CInv, FirstOK
    <3>2. ring.servers # NULL /\ DOMAIN ring.servers = 1 .. ring.num_servers
      BY <2>2, <2>4, <2>5, NullAssumption
    <3>. QED  BY <2>1, <2>2, <2>4, <2>5, <3>1, <3>2 DEF Filled
  <2>8. parses = 1 => Optional(ring) = Told
    <3> SUFFICES ASSUME parses = 1 PROVE Optional(ring) = Told
      OBVIOUS
    <3>1. ring.fvbuckets = NULL /\ ring.credentials = Told
      BY <1>1, <2>4, <2>5 DEF CInv, FirstOK
    <3>. QED  BY <3>1 DEF Optional
  <2>9. parses = 1 => Ready(ring, Told \cup {})
    BY <2>7, <2>8 DEF Ready
  <2>. QED  BY <1>1, <2>3, <2>6, <2>9, SucceedInv
<1>. QED  BY <1>2, <1>3, <1>4, <1>5 DEF parse_ketama_config

-------------------------------------------------------------------------------
LEMMA StepInv == CInv /\ [Next]_vars => CInv'
<1> SUFFICES ASSUME CInv, [Next]_vars PROVE CInv'
  OBVIOUS
<1>1. CASE UNCHANGED vars
  BY <1>1 DEF vars, CInv, TypeOK, StageOK, FirstOK, FileInv, Good, Fits, Told
<1>2. CASE \/ vbucket_config_create \/ vbucket_config_parse \/ backwards_compat
           \/ vbucket_config_destroy \/ Restart \/ ReturnToCaller \/ ReturnFromCompat
  BY <1>2, CreateInv, ParseInv, CompatInv, DestroyInv, ReturnInv
<1>3. CASE \/ OpenFile \/ do_read_file \/ ParseFromMemory \/ InvalidJSON
           \/ CopyCredentials \/ parse_cjson
  BY <1>3, OpenInv, ReadInv, MemoryInv, InvalidInv, CredentialsInv, LocatorInv
<1>4. CASE \/ NumReplicas \/ ServerList \/ NoServersArray \/ Nodes \/ CouchBaseNotString
           \/ VBucketMap \/ VBucketMapForward
  BY <1>4, ReplicasInv, ServerListInv, FaultsInv, NodesInv, MapInv, ForwardInv
<1>5. CASE parse_ketama_config \/ NoNodesArray \/ NoContinuum
  BY <1>5, KetamaInv, NoNodesInv, FaultsInv
<1>. QED  BY <1>1, <1>2, <1>3, <1>4, <1>5 DEF Next

LEMMA CInvAlways == Spec => []CInv
BY InitInv, StepInv, PTL DEF Spec

-------------------------------------------------------------------------------
(* Whatever the configuration says, the handle keeps its type: in particular *)
(* no row is wider than the array of MAX_REPLICAS + 1 ids it is stored in.   *)
THEOREM HandleTyped == Spec => []TypeOK
<1>1. CInv => TypeOK
  BY DEF CInv
<1>. QED  BY <1>1, CInvAlways, PTL

(* A first parse that returns 0 leaves a handle that can be routed by, or    *)
(* one that shows it was given a locator nobody handles, and nothing that    *)
(* was given is missing but credentials there was no memory to duplicate.    *)
THEOREM SuccessUsable == Spec => []UsableAfterSuccess
<1>1. CInv => UsableAfterSuccess
  BY DEF CInv, UsableAfterSuccess, Ready, Told
<1>. QED  BY <1>1, CInvAlways, PTL

(* The exceptions of UsableAfterSuccess and DestroyStaysInside are those of  *)
(* memory running out at an unchecked allocation, and no others.             *)
LostUnchecked ==
  /\ "nodes" \in lost => "nodes" \in AllocFails
  /\ lost \ {"nodes"} # {} => "credential" \in AllocFails

LEMMA LostStep == LostUnchecked /\ [Next]_vars => LostUnchecked'
<1> SUFFICES ASSUME LostUnchecked, [Next]_vars PROVE LostUnchecked'
  OBVIOUS
<1>1. CASE lost' \subseteq lost
  BY <1>1 DEF LostUnchecked
<1>2. CASE NoNodesArray
  BY <1>2 DEF NoNodesArray, Fault, LostUnchecked
<1>3. CASE CopyCredentials
  BY <1>3, HandleAssumption DEF CopyCredentials, LostUnchecked
<1>4. CASE \/ UNCHANGED vars
           \/ vbucket_config_create \/ vbucket_config_parse \/ backwards_compat
           \/ vbucket_config_destroy \/ Restart \/ ReturnToCaller \/ ReturnFromCompat
  BY <1>1, <1>4 DEF vars, vbucket_config_create, vbucket_config_parse, backwards_compat,
       vbucket_config_destroy, Restart, ReturnToCaller, ReturnFromCompat, Fault
<1>5. CASE \/ OpenFile \/ do_read_file \/ ParseFromMemory \/ InvalidJSON \/ parse_cjson
           \/ NumReplicas \/ Nodes
  BY <1>1, <1>5 DEF OpenFile, do_read_file, ParseFromMemory, InvalidJSON, parse_cjson,
       NumReplicas, Nodes, Continue, Fail, Succeed
<1>6. CASE \/ ServerList \/ NoServersArray \/ CouchBaseNotString \/ NoContinuum
           \/ VBucketMap \/ VBucketMapForward \/ parse_ketama_config
  BY <1>1, <1>6 DEF ServerList, NoServersArray, CouchBaseNotString, NoContinuum,
       VBucketMap, VBucketMapForward, parse_ketama_config, Continue, Fail, Succeed, Fault
<1>. QED  BY <1>2, <1>3, <1>4, <1>5, <1>6 DEF Next

(* A handle a first parse returned 0 for has the forward map and credentials *)
(* its configuration has, and no others, if memory for credentials suffices; *)
(* otherwise it has no others.                                               *)
THEOREM NothingElseStored ==
  Spec => [](pc = "idle" /\ h # NULL /\ parses = 1 /\ ret = 0 =>
               /\ Optional(h) \subseteq announced
               /\ "credential" \notin AllocFails => Optional(h) = announced)
<1>1. Init => LostUnchecked
  BY DEF Init, LostUnchecked
<1>2. CInv /\ LostUnchecked =>
        (pc = "idle" /\ h # NULL /\ parses = 1 /\ ret = 0 =>
           /\ Optional(h) \subseteq announced
           /\ "credential" \notin AllocFails => Optional(h) = announced)
  <2> SUFFICES ASSUME CInv, LostUnchecked, pc = "idle", h # NULL, parses = 1, ret = 0
               PROVE  /\ Optional(h) \subseteq announced
                      /\ "credential" \notin AllocFails => Optional(h) = announced
    OBVIOUS
  <2>1. Optional(h) = announced \ lost
    BY DEF CInv, Ready, Told
  <2>2. "nodes" \notin announced
    BY HandleAssumption DEF CInv, TypeOK
  <2>. QED  BY <2>1, <2>2 DEF LostUnchecked
<1>. QED  BY <1>1, <1>2, CInvAlways, LostStep, PTL DEF Spec

(* Between calls the servers array has the length the handle says, however   *)
(* the parses into it ended: vbucket_config_destroy stays inside.            *)
THEOREM DestroySafe == Spec => []DestroyStaysInside
<1>1. CInv => DestroyStaysInside
  BY NullAssumption DEF CInv, Good, Fits, DestroyStaysInside
<1>. QED  BY <1>1, CInvAlways, PTL

(* do_read_file fills the buffer with the whole file, however many reads it  *)
(* takes, and never beyond.                                                  *)
THEOREM FilesReadWhole == Spec => []WholeFile
<1>1. CInv => WholeFile
  <2> SUFFICES ASSUME CInv PROVE WholeFile
    OBVIOUS
  <2>1. CASE pc = "read"
    <3>1. file.offset + file.left = file.size /\ file.size \in Sizes
      BY <2>1 DEF CInv, FileInv, TypeOK
    <3>. QED  BY <2>1, <3>1 DEF WholeFile, Sizes
  <2>2. CASE pc = "text"
    <3>1. /\ file.size \in Sizes /\ file.offset \in Sizes
          /\ file.offset + file.left = file.size /\ file.left = 0
          /\ file.data = [i \in 0 .. file.size |-> IF i < file.offset THEN i + 1 ELSE 0]
      BY <2>2 DEF CInv, FileInv, TypeOK
    <3>2. file.offset = file.size
      BY <3>1, Bounds DEF Sizes
    <3>. QED  BY <2>2, <3>1, <3>2 DEF WholeFile
  <2>3. CASE pc \notin {"read", "text"}
    BY <2>3 DEF WholeFile
  <2>. QED  BY <2>1, <2>2, <2>3
<1>. QED  BY <1>1, CInvAlways, PTL

-------------------------------------------------------------------------------
(* Induction over the numbers, in the form of a set: each of them is in S if *)
(* all smaller ones are. *)
LEMMA Induction ==
  ASSUME NEW S, \A n \in Nat : (\A k \in Nat : k < n => k \in S) => n \in S
  PROVE  Nat \subseteq S
<1>. SUFFICES ASSUME Nat \ S # {} PROVE FALSE
  OBVIOUS
<1> DEFINE R == { ss \in Nat \X Nat : ss[1] < ss[2] }
<1>1. OpToRel(<, Nat) = R
  BY DEF OpToRel
<1>2. IsWellFoundedOn(R, Nat)
  BY <1>1, NatLessThanWellFounded, Zenon
<1>3. PICK m \in Nat \ S : \A k \in Nat \ S : <<k, m>> \notin R
  BY <1>2, WFMin
<1>4. \A k \in Nat \ S : ~(k < m)
  BY <1>3
<1>. QED  BY <1>3, <1>4

-------------------------------------------------------------------------------
(* The operator & is defined: step by step for numbers up to n, and the      *)
(* functions found on the way agree. *)
AndStep(f, x, y) ==
  IF x = 0 \/ y = 0 THEN 0 ELSE 2 * f[<<x \div 2, y \div 2>>] + (x % 2) * (y % 2)

IsAnd(f, n) ==
  /\ f \in [(0 .. n) \X Nat -> Nat]
  /\ \A x \in 0 .. n, y \in Nat : f[<<x, y>>] = AndStep(f, x, y)

LEMMA Halves ==
  ASSUME NEW x \in Nat
  PROVE  x \div 2 \in 0 .. x /\ x % 2 \in {0, 1} /\ x = 2 * (x \div 2) + (x % 2)
         /\ (x # 0 => x \div 2 < x)
  OBVIOUS

LEMMA DivUnique ==
  ASSUME NEW d \in Nat \ {0}, NEW q \in Int, NEW r \in 0 .. d - 1
  PROVE  (q * d + r) % d = r
  BY SMTT(30)

LEMMA DivNamed ==
  ASSUME NEW d \in Nat, d > 0, NEW x \in Nat, NEW q \in Int, NEW r \in Int,
         q = x \div d, r = x % d
  PROVE  q >= 0 /\ r \in 0 .. d - 1 /\ x = d * q + r
  BY SMTT(30)

LEMMA AndGrows ==
  ASSUME NEW n \in Nat, NEW f, IsAnd(f, n)
  PROVE  \E g : IsAnd(g, n + 1)
<1> DEFINE g == [p \in (0 .. n + 1) \X Nat |->
                   IF p[1] <= n THEN f[<<p[1], p[2]>>] ELSE AndStep(f, p[1], p[2])]
<1>1. \A x \in 0 .. n, y \in Nat : f[<<x, y>>] \in Nat
  BY DEF IsAnd
<1>2. ASSUME NEW x \in 0 .. n + 1, NEW y \in Nat
      PROVE  /\ g[<<x, y>>] = IF x <= n THEN f[<<x, y>>] ELSE AndStep(f, x, y)
  OBVIOUS
<1>3. ASSUME NEW x \in 0 .. n + 1, NEW y \in Nat
      PROVE  AndStep(f, x, y) \in Nat /\ (x # 0 => x \div 2 \in 0 .. n)
  <2>1. x \div 2 \in Nat /\ y \div 2 \in Nat /\ x % 2 \in {0, 1} /\ y % 2 \in {0, 1}
        /\ (x # 0 => x \div 2 \in 0 .. n)
    BY Halves
  <2>2. (x % 2) * (y % 2) \in Nat
    BY <2>1
  <2>3. x # 0 => f[<<x \div 2, y \div 2>>] \in Nat
    BY <1>1, <2>1
  <2>4. \A a, b \in Nat : 2 * a + b \in Nat
    OBVIOUS
  <2>5. CASE x = 0 \/ y = 0
    BY <2>1, <2>5 DEF AndStep
  <2>6. CASE ~(x = 0 \/ y = 0)
    <3>1. AndStep(f, x, y) = 2 * f[<<x \div 2, y \div 2>>] + (x % 2) * (y % 2)
      BY <2>6, Zenon DEF AndStep
    <3>2. 2 * f[<<x \div 2, y \div 2>>] + (x % 2) * (y % 2) \in Nat
      BY ONLY <2>2, <2>3, <2>4, <2>6, Zenon
    <3>. QED  BY <2>1, <3>1, <3>2, Zenon
  <2>. QED  BY <2>5, <2>6
<1>4. g \in [(0 .. n + 1) \X Nat -> Nat]
  <2>1. ASSUME NEW p \in (0 .. n + 1) \X Nat
        PROVE  (IF p[1] <= n THEN f[<<p[1], p[2]>>] ELSE AndStep(f, p[1], p[2])) \in Nat
    <3>1. p[1] \in 0 .. n + 1 /\ p[2] \in Nat
      OBVIOUS
    <3>2. p[1] <= n => p[1] \in 0 .. n
      BY <3>1
    <3>. QED  BY <1>1, <1>3, <3>1, <3>2
  <2>. QED  BY <2>1
<1> HIDE DEF g
<1>5. ASSUME NEW x \in 0 .. n + 1, NEW y \in Nat
      PROVE  AndStep(g, x, y) = AndStep(f, x, y)
  <2>1. CASE x = 0
    BY <2>1 DEF AndStep
  <2>2. CASE x # 0
    <3>1. x \div 2 \in 0 .. n /\ y \div 2 \in Nat
      BY <1>3, <2>2, Halves
    <3>2. x \div 2 \in 0 .. n + 1 /\ x \div 2 <= n
      BY <3>1
    <3>3. g[<<x \div 2, y \div 2>>] = f[<<x \div 2, y \div 2>>]
      BY <1>2, <3>1, <3>2
    <3>. QED  BY <3>3 DEF AndStep
  <2>. QED  BY <2>1, <2>2
<1>6. ASSUME NEW x \in 0 .. n + 1, NEW y \in Nat
      PROVE  g[<<x, y>>] = AndStep(g, x, y)
  <2>1. x <= n => x \in 0 .. n
    OBVIOUS
  <2>2. x <= n => f[<<x, y>>] = AndStep(f, x, y)
    BY <2>1, Zenon DEF IsAnd
  <2>. QED  BY <1>2, <1>5, <2>2
<1>. QED  BY <1>4, <1>6 DEF IsAnd

LEMMA AndUpTo == \A n \in Nat : \E f : IsAnd(f, n)
<1> DEFINE S == { n \in Nat : \E f : IsAnd(f, n) }
<1>1. 0 \in S
  <2> DEFINE f == [p \in (0 .. 0) \X Nat |-> 0]
  <2>1. ASSUME NEW x \in 0 .. 0, NEW y \in Nat
        PROVE  f[<<x, y>>] = AndStep(f, x, y)
    <3>1. x = 0 /\ <<x, y>> \in (0 .. 0) \X Nat
      OBVIOUS
    <3>2. f[<<x, y>>] = 0
      BY <3>1
    <3>. QED  BY <3>1, <3>2 DEF AndStep
  <2>2. f \in [(0 .. 0) \X Nat -> Nat]
    OBVIOUS
  <2> HIDE DEF f
  <2>3. IsAnd(f, 0)
    BY <2>1, <2>2 DEF IsAnd
  <2>. QED  BY <2>3
<1>2. ASSUME NEW n \in Nat, \A k \in Nat : k < n => k \in S
      PROVE  n \in S
  <2>1. CASE n = 0
    BY <1>1, <2>1
  <2>2. CASE n # 0
    <3>1. n - 1 \in Nat /\ (n - 1) + 1 = n
      BY <2>2
    <3>2. PICK f : IsAnd(f, n - 1)
      BY <1>2, <3>1
    <3>. QED  BY <3>1, <3>2, AndGrows
  <2>. QED  BY <2>1, <2>2
<1> HIDE DEF S
<1>3. Nat \subseteq S
  BY <1>2, Induction
<1>. QED  BY <1>3 DEF S

LEMMA AndUnique ==
  ASSUME NEW n \in Nat, NEW m \in Nat, NEW f, NEW g, n <= m, IsAnd(f, n), IsAnd(g, m)
  PROVE  \A y \in Nat : f[<<n, y>>] = g[<<n, y>>]
<1> DEFINE S == { x \in Nat : x <= n => \A y \in Nat : f[<<x, y>>] = g[<<x, y>>] }
<1>1. ASSUME NEW x \in Nat, \A k \in Nat : k < x => k \in S
      PROVE  x \in S
  <2>. SUFFICES ASSUME x <= n, NEW y \in Nat PROVE f[<<x, y>>] = g[<<x, y>>]
    OBVIOUS
  <2>1. x \in 0 .. n /\ x \in 0 .. m
    OBVIOUS
  <2>2. f[<<x, y>>] = AndStep(f, x, y) /\ g[<<x, y>>] = AndStep(g, x, y)
    BY <2>1, Zenon DEF IsAnd
  <2>3. CASE x = 0
    BY <2>2, <2>3 DEF AndStep
  <2>4. CASE x # 0
    <3>1. x \div 2 \in Nat /\ x \div 2 < x /\ y \div 2 \in Nat
      BY <2>4, Halves
    <3>2. x \div 2 \in S
      BY <1>1, <3>1, Zenon
    <3>3. x \div 2 <= n
      BY <3>1
    <3>4. f[<<x \div 2, y \div 2>>] = g[<<x \div 2, y \div 2>>]
      BY <3>1, <3>2, <3>3, Zenon
    <3>5. AndStep(f, x, y) = AndStep(g, x, y)
      BY <3>4, Zenon DEF AndStep
    <3>. QED  BY <2>2, <3>5
  <2>. QED  BY <2>3, <2>4
<1> HIDE DEF S
<1>2. Nat \subseteq S
  BY <1>1, Induction
<1>3. n \in S /\ n <= n
  BY <1>2
<1>. QED  BY <1>3, Zenon DEF S

SomeAnd(n) == CHOOSE f : IsAnd(f, n)

LEMMA SomeIsAnd == \A n \in Nat : IsAnd(SomeAnd(n), n)
BY AndUpTo, Zenon DEF SomeAnd

LEMMA SomeAgree ==
  ASSUME NEW k \in Nat, NEW x \in Nat, k <= x
  PROVE  \A y \in Nat : SomeAnd(k)[<<k, y>>] = SomeAnd(x)[<<k, y>>]
<1>1. IsAnd(SomeAnd(k), k) /\ IsAnd(SomeAnd(x), x)
  BY SomeIsAnd
<1>. QED  BY <1>1, AndUnique

(* So BitAnd satisfies the equation it is defined by. *)
LEMMA BitAndIs ==
  \A x, y \in Nat :
    BitAnd[<<x, y>>] = IF x = 0 \/ y = 0 THEN 0
                       ELSE 2 * BitAnd[<<x \div 2, y \div 2>>] + (x % 2) * (y % 2)
<1> DEFINE and == [xy \in Nat \X Nat |-> SomeAnd(xy[1])[<<xy[1], xy[2]>>]]
<1>1. ASSUME NEW x \in Nat, NEW y \in Nat
      PROVE  /\ and[<<x, y>>] = SomeAnd(x)[<<x, y>>]
             /\ SomeAnd(x)[<<x, y>>] \in Nat /\ SomeAnd(x)[<<x, y>>] = AndStep(SomeAnd(x), x, y)
  <2>1. x \in 0 .. x
    OBVIOUS
  <2>2. SomeAnd(x)[<<x, y>>] = AndStep(SomeAnd(x), x, y)
    BY SomeIsAnd, <2>1, Zenon DEF IsAnd
  <2>3. SomeAnd(x) \in [(0 .. x) \X Nat -> Nat]
    BY SomeIsAnd DEF IsAnd
  <2>. QED  BY <2>1, <2>2, <2>3
<1>3. and = [xy \in Nat \X Nat |-> AndStep(and, xy[1], xy[2])]
  <2>1. ASSUME NEW x \in Nat, NEW y \in Nat
        PROVE  SomeAnd(x)[<<x, y>>] = AndStep(and, x, y)
    <3>1. CASE x = 0
      BY <1>1, <3>1 DEF AndStep
    <3>2. CASE x # 0
      <4>1. x \div 2 \in Nat /\ x \div 2 <= x /\ y \div 2 \in Nat
        BY Halves
      <4>2. SomeAnd(x \div 2)[<<x \div 2, y \div 2>>] = SomeAnd(x)[<<x \div 2, y \div 2>>]
        BY <4>1, SomeAgree
      <4>3. and[<<x \div 2, y \div 2>>] = SomeAnd(x \div 2)[<<x \div 2, y \div 2>>]
        BY <1>1, <4>1
      <4> HIDE DEF and
      <4>4. and[<<x \div 2, y \div 2>>] = SomeAnd(x)[<<x \div 2, y \div 2>>]
        BY <4>2, <4>3
      <4>5. AndStep(and, x, y) = AndStep(SomeAnd(x), x, y)
        BY <4>4, Zenon DEF AndStep
      <4>. QED  BY <1>1, <4>5
    <3>. QED  BY <3>1, <3>2
  <2>2. and = [xy \in Nat \X Nat |-> SomeAnd(xy[1])[<<xy[1], xy[2]>>]]
    OBVIOUS
  <2> HIDE DEF and
  <2>3. \A xy \in Nat \X Nat : SomeAnd(xy[1])[<<xy[1], xy[2]>>] = AndStep(and, xy[1], xy[2])
    BY <2>1
  <2>. QED  BY <2>2, <2>3, Zenon
<1> HIDE DEF and
<1>4. BitAnd = [xy \in Nat \X Nat |-> AndStep(BitAnd, xy[1], xy[2])]
  <2> DEFINE Eq(g) == g = [xy \in Nat \X Nat |-> AndStep(g, xy[1], xy[2])]
  <2>1. BitAnd = CHOOSE g : Eq(g)
    BY Zenon DEF BitAnd, AndStep
  <2>2. Eq(and)
    BY <1>3
  <2> HIDE DEF Eq
  <2>3. Eq(BitAnd)
    BY <2>1, <2>2, Zenon
  <2>. QED  BY <2>3 DEF Eq
<1>5. \A x, y \in Nat : BitAnd[<<x, y>>] = AndStep(BitAnd, x, y)
  <2>. SUFFICES ASSUME NEW x \in Nat, NEW y \in Nat PROVE BitAnd[<<x, y>>] = AndStep(BitAnd, x, y)
    OBVIOUS
  <2>1. <<x, y>> \in Nat \X Nat /\ <<x, y>>[1] = x /\ <<x, y>>[2] = y
    OBVIOUS
  <2>2. BitAnd[<<x, y>>] = AndStep(BitAnd, <<x, y>>[1], <<x, y>>[2])
    BY <1>4, <2>1, Zenon
  <2>3. BitAnd[<<x, y>>] = AndStep(BitAnd, x, y)
    BY <2>1, <2>2, Zenon
  <2>. QED  BY <2>3
<1>. QED  BY <1>5 DEF AndStep

(* The bits of two numbers multiply. *)
LEMMA Bits ==
  ASSUME NEW x \in Nat, NEW y \in Nat
  PROVE  (x % 2) * (y % 2) = IF x % 2 = 1 /\ y % 2 = 1 THEN 1 ELSE 0
<1>1. x % 2 \in {0, 1} /\ y % 2 \in {0, 1}
  BY Halves
<1>2. \A a, b \in {0, 1} : a * b = IF a = 1 /\ b = 1 THEN 1 ELSE 0
  OBVIOUS
<1>. QED  BY <1>1, <1>2, Zenon

LEMMA BitAndSelf == \A n \in Nat : BitAnd[<<n, n>>] = n
<1> DEFINE S == { n \in Nat : BitAnd[<<n, n>>] = n }
<1>1. ASSUME NEW n \in Nat, \A k \in Nat : k < n => k \in S
      PROVE  n \in S
  <2>1. CASE n = 0
    BY <2>1, BitAndIs
  <2>2. CASE n # 0
    <3>1. n \div 2 \in Nat /\ n \div 2 < n
      BY <2>2, Halves
    <3>2. BitAnd[<<n \div 2, n \div 2>>] = n \div 2
      BY <1>1, <3>1
    <3>3. BitAnd[<<n, n>>] = 2 * BitAnd[<<n \div 2, n \div 2>>] + (n % 2) * (n % 2)
      BY <2>2, BitAndIs
    <3>4. (n % 2) * (n % 2) = n % 2
      <4>1. n % 2 \in {0, 1}
        BY Halves
      <4>. QED  BY <4>1
    <3>5. BitAnd[<<n, n>>] = 2 * (n \div 2) + (n % 2)
      BY ONLY <3>2, <3>3, <3>4, Zenon
    <3>. QED  BY <3>5, Halves
  <2>. QED  BY <2>1, <2>2
<1> HIDE DEF S
<1>2. Nat \subseteq S
  BY <1>1, Induction
<1>. QED  BY <1>2 DEF S

LEMMA BitAndTyped == \A x, y \in Nat : BitAnd[<<x, y>>] \in Nat
<1> DEFINE S == { x \in Nat : \A y \in Nat : BitAnd[<<x, y>>] \in Nat }
<1>1. ASSUME NEW x \in Nat, \A k \in Nat : k < x => k \in S
      PROVE  x \in S
  <2>. SUFFICES ASSUME NEW y \in Nat PROVE BitAnd[<<x, y>>] \in Nat
    OBVIOUS
  <2>1. CASE x = 0 \/ y = 0
    BY <2>1, BitAndIs
  <2>2. CASE ~(x = 0 \/ y = 0)
    <3>1. x \div 2 \in Nat /\ x \div 2 < x /\ y \div 2 \in Nat
      BY <2>2, Halves
    <3>2. x \div 2 \in S
      BY <1>1, <3>1, Zenon
    <3>3. BitAnd[<<x \div 2, y \div 2>>] \in Nat
      BY <3>1, <3>2, Zenon
    <3>4. BitAnd[<<x, y>>] = 2 * BitAnd[<<x \div 2, y \div 2>>] + (x % 2) * (y % 2)
      BY <2>2, BitAndIs
    <3>5. (x % 2) * (y % 2) \in Nat
      BY Bits
    <3>6. \A a, b \in Nat : 2 * a + b \in Nat
      OBVIOUS
    <3>. QED  BY ONLY <3>3, <3>4, <3>5, <3>6, Zenon
  <2>. QED  BY <2>1, <2>2
<1> HIDE DEF S
<1>2. Nat \subseteq S
  BY <1>1, Induction
<1>. QED  BY <1>2 DEF S

LEMMA Predecessor ==
  ASSUME NEW n \in Nat \ {0}
  PROVE  /\ n - 1 \in Nat /\ (n - 1) \div 2 \in Nat
         /\ n % 2 = 1 => (n - 1) \div 2 = n \div 2 /\ (n - 1) % 2 = 0
         /\ n % 2 = 0 => (n - 1) \div 2 = n \div 2 - 1 /\ (n - 1) % 2 = 1 /\ n = 2 * (n \div 2)
  OBVIOUS

(* A count that passes the test of parse_vbucket_config is 1 or the double   *)
(* of such a count. *)
LEMMA CountHalves ==
  ASSUME NEW n \in Nat, CountOK(n), n # 1
  PROVE  \E m \in Nat : n = 2 * m /\ m < n /\ CountOK(m)
<1> DEFINE m == n \div 2
<1>0. n # 0
  BY DEF CountOK
<1>1. BitAnd[<<n, n - 1>>] = 0
  BY DEF CountOK
<1>2. n \in Nat \ {0} /\ n - 1 \in Nat /\ n - 1 # 0
  BY ONLY n \in Nat, n # 1, <1>0
<1>3. m \in Nat /\ m # 0 /\ m < n /\ n % 2 \in {0, 1}
  BY ONLY n \in Nat, n # 1, <1>0
<1>4. BitAnd[<<n, n - 1>>] = 2 * BitAnd[<<m, (n - 1) \div 2>>] + (n % 2) * ((n - 1) % 2)
  BY <1>2, BitAndIs
<1>5. (n % 2) * ((n - 1) % 2) = 0
  <2>1. ~(n % 2 = 1 /\ (n - 1) % 2 = 1)
    BY <1>2, Predecessor
  <2>. QED  BY <1>2, <2>1, Bits
<1>6. BitAnd[<<m, (n - 1) \div 2>>] = 0
  <2>1. BitAnd[<<m, (n - 1) \div 2>>] \in Nat
    BY <1>2, <1>3, Predecessor, BitAndTyped
  <2>2. \A a \in Nat : 2 * a + 0 = 0 => a = 0
    OBVIOUS
  <2>. QED  BY ONLY <1>1, <1>4, <1>5, <2>1, <2>2
<1>7. n % 2 = 0
  <2>. SUFFICES ASSUME n % 2 = 1 PROVE FALSE
    BY <1>3
  <2>1. (n - 1) \div 2 = m
    BY <1>2, Predecessor
  <2>2. BitAnd[<<m, m>>] = m
    BY <1>3, BitAndSelf
  <2>. QED  BY ONLY <1>3, <1>6, <2>1, <2>2
<1>8. n = 2 * m /\ (n - 1) \div 2 = m - 1
  BY <1>2, <1>7, Predecessor
<1> HIDE DEF m
<1>9. CountOK(m)
  BY <1>3, <1>6, <1>8 DEF CountOK
<1>. QED  BY <1>3, <1>8, <1>9

(* Twice the remainder and one bit more: the remainder by the double. *)
LEMMA RemainderHalves ==
  ASSUME NEW x \in Nat, NEW m \in Nat \ {0}
  PROVE  x % (2 * m) = 2 * ((x \div 2) % m) + (x % 2)
<1>1. x \div 2 \in Nat /\ x % 2 \in {0, 1} /\ x = 2 * (x \div 2) + (x % 2)
  BY Halves
<1> DEFINE y == x \div 2
           b == x % 2
<1> HIDE DEF y, b
<1>2. PICK s \in Int, t \in Int : s = y \div m /\ t = y % m
  BY <1>1 DEF y
<1>3. s >= 0 /\ t \in 0 .. m - 1 /\ y = m * s + t
  BY <1>1, <1>2, DivNamed DEF y
<1>4. 2 * t + b \in 0 .. 2 * m - 1 /\ 2 * m \in Nat \ {0}
  BY <1>1, <1>3 DEF b
<1>5. x = s * (2 * m) + (2 * t + b)
  <2>1. x = 2 * (m * s + t) + b
    BY <1>1, <1>3 DEF y, b
  <2>2. \A p \in Int : m * s = p => s * (2 * m) = 2 * p
    BY <1>3, SMTT(30)
  <2>3. m * s \in Int
    BY <1>3
  <2>. QED  BY <1>1, <1>3, <2>1, <2>2, <2>3 DEF b
<1>6. (s * (2 * m) + (2 * t + b)) % (2 * m) = 2 * t + b
  BY <1>3, <1>4, DivUnique
<1>7. x % (2 * m) = 2 * t + b
  BY ONLY <1>5, <1>6, Zenon
<1>. QED  BY ONLY <1>2, <1>7, Zenon DEF y, b

(* For such a count, the mask is the remainder. *)
LEMMA MaskWorks ==
  \A n \in Nat : CountOK(n) => \A x \in Nat : BitAnd[<<x, n - 1>>] = x % n
<1> DEFINE S == { n \in Nat : CountOK(n) => \A x \in Nat : BitAnd[<<x, n - 1>>] = x % n }
<1>1. ASSUME NEW n \in Nat, \A k \in Nat : k < n => k \in S
      PROVE  n \in S
  <2>. SUFFICES ASSUME CountOK(n), NEW x \in Nat PROVE BitAnd[<<x, n - 1>>] = x % n
    OBVIOUS
  <2>1. CASE n = 1
    <3>1. BitAnd[<<x, 0>>] = 0
      BY BitAndIs
    <3>2. x % 1 = 0
      OBVIOUS
    <3>3. n - 1 = 0
      BY <2>1
    <3>. QED  BY ONLY <2>1, <3>1, <3>2, <3>3, Zenon
  <2>2. CASE n # 1
    <3>1. PICK m \in Nat : n = 2 * m /\ m < n /\ CountOK(m)
      BY <2>2, CountHalves
    <3>2. m # 0 /\ m - 1 \in Nat /\ n - 1 \in Nat \ {0}
      <4>1. m # 0
        BY <3>1 DEF CountOK
      <4>. QED  BY ONLY m \in Nat, n \in Nat, <3>1, <4>1
    <3>3. x \div 2 \in Nat
      BY Halves
    <3>4. BitAnd[<<x \div 2, m - 1>>] = (x \div 2) % m
      <4>1. m \in S
        BY <1>1, <3>1, Zenon
      <4>. QED  BY <3>1, <3>3, <4>1, Zenon
    <3>5. (n - 1) \div 2 = m - 1 /\ (n - 1) % 2 = 1
      BY <3>1, <3>2
    <3>6. x % n = 2 * ((x \div 2) % m) + (x % 2)
      BY <3>1, <3>2, RemainderHalves
    <3>7. CASE x = 0
      <4>1. BitAnd[<<x, n - 1>>] = 0
        BY <3>2, <3>7, BitAndIs
      <4>2. 0 % n = 0
        BY <3>1, <3>2
      <4>. QED  BY <3>7, <4>1, <4>2
    <3>8. CASE x # 0
      <4>1. BitAnd[<<x, n - 1>>] = 2 * BitAnd[<<x \div 2, (n - 1) \div 2>>] + (x % 2) * ((n - 1) % 2)
        BY <3>2, <3>8, BitAndIs
      <4>2. (x % 2) * ((n - 1) % 2) = x % 2
        <5>1. \A a \in {0, 1} : a * 1 = a
          OBVIOUS
        <5>. QED  BY <3>5, <5>1, Halves
      <4>. QED  BY ONLY <3>4, <3>5, <3>6, <4>1, <4>2, Zenon
    <3>. QED  BY <3>7, <3>8
  <2>. QED  BY <2>1, <2>2
<1> HIDE DEF S
<1>2. Nat \subseteq S
  BY <1>1, Induction
<1>. QED  BY <1>2 DEF S

-------------------------------------------------------------------------------
(* The rows and the mask of a handle are those of one map, unless a parse    *)
(* has failed since or a second one has begun.                               *)
Masked(handle) ==
  handle.num_vbuckets > 0 =>
    handle.mask = handle.num_vbuckets - 1 /\ CountOK(handle.num_vbuckets)

MInv ==
  h # NULL /\ pc # "crashed" /\ parses <= 1 /\ (pc \in {"idle", "return"} => ret # -1)
    => Masked(h)

(* The stages that store something else, or fail. *)
MaskKept ==
  \/ pc' = "crashed"
  \/ pc' = "return" /\ ret' = -1
  \/ h'.num_vbuckets = h.num_vbuckets /\ h'.mask = h.mask

LEMMA KeptInv == CInv /\ MInv /\ Working /\ parses' = parses /\ MaskKept => MInv'
<1>1. CInv /\ Working => h # NULL
  BY WorkingHandle
<1>. QED  BY <1>1 DEF MInv, MaskKept, Masked, Working

LEMMA ReadingKeeps ==
  CInv /\ (OpenFile \/ do_read_file \/ ParseFromMemory \/ InvalidJSON)
    => MaskKept /\ Working /\ parses' = parses
BY DEF OpenFile, do_read_file, ParseFromMemory, InvalidJSON, Fail, Continue, MaskKept, Working

LEMMA DecisionsKeep ==
  CInv /\ (CopyCredentials \/ parse_cjson \/ NumReplicas)
    => MaskKept /\ Working /\ parses' = parses
<1>. SUFFICES ASSUME CInv, CopyCredentials \/ parse_cjson \/ NumReplicas
              PROVE  MaskKept /\ Working /\ parses' = parses
  OBVIOUS
<1>1. Working
  BY DEF CopyCredentials, parse_cjson, NumReplicas, Working
<1>2. h \in Handle
  BY <1>1, WorkingHandle DEF Good
<1>3. CASE CopyCredentials
  BY <1>1, <1>2, <1>3 DEF CopyCredentials, MaskKept, Handle
<1>4. CASE parse_cjson
  BY <1>1, <1>2, <1>4 DEF parse_cjson, Continue, Succeed, Fail, MaskKept, Handle
<1>5. CASE NumReplicas
  BY <1>1, <1>2, <1>5 DEF NumReplicas, Continue, Fail, MaskKept, Handle
<1>. QED  BY <1>3, <1>4, <1>5

LEMMA ServersKeep ==
  CInv /\ (\/ ServerList \/ NoServersArray \/ Nodes \/ CouchBaseNotString
           \/ parse_ketama_config \/ NoNodesArray \/ NoContinuum)
    => MaskKept /\ Working /\ parses' = parses
<1>. SUFFICES ASSUME CInv,
                     \/ ServerList \/ NoServersArray \/ Nodes \/ CouchBaseNotString
                     \/ parse_ketama_config \/ NoNodesArray \/ NoContinuum
              PROVE  MaskKept /\ Working /\ parses' = parses
  OBVIOUS
<1>1. Working
  BY DEF ServerList, NoServersArray, Nodes, CouchBaseNotString, parse_ketama_config,
         NoNodesArray, NoContinuum, Working
<1>2. h \in Handle
  BY <1>1, WorkingHandle DEF Good
<1>3. CASE ServerList
  BY <1>1, <1>2, <1>3 DEF ServerList, Continue, Fail, WithServers, MaskKept, Handle
<1>4. CASE NoServersArray \/ CouchBaseNotString \/ NoNodesArray \/ NoContinuum
  BY <1>1, <1>4 DEF NoServersArray, CouchBaseNotString, NoNodesArray, NoContinuum, Fault, MaskKept
<1>5. CASE Nodes
  BY <1>1, <1>2, <1>5 DEF Nodes, Continue, Fail, MaskKept, Handle
<1>6. CASE parse_ketama_config
  BY <1>1, <1>2, <1>6 DEF parse_ketama_config, Succeed, Fail, WithServers, MaskKept, Handle
<1>. QED  BY <1>3, <1>4, <1>5, <1>6

LEMMA ForwardKeeps ==
  CInv /\ VBucketMapForward => MaskKept /\ Working /\ parses' = parses
<1>. SUFFICES ASSUME CInv, VBucketMapForward PROVE MaskKept /\ Working /\ parses' = parses
  OBVIOUS
<1>1. Working
  BY DEF VBucketMapForward, Working
<1>2. h \in Handle
  BY <1>1, WorkingHandle DEF Good
<1>. QED  BY <1>1, <1>2 DEF VBucketMapForward, Succeed, Fail, MaskKept, Handle

(* The stage that sets them: the count is stored before it is tested, the    *)
(* mask after.                                                               *)
LEMMA MapMasks == CInv /\ MInv /\ VBucketMap => MInv'
<1>. SUFFICES ASSUME CInv, MInv, VBucketMap PROVE MInv'
  OBVIOUS
<1>1. Working
  BY DEF VBucketMap, Working
<1>2. h \in Handle
  BY <1>1, WorkingHandle DEF Good
<1>3. CASE pc' = "return" /\ ret' = -1
  BY <1>3 DEF MInv
<1>4. ASSUME NEW n \in Rows, NEW table, CountOK(n),
             Continue([[[h EXCEPT !.num_vbuckets = n] EXCEPT !.mask = MaskOf(n)]
                         EXCEPT !.vbuckets = table], "forward")
      PROVE  MInv'
  <2>1. h'.num_vbuckets = n /\ h'.mask = n - 1
    BY <1>2, <1>4 DEF Continue, MaskOf, Handle
  <2>. QED  BY <1>4, <2>1 DEF MInv, Masked
<1>5. \/ pc' = "return" /\ ret' = -1
      \/ \E n \in Rows : \E table \in Complete(h, n) :
           /\ CountOK(n)
           /\ Continue([[[h EXCEPT !.num_vbuckets = n] EXCEPT !.mask = MaskOf(n)]
                          EXCEPT !.vbuckets = table], "forward")
  BY DEF VBucketMap, Fail
<1>. QED  BY <1>3, <1>4, <1>5

LEMMA CallsMasked ==
  CInv /\ MInv /\ (\/ vbucket_config_create \/ vbucket_config_parse \/ backwards_compat
                  \/ vbucket_config_destroy \/ Restart \/ ReturnToCaller \/ ReturnFromCompat)
    => MInv'
<1>. SUFFICES ASSUME CInv, MInv,
                     \/ vbucket_config_create \/ vbucket_config_parse \/ backwards_compat
                     \/ vbucket_config_destroy \/ Restart \/ ReturnToCaller
                     \/ ReturnFromCompat
              PROVE  MInv'
  OBVIOUS
<1>1. CASE vbucket_config_create \/ backwards_compat
  BY <1>1 DEF vbucket_config_create, backwards_compat, MInv, Masked, Fresh
<1>2. CASE vbucket_config_destroy \/ Restart
  BY <1>2 DEF vbucket_config_destroy, Restart, Fault, MInv
<1>3. CASE ReturnToCaller \/ ReturnFromCompat
  BY <1>3 DEF ReturnToCaller, ReturnFromCompat, Fault, MInv, Masked
<1>4. CASE vbucket_config_parse
  <2>1. parses' <= 1 => parses = 0
    BY <1>4, Bounds DEF vbucket_config_parse, CInv, TypeOK
  <2>2. parses = 0 => h.num_vbuckets = 0
    BY <1>4 DEF vbucket_config_parse, CInv, Unfilled
  <2>. QED  BY <1>4, <2>1, <2>2 DEF vbucket_config_parse, MInv, Masked
<1>. QED  BY <1>1, <1>2, <1>3, <1>4

LEMMA MaskStep == CInv /\ MInv /\ [Next]_vars => MInv'
<1> SUFFICES ASSUME CInv, MInv, [Next]_vars PROVE MInv'
  OBVIOUS
<1>1. CASE UNCHANGED vars
  BY <1>1 DEF vars, MInv, Masked
<1>2. CASE \/ vbucket_config_create \/ vbucket_config_parse \/ backwards_compat
           \/ vbucket_config_destroy \/ Restart \/ ReturnToCaller \/ ReturnFromCompat
  BY <1>2, CallsMasked
<1>3. CASE \/ OpenFile \/ do_read_file \/ ParseFromMemory \/ InvalidJSON
           \/ CopyCredentials \/ parse_cjson \/ NumReplicas
  BY <1>3, ReadingKeeps, DecisionsKeep, KeptInv
<1>4. CASE \/ ServerList \/ NoServersArray \/ Nodes \/ CouchBaseNotString
           \/ VBucketMapForward \/ parse_ketama_config \/ NoNodesArray \/ NoContinuum
  BY <1>4, ServersKeep, ForwardKeeps, KeptInv
<1>5. CASE VBucketMap
  BY <1>5, MapMasks
<1>. QED  BY <1>1, <1>2, <1>3, <1>4, <1>5 DEF Next

(* The & of vbucket_get_vbucket_by_key answers the remainder by the number   *)
(* of vbuckets, for every hash value and every number of rows a parse that   *)
(* returned 0 let through: its test of the count accepts nothing but powers  *)
(* of two.                                                                   *)
THEOREM MaskTakesRemainder == Spec => []MaskIsRemainder
<1>1. Init => MInv
  BY DEF Init, MInv
<1>2. CInv /\ MInv => MaskIsRemainder
  <2>. SUFFICES ASSUME CInv, MInv, pc = "idle", h # NULL, parses = 1, ret = 0,
                       h.num_vbuckets > 0, NEW digest \in 0 .. HashMask
                PROVE  BitAnd[<<digest, h.mask>>] = digest % h.num_vbuckets
    BY DEF MaskIsRemainder
  <2>1. h.mask = h.num_vbuckets - 1 /\ CountOK(h.num_vbuckets)
    BY DEF MInv, Masked
  <2>2. h.num_vbuckets \in Nat
    BY Bounds DEF CInv, Good, Handle, Rows
  <2>3. digest \in Nat
    BY Bounds
  <2>4. BitAnd[<<digest, h.num_vbuckets - 1>>] = digest % h.num_vbuckets
    BY <2>1, <2>2, <2>3, MaskWorks
  <2>. QED  BY ONLY <2>1, <2>4, Zenon
<1>. QED  BY <1>1, <1>2, CInvAlways, MaskStep, PTL DEF Spec
==================================================================================
