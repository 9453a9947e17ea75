---------------------------- MODULE ReconfigureProofs ----------------------------
(***************************************************************************)
(* What vbucket_compare reports is the change, and connections and         *)
(* requests kept over a change of handles keep their meaning: for any      *)
(* configurations, any number of requests and of changes.                  *)
(***************************************************************************)
EXTENDS Reconfigure, FiniteSetTheorems, SequenceTheorems, TLAPS

-------------------------------------------------------------------------------
(* vbucket_compare. *)
Inv == from \in Handles /\ to \in Handles /\ diff \in {NULL, Diff(from, to)}

LEMMA InvAlways == Spec => []Inv
<1>1. Init => Inv
  BY DEF Init, Inv
<1>2. Inv /\ [Next]_vars => Inv'
  BY DEF Inv, Next, vars, vbucket_compare, vbucket_free_diff
<1>. QED  BY <1>1, <1>2, PTL DEF Spec

-------------------------------------------------------------------------------
(* What the comparison needs of the two handles; a handle keeps it when its  *)
(* masters are corrected after it was parsed.                                *)
WellFormed(handle) ==
  /\ handle.servers \in Seq(Names(handle))
  /\ handle.vbuckets \in Seq(Row(handle))

LEMMA ParsedWellFormed == \A handle \in Handles : WellFormed(handle)
BY HandlesAssumption DEF WellFormed

(* Equal sequences: an index names the same server in both handles. *)
LEMMA UnmovedServers ==
  ASSUME NEW a, NEW b, WellFormed(a), WellFormed(b), ~ServersMoved(a, b)
  PROVE  a.servers = b.servers
<1>1. a.servers \in Seq(Names(a)) /\ b.servers \in Seq(Names(b))
  BY DEF WellFormed
<1>2. /\ Len(a.servers) = Len(b.servers)
      /\ DOMAIN a.servers = 1 .. Len(a.servers)
      /\ DOMAIN b.servers = 1 .. Len(b.servers)
      /\ \A i \in DOMAIN a.servers : a.servers[i] = b.servers[i]
  BY <1>1 DEF ServersMoved, num_servers
<1>. QED  BY <1>1, <1>2

(* No changes counted: every vbucket has the same master index in both. *)
LEMMA UncountedMasters ==
  ASSUME NEW a, NEW b, WellFormed(a), WellFormed(b), CountChanges(a, b) = 0
  PROVE  /\ DOMAIN a.vbuckets = DOMAIN b.vbuckets
         /\ \A v \in DOMAIN b.vbuckets : a.vbuckets[v].master = b.vbuckets[v].master
<1> DEFINE changed == { v \in DOMAIN b.vbuckets : a.vbuckets[v].master # b.vbuckets[v].master }
<1>1. a.vbuckets \in Seq(Row(a)) /\ b.vbuckets \in Seq(Row(b))
  BY DEF WellFormed
<1>2. /\ num_vbuckets(a) = num_vbuckets(b)
      /\ Cardinality(changed) = 0
  BY DEF CountChanges
<1>3. /\ num_vbuckets(b) \in Nat
      /\ DOMAIN a.vbuckets = 1 .. num_vbuckets(a)
      /\ DOMAIN b.vbuckets = 1 .. num_vbuckets(b)
  BY <1>1 DEF num_vbuckets
<1>4. IsFiniteSet(changed)
  <2>1. IsFiniteSet(1 .. num_vbuckets(b))
    BY <1>3, FS_Interval
  <2>2. changed \subseteq 1 .. num_vbuckets(b)
    BY <1>3
  <2>. QED  BY <2>1, <2>2, FS_Subset
<1>5. changed = {}
  BY <1>2, <1>4, FS_EmptySet
<1>. QED  BY <1>2, <1>3, <1>5

(* Equal sequences and equal indices are equal names. *)
LEMMA QuietMasters ==
  ASSUME NEW a, NEW b, WellFormed(a), WellFormed(b),
         ~ServersMoved(a, b), CountChanges(a, b) = 0
  PROVE  /\ DOMAIN a.vbuckets = DOMAIN b.vbuckets
         /\ \A v \in DOMAIN b.vbuckets : MasterName(a, v) = MasterName(b, v)
BY UnmovedServers, UncountedMasters DEF MasterName

LEMMA UnchangedCredential ==
  ASSUME NEW x, NEW y, ~CredentialChanged(x, y)
  PROVE  x = y
BY DEF CredentialChanged

(* If vbucket_compare reports neither a changed sequence nor a changed       *)
(* vbucket, every vbucket is at the server of the same name under both       *)
(* handles, and the credentials are equal.                                   *)
THEOREM QuietComparison == Spec => []QuietMeansSame
<1>1. Inv => QuietMeansSame
  <2>. SUFFICES ASSUME Inv, diff # NULL, ~diff.sequence_changed, diff.n_vb_changes = 0
                PROVE  /\ DOMAIN from.vbuckets = DOMAIN to.vbuckets
                       /\ \A v \in DOMAIN to.vbuckets : MasterName(from, v) = MasterName(to, v)
                       /\ <<from.user, from.password>> = <<to.user, to.password>>
    BY DEF QuietMeansSame
  <2>1. WellFormed(from) /\ WellFormed(to) /\ diff = Diff(from, to)
    BY ParsedWellFormed DEF Inv
  <2>2. /\ ~ServersMoved(from, to)
        /\ ~CredentialChanged(from.user, to.user)
        /\ ~CredentialChanged(from.password, to.password)
        /\ CountChanges(from, to) = 0
    BY <2>1 DEF Diff
  <2>3. /\ DOMAIN from.vbuckets = DOMAIN to.vbuckets
        /\ \A v \in DOMAIN to.vbuckets : MasterName(from, v) = MasterName(to, v)
    BY <2>1, <2>2, QuietMasters
  <2>4. <<from.user, from.password>> = <<to.user, to.password>>
    BY <2>2, UnchangedCredential
  <2>. QED  BY <2>3, <2>4
<1>. QED  BY <1>1, InvAlways, PTL

-------------------------------------------------------------------------------
(* Induction over the numbers, in the form of a set: from the least element  *)
(* that a set of numbers has. *)
LEMMA LeastNumber ==
  ASSUME NEW T \in SUBSET Nat, T # {}
  PROVE  \E m \in T : \A k \in T : m <= k
<1> DEFINE R == { ss \in Nat \X Nat : ss[1] < ss[2] }
<1>1. OpToRel(<, Nat) = R
  BY DEF OpToRel
<1>2. IsWellFoundedOn(R, Nat)
  BY <1>1, NatLessThanWellFounded, Zenon
<1>3. PICK m \in T : \A k \in T : <<k, m>> \notin R
  BY <1>2, WFMin
<1>4. ASSUME NEW k \in T
      PROVE  m <= k
  <2>1. <<k, m>> \notin R
    BY <1>3
  <2>. QED  BY <2>1
<1>. QED  BY <1>4

LEMMA Induction ==
  ASSUME NEW S, 0 \in S, \A n \in Nat : n \in S => n + 1 \in S
  PROVE  Nat \subseteq S
<1>. SUFFICES ASSUME Nat \ S # {} PROVE FALSE
  OBVIOUS
<1>1. PICK m \in Nat \ S : \A k \in Nat \ S : m <= k
  BY LeastNumber
<1>2. m # 0 /\ m - 1 \in Nat
  BY <1>1
<1>3. m - 1 \in S
  BY <1>1, <1>2
<1>4. (m - 1) + 1 \in S
  BY <1>2, <1>3
<1>. QED  BY <1>1, <1>4

(* The loop of compute_vb_list_diff: its output after n servers. *)
IsOutput(output, a, b, last) ==
  output = [n \in 0 .. last |->
              IF n = 0 THEN <<>>
              ELSE IF b.servers[n] \in Names(a) THEN output[n - 1]
              ELSE Append(output[n - 1], b.servers[n])]

LEMMA OutputExists ==
  ASSUME NEW a, NEW b, NEW last \in Nat
  PROVE  \E output : IsOutput(output, a, b, last)
<1> DEFINE S == { n \in Nat : \E output : IsOutput(output, a, b, n) }
<1>1. 0 \in S
  <2>1. IsOutput([n \in 0 .. 0 |-> <<>>], a, b, 0)
    BY DEF IsOutput
  <2>. QED  BY <2>1
<1>2. ASSUME NEW n \in Nat, n \in S
      PROVE  n + 1 \in S
  <2>1. PICK f : IsOutput(f, a, b, n)
    BY <1>2
  <2> DEFINE next == IF b.servers[n + 1] \in Names(a) THEN f[n] ELSE Append(f[n], b.servers[n + 1])
             g    == [k \in 0 .. n + 1 |-> IF k = n + 1 THEN next ELSE f[k]]
  <2>2. ASSUME NEW k \in 0 .. n + 1
        PROVE  g[k] = IF k = 0 THEN <<>>
                      ELSE IF b.servers[k] \in Names(a) THEN g[k - 1]
                      ELSE Append(g[k - 1], b.servers[k])
    <3>1. CASE k = n + 1
      BY <3>1
    <3>2. CASE k # n + 1
      <4>1. k \in 0 .. n /\ (k # 0 => k - 1 \in 0 .. n /\ k - 1 # n + 1 /\ k - 1 \in 0 .. n + 1)
        BY <3>2
      <4>. QED  BY <2>1, <3>2, <4>1 DEF IsOutput
    <3>. QED  BY <3>1, <3>2
  <2>3. IsOutput(g, a, b, n + 1)
    <3>1. g = [k \in 0 .. n + 1 |-> g[k]]
      OBVIOUS
    <3> HIDE DEF g
    <3>. QED  BY <2>2, <3>1 DEF IsOutput
  <2>. QED  BY <2>3
<1> HIDE DEF S
<1>3. Nat \subseteq S
  BY <1>1, <1>2, Induction
<1>. QED  BY <1>3 DEF S

(* The loop keeps the names of b that a lacks, and at most one per server. *)
LEMMA DiffNames ==
  ASSUME NEW a, NEW b, b.servers \in Seq(Names(b))
  PROVE  LET list == compute_vb_list_diff(a, b)
         IN  /\ list \in Seq(Names(b))
             /\ Len(list) <= num_servers(b)
             /\ { list[i] : i \in DOMAIN list } = Names(b) \ Names(a)
<1>1. num_servers(b) \in Nat /\ DOMAIN b.servers = 1 .. num_servers(b)
  BY DEF num_servers
<1>2. PICK f : IsOutput(f, a, b, num_servers(b)) /\ compute_vb_list_diff(a, b) = f[num_servers(b)]
  <2>1. \E f : IsOutput(f, a, b, num_servers(b))
    BY <1>1, OutputExists
  <2>2. compute_vb_list_diff(a, b) = (CHOOSE f : IsOutput(f, a, b, num_servers(b)))[num_servers(b)]
    BY DEF compute_vb_list_diff, IsOutput
  <2>. QED  BY <2>1, <2>2
<1> DEFINE Upto(n) == { b.servers[i] : i \in 1 .. n }
           Good(n) == /\ f[n] \in Seq(Names(b))
                      /\ Len(f[n]) <= n
                      /\ { f[n][i] : i \in DOMAIN f[n] } = Upto(n) \ Names(a)
           S == { n \in Nat : n <= num_servers(b) => Good(n) }
<1>3. 0 \in S
  <2>1. f[0] = <<>>
    BY <1>1, <1>2 DEF IsOutput
  <2>2. f[0] \in Seq(Names(b)) /\ Len(f[0]) <= 0 /\ DOMAIN f[0] = {}
    BY <2>1
  <2>3. Upto(0) = {}
    OBVIOUS
  <2>. QED  BY <2>2, <2>3
<1>4. ASSUME NEW n \in Nat, n \in S
      PROVE  n + 1 \in S
  <2>. SUFFICES ASSUME n + 1 <= num_servers(b) PROVE Good(n + 1)
    OBVIOUS
  <2>1. Good(n)
    BY <1>1, <1>4
  <2>2. f[n + 1] = IF b.servers[n + 1] \in Names(a) THEN f[n] ELSE Append(f[n], b.servers[n + 1])
    <3>1. n + 1 \in 0 .. num_servers(b) /\ n + 1 # 0 /\ (n + 1) - 1 = n
      BY <1>1
    <3>. QED  BY <1>2, <3>1 DEF IsOutput
  <2>3. n + 1 \in DOMAIN b.servers /\ b.servers[n + 1] \in Names(b)
    <3>1. n + 1 \in DOMAIN b.servers
      BY <1>1
    <3>. QED  BY <3>1 DEF Names
  <2>4. Upto(n + 1) = Upto(n) \cup {b.servers[n + 1]}
    OBVIOUS
  <2>5. CASE b.servers[n + 1] \in Names(a)
    BY <2>1, <2>2, <2>4, <2>5
  <2>6. CASE b.servers[n + 1] \notin Names(a)
    <3> DEFINE x == b.servers[n + 1]
               t == f[n]
    <3>1. f[n + 1] = Append(t, x) /\ t \in Seq(Names(b)) /\ x \in Names(b)
      BY <2>1, <2>2, <2>3, <2>6
    <3>2. { t[i] : i \in DOMAIN t } = Upto(n) \ Names(a) /\ Len(t) <= n
      BY <2>1
    <3>3. x \notin Names(a) /\ Upto(n + 1) \ Names(a) = (Upto(n) \ Names(a)) \cup {x}
      BY <2>4, <2>6
    <3> HIDE DEF x, t, Upto
    <3>4. /\ Append(t, x) \in Seq(Names(b))
          /\ Len(Append(t, x)) = Len(t) + 1
          /\ DOMAIN Append(t, x) = 1 .. Len(t) + 1
          /\ DOMAIN t = 1 .. Len(t) /\ Len(t) \in Nat
          /\ \A i \in 1 .. Len(t) : Append(t, x)[i] = t[i]
          /\ Append(t, x)[Len(t) + 1] = x
      BY <3>1
    <3>5. { Append(t, x)[i] : i \in DOMAIN Append(t, x) } = { t[i] : i \in DOMAIN t } \cup {x}
      BY <3>4
    <3>. QED  BY <3>1, <3>2, <3>3, <3>4, <3>5
  <2>. QED  BY <2>5, <2>6
<1>5. Good(num_servers(b))
  <2> HIDE DEF S, Good
  <2>1. Nat \subseteq S
    BY <1>3, <1>4, Induction
  <2>. QED  BY <1>1, <2>1 DEF S
<1>6. Upto(num_servers(b)) = Names(b)
  BY <1>1 DEF Names
<1>. QED  BY <1>2, <1>5, <1>6

(* A list that is shorter than its array is read back as it was stored. *)
LEMMA ArrayHolds ==
  ASSUME NEW N, NULL \notin N, NEW list \in Seq(N), NEW capacity \in Nat, Len(list) < capacity
  PROVE  /\ \E i \in DOMAIN Array(list, capacity) : Array(list, capacity)[i] = NULL
         /\ Listed(Array(list, capacity)) = { list[i] : i \in DOMAIN list }
<1> DEFINE array == Array(list, capacity)
<1>1. /\ Len(list) \in Nat /\ DOMAIN list = 1 .. Len(list)
      /\ \A i \in DOMAIN list : list[i] \in N /\ list[i] # NULL
  OBVIOUS
<1>2. /\ DOMAIN array = 0 .. capacity - 1
      /\ \A i \in 0 .. capacity - 1 : array[i] = IF i < Len(list) THEN list[i + 1] ELSE NULL
  BY DEF Array
<1> HIDE DEF array
<1>3. Len(list) \in DOMAIN array /\ array[Len(list)] = NULL
  BY <1>1, <1>2
<1>4. ASSUME NEW i \in DOMAIN list
      PROVE  list[i] \in Listed(array)
  <2>1. i - 1 \in DOMAIN array /\ array[i - 1] = list[i]
    BY <1>1, <1>2
  <2>2. \A j \in 0 .. i - 1 : array[j] # NULL
    <3>. SUFFICES ASSUME NEW j \in 0 .. i - 1 PROVE array[j] # NULL
      OBVIOUS
    <3>1. j \in 0 .. capacity - 1 /\ j < Len(list) /\ j + 1 \in DOMAIN list
      BY <1>1
    <3>. QED  BY <1>1, <1>2, <3>1
  <2>. QED  BY <2>1, <2>2 DEF Listed
<1>5. ASSUME NEW name \in Listed(array)
      PROVE  name \in { list[i] : i \in DOMAIN list }
  <2>1. PICK k \in DOMAIN array : name = array[k] /\ \A j \in 0 .. k : array[j] # NULL
    BY DEF Listed
  <2>2. k < Len(list) /\ k + 1 \in DOMAIN list
    <3>1. array[k] # NULL /\ k \in 0 .. capacity - 1
      BY <1>2, <2>1
    <3>. QED  BY <1>1, <1>2, <3>1
  <2>3. name = list[k + 1]
    BY <1>2, <2>1, <2>2
  <2>. QED  BY <2>2, <2>3
<1>. QED  BY <1>3, <1>4, <1>5 DEF array

(* Both lists are shorter than the arrays allocated for them. *)
LEMMA DiffHolds ==
  ASSUME Inv, diff # NULL
  PROVE  /\ \E i \in DOMAIN diff.servers_added : diff.servers_added[i] = NULL
         /\ \E i \in DOMAIN diff.servers_removed : diff.servers_removed[i] = NULL
         /\ Listed(diff.servers_added) = Names(to) \ Names(from)
         /\ Listed(diff.servers_removed) = Names(from) \ Names(to)
<1>1. /\ from.servers \in Seq(Names(from)) /\ NULL \notin Names(from)
      /\ to.servers \in Seq(Names(to)) /\ NULL \notin Names(to)
  BY HandlesAssumption DEF Inv
<1>2. /\ diff.servers_added = Array(compute_vb_list_diff(from, to), Capacity(from, to))
      /\ diff.servers_removed = Array(compute_vb_list_diff(to, from), Capacity(from, to))
  BY DEF Inv, Diff
<1>3. /\ Capacity(from, to) \in Nat
      /\ num_servers(from) \in Nat /\ num_servers(from) < Capacity(from, to)
      /\ num_servers(to) \in Nat /\ num_servers(to) < Capacity(from, to)
  BY <1>1 DEF Capacity, num_servers
<1>4. /\ compute_vb_list_diff(from, to) \in Seq(Names(to))
      /\ Len(compute_vb_list_diff(from, to)) < Capacity(from, to)
      /\ { compute_vb_list_diff(from, to)[i] : i \in DOMAIN compute_vb_list_diff(from, to) }
           = Names(to) \ Names(from)
  BY <1>1, <1>3, DiffNames
<1>5. /\ compute_vb_list_diff(to, from) \in Seq(Names(from))
      /\ Len(compute_vb_list_diff(to, from)) < Capacity(from, to)
      /\ { compute_vb_list_diff(to, from)[i] : i \in DOMAIN compute_vb_list_diff(to, from) }
           = Names(from) \ Names(to)
  BY <1>1, <1>3, DiffNames
<1>. QED  BY <1>1, <1>2, <1>3, <1>4, <1>5, ArrayHolds

(* Both lists of a comparison end in a NULL inside their arrays. *)
THEOREM ListsTerminated == Spec => []ListsEnd
<1>1. Inv => ListsEnd
  BY DiffHolds DEF ListsEnd
<1>. QED  BY <1>1, InvAlways, PTL

(* What vbucket_compare lists as added and as removed is exactly what only   *)
(* the new handle and only the old one has. *)
THEOREM ListsAreTheChange == Spec => []ListsDescribeChange
<1>1. Inv => ListsDescribeChange
  BY DiffHolds DEF ListsDescribeChange
<1>. QED  BY <1>1, InvAlways, PTL

-------------------------------------------------------------------------------
(* The inductive invariant.  The properties do not say enough by themselves: *)
(* that the handles agree is known from the comparison, two steps before one *)
(* of them is dropped, and that a request fits the handle in use must hold   *)
(* at every stage, not only between configurations.                          *)

(* A handle requests are routed by.  Corrections keep it so.  It may have    *)
(* vbuckets without a master, or no vbuckets. *)
Usable(handle) ==
  /\ DOMAIN handle = {"servers", "user", "password", "vbuckets"}
  /\ WellFormed(handle)
  /\ handle.servers # <<>>

Request(request) ==
  /\ DOMAIN request = {"phase", "digest", "vb", "server", "at"}
  /\ request.digest \in Nat /\ request.vb \in Nat /\ request.server \in Nat

InFlight(request) == request.phase \in {"sent", "refused"}

(* What a request in flight refers to is there under this handle. *)
Means(request, handle) ==
  /\ request.vb + 1 \in DOMAIN handle.vbuckets
  /\ request.server + 1 \in DOMAIN handle.servers
  /\ handle.servers[request.server + 1] = request.at

HandlesUsable == Usable(from) /\ Usable(to) /\ cluster \in Handles

StagesAgree ==
  /\ stage \in {"using", "received", "compared", "reconnect", "replace"}
  /\ stage # "compared" => diff = NULL
  /\ stage = "compared" => diff = Diff(from, to)
  /\ stage \in {"using", "replace"} => ConnectionsTo(from) = ConnectionsTo(to)
  /\ stage = "replace" => num_vbuckets(from) = num_vbuckets(to)

RequestsMean ==
  /\ req \in [Requests -> { req[r] : r \in Requests }]
  /\ \A r \in Requests : Request(req[r])
  /\ \A r \in Requests : InFlight(req[r]) => Means(req[r], from)

RInv ==
  /\ HandlesUsable
  /\ StagesAgree
  /\ conn = ConnectionsTo(from)
  /\ RequestsMean

-------------------------------------------------------------------------------
(* Handles. *)
LEMMA ParsedUsable == \A handle \in Handles : Usable(handle)
BY HandlesAssumption, ReconfigureAssumption DEF Usable, WellFormed

LEMMA UsableSizes ==
  ASSUME NEW handle, Usable(handle)
  PROVE  /\ num_servers(handle) \in Nat \ {0}
         /\ num_vbuckets(handle) \in Nat
         /\ DOMAIN handle.servers = 1 .. num_servers(handle)
         /\ DOMAIN handle.vbuckets = 1 .. num_vbuckets(handle)
<1>1. /\ handle.servers \in Seq(Names(handle)) \ {<<>>}
      /\ handle.vbuckets \in Seq(Row(handle))
  BY DEF Usable, WellFormed
<1>. QED  BY <1>1 DEF num_servers, num_vbuckets

LEMMA MasterInList ==
  ASSUME NEW handle, Usable(handle), NEW v \in DOMAIN handle.vbuckets
  PROVE  handle.vbuckets[v].master \in -1 .. num_servers(handle) - 1
<1>1. handle.vbuckets \in Seq(Row(handle))
  BY DEF Usable, WellFormed
<1>2. handle.vbuckets[v] \in Row(handle)
  BY <1>1
<1>. QED  BY <1>2 DEF Row

(* A correction keeps the servers, the credentials and the vbuckets. *)
LEMMA CorrectedUsable ==
  ASSUME NEW v \in Nat, NEW wrongserver, Usable(from), v + 1 \in DOMAIN from.vbuckets
  PROVE  LET handle == Corrected(v, wrongserver)
         IN  /\ Usable(handle)
             /\ ConnectionsTo(handle) = ConnectionsTo(from)
             /\ DOMAIN handle.vbuckets = DOMAIN from.vbuckets
<1> DEFINE next == (from.vbuckets[v + 1].master + 1) % num_servers(from)
           row  == [from.vbuckets[v + 1] EXCEPT !.master = next]
           rows == [from.vbuckets EXCEPT ![v + 1] = row]
           handle == [from EXCEPT !.vbuckets = rows]
<1>1. next \in 0 .. num_servers(from) - 1
  <2>1. num_servers(from) \in Nat \ {0}
    BY UsableSizes
  <2>2. from.vbuckets[v + 1].master \in -1 .. num_servers(from) - 1
    BY MasterInList
  <2>3. \A m \in Nat, n \in Nat \ {0} : m % n \in 0 .. n - 1
    OBVIOUS
  <2>4. from.vbuckets[v + 1].master + 1 \in Nat
    BY <2>1, <2>2
  <2>. QED  BY ONLY <2>1, <2>3, <2>4
<1>2. from.vbuckets \in Seq(Row(from)) /\ from.servers \in Seq(Names(from))
  BY DEF Usable, WellFormed
<1>3. row \in Row(from) /\ row.master = next
  <2>1. from.vbuckets[v + 1] \in Row(from)
    BY <1>2
  <2>. QED  BY <2>1, <1>1 DEF Row
<1>4. v + 1 \in 1 .. Len(from.vbuckets)
  BY <1>2
<1>5. /\ rows \in Seq(Row(from))
      /\ Len(rows) = Len(from.vbuckets)
      /\ \A j \in 1 .. Len(from.vbuckets) : rows[j] = IF j = v + 1 THEN row ELSE from.vbuckets[j]
  <2> HIDE DEF row
  <2>. QED  BY <1>2, <1>3, <1>4, ExceptSeq
<1>6. /\ DOMAIN handle = DOMAIN from
      /\ handle.servers = from.servers
      /\ handle.user = from.user /\ handle.password = from.password
      /\ handle.vbuckets = rows
  BY DEF Usable
<1>7. Names(handle) = Names(from) /\ Row(handle) = Row(from)
  BY <1>6 DEF Names, Row, num_servers
<1>8. DOMAIN rows = DOMAIN from.vbuckets
  BY <1>2, <1>5
<1>9. Usable(handle) /\ ConnectionsTo(handle) = ConnectionsTo(from)
  <2> HIDE DEF handle, rows
  <2>1. WellFormed(handle)
    BY <1>2, <1>5, <1>6, <1>7 DEF WellFormed
  <2>. QED  BY <2>1, <1>6 DEF Usable, ConnectionsTo
<1>10. Corrected(v, wrongserver) \in {handle, from}
  BY DEF Corrected, vbucket_get_master
<1>11. handle.vbuckets = rows
  BY <1>6
<1> HIDE DEF handle, rows
<1>. QED  BY <1>8, <1>9, <1>10, <1>11

(* A request sent to the master of its vbucket means something. *)
LEMMA SentMeans ==
  ASSUME NEW request, Request(request), NEW handle, Usable(handle),
         conn = ConnectionsTo(handle),
         NEW v \in Nat, v + 1 \in DOMAIN handle.vbuckets,
         handle.vbuckets[v + 1].master # -1
  PROVE  LET sent == SentTo(request, v, handle.vbuckets[v + 1].master)
         IN  Request(sent) /\ Means(sent, handle)
<1> DEFINE m == handle.vbuckets[v + 1].master
           sent == SentTo(request, v, m)
<1>1. m \in Nat /\ m + 1 \in DOMAIN handle.servers
  BY MasterInList, UsableSizes
<1>2. conn.servers = handle.servers
  BY DEF ConnectionsTo
<1>3. /\ DOMAIN sent = DOMAIN request
      /\ sent.digest = request.digest /\ sent.vb = v /\ sent.server = m
      /\ sent.at = handle.servers[m + 1]
  <2> HIDE DEF m
  <2>. QED  BY <1>2 DEF SentTo, Request
<1> HIDE DEF m, sent
<1>4. Request(sent) /\ Means(sent, handle)
  BY <1>1, <1>3 DEF Request, Means
<1>. QED  BY <1>4 DEF sent, m

(* A request that starts anew is not in flight. *)
LEMMA AgainWaits ==
  ASSUME NEW request, Request(request)
  PROVE  Request(Again(request)) /\ ~InFlight(Again(request))
BY DEF Request, InFlight, Again, Idle

(* Equal connections and as many vbuckets: what is in flight means the same. *)
LEMMA MeansKept ==
  ASSUME NEW request, NEW a, NEW b, Usable(a), Usable(b), Means(request, a),
         ConnectionsTo(a) = ConnectionsTo(b), num_vbuckets(a) = num_vbuckets(b)
  PROVE  Means(request, b)
<1>1. a.servers = b.servers
  BY DEF ConnectionsTo
<1>. QED  BY <1>1, UsableSizes DEF Means

(* What the application may conclude from a comparison. *)
LEMMA SameSequence ==
  ASSUME NEW a, NEW b, Usable(a), Usable(b), ~Diff(a, b).sequence_changed
  PROVE  ConnectionsTo(a) = ConnectionsTo(b)
<1>1. /\ ~ServersMoved(a, b)
      /\ ~CredentialChanged(a.user, b.user)
      /\ ~CredentialChanged(a.password, b.password)
  BY DEF Diff
<1>2. a.servers = b.servers
  BY <1>1, UnmovedServers DEF Usable
<1>3. a.user = b.user /\ a.password = b.password
  BY <1>1, UnchangedCredential
<1>. QED  BY <1>2, <1>3 DEF ConnectionsTo

LEMMA SameCount ==
  ASSUME NEW a, NEW b, Diff(a, b).n_vb_changes # -1
  PROVE  num_vbuckets(a) = num_vbuckets(b)
BY DEF Diff, CountChanges

-------------------------------------------------------------------------------
LEMMA StartRInv == Start => RInv
<1> SUFFICES ASSUME Start PROVE RInv
  OBVIOUS
<1>1. HandlesUsable /\ StagesAgree /\ conn = ConnectionsTo(from)
  BY ParsedUsable DEF Start, HandlesUsable, StagesAgree
<1>2. RequestsMean
  BY DEF Start, RequestsMean, Request, InFlight, Idle
<1>. QED  BY <1>1, <1>2 DEF RInv

(* Steps of one request that change nothing else. *)
LEMMA RequestStep ==
  ASSUME RInv, NEW r \in Requests, NEW request,
         req' = [req EXCEPT ![r] = request],
         UNCHANGED <<from, to, diff, cluster, stage, conn>>,
         Request(request), InFlight(request) => Means(request, from)
  PROVE  RInv'
<1>1. HandlesUsable' /\ StagesAgree' /\ (conn = ConnectionsTo(from))'
  BY DEF RInv, HandlesUsable, StagesAgree
<1>2. \A s \in Requests : req'[s] = IF s = r THEN request ELSE req[s]
  BY DEF RInv, RequestsMean
<1>3. req' \in [Requests -> { req'[s] : s \in Requests }]
  BY DEF RInv, RequestsMean
<1>4. RequestsMean'
  BY <1>2, <1>3 DEF RInv, RequestsMean
<1>. QED  BY <1>1, <1>4 DEF RInv

LEMMA WantRInv ==
  ASSUME RInv, NEW r \in Requests, NEW d \in Digests, Want(r, d)
  PROVE  RInv'
<1> DEFINE request == [Idle EXCEPT !.phase = "wanted", !.digest = d]
<1>1. Request(request) /\ ~InFlight(request)
  BY ReconfigureAssumption DEF Idle, Request, InFlight
<1> HIDE DEF request
<1>2. req' = [req EXCEPT ![r] = request]
  BY DEF Want, request
<1>. QED  BY <1>1, <1>2, RequestStep DEF Want

LEMMA SendRInv ==
  ASSUME RInv, NEW r \in Requests, Send(r)
  PROVE  RInv'
<1> DEFINE v == vbucket_get_vbucket_by_key(req[r].digest)
           request == SentTo(req[r], v, from.vbuckets[v + 1].master)
<1>1. Usable(from) /\ Request(req[r]) /\ conn = ConnectionsTo(from)
  BY DEF RInv, HandlesUsable, RequestsMean
<1>2. v \in Nat /\ v + 1 \in DOMAIN from.vbuckets
  <2>1. num_vbuckets(from) \in Nat /\ DOMAIN from.vbuckets = 1 .. num_vbuckets(from)
    BY <1>1, UsableSizes
  <2>2. num_vbuckets(from) # 0
    <3>1. from.vbuckets \in Seq(Row(from)) /\ from.vbuckets # <<>>
      BY <1>1 DEF Usable, WellFormed, Send
    <3>. QED  BY <3>1 DEF num_vbuckets
  <2>3. req[r].digest \in Nat
    BY <1>1 DEF Request
  <2>4. \A d \in Nat, n \in Nat \ {0} : d % n \in 0 .. n - 1
    OBVIOUS
  <2>5. v \in 0 .. num_vbuckets(from) - 1
    BY <2>1, <2>2, <2>3, <2>4 DEF vbucket_get_vbucket_by_key
  <2>. QED  BY <2>1, <2>5
<1>3. from.vbuckets[v + 1].master # -1
  BY DEF Send, vbucket_get_master
<1> HIDE DEF v
<1>4. Request(request) /\ Means(request, from)
  BY <1>1, <1>2, <1>3, SentMeans
<1>5. req' = [req EXCEPT ![r] = request]
  BY DEF Send, vbucket_get_master, v
<1> HIDE DEF request
<1>. QED  BY <1>4, <1>5, RequestStep DEF Send

(* An answer or the end of a request changes its phase. *)
LEMMA PhaseKeepsRequest ==
  ASSUME NEW request, NEW phase, Request(request)
  PROVE  LET other == [request EXCEPT !.phase = phase]
         IN  /\ Request(other)
             /\ \A handle : Means(request, handle) => Means(other, handle)
             /\ other.phase = phase
BY DEF Request, Means

LEMMA AnswerRInv ==
  ASSUME RInv, NEW r \in Requests, Answer(r)
  PROVE  RInv'
<1> DEFINE phase == IF Owns(req[r].at, req[r].vb) THEN "served" ELSE "refused"
           request == [req[r] EXCEPT !.phase = phase]
<1>1. Request(req[r]) /\ Means(req[r], from)
  BY DEF RInv, RequestsMean, InFlight, Answer
<1>2. req' = [req EXCEPT ![r] = request]
  BY DEF Answer
<1>3. Request(request) /\ Means(request, from)
  <2> HIDE DEF phase
  <2>. QED  BY <1>1, PhaseKeepsRequest
<1> HIDE DEF request
<1>. QED  BY <1>2, <1>3, RequestStep DEF Answer

LEMMA FinishRInv ==
  ASSUME RInv, NEW r \in Requests, Finish(r)
  PROVE  RInv'
<1>1. Request(Idle) /\ ~InFlight(Idle)
  BY DEF Request, InFlight, Idle
<1>. QED  BY <1>1, RequestStep DEF Finish

(* The correction changes the handle under the other requests. *)
LEMMA ReportRInv ==
  ASSUME RInv, NEW r \in Requests, Report(r)
  PROVE  RInv'
<1> DEFINE v == req[r].vb
           rv == from'.vbuckets[v + 1].master
           request == IF rv = -1 THEN Again(req[r]) ELSE SentTo(req[r], v, rv)
<1>1. /\ Usable(from) /\ Usable(to) /\ cluster \in Handles
      /\ Request(req[r]) /\ Means(req[r], from)
      /\ conn = ConnectionsTo(from)
  BY DEF RInv, HandlesUsable, RequestsMean, InFlight, Report
<1>2. v \in Nat /\ v + 1 \in DOMAIN from.vbuckets
  BY <1>1 DEF Means, Request
<1>3. from' = Corrected(v, req[r].server)
  BY DEF Report
<1>4. /\ Usable(from') /\ ConnectionsTo(from') = ConnectionsTo(from)
      /\ DOMAIN from'.vbuckets = DOMAIN from.vbuckets
  BY <1>1, <1>2, <1>3, CorrectedUsable
<1>5. req' = [req EXCEPT ![r] = request]
  BY DEF Report
<1> HIDE DEF v
<1>6. Request(request) /\ (InFlight(request) => Means(request, from'))
  <2>1. CASE rv = -1
    BY <1>1, <2>1, AgainWaits
  <2>2. CASE rv # -1
    BY <1>1, <1>2, <1>4, <2>2, SentMeans
  <2>. QED  BY <2>1, <2>2
<1> HIDE DEF request
<1>7. HandlesUsable'
  BY <1>1, <1>4 DEF HandlesUsable, Report
<1>8. StagesAgree'
  BY <1>4 DEF RInv, StagesAgree, Report
<1>9. (conn = ConnectionsTo(from))'
  BY <1>1, <1>4 DEF Report
<1>10. from'.servers = from.servers
  BY <1>4 DEF ConnectionsTo
<1>11. \A s \in Requests : req'[s] = IF s = r THEN request ELSE req[s]
  BY <1>5 DEF RInv, RequestsMean
<1>12. req' \in [Requests -> { req'[s] : s \in Requests }]
  BY <1>5 DEF RInv, RequestsMean
<1>13. ASSUME NEW s \in Requests
       PROVE  Request(req'[s]) /\ (InFlight(req'[s]) => Means(req'[s], from'))
  <2>1. CASE s = r
    BY <2>1, <1>6, <1>11
  <2>2. CASE s # r
    <3>1. req'[s] = req[s] /\ Request(req[s]) /\ (InFlight(req[s]) => Means(req[s], from))
      BY <2>2, <1>11 DEF RInv, RequestsMean
    <3>. QED  BY <3>1, <1>4, <1>10 DEF Means
  <2>. QED  BY <2>1, <2>2
<1>14. RequestsMean'
  BY <1>12, <1>13 DEF RequestsMean
<1>. QED  BY <1>7, <1>8, <1>9, <1>14 DEF RInv

(* Steps that leave requests, connections and the handle in use alone. *)
LEMMA ConfigurationStep ==
  ASSUME RInv, UNCHANGED <<from, conn, req>>, HandlesUsable', StagesAgree'
  PROVE  RInv'
BY DEF RInv, RequestsMean

LEMMA RebalanceRInv == RInv /\ Rebalance => RInv'
<1> SUFFICES ASSUME RInv, Rebalance PROVE RInv'
  OBVIOUS
<1>1. HandlesUsable' /\ StagesAgree'
  BY DEF RInv, Rebalance, HandlesUsable, StagesAgree
<1>. QED  BY <1>1, ConfigurationStep DEF Rebalance

LEMMA ReceiveRInv == RInv /\ Receive => RInv'
<1> SUFFICES ASSUME RInv, Receive PROVE RInv'
  OBVIOUS
<1>1. HandlesUsable'
  BY ParsedUsable DEF RInv, Receive, HandlesUsable
<1>2. StagesAgree'
  BY DEF RInv, Receive, StagesAgree
<1>. QED  BY <1>1, <1>2, ConfigurationStep DEF Receive

LEMMA CompareRInv == RInv /\ Compare => RInv'
<1> SUFFICES ASSUME RInv, Compare PROVE RInv'
  OBVIOUS
<1>1. HandlesUsable'
  BY DEF RInv, Compare, vbucket_compare, HandlesUsable
<1>2. StagesAgree'
  BY DEF RInv, Compare, vbucket_compare, StagesAgree
<1>. QED  BY <1>1, <1>2, ConfigurationStep DEF Compare, vbucket_compare

LEMMA DecideRInv == RInv /\ Decide => RInv'
<1> SUFFICES ASSUME RInv, Decide PROVE RInv'
  OBVIOUS
<1>1. /\ Usable(from) /\ Usable(to) /\ diff = Diff(from, to)
      /\ diff' = NULL /\ UNCHANGED <<from, to, cluster, conn, req>>
  BY DEF RInv, HandlesUsable, StagesAgree, Decide, vbucket_free_diff
<1>2. HandlesUsable'
  BY <1>1 DEF RInv, HandlesUsable
<1>3. stage' \in {"reconnect", "using", "replace"}
  BY DEF Decide
<1>4. stage' # "reconnect" => ~Diff(from, to).sequence_changed /\ Diff(from, to).n_vb_changes # -1
  BY <1>1 DEF Decide
<1>5. stage' # "reconnect" =>
        ConnectionsTo(from) = ConnectionsTo(to) /\ num_vbuckets(from) = num_vbuckets(to)
  BY <1>1, <1>4, SameSequence, SameCount
<1>6. StagesAgree'
  BY <1>1, <1>3, <1>5 DEF StagesAgree
<1>. QED  BY <1>1, <1>2, <1>6, ConfigurationStep

LEMMA ReplaceRInv == RInv /\ Replace => RInv'
<1> SUFFICES ASSUME RInv, Replace PROVE RInv'
  OBVIOUS
<1>1. /\ Usable(from) /\ Usable(to) /\ conn = ConnectionsTo(from)
      /\ ConnectionsTo(from) = ConnectionsTo(to)
      /\ num_vbuckets(from) = num_vbuckets(to)
      /\ from' = to /\ UNCHANGED <<to, diff, cluster, conn, req>>
  BY DEF RInv, HandlesUsable, StagesAgree, Replace
<1>2. HandlesUsable'
  BY <1>1 DEF RInv, HandlesUsable
<1>3. StagesAgree'
  BY <1>1 DEF RInv, StagesAgree, Replace
<1>4. (conn = ConnectionsTo(from))'
  BY <1>1
<1>5. \A r \in Requests : InFlight(req[r]) => Means(req[r], to)
  BY <1>1, MeansKept DEF RInv, RequestsMean
<1>6. RequestsMean'
  BY <1>1, <1>5 DEF RInv, RequestsMean
<1>. QED  BY <1>2, <1>3, <1>4, <1>6 DEF RInv

LEMMA ReconnectRInv == RInv /\ Reconnect => RInv'
<1> SUFFICES ASSUME RInv, Reconnect PROVE RInv'
  OBVIOUS
<1>1. HandlesUsable' /\ StagesAgree' /\ (conn = ConnectionsTo(from))'
  BY DEF RInv, HandlesUsable, StagesAgree, Reconnect
<1>2. req' \in [Requests -> { req'[r] : r \in Requests }]
  BY DEF Reconnect
<1>3. ASSUME NEW r \in Requests
      PROVE  Request(req'[r]) /\ ~InFlight(req'[r])
  <2> DEFINE again == Again(req[r])
  <2>1. Request(req[r])
    BY DEF RInv, RequestsMean
  <2>2. Request(again) /\ ~InFlight(again)
    BY <2>1, AgainWaits
  <2>3. req'[r] = IF InFlight(req[r]) THEN again ELSE req[r]
    BY DEF Reconnect, InFlight
  <2> HIDE DEF again
  <2>. QED  BY <2>1, <2>2, <2>3
<1>4. RequestsMean'
  BY <1>2, <1>3 DEF RequestsMean
<1>. QED  BY <1>1, <1>4 DEF RInv

LEMMA StepRInv == RInv /\ [Steps]_all => RInv'
<1> SUFFICES ASSUME RInv, [Steps]_all PROVE RInv'
  OBVIOUS
<1>1. CASE UNCHANGED all
  BY <1>1 DEF all, RInv, HandlesUsable, StagesAgree, RequestsMean
<1>2. ASSUME NEW r \in Requests, NEW d \in Digests, Want(r, d) PROVE RInv'
  BY <1>2, WantRInv
<1>3. ASSUME NEW r \in Requests, Send(r) \/ Answer(r) \/ Report(r) \/ Finish(r) PROVE RInv'
  BY <1>3, SendRInv, AnswerRInv, ReportRInv, FinishRInv
<1>4. CASE Rebalance \/ Receive \/ Compare \/ Decide \/ Replace \/ Reconnect
  BY <1>4, RebalanceRInv, ReceiveRInv, CompareRInv, DecideRInv, ReplaceRInv, ReconnectRInv
<1>. QED  BY <1>1, <1>2, <1>3, <1>4 DEF Steps

LEMMA RInvAlways == ReconfigureSpec => []RInv
BY StartRInv, StepRInv, PTL DEF ReconfigureSpec

-------------------------------------------------------------------------------
(* Whatever is in flight when a configuration has been dealt with refers to  *)
(* a vbucket of the handle in use and to the server of that index in it,     *)
(* although vbucket_compare looked at a handle corrected since it was parsed. *)
THEOREM RequestsKeepMeaning == ReconfigureSpec => []InFlightMeansSame
<1>1. RInv => InFlightMeansSame
  BY DEF RInv, RequestsMean, InFlight, Means, InFlightMeansSame
<1>. QED  BY <1>1, RInvAlways, PTL

(* Connections that were kept are those the latest configuration calls for:  *)
(* its servers in its order, its credentials.                                *)
THEOREM KeptConnectionsFit == ReconfigureSpec => []ConnectionsFit
<1>1. RInv => ConnectionsFit
  BY DEF RInv, StagesAgree, ConnectionsTo, ConnectionsFit
<1>. QED  BY <1>1, RInvAlways, PTL

(* A handle kept because the comparison found nothing sends every vbucket to *)
(* the server the latest configuration names.                                *)
THEOREM KeptHandleRoutes == ReconfigureSpec => KeptHandleIsCurrent
<1>1. RInv /\ [Steps]_all => [stage = "compared" /\ stage' = "using"
                                => \A v \in DOMAIN to.vbuckets : MasterName(from, v) = MasterName(to, v)]_all
  <2> SUFFICES ASSUME RInv, Steps, stage = "compared", stage' = "using"
               PROVE  \A v \in DOMAIN to.vbuckets : MasterName(from, v) = MasterName(to, v)
    BY DEF all
  <2>1. Decide
    BY DEF Steps, Want, Send, Answer, Report, Finish, Rebalance, Receive, Compare, Decide,
           Replace, Reconnect
  <2>2. WellFormed(from) /\ WellFormed(to) /\ diff = Diff(from, to)
    BY DEF RInv, HandlesUsable, StagesAgree, Usable
  <2>3. ~Diff(from, to).sequence_changed /\ Diff(from, to).n_vb_changes = 0
    BY <2>1, <2>2 DEF Decide
  <2>4. ~ServersMoved(from, to) /\ CountChanges(from, to) = 0
    BY <2>3 DEF Diff
  <2>. QED  BY <2>2, <2>4, QuietMasters
<1>. QED  BY <1>1, RInvAlways, PTL DEF ReconfigureSpec, KeptHandleIsCurrent
==================================================================================
