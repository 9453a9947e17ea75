-------------------------- MODULE VBucketClientProofs --------------------------
(***************************************************************************)
(* Theorems about VBucketClient for every number of vbuckets, servers,     *)
(* replicas and requests.                                                  *)
(***************************************************************************)
EXTENDS VBucketClient, TLAPS

-------------------------------------------------------------------------------
(* The server list as a ring. *)

(* The step round the server list: the next index, or the first one. *)
LEMMA NextServerIsNext ==
  ASSUME NEW s \in Servers
  PROVE  NextServer(s) = IF s + 1 = NumServers THEN 0 ELSE s + 1
<1>1. NumServers \in Nat \ {0} /\ s \in 0 .. NumServers - 1
  BY RoutingAssumption DEF Servers
<1>2. CASE s + 1 = NumServers
  BY <1>1, <1>2 DEF NextServer
<1>3. CASE s + 1 # NumServers
  BY <1>1, <1>3 DEF NextServer
<1>. QED  BY <1>2, <1>3

LEMMA NextServerType ==
  ASSUME NEW s \in Servers
  PROVE  NextServer(s) \in Servers
BY NextServerIsNext, RoutingAssumption DEF Servers

(* With a second server in the list, the step goes to a different server. *)
LEMMA NextServerDiffers ==
  ASSUME NumServers > 1, NEW s \in Servers
  PROVE  NextServer(s) # s
BY NextServerIsNext, RoutingAssumption DEF Servers

(* A step from anywhere but the goal comes nearer to the goal. *)
LEMMA NextServerIsCloser ==
  ASSUME NEW s \in Servers, NEW goal \in Servers, s # goal
  PROVE  Distance(NextServer(s), goal) < Distance(s, goal)
BY NextServerIsNext, RoutingAssumption DEF Servers, Distance

-------------------------------------------------------------------------------
(* Type correctness. *)

LEMMA ForwardRowType ==
  ASSUME NEW row \in Row, NEW frow \in Row
  PROVE  ForwardRow(row, frow) \in Row
BY DEF ForwardRow, Row

(* A report leaves a map, and answers a server of the list or -1. *)
LEMMA ReportKeepsType ==
  ASSUME TypeOK, NEW v \in VBuckets, NEW wrongserver \in Servers,
         vbucket_found_incorrect_master(v, wrongserver)
  PROVE  vbuckets' \in Map /\ FoundMaster(v) \in ServerIds
<1>0. vbuckets \in Map /\ fvbuckets \in Map \cup {NULL}
  BY DEF TypeOK
<1>1. 0 \in 0 .. MaxReplicas
  BY RoutingAssumption
<1>2. vbuckets' \in Map
  <2>1. CASE UseForwardRow(v)
    <3>1. vbuckets[v] \in Row /\ fvbuckets[v] \in Row
      BY <1>0, <2>1 DEF UseForwardRow, Map
    <3>2. ForwardRow(vbuckets[v], fvbuckets[v]) \in Row
      BY <3>1, ForwardRowType
    <3>. QED  BY <1>0, <2>1, <3>2 DEF UseForwardRow, Map
  <2>2. CASE TryNextServer(v, wrongserver)
    <3>1. NextServer(vbuckets[v][0]) \in ServerIds
      BY <2>2, NextServerType DEF TryNextServer, IsCurrentMaster, ServerIds
    <3>. QED  BY <1>0, <1>1, <2>2, <3>1 DEF TryNextServer, Map, Row
  <2>3. CASE KeepMaster(v, wrongserver)
    BY <1>0, <2>3 DEF KeepMaster
  <2>. QED  BY <2>1, <2>2, <2>3 DEF vbucket_found_incorrect_master
<1>. QED  BY <1>1, <1>2 DEF FoundMaster, Map, Row

LEMMA InitType == Init => TypeOK
<1>. SUFFICES ASSUME Init PROVE TypeOK
  OBVIOUS
<1>1. 0 \in VBuckets /\ 0 \in Servers
  BY RoutingAssumption DEF VBuckets, Servers
<1>. QED
  BY <1>1, ClientAssumption
  DEF Init, TypeOK, LoadedMap, Request, Phases

LEMMA StepType == TypeOK /\ [Next]_vars => TypeOK'
<1>. SUFFICES ASSUME TypeOK, [Next]_vars PROVE TypeOK'
  OBVIOUS
<1>. USE DEF TypeOK
<1>1. ASSUME NEW r \in Requests, NEW d \in Digests, Send(r, d)
      PROVE  TypeOK'
  <2>1. vbucket_get_vbucket_by_key(d) \in VBuckets
    BY RoutingAssumption, ClientAssumption DEF vbucket_get_vbucket_by_key, VBuckets
  <2>2. vbucket_map(d)[1] \in VBuckets /\ vbucket_map(d)[2] \in ServerIds
    BY <2>1, RoutingAssumption DEF vbucket_map, vbucket_get_master, Map, Row
  <2>3. [phase |-> "sent", vb |-> vbucket_map(d)[1], server |-> vbucket_map(d)[2]]
          \in Request
    BY <1>1, <2>2 DEF Send, Request, Phases, ServerIds
  <2>. QED  BY <1>1, <2>3 DEF Send
<1>2. ASSUME NEW r \in Requests, Answer(r)
      PROVE  TypeOK'
  BY <1>2 DEF Answer, Request, Phases
<1>3. ASSUME NEW r \in Requests, Finish(r)
      PROVE  TypeOK'
  BY <1>3 DEF Finish, Request, Phases
<1>4. ASSUME NEW r \in Requests, Report(r)
      PROVE  TypeOK'
  <2>1. req[r] \in Request
    OBVIOUS
  <2>2. vbuckets' \in Map /\ FoundMaster(req[r].vb) \in ServerIds
    BY <1>4, <2>1, ReportKeepsType DEF Report, Request
  <2>3. req' \in [Requests -> Request]
    BY <1>4, <2>1, <2>2 DEF Report, Request, Phases, ServerIds
  <2>. QED  BY <1>4, <2>2, <2>3 DEF Report, vbucket_found_incorrect_master
<1>5. ASSUME NEW v \in VBuckets, NEW s \in Servers, MoveOwner(v, s)
      PROVE  TypeOK'
  BY <1>5, ClientAssumption DEF MoveOwner
<1>6. CASE UNCHANGED vars
  BY <1>6 DEF vars
<1>. QED  BY <1>1, <1>2, <1>3, <1>4, <1>5, <1>6 DEF Next

(* The tables and the requests keep their types: in particular every index   *)
(* the library hands out is a server of the list or -1.                      *)
THEOREM TypeCorrect == Spec => []TypeOK
<1>. QED  BY InitType, StepType, PTL DEF Spec

-------------------------------------------------------------------------------
(* Corrections by guessing approach the owner.                               *)
(*                                                                           *)
(* While no vbucket moves, what makes the comparison with wrongserver enough *)
(* is that a refusal stays true until it is reported, however late that is:  *)
(* the server it came from is still not the owner.                           *)
RefusalsTrue ==
  \A r \in Requests :
    req[r].phase = "refused" => req[r].server # owner[req[r].vb]

StableInv == TypeOK /\ moves = MaxMoves /\ RefusalsTrue

LEMMA StableInit ==
  ASSUME MaxMoves = 0
  PROVE  Init => StableInv
<1>1. Init => TypeOK
  BY InitType
<1>. QED  BY <1>1 DEF Init, StableInv, RefusalsTrue

LEMMA StableStep == StableInv /\ [Next]_vars => StableInv'
<1>. SUFFICES ASSUME StableInv, [Next]_vars PROVE StableInv'
  OBVIOUS
<1>1. TypeOK /\ TypeOK'
  BY StepType DEF StableInv
<1>. USE <1>1 DEF StableInv, RefusalsTrue, TypeOK
<1>2. ASSUME NEW r \in Requests, NEW d \in Digests, Send(r, d)
      PROVE  StableInv'
  <2>1. req' = [req EXCEPT ![r] = [phase |-> "sent", vb |-> vbucket_map(d)[1],
                                   server |-> vbucket_map(d)[2]]]
    BY <1>2 DEF Send
  <2>. QED  BY <1>2, <2>1 DEF Send, Request
<1>3. ASSUME NEW r \in Requests, Answer(r)
      PROVE  StableInv'
  BY <1>3 DEF Answer, Request
<1>4. ASSUME NEW r \in Requests, Finish(r)
      PROVE  StableInv'
  BY <1>4 DEF Finish, Request
<1>5. ASSUME NEW r \in Requests, Report(r)
      PROVE  StableInv'
  <2>1. req'[r].phase # "refused"
    BY <1>5 DEF Report, Request
  <2>2. \A q \in Requests \ {r} : req'[q] = req[q]
    BY <1>5 DEF Report
  <2>. QED  BY <1>5, <2>1, <2>2 DEF Report
<1>6. ASSUME NEW v \in VBuckets, NEW s \in Servers, MoveOwner(v, s)
      PROVE  StableInv'
  BY <1>6, ClientAssumption DEF MoveOwner
<1>7. CASE UNCHANGED vars
  BY <1>7 DEF vars
<1>. QED  BY <1>2, <1>3, <1>4, <1>5, <1>6, <1>7 DEF Next

LEMMA StableAlways ==
  ASSUME MaxMoves = 0
  PROVE  Spec => []StableInv
<1>1. Init => StableInv
  BY StableInit
<1>. QED  BY <1>1, StableStep, PTL DEF Spec

(* Every step that changes the masters without a forward map changes one of  *)
(* them, by a step of the abstract walk. *)
LEMMA MasterStep ==
  ASSUME StableInv, [Next]_vars, fvbuckets = NULL
  PROVE  \/ \A v \in VBuckets : vbuckets'[v][0] = vbuckets[v][0]
         \/ \E w \in VBuckets :
              /\ vbuckets[w][0] \in Servers \ {owner[w]}
              /\ vbuckets' = [vbuckets EXCEPT ![w][0] = NextServer(@)]
              /\ owner' = owner
<1>1. CASE UNCHANGED vbuckets
  BY <1>1
<1>2. ASSUME NEW r \in Requests, Report(r), ~UNCHANGED vbuckets
      PROVE  \E w \in VBuckets :
               /\ vbuckets[w][0] \in Servers \ {owner[w]}
               /\ vbuckets' = [vbuckets EXCEPT ![w][0] = NextServer(@)]
               /\ owner' = owner
  <2>1. req[r] \in Request
    BY DEF StableInv, TypeOK
  <2>2. TryNextServer(req[r].vb, req[r].server)
    BY <1>2 DEF Report, vbucket_found_incorrect_master, UseForwardRow, KeepMaster
  <2>3. vbuckets[req[r].vb][0] = req[r].server
    BY <2>2 DEF TryNextServer, IsCurrentMaster
  <2>4. req[r].server # owner[req[r].vb]
    BY <1>2 DEF Report, StableInv, RefusalsTrue
  <2>. QED  BY <1>2, <2>1, <2>2, <2>3, <2>4 DEF TryNextServer, Request, Report
<1>3. ASSUME ~UNCHANGED vbuckets
      PROVE  \E r \in Requests : Report(r)
  BY <1>3 DEF Next, vars, Send, Answer, Finish, MoveOwner
<1>. QED  BY <1>1, <1>2, <1>3

(* Without a forward map and while no vbucket moves, each correction of a    *)
(* master brings it nearer to the owner.                                     *)
THEOREM CorrectionsApproach ==
  ASSUME MaxMoves = 0
  PROVE  Spec => CloserToOwner
<1> DEFINE Closer ==
  \A v \in VBuckets :
    fvbuckets = NULL /\ vbuckets'[v][0] # vbuckets[v][0]
      => Distance(vbuckets'[v][0], owner[v]) < Distance(vbuckets[v][0], owner[v])
<1>1. ASSUME StableInv, [Next]_vars PROVE Closer
  <2>. SUFFICES ASSUME NEW v \in VBuckets, fvbuckets = NULL,
                       vbuckets'[v][0] # vbuckets[v][0]
                PROVE  Distance(vbuckets'[v][0], owner[v])
                         < Distance(vbuckets[v][0], owner[v])
    OBVIOUS
  <2>1. PICK w \in VBuckets :
          /\ vbuckets[w][0] \in Servers \ {owner[w]}
          /\ vbuckets' = [vbuckets EXCEPT ![w][0] = NextServer(@)]
    BY <1>1, MasterStep
  <2>2. vbuckets \in Map /\ owner[v] \in Servers /\ 0 \in 0 .. MaxReplicas
    BY <1>1, RoutingAssumption DEF StableInv, TypeOK
  <2>3. w = v /\ vbuckets'[v][0] = NextServer(vbuckets[v][0])
    BY <2>1, <2>2 DEF Map, Row
  <2>. QED  BY <2>1, <2>2, <2>3, NextServerIsCloser
<1>2. StableInv /\ [Next]_vars => [Closer]_vars
  BY <1>1
<1>. QED  BY <1>2, StableAlways, PTL DEF Spec, CloserToOwner

-------------------------------------------------------------------------------
(* The client implements the abstract walk. *)

NoForward == TypeOK /\ fvbuckets = NULL

LEMMA NoForwardAlways ==
  ASSUME ForwardMaps = {NULL}
  PROVE  Spec => []NoForward
<1>1. Init => NoForward
  BY InitType DEF Init, NoForward
<1>2. NoForward /\ [Next]_vars => NoForward'
  <2>1. [Next]_vars => UNCHANGED fvbuckets
    BY DEF Next, vars, Send, Answer, Finish, Report, MoveOwner,
           vbucket_found_incorrect_master
  <2>. QED  BY <2>1, StepType DEF NoForward
<1>. QED  BY <1>1, <1>2, PTL DEF Spec

(* Without a forward map and while no vbucket moves, an application over     *)
(* the handle is an implementation of OwnerSearch.                           *)
THEOREM ImplementsOwnerSearch ==
  ASSUME MaxMoves = 0, ForwardMaps = {NULL}
  PROVE  Spec => SearchSpec
<1>1. Init => Search!Init
  <2>. SUFFICES ASSUME Init PROVE Search!Init
    OBVIOUS
  <2>1. TypeOK /\ 0 \in 0 .. MaxReplicas
    BY InitType, RoutingAssumption
  <2>. QED  BY <2>1 DEF TypeOK, Map, Row, ServerIds, Servers, Search!Init, Search!Servers
<1>2. StableInv /\ NoForward /\ [Next]_vars => [Search!Next]_(Search!vars)
  <2>. SUFFICES ASSUME StableInv, NoForward, [Next]_vars
                PROVE  Search!Next \/ UNCHANGED Search!vars
    OBVIOUS
  <2>0. vbuckets \in Map /\ 0 \in 0 .. MaxReplicas
    BY RoutingAssumption DEF NoForward, TypeOK
  <2>1. CASE \A v \in VBuckets : vbuckets'[v][0] = vbuckets[v][0]
    <3>1. moves = MaxMoves /\ MaxMoves \in Nat
      BY ClientAssumption DEF StableInv
    <3>2. ASSUME NEW v \in VBuckets, NEW s \in Servers PROVE ~MoveOwner(v, s)
      BY <3>1 DEF MoveOwner
    <3>3. UNCHANGED owner
      BY <3>2 DEF Next, vars, Send, Answer, Finish, Report
    <3>. QED  BY <2>1, <3>3 DEF Search!vars
  <2>2. ASSUME NEW w \in VBuckets,
               vbuckets[w][0] \in Servers \ {owner[w]},
               vbuckets' = [vbuckets EXCEPT ![w][0] = NextServer(@)],
               owner' = owner
        PROVE  Search!Next
    <3> DEFINE cand == [v \in VBuckets |-> vbuckets[v][0]]
    <3>1. cand' = [cand EXCEPT ![w] = (@ + 1) % NumServers]
      BY <2>0, <2>2 DEF Map, Row, NextServer
    <3>2. cand[w] \in Servers \ {owner[w]}
      BY <2>2
    <3>3. Search!Advance(w)
      BY <2>2, <3>1, <3>2 DEF Search!Advance, Search!Servers, Servers
    <3>. QED  BY <3>3 DEF Search!Next
  <2>. QED  BY <2>1, <2>2, MasterStep DEF NoForward
<1>. QED
  BY <1>1, <1>2, StableAlways, NoForwardAlways, PTL DEF Spec, SearchSpec, Search!Spec

-------------------------------------------------------------------------------
(* With at least two servers, a request that was refused is sent next to a   *)
(* server other than the one that refused it, unless a forward map announces *)
(* that server, even if the owner moves and other requests have changed the  *)
(* master meanwhile.                                                         *)
THEOREM AnswersAreBetter ==
  ASSUME NumServers > 1
  PROVE  Spec => BetterAnswer
<1> DEFINE Better ==
  \A r \in Requests :
    req[r].phase = "refused" /\ req'[r].phase = "sent"
      => \/ req'[r].server # req[r].server
         \/ fvbuckets # NULL /\ req[r].server = fvbuckets[req[r].vb][0]
<1>1. ASSUME TypeOK, [Next]_vars PROVE Better
  <2>. SUFFICES ASSUME NEW r \in Requests,
                       req[r].phase = "refused", req'[r].phase = "sent"
                PROVE  \/ req'[r].server # req[r].server
                       \/ fvbuckets # NULL /\ req[r].server = fvbuckets[req[r].vb][0]
    OBVIOUS
  <2>0. /\ req \in [Requests -> Request]
        /\ vbuckets \in Map
        /\ fvbuckets \in Map \cup {NULL}
        /\ 0 \in 0 .. MaxReplicas
    BY <1>1, RoutingAssumption DEF TypeOK
  <2>1. Report(r)
    <3>1. ASSUME NEW q \in Requests, NEW d \in Digests, Send(q, d) PROVE FALSE
      BY <2>0, <3>1 DEF Send, Request
    <3>2. ASSUME NEW q \in Requests, Answer(q) PROVE FALSE
      BY <2>0, <3>2 DEF Answer, Request
    <3>3. ASSUME NEW q \in Requests, Finish(q) PROVE FALSE
      BY <2>0, <3>3 DEF Finish, Request
    <3>4. ASSUME NEW q \in Requests, Report(q), q # r PROVE FALSE
      BY <2>0, <3>4 DEF Report
    <3>5. ASSUME NEW v \in VBuckets, NEW s \in Servers, MoveOwner(v, s) PROVE FALSE
      BY <3>5 DEF MoveOwner
    <3>6. ~UNCHANGED vars
      BY DEF vars
    <3>. QED  BY <1>1, <3>1, <3>2, <3>3, <3>4, <3>5, <3>6 DEF Next
  <2> DEFINE v == req[r].vb
  <2>2. v \in VBuckets /\ req[r].server \in Servers
    BY <2>0 DEF Request
  <2>3. req'[r].server = vbuckets'[v][0]
    BY <2>0, <2>1 DEF Report, FoundMaster, Request
  <2>4. CASE TryNextServer(v, req[r].server)
    <3>1. vbuckets'[v][0] = NextServer(req[r].server)
      BY <2>0, <2>2, <2>4 DEF TryNextServer, IsCurrentMaster, Map, Row
    <3>. QED  BY <2>2, <2>3, <3>1, NextServerDiffers
  <2>5. CASE KeepMaster(v, req[r].server)
    BY <2>3, <2>5 DEF KeepMaster, IsCurrentMaster
  <2>6. CASE UseForwardRow(v)
    <3>1. vbuckets[v] \in Row /\ fvbuckets[v] \in Row
      BY <2>0, <2>2, <2>6 DEF UseForwardRow, Map
    <3>2. vbuckets'[v] = ForwardRow(vbuckets[v], fvbuckets[v])
      BY <2>0, <2>2, <2>6 DEF UseForwardRow, Map
    <3>3. 0 <= NumReplicas /\ 0 \in DOMAIN vbuckets[v]
      BY <2>0, <3>1, RoutingAssumption DEF Row
    <3>4. vbuckets'[v][0] = fvbuckets[v][0]
      BY <3>2, <3>3 DEF ForwardRow
    <3>. QED  BY <2>3, <2>6, <3>4 DEF UseForwardRow
  <2>. QED
    BY <2>1, <2>4, <2>5, <2>6 DEF Report, vbucket_found_incorrect_master
<1>2. TypeOK /\ [Next]_vars => [Better]_vars
  BY <1>1
<1>. QED  BY <1>2, TypeCorrect, PTL DEF Spec, BetterAnswer

-------------------------------------------------------------------------------
(* No mixed layouts. *)

(* A row that does not list its master among its replicas. *)
ProperRow(row) ==
  row[0] # -1 => \A i \in 1 .. NumReplicas : row[i] # row[0]

ProperMaps ==
  /\ \A m \in Maps : \A v \in VBuckets : ProperRow(m[v])
  /\ \A m \in ForwardMaps \ {NULL} : \A v \in VBuckets : ProperRow(m[v])

ProperInv ==
  /\ TypeOK
  /\ fvbuckets # NULL =>
       \A v \in VBuckets : ProperRow(vbuckets[v]) /\ ProperRow(fvbuckets[v])

(* The copied row is the forward row as far as masters and replicas go. *)
LEMMA ForwardRowProper ==
  ASSUME NEW row \in Row, NEW frow \in Row, ProperRow(frow)
  PROVE  ProperRow(ForwardRow(row, frow))
<1>1. \A j \in 0 .. NumReplicas : ForwardRow(row, frow)[j] = frow[j]
  BY RoutingAssumption DEF ForwardRow, Row
<1>2. 0 \in 0 .. NumReplicas /\ 1 .. NumReplicas \subseteq 0 .. NumReplicas
  BY RoutingAssumption
<1>. QED  BY <1>1, <1>2 DEF ProperRow

(* If neither loaded map lists a master among its replicas, no sequence of   *)
(* reports makes the current map do so while a forward map is present.       *)
THEOREM LayoutsDoNotMix ==
  ASSUME ProperMaps
  PROVE  Spec => []MasterNotItsReplica
<1>1. Init => ProperInv
  <2>. SUFFICES ASSUME Init PROVE ProperInv
    OBVIOUS
  <2>1. TypeOK
    BY InitType
  <2>. QED  BY <2>1 DEF Init, ProperMaps, ProperInv
<1>2. ProperInv /\ [Next]_vars => ProperInv'
  <2>. SUFFICES ASSUME ProperInv, [Next]_vars PROVE ProperInv'
    OBVIOUS
  <2>1. TypeOK /\ TypeOK'
    BY StepType DEF ProperInv
  <2>2. CASE UNCHANGED <<vbuckets, fvbuckets>>
    BY <2>1, <2>2 DEF ProperInv, ProperRow
  <2>3. ASSUME NEW r \in Requests, Report(r)
        PROVE  ProperInv'
    <3> DEFINE v == req[r].vb
    <3>1. UNCHANGED fvbuckets
      BY <2>3 DEF Report, vbucket_found_incorrect_master
    <3>2. CASE fvbuckets = NULL
      BY <2>1, <3>1, <3>2 DEF ProperInv
    <3>3. CASE fvbuckets # NULL
      <4>1. UseForwardRow(v)
        BY <2>3, <3>3 DEF Report, vbucket_found_incorrect_master, TryNextServer, KeepMaster
      <4>2. /\ v \in VBuckets
            /\ vbuckets \in Map
            /\ fvbuckets \in Map
        BY <2>1, <3>3 DEF TypeOK, Request
      <4>3. ProperRow(ForwardRow(vbuckets[v], fvbuckets[v]))
        BY <3>3, <4>2, ForwardRowProper DEF ProperInv, Map
      <4>4. vbuckets' = [vbuckets EXCEPT ![v] = ForwardRow(vbuckets[v], fvbuckets[v])]
        BY <4>1 DEF UseForwardRow
      <4>5. ASSUME NEW w \in VBuckets PROVE ProperRow(vbuckets'[w])
        <5>1. CASE w = v
          BY <4>2, <4>3, <4>4, <5>1 DEF Map
        <5>2. CASE w # v
          <6>1. vbuckets'[w] = vbuckets[w]
            BY <4>2, <4>4, <5>2 DEF Map
          <6>. QED  BY <3>3, <6>1 DEF ProperInv
        <5>. QED  BY <5>1, <5>2
      <4>6. ASSUME NEW w \in VBuckets PROVE ProperRow(fvbuckets'[w])
        BY <3>1, <3>3 DEF ProperInv
      <4>. QED  BY <2>1, <4>5, <4>6 DEF ProperInv, ProperRow
    <3>. QED  BY <3>2, <3>3
  <2>. QED
    BY <2>2, <2>3 DEF Next, vars, Send, Answer, Finish, MoveOwner
<1>3. ProperInv => MasterNotItsReplica
  <2>. SUFFICES ASSUME ProperInv, fvbuckets # NULL,
                       NEW v \in VBuckets, NEW i \in 0 .. NumReplicas - 1,
                       vbucket_get_master(v) # -1
                PROVE  vbucket_get_replica(v, i) # vbucket_get_master(v)
    BY DEF MasterNotItsReplica
  <2>1. i + 1 \in 1 .. NumReplicas
    BY RoutingAssumption
  <2>2. vbuckets[v][i + 1] # vbuckets[v][0]
    BY <2>1 DEF ProperInv, ProperRow, vbucket_get_master
  <2>. QED  BY <2>2 DEF vbucket_get_replica, vbucket_get_master
<1>. QED  BY <1>1, <1>2, <1>3, PTL DEF Spec
================================================================================
