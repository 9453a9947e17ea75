----------------------------- MODULE VBucketClient -----------------------------
(***************************************************************************)
(* An application that keeps several requests in flight over one handle,   *)
(* and a cluster in which each vbucket has one owner.  A request is sent   *)
(* where vbucket_map says; a server that does not own the vbucket refuses  *)
(* it; the application then calls vbucket_found_incorrect_master with the  *)
(* server it had sent to and sends the request again to the server the     *)
(* call returns.  Requests share the map, so a report may be about a       *)
(* master that another report has already replaced.                        *)
(*                                                                         *)
(* The library is passive: the application and the cluster are external    *)
(* and are modelled from the contract of the calls.                        *)
(***************************************************************************)
EXTENDS VBucketRouting

CONSTANTS
  Requests,         \* the requests the application may have in flight
  Digests,          \* hash values of the keys in use
  Maps,             \* current maps the parsed configuration may hold
  ForwardMaps,      \* forward maps it may hold, NULL for none
  MaxMoves,         \* bound: how often the cluster moves a vbucket
  FollowsForward    \* does the cluster move vbuckets only as announced?

ASSUME ClientAssumption ==
  /\ Maps \subseteq LoadedMap
  /\ ForwardMaps \subseteq LoadedMap \cup {NULL}
  /\ Digests \subseteq Nat
  /\ MaxMoves \in Nat
  /\ FollowsForward \in BOOLEAN

VARIABLES
  owner,    \* the server that owns each vbucket
  moves,    \* how many times the cluster has moved a vbucket
  req       \* per request: its phase, its vbucket and the server it went to

vars == <<vbuckets, fvbuckets, owner, moves, req>>

Phases == {"idle", "sent", "served", "refused"}

Request == [phase : Phases, vb : VBuckets, server : Servers]

TypeOK ==
  /\ vbuckets \in Map
  /\ fvbuckets \in Map \cup {NULL}
  /\ owner \in [VBuckets -> Servers]
  /\ moves \in 0 .. MaxMoves
  /\ req \in [Requests -> Request]

(* With FollowsForward and a forward map, a vbucket is at its old or its new *)
(* place; otherwise the loaded map may be out of date in any way.            *)
MayOwn(v, s) ==
  FollowsForward /\ fvbuckets # NULL => s \in {vbuckets[v][0], fvbuckets[v][0]}

Init ==
  /\ vbuckets \in Maps
  /\ fvbuckets \in ForwardMaps
  /\ owner \in { o \in [VBuckets -> Servers] : \A v \in VBuckets : MayOwn(v, o[v]) }
  /\ moves = 0
  /\ req = [r \in Requests |-> [phase |-> "idle", vb |-> 0, server |-> 0]]

-------------------------------------------------------------------------------
(* The application sends a request where vbucket_map points.  Server -1 is   *)
(* "no server is mapped": there is nowhere to send.                          *)
Send(r, digest) ==
  LET v == vbucket_map(digest)[1]
      s == vbucket_map(digest)[2]
  IN  /\ req[r].phase = "idle"
      /\ s # -1
      /\ req' = [req EXCEPT ![r] = [phase |-> "sent", vb |-> v, server |-> s]]
      /\ UNCHANGED <<vbuckets, fvbuckets, owner, moves>>

(* The server serves the request if it owns the vbucket at that moment. *)
Answer(r) ==
  /\ req[r].phase = "sent"
  /\ req' = [req EXCEPT ![r].phase =
               IF owner[req[r].vb] = req[r].server THEN "served" ELSE "refused"]
  /\ UNCHANGED <<vbuckets, fvbuckets, owner, moves>>

Finish(r) ==
  /\ req[r].phase = "served"
  /\ req' = [req EXCEPT ![r].phase = "idle"]
  /\ UNCHANGED <<vbuckets, fvbuckets, owner, moves>>

(* The refusal reaches the application, which reports it and sends again. *)
Report(r) ==
  LET v == req[r].vb IN
  /\ req[r].phase = "refused"
  /\ vbucket_found_incorrect_master(v, req[r].server)
  /\ req' = [req EXCEPT ![r] =
               IF FoundMaster(v) = -1
               THEN [@ EXCEPT !.phase = "idle"]
               ELSE [@ EXCEPT !.phase = "sent", !.server = FoundMaster(v)]]
  /\ UNCHANGED <<owner, moves>>

(* The cluster hands a vbucket to another server. *)
MoveOwner(v, s) ==
  /\ moves < MaxMoves
  /\ s # owner[v]
  /\ FollowsForward /\ fvbuckets # NULL => s = fvbuckets[v][0]
  /\ owner' = [owner EXCEPT ![v] = s]
  /\ moves' = moves + 1
  /\ UNCHANGED <<vbuckets, fvbuckets, req>>

Next ==
  \/ \E r \in Requests, d \in Digests : Send(r, d)
  \/ \E r \in Requests : Answer(r) \/ Finish(r) \/ Report(r)
  \/ \E v \in VBuckets, s \in Servers : MoveOwner(v, s)

Spec == Init /\ [][Next]_vars

(* Servers answer what they receive, the application handles every answer.  *)
(* Nothing forces it to send a new request or the cluster to move a vbucket. *)
FairSpec == Spec /\ \A r \in Requests : WF_vars(Answer(r)) /\ WF_vars(Report(r))

-------------------------------------------------------------------------------
(* Steps round the server list from one server to another. *)
Distance(from, to) == IF from <= to THEN to - from ELSE to - from + NumServers

(* Without a forward map and with owners that stay put, every change of a    *)
(* master brings it nearer to the owner: refusals handled late or twice,     *)
(* after another request has already moved the master on, are recognised by  *)
(* the comparison with wrongserver and never push it past the owner.  Hence  *)
(* at most NumServers - 1 corrections per vbucket.                           *)
CloserToOwner ==
  [][\A v \in VBuckets :
       fvbuckets = NULL /\ vbuckets'[v][0] # vbuckets[v][0]
         => Distance(vbuckets'[v][0], owner[v]) < Distance(vbuckets[v][0], owner[v])]_vars

(* The same behaviour as an implementation of the abstract walk. *)
Search == INSTANCE OwnerSearch WITH cand <- [v \in VBuckets |-> vbuckets[v][0]]

SearchSpec == Search!Spec

(* Told that a server is the wrong one, the library names another one        *)
(* (include/libvbucket/vbucket.h, "figure out a better answer"), with one    *)
(* exception: the server a forward map announces is named even to a request  *)
(* that this very server has just refused.                                   *)
BetterAnswer ==
  [][\A r \in Requests :
       req[r].phase = "refused" /\ req'[r].phase = "sent"
         => \/ req'[r].server # req[r].server
            \/ fvbuckets # NULL /\ req[r].server = fvbuckets[req[r].vb][0]]_vars

(* With a forward map the master and the replicas of a vbucket are replaced  *)
(* together: as long as neither loaded map lists the master of a vbucket     *)
(* among its replicas, no sequence of reports makes vbucket_get_replica      *)
(* answer the server vbucket_get_master answers.                             *)
(* (Corrections by guessing give no such guarantee: they move the master     *)
(* alone.)                                                                   *)
MasterNotItsReplica ==
  fvbuckets # NULL =>
    \A v \in VBuckets, i \in 0 .. NumReplicas - 1 :
      vbucket_get_master(v) # -1 => vbucket_get_replica(v, i) # vbucket_get_master(v)

(* Every request that is sent is served in the end, however many other       *)
(* requests report misroutings of the same vbucket meanwhile.                *)
EveryRequestServed ==
  \A r \in Requests : req[r].phase \in {"sent", "refused"} ~> req[r].phase = "served"
================================================================================
