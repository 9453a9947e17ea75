------------------------------- MODULE Reconfigure -------------------------------
(***************************************************************************)
(* An application that changes from one handle to another while requests   *)
(* are in flight, as vbucket_compare is meant to let it: when the cluster  *)
(* sends a configuration, it is parsed into a handle of its own, compared  *)
(* with the handle in use, and                                             *)
(*   - if the sequence of servers or the number of vbuckets has changed,   *)
(*     the connections are opened anew and what was in flight is sent      *)
(*     again;                                                              *)
(*   - if only masters have changed, the new handle is taken and the       *)
(*     connections and the requests on them are kept;                      *)
(*   - if nothing has changed, the old handle is kept.                     *)
(* Meanwhile refused requests correct the handle in use by guessing, so    *)
(* what is compared is not what was parsed.                                *)
(*                                                                         *)
(* The comparison is that of VBucketCompare: from is the handle in use, to *)
(* the one received last.  The application handles one event at a time; it *)
(* and the cluster are external, modelled from the contract of the calls.  *)
(* A vbucket may have no master (-1), and a ketama handle has no vbuckets: *)
(* requests wait while there is nowhere to send them.                      *)
(***************************************************************************)
EXTENDS VBucketCompare

CONSTANTS
  Requests,      \* requests the application may have in flight
  Digests,       \* hash values of their keys
  MaxChanges     \* bound: how often the cluster changes its configuration

ASSUME ReconfigureAssumption ==
  /\ Digests \subseteq Nat
  /\ MaxChanges \in Nat
  /\ \A handle \in Handles : DOMAIN handle = {"servers", "user", "password", "vbuckets"}

VARIABLES
  cluster,    \* the configuration by which the servers answer
  changes,    \* how often it has changed
  stage,      \* what the application does with the configuration received
  conn,       \* its connections: the servers by index, and how it has logged in
  req         \* per request: its phase, its key, its vbucket, the index and name it went to

all == <<from, to, diff, cluster, changes, stage, conn, req>>

Idle == [phase |-> "idle", digest |-> 0, vb |-> 0, server |-> 0, at |-> NULL]

ConnectionsTo(handle) ==
  [servers |-> handle.servers, user |-> handle.user, password |-> handle.password]

Start ==
  /\ from \in Handles /\ to = from /\ diff = NULL
  /\ cluster \in Handles /\ changes = 0
  /\ stage = "using"
  /\ conn = ConnectionsTo(from)
  /\ req = [r \in Requests |-> Idle]

-------------------------------------------------------------------------------
(* The calls of VBucketRouting on the handle in use; row v + 1 is vbucket v. *)
vbucket_get_vbucket_by_key(digest) == digest % num_vbuckets(from)

vbucket_get_master(v) == from.vbuckets[v + 1].master

(* Faulty variant: the report of a stale refusal is taken for a new one. *)
CorrectedAnyReport(v, wrongserver) ==
  [from EXCEPT !.vbuckets[v + 1].master = (@ + 1) % num_servers(from)]

(* vbucket_found_incorrect_master without a forward map, which these         *)
(* configurations do not have.                                               *)
Corrected(v, wrongserver) ==
  IF vbucket_get_master(v) = wrongserver
  THEN [from EXCEPT !.vbuckets[v + 1].master = (@ + 1) % num_servers(from)]
  ELSE from

SentTo(request, v, server) ==
  [request EXCEPT !.phase = "sent", !.vb = v, !.server = server, !.at = conn.servers[server + 1]]

(* The request is to be sent again, from the start. *)
Again(request) == [Idle EXCEPT !.phase = "wanted", !.digest = request.digest]

-------------------------------------------------------------------------------
(* Requests. *)
Want(r, digest) ==
  /\ req[r].phase = "idle"
  /\ req' = [req EXCEPT ![r] = [Idle EXCEPT !.phase = "wanted", !.digest = digest]]
  /\ UNCHANGED <<from, to, diff, cluster, changes, stage, conn>>

Send(r) ==
  LET v == vbucket_get_vbucket_by_key(req[r].digest) IN
  /\ stage = "using"
  /\ req[r].phase = "wanted"
  /\ from.vbuckets # <<>>
  /\ vbucket_get_master(v) # -1
  /\ req' = [req EXCEPT ![r] = SentTo(@, v, vbucket_get_master(v))]
  /\ UNCHANGED <<from, to, diff, cluster, changes, stage, conn>>

(* Does the cluster have this vbucket at the server of this name? *)
Owns(name, v) == v + 1 \in DOMAIN cluster.vbuckets /\ MasterName(cluster, v + 1) = name

Answer(r) ==
  /\ req[r].phase = "sent"
  /\ req' = [req EXCEPT ![r].phase = IF Owns(req[r].at, req[r].vb) THEN "served" ELSE "refused"]
  /\ UNCHANGED <<from, to, diff, cluster, changes, stage, conn>>

(* The application reports the refusal and sends again where it is told, or  *)
(* waits if the answer is that the vbucket has no master any more.           *)
Report(r) ==
  LET v  == req[r].vb
      rv == from'.vbuckets[v + 1].master
  IN
  /\ stage = "using"
  /\ req[r].phase = "refused"
  /\ from' = Corrected(v, req[r].server)
  /\ req' = [req EXCEPT ![r] = IF rv = -1 THEN Again(@) ELSE SentTo(@, v, rv)]
  /\ UNCHANGED <<to, diff, cluster, changes, stage, conn>>

Finish(r) ==
  /\ req[r].phase = "served"
  /\ req' = [req EXCEPT ![r] = Idle]
  /\ UNCHANGED <<from, to, diff, cluster, changes, stage, conn>>

-------------------------------------------------------------------------------
(* Configurations. *)
Rebalance ==
  /\ changes < MaxChanges
  /\ cluster' \in Handles \ {cluster}
  /\ changes' = changes + 1
  /\ UNCHANGED <<from, to, diff, stage, conn, req>>

(* The cluster sends its configuration when it differs from the one it sent  *)
(* last.                                                                     *)
Receive ==
  /\ stage = "using"
  /\ cluster # to
  /\ to' = cluster
  /\ stage' = "received"
  /\ UNCHANGED <<from, diff, cluster, changes, conn, req>>

Compare ==
  /\ stage = "received"
  /\ vbucket_compare
  /\ stage' = "compared"
  /\ UNCHANGED <<cluster, changes, conn, req>>

Decide ==
  /\ stage = "compared"
  /\ stage' = IF diff.sequence_changed \/ diff.n_vb_changes = -1 THEN "reconnect"
              ELSE IF diff.n_vb_changes = 0 THEN "using" ELSE "replace"
  /\ vbucket_free_diff
  /\ UNCHANGED <<cluster, changes, conn, req>>

Replace ==
  /\ stage = "replace"
  /\ from' = to
  /\ stage' = "using"
  /\ UNCHANGED <<to, diff, cluster, changes, conn, req>>

Reconnect ==
  /\ stage = "reconnect"
  /\ from' = to
  /\ conn' = ConnectionsTo(to)
  /\ req' = [r \in Requests |->
               IF req[r].phase \in {"sent", "refused"}
               THEN Again(req[r]) ELSE req[r]]
  /\ stage' = "using"
  /\ UNCHANGED <<to, diff, cluster, changes>>

Steps ==
  \/ \E r \in Requests : (\E d \in Digests : Want(r, d)) \/ Send(r) \/ Answer(r) \/ Report(r) \/ Finish(r)
  \/ Rebalance \/ Receive \/ Compare \/ Decide \/ Replace \/ Reconnect

(* What has been received is looked at, requests are sent, answered and      *)
(* reported, and a configuration that has changed arrives in the end.        *)
ReconfigureSpec ==
  /\ Start /\ [][Steps]_all
  /\ WF_all(Receive) /\ WF_all(Compare) /\ WF_all(Decide) /\ WF_all(Replace) /\ WF_all(Reconnect)
  /\ \A r \in Requests : WF_all(Send(r)) /\ WF_all(Answer(r)) /\ WF_all(Report(r))

-------------------------------------------------------------------------------
(* A request kept over a change of handles still means the same: its vbucket *)
(* is one of the handle in use, and the index the application will report is *)
(* in that handle the server that was asked.  (Else a correction would be    *)
(* about another server, or outside the map.)                                *)
InFlightMeansSame ==
  stage = "using" =>
    \A r \in Requests :
      req[r].phase \in {"sent", "refused"} =>
        /\ req[r].vb + 1 \in DOMAIN from.vbuckets
        /\ from.servers[req[r].server + 1] = req[r].at

(* When the application is done with a configuration, its connections are to *)
(* the servers of that configuration, in that order and with those           *)
(* credentials, whether or not it kept them.                                 *)
ConnectionsFit == stage = "using" => conn = ConnectionsTo(to) /\ from.servers = to.servers

(* Keeping the old handle loses no change of a master, although the handle   *)
(* has been corrected since it was parsed.                                   *)
KeptHandleIsCurrent ==
  [][stage = "compared" /\ stage' = "using"
       => \A v \in DOMAIN to.vbuckets : MasterName(from, v) = MasterName(to, v)]_all

Mapped(digest) ==
  cluster.vbuckets # <<>>
    /\ cluster.vbuckets[(digest % num_vbuckets(cluster)) + 1].master # -1

(* Once the cluster stops changing, whatever the application has taken for   *)
(* its routing so far, every request is served, unless the cluster itself    *)
(* has no server for it.                                                     *)
EveryRequestServed ==
  \A r \in Requests :
    req[r].phase = "wanted" ~> (req[r].phase = "served" \/ ~Mapped(req[r].digest))
==================================================================================
