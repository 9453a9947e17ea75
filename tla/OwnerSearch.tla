------------------------------ MODULE OwnerSearch ------------------------------
(***************************************************************************)
(* What repairing the map promises when nobody announces the future layout:*)
(* for each vbucket the candidate master walks round the server list, one  *)
(* server at a time, never away from the owner.                            *)
(***************************************************************************)
EXTENDS Integers

CONSTANTS VBuckets, NumServers

VARIABLES cand, owner

vars == <<cand, owner>>

Servers == 0 .. NumServers - 1

Init == /\ cand  \in [VBuckets -> Servers \cup {-1}]
        /\ owner \in [VBuckets -> Servers]

Advance(v) ==
  /\ cand[v] \in Servers \ {owner[v]}
  /\ cand' = [cand EXCEPT ![v] = (@ + 1) % NumServers]
  /\ UNCHANGED owner

Next == \E v \in VBuckets : Advance(v)

Spec == Init /\ [][Next]_vars
================================================================================
