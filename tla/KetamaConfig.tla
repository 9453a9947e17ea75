------------------------------ MODULE KetamaConfig ------------------------------
(***************************************************************************)
(* Building the ketama continuum (src/vbucket.c): parse_ketama_config      *)
(* takes the nodes in the order of the configuration, sorts them by        *)
(* authority and has update_ketama_continuum place each of them on the     *)
(* ring.  A client parses one configuration after another as the cluster   *)
(* changes; the properties compare the ring before and after.  The errors  *)
(* of parsing are in module VBucketConfig, the search in KetamaLookup.     *)
(***************************************************************************)
EXTENDS KetamaRing, Sequences, FiniteSets

CONSTANTS
  Authorities,       \* host:port strings as numbers: strcmp order is <
  PointsPerServer,   \* 160 in the code: 40 digests of four points each
  MaxPoint,          \* the largest uint32_t
  NodeLists          \* the lists of nodes the configurations may hold

ASSUME ConfigAssumption ==
  /\ Authorities \subseteq Nat
  /\ PointsPerServer \in Nat \ {0}
  /\ MaxPoint \in Nat
  /\ NodeLists \subseteq Seq(Authorities) \ {<<>>}

VARIABLES
  points,      \* MD5: the points of each authority, fixed
  nodes,       \* authorities in the order of the configuration
  servers,     \* vb->servers, authorities by index (0 .. num_servers - 1)
  continuum    \* vb->continuum

vars == <<points, nodes, servers, continuum>>

Points  == 0 .. MaxPoint
Numbers == 0 .. PointsPerServer - 1

num_servers   == Len(nodes)
num_continuum == PointsPerServer * num_servers

NodeSet == { nodes[i] : i \in DOMAIN nodes }

TypeOK ==
  /\ points \in [Authorities -> [Numbers -> Points]]
  /\ nodes \in NodeLists \cup {<<>>}
  /\ servers \in [0 .. num_servers - 1 -> Authorities]
  /\ continuum \in [0 .. num_continuum - 1 -> Item(DOMAIN servers, Points)]

(* No configuration has been parsed yet. *)
Init ==
  /\ points \in [Authorities -> [Numbers -> Points]]
  /\ nodes = <<>>
  /\ servers = <<>>
  /\ continuum = <<>>

-------------------------------------------------------------------------------
(* Faulty variants: servers left in the order of the configuration; points   *)
(* drawn from the index instead of the authority; an unsorted continuum.     *)
InGivenOrder(list) == { [i \in 0 .. Len(list) - 1 |-> list[i + 1]] }
PointByIndex(authority, ss, k) == points[ss + 1][k]
Unsorted(items, n) == {items}

(* qsort: the orders in which n entries may be left that compare as their    *)
(* ranks do, as lists of the indices they had; equal ones come in any order. *)
QsortOrders(rank, n) ==
  LET Picked(o) == { o[j] : j \in DOMAIN o }
      Least(S)  == { i \in S : \A j \in S : rank[i] <= rank[j] }
      first[k \in 0 .. n] ==
        IF k = 0 THEN {<<>>}
        ELSE UNION { { Append(o, i) : i \in Least((0 .. n - 1) \ Picked(o)) } : o \in first[k - 1] }
  IN  first[n]

(* The servers as qsort with server_cmp may leave them. *)
SortedServers(list) ==
  { [i \in 0 .. Len(list) - 1 |-> list[o[i + 1] + 1]] :
      o \in QsortOrders([i \in 0 .. Len(list) - 1 |-> list[i + 1]], Len(list)) }

(* Number k of the points hashed from "authority-0", "authority-1", ...      *)
(* (What is hashed is the authority up to its terminator: one that           *)
(* substitute_localhost_marker left without, see ServersAreStrings of        *)
(* ServerLookup, has no points of its own and is not modelled here.)         *)
PointOf(authority, ss, k) == points[authority][k]

NumberOf(pp) == pp % PointsPerServer

(* Faulty variant: servers numbered from one. *)
PlacedFromOne(srv, n) ==
  [pp \in 0 .. n - 1 |->
     LET ss == pp \div PointsPerServer
     IN  [index |-> ss + 1, point |-> PointOf(srv[ss], ss, NumberOf(pp))]]

(* The items in the order the two loops write them. *)
Placed(srv, n) ==
  [pp \in 0 .. n - 1 |->
     LET ss == pp \div PointsPerServer
     IN  [index |-> ss, point |-> PointOf(srv[ss], ss, NumberOf(pp))]]

(* The items as qsort with continuum_item_cmp may leave them. *)
SortOrders(items, n) ==
  { [k \in 0 .. n - 1 |-> items[o[k + 1]]] :
      o \in QsortOrders([k \in 0 .. n - 1 |-> items[k].point], n) }

update_ketama_continuum(srv, n) ==
  continuum' \in SortOrders(Placed(srv, n), n)

parse_ketama_config(list) ==
  /\ nodes' = list
  /\ \E srv \in SortedServers(list) :
       /\ servers' = srv
       /\ update_ketama_continuum(srv, PointsPerServer * Len(list))
  /\ UNCHANGED points

Next == \E list \in NodeLists : parse_ketama_config(list)

Spec == Init /\ [][Next]_vars

-------------------------------------------------------------------------------
(* The authority that answers for a digest; a set, empty before the first    *)
(* configuration.                                                            *)
Answer(digest) ==
  { servers[continuum[i].index] :
      i \in { k \in DOMAIN continuum : IsSuccessor(continuum, num_continuum, digest, k) } }

(* Two authorities hashed to one point: which of them answers is up to qsort. *)
Untied(authorities) ==
  \A a, b \in authorities : a # b =>
    \A k, l \in Numbers : points[a][k] # points[b][l]

(* How often the configuration lists a node. *)
Mentions(authority) == Cardinality({ i \in DOMAIN nodes : nodes[i] = authority })

(* The continuum is ready for the search: sorted, and every server of the    *)
(* list is on it exactly as often as it has points.                          *)
ContinuumReady ==
  /\ Sorted(continuum, num_continuum)
  /\ \A ss \in DOMAIN servers, p \in Points :
       Cardinality({ i \in DOMAIN continuum : continuum[i].index = ss /\ continuum[i].point = p })
         = Cardinality({ k \in Numbers : points[servers[ss]][k] = p })

(* Two configurations that list the same nodes in different orders give the  *)
(* same servers array and the same authority for every key                   *)
(* (tests/testapp.c, testConfigDiffKetamaSame, which has no node twice: the  *)
(* index is then the same too.  Of a node listed twice either index may      *)
(* answer, as qsort leaves them).                                            *)
OrderIndependent ==
  [][Untied(NodeSet) /\ (\A a \in Authorities : Mentions(a)' = Mentions(a))
       => servers' = servers /\ \A d \in Points : Answer(d)' = Answer(d)]_vars

(* Consistent hashing: a key changes servers only if its old server left or  *)
(* its new one joined, whatever else the new configuration changes.          *)
MinimalDisruption ==
  [][nodes # <<>> /\ Untied(NodeSet \cup NodeSet') =>
       \A d \in Points :
         Answer(d)' = Answer(d) \/ Answer(d) \cap NodeSet' = {}
                                \/ Answer(d)' \cap NodeSet = {}]_vars
================================================================================
