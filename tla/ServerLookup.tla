------------------------------ MODULE ServerLookup ------------------------------
(***************************************************************************)
(* How the nodes of a configuration find their servers (src/vbucket.c).    *)
(* populate_servers stores the authorities of serverList, the marker $HOST *)
(* replaced by the local address; update_server_info puts together an      *)
(* authority for each node, of its hostname and its port, in a buffer of   *)
(* fixed size, and gives what the node says to the first server of that    *)
(* authority.                                                              *)
(*                                                                         *)
(* A text is a sequence of characters, the marker one of them.  A block is *)
(* the text in it and the zero bytes that follow inside the block: with    *)
(* none, a reader goes on past the block and may find more characters.     *)
(* Errors that end the parse are in module VBucketConfig.                  *)
(***************************************************************************)
EXTENDS Integers, Sequences, FiniteSets

CONSTANTS
  MaxAuthoritySize,   \* MAX_AUTHORITY_SIZE
  PortRoom,           \* 7: the colon, the digits and the terminator of a port
  Characters,         \* what texts are made of
  Colon, Marker,      \* the characters with a meaning
  Listed,             \* texts serverList may hold
  Hostnames, Ports,   \* hostnames and direct ports (as digits) of the nodes
  Bases,              \* texts of couchApiBase
  LocalAddresses,     \* values of the argument peername, NULL for none
  Tails,              \* what may follow a block in memory, up to the next zero
  MaxServers,         \* bound: servers in a list
  MaxNodes,           \* bound: nodes
  NULL

ASSUME LookupAssumption ==
  /\ {MaxAuthoritySize, PortRoom, MaxServers, MaxNodes} \subseteq Nat
  /\ PortRoom < MaxAuthoritySize
  /\ {Colon, Marker} \subseteq Characters /\ Colon # Marker
  /\ Listed \cup Hostnames \cup Ports \cup Bases \cup Tails \subseteq Seq(Characters)
  /\ LocalAddresses \subseteq Seq(Characters) \cup {NULL}
  /\ NULL \notin Hostnames \cup Bases
  /\ \A port \in Ports : Len(port) + 2 <= PortRoom /\ \A i \in DOMAIN port : port[i] # Marker
  /\ <<>> \in Tails

VARIABLES
  localhost,   \* vb->localhost
  pc,          \* "servers", "nodes" or "done"
  list,        \* serverList as far as it has been read
  servers,     \* vb->servers as far as they have been stored
  nodes        \* the nodes as far as they have been read

vars == <<localhost, pc, list, servers, nodes>>

(* A node that lookup_server_struct cannot read has the hostname NULL. *)
Node == [hostname : Hostnames \cup {NULL}, port : Ports, couchApiBase : Bases \cup {NULL},
         thisNode : BOOLEAN]

Init ==
  /\ localhost \in LocalAddresses
  /\ pc = "servers"
  /\ list = <<>> /\ servers = <<>> /\ nodes = <<>>

-------------------------------------------------------------------------------
Occurs(char, text) == \E i \in DOMAIN text : text[i] = char

(* strchr: where the character is first, or one past the end. *)
FirstOf(char, text) ==
  IF Occurs(char, text)
  THEN CHOOSE i \in DOMAIN text : text[i] = char /\ \A j \in 1 .. i - 1 : text[j] # char
  ELSE Len(text) + 1

Before(char, text) == SubSeq(text, 1, FirstOf(char, text) - 1)
After(char, text)  == SubSeq(text, FirstOf(char, text) + 1, Len(text))

(* What snprintf keeps of a text in a buffer of n bytes. *)
Fitting(text, n) == SubSeq(text, 1, IF Len(text) < n THEN Len(text) ELSE n - 1)

Substituted(text) == Before(Marker, text) \o localhost \o After(Marker, text)

(* The new block has one byte for each character and none for a terminator.  *)
substitute_localhost_marker(block) ==
  IF localhost # NULL /\ Occurs(Marker, block.text)
  THEN LET text == Substituted(block.text)
       IN  [text |-> text,
            room |-> Len(block.text) + Len(localhost) - Len(<<Marker>>) - Len(text)]
  ELSE block

strdup(text) == [text |-> text, room |-> 1]

(* Faulty variant: no room left for the port. *)
NodeTextNoRoom(node) ==
  Before(Colon, Fitting(node.hostname, MaxAuthoritySize))
    \o Fitting(<<Colon>> \o node.port, PortRoom)

NodeText(node) ==
  Before(Colon, Fitting(node.hostname, MaxAuthoritySize - PortRoom))
    \o Fitting(<<Colon>> \o node.port, PortRoom)

get_node_authority(node) ==
  substitute_localhost_marker(
    [text |-> NodeText(node), room |-> MaxAuthoritySize - Len(NodeText(node))])

(* What strcmp may read. *)
Reads(block) == { block.text \o tail : tail \in IF block.room > 0 THEN {<<>>} ELSE Tails }

(* Faulty variant: the last server of that authority. *)
MatchesLast(reads, text) ==
  LET same == { i \in DOMAIN reads : reads[i] = text }
  IN  IF same = {} THEN 0 ELSE CHOOSE i \in same : \A j \in same : j <= i

(* The first server that reads like the text, 0 for none. *)
Matches(reads, text) ==
  LET same == { i \in DOMAIN reads : reads[i] = text }
  IN  IF same = {} THEN 0 ELSE CHOOSE i \in same : \A j \in same : i <= j

(* Every answer the strings in memory allow. *)
lookup_server_struct(node) ==
  IF node.hostname = NULL THEN {0}
  ELSE { Matches(reads, text) :
           reads \in { r \in [DOMAIN servers -> UNION { Reads(servers[i].authority) : i \in DOMAIN servers }] :
                         \A i \in DOMAIN servers : r[i] \in Reads(servers[i].authority) },
           text  \in Reads(get_node_authority(node)) }

-------------------------------------------------------------------------------
(* One turn of the loop of populate_servers. *)
populate_servers ==
  /\ pc = "servers"
  /\ Len(list) < MaxServers
  /\ \E text \in Listed :
       /\ list' = Append(list, text)
       /\ servers' = Append(servers,
            [authority |-> substitute_localhost_marker(strdup(text)),
             couchdb_api_base |-> NULL, rest_api_authority |-> NULL, config_node |-> 0])
  /\ UNCHANGED <<localhost, pc, nodes>>

NodesFollow ==
  /\ pc = "servers"
  /\ list # <<>>
  /\ pc' = "nodes"
  /\ UNCHANGED <<localhost, list, servers, nodes>>

(* What a node of this server sets. *)
Described(server, node) ==
  [server EXCEPT
     !.couchdb_api_base   = IF node.couchApiBase = NULL THEN @
                            ELSE substitute_localhost_marker(strdup(node.couchApiBase)),
     !.rest_api_authority = substitute_localhost_marker(strdup(node.hostname)),
     !.config_node        = IF node.thisNode THEN 1 ELSE @]

(* One turn of the loop of update_server_info. *)
update_server_info ==
  /\ pc = "nodes"
  /\ Len(nodes) < MaxNodes
  /\ \E node \in Node :
       /\ nodes' = Append(nodes, node)
       /\ \E idx \in lookup_server_struct(node) :
            servers' = IF idx = 0 THEN servers
                       ELSE [servers EXCEPT ![idx] = Described(@, node)]
  /\ UNCHANGED <<localhost, pc, list>>

EndOfNodes ==
  /\ pc = "nodes"
  /\ pc' = "done"
  /\ UNCHANGED <<localhost, list, servers, nodes>>

Next == populate_servers \/ NodesFollow \/ update_server_info \/ EndOfNodes

Spec == Init /\ [][Next]_vars

-------------------------------------------------------------------------------
(* Nothing was replaced: no local address was given, or no text holds the    *)
(* marker.                                                                   *)
NoMarkerReplaced ==
  localhost = NULL \/
    /\ \A i \in DOMAIN list : ~Occurs(Marker, list[i])
    /\ \A i \in DOMAIN nodes :
         /\ nodes[i].hostname # NULL => ~Occurs(Marker, nodes[i].hostname)
         /\ nodes[i].couchApiBase # NULL => ~Occurs(Marker, nodes[i].couchApiBase)

(* The authority a node is known by: its host, without the port of its REST  *)
(* interface, and its direct port. *)
KnownAs(node) == Before(Colon, node.hostname) \o <<Colon>> \o node.port

ShortHost(node) == Len(Before(Colon, node.hostname)) < MaxAuthoritySize - PortRoom

(* The nodes, by their place, that are the server at place i of the list. *)
NodesOf(i) ==
  { k \in DOMAIN nodes : /\ nodes[k].hostname # NULL
                         /\ KnownAs(nodes[k]) = list[i]
                         /\ \A j \in 1 .. i - 1 : list[j] # list[i] }

LastOf(S) == CHOOSE k \in S : \A j \in S : j <= k

(* A server has exactly what the nodes of its own host and port say, the     *)
(* last of them counting and the first of several equal entries of the list: *)
(* nothing of a node with the same host and another port, or of one that     *)
(* could not be read.  (For hosts that fit the buffer and where no address   *)
(* was put in: an authority with one in it may read as anything, see         *)
(* ServersAreStrings.)                                                       *)
NodesFindTheirServers ==
  NoMarkerReplaced /\ (\A k \in DOMAIN nodes : nodes[k].hostname # NULL => ShortHost(nodes[k])) =>
    \A i \in DOMAIN servers :
      LET mine == NodesOf(i)
          base == { k \in mine : nodes[k].couchApiBase # NULL }
      IN  /\ servers[i].rest_api_authority =
               IF mine = {} THEN NULL ELSE strdup(nodes[LastOf(mine)].hostname)
          /\ servers[i].couchdb_api_base =
               IF base = {} THEN NULL ELSE strdup(nodes[LastOf(base)].couchApiBase)
          /\ servers[i].config_node = IF \E k \in mine : nodes[k].thisNode THEN 1 ELSE 0

(* However long the hostname is, the authority of a node ends with its port  *)
(* and the terminator, inside the buffer. *)
PortSurvives ==
  \A k \in DOMAIN nodes :
    nodes[k].hostname # NULL =>
      LET text == NodeText(nodes[k])
          n    == Len(nodes[k].port)
      IN  /\ Len(text) < MaxAuthoritySize
          /\ SubSeq(text, Len(text) - n, Len(text)) = <<Colon>> \o nodes[k].port

(* Every authority is a string, as vbucket_config_get_server promises        *)
(* (include/libvbucket/vbucket.h): it ends inside the block allocated for it. *)
ServersAreStrings == \A i \in DOMAIN servers : servers[i].authority.room > 0
=================================================================================
