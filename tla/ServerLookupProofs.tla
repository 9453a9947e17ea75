--------------------------- MODULE ServerLookupProofs ---------------------------
(***************************************************************************)
(* Texts, blocks and the nodes that describe the servers, for texts of any *)
(* length, a buffer of any size and any number of servers and nodes.       *)
(***************************************************************************)
EXTENDS ServerLookup, SequenceTheorems, WellFoundedInduction, TLAPS

Texts == Seq(Characters)

-------------------------------------------------------------------------------
(* A set of numbers has a least element. *)
LEMMA LeastNumber ==
  ASSUME NEW T \in SUBSET Nat, T # {}
  PROVE  \E m \in T : \A k \in T : m <= k
<1> DEFINE R == { ss \in Nat \X Nat : ss[1] < ss[2] }
<1>1. OpToRel(<, Nat) = R
  BY DEF OpToRel
<1>2. IsWellFoundedOn(R, Nat)
  BY <1>1, NatLessThanWellFounded, Zenon
<1>3. PICK m \in T : \A k \in T : <<k, m>> \notin R
  BY <1>2, WFMin
<1>4. ASSUME NEW k \in T
      PROVE  m <= k
  <2>1. <<k, m>> \notin R
    BY <1>3
  <2>. QED  BY <2>1
<1>. QED  BY <1>4

(* What strchr finds. *)
LEMMA FirstIs ==
  ASSUME NEW char, NEW text \in Texts
  PROVE  /\ FirstOf(char, text) \in 1 .. Len(text) + 1
         /\ FirstOf(char, text) <= Len(text) => text[FirstOf(char, text)] = char
         /\ \A j \in 1 .. FirstOf(char, text) - 1 : text[j] # char
         /\ Occurs(char, text) <=> FirstOf(char, text) <= Len(text)
<1>1. Len(text) \in Nat /\ DOMAIN text = 1 .. Len(text)
  BY DEF Texts
<1>2. CASE Occurs(char, text)
  <2> DEFINE there == { i \in 1 .. Len(text) : text[i] = char }
             first == FirstOf(char, text)
  <2>1. there \in SUBSET Nat /\ there # {}
    BY <1>1, <1>2 DEF Occurs
  <2>2. PICK m \in there : \A k \in there : m <= k
    BY <2>1, LeastNumber
  <2>3. text[m] = char /\ \A j \in 1 .. m - 1 : text[j] # char
    BY <1>1, <2>2
  <2>4. first \in DOMAIN text /\ text[first] = char /\ \A j \in 1 .. first - 1 : text[j] # char
    <3> DEFINE P(i) == text[i] = char /\ \A j \in 1 .. i - 1 : text[j] # char
    <3>1. \E i \in DOMAIN text : P(i)
      BY <1>1, <2>2, <2>3
    <3>2. first = CHOOSE i \in DOMAIN text : P(i)
      BY <1>2 DEF FirstOf
    <3>. QED  BY <3>1, <3>2
  <2>. QED  BY <1>1, <1>2, <2>4
<1>3. CASE ~Occurs(char, text)
  <2>1. FirstOf(char, text) = Len(text) + 1
    BY <1>3 DEF FirstOf
  <2>2. \A j \in 1 .. Len(text) : text[j] # char
    BY <1>1, <1>3 DEF Occurs
  <2>. QED  BY <1>1, <1>3, <2>1, <2>2
<1>. QED  BY <1>2, <1>3

LEMMA FirstUnique ==
  ASSUME NEW char, NEW text \in Texts, NEW f \in 1 .. Len(text) + 1,
         f <= Len(text) => text[f] = char,
         \A j \in 1 .. f - 1 : text[j] # char
  PROVE  FirstOf(char, text) = f
<1>1. Len(text) \in Nat
  BY DEF Texts
<1>2. ~(FirstOf(char, text) < f)
  BY <1>1, FirstIs
<1>3. ~(f < FirstOf(char, text))
  BY <1>1, FirstIs
<1>. QED  BY <1>1, <1>2, <1>3, FirstIs

LEMMA BeforeIs ==
  ASSUME NEW char, NEW text \in Texts
  PROVE  /\ Before(char, text) \in Texts
         /\ Len(Before(char, text)) = FirstOf(char, text) - 1
         /\ \A i \in 1 .. FirstOf(char, text) - 1 : Before(char, text)[i] = text[i]
<1>1. Len(text) \in Nat /\ \A i \in 1 .. Len(text) : text[i] \in Characters
  BY DEF Texts
<1>2. FirstOf(char, text) \in 1 .. Len(text) + 1
  BY FirstIs
<1> DEFINE n == FirstOf(char, text) - 1
<1>3. n \in 0 .. Len(text)
  BY <1>1, <1>2
<1> HIDE DEF n
<1>4. \A i \in 1 .. n : text[i] \in Characters
  BY <1>1, <1>3
<1>5. /\ SubSeq(text, 1, n) \in Seq(Characters)
      /\ Len(SubSeq(text, 1, n)) = IF 1 <= n THEN n - 1 + 1 ELSE 0
      /\ \A i \in 1 .. n - 1 + 1 : SubSeq(text, 1, n)[i] = text[1 + i - 1]
  BY <1>3, <1>4, SubSeqProperties
<1>6. Before(char, text) = SubSeq(text, 1, n)
  BY DEF Before, n
<1>7. Len(SubSeq(text, 1, n)) = n /\ \A i \in 1 .. n : SubSeq(text, 1, n)[i] = text[i]
  BY <1>3, <1>5
<1>. QED  BY <1>5, <1>6, <1>7 DEF Texts, n

LEMMA AfterIs ==
  ASSUME NEW char, NEW text \in Texts
  PROVE  /\ After(char, text) \in Texts
         /\ Occurs(char, text) => Len(After(char, text)) = Len(text) - FirstOf(char, text)
<1>1. Len(text) \in Nat /\ \A i \in 1 .. Len(text) : text[i] \in Characters
  BY DEF Texts
<1> DEFINE m == FirstOf(char, text) + 1
<1>2. m \in 2 .. Len(text) + 2 /\ (Occurs(char, text) => m <= Len(text) + 1)
  BY <1>1, FirstIs
<1> HIDE DEF m
<1>3. \A i \in m .. Len(text) : text[i] \in Characters
  BY <1>1, <1>2
<1>4. /\ SubSeq(text, m, Len(text)) \in Seq(Characters)
      /\ Len(SubSeq(text, m, Len(text))) = IF m <= Len(text) THEN Len(text) - m + 1 ELSE 0
  BY <1>1, <1>2, <1>3, SubSeqProperties
<1>5. After(char, text) = SubSeq(text, m, Len(text))
  BY DEF After, m
<1>6. FirstOf(char, text) \in Nat /\ m = FirstOf(char, text) + 1
  BY <1>1, FirstIs DEF m
<1>. QED  BY <1>1, <1>2, <1>4, <1>5, <1>6 DEF Texts

-------------------------------------------------------------------------------
(* What get_node_authority writes. *)
LEMMA Cut ==
  ASSUME NEW text \in Texts, NEW n \in Nat \ {0}
  PROVE  /\ Fitting(text, n) \in Texts
         /\ Len(Fitting(text, n)) = IF Len(text) < n THEN Len(text) ELSE n - 1
         /\ \A i \in 1 .. Len(Fitting(text, n)) : Fitting(text, n)[i] = text[i]
         /\ Len(text) < n => Fitting(text, n) = text
<1> DEFINE m == IF Len(text) < n THEN Len(text) ELSE n - 1
<1>1. Len(text) \in Nat /\ \A i \in 1 .. Len(text) : text[i] \in Characters
  BY DEF Texts
<1>2. m \in 0 .. Len(text)
  BY <1>1
<1>3. Fitting(text, n) = SubSeq(text, 1, m)
  BY DEF Fitting
<1>4. Len(text) < n => SubSeq(text, 1, m) = text
  BY SubSeqFull DEF Texts
<1>5. m = IF Len(text) < n THEN Len(text) ELSE n - 1
  OBVIOUS
<1> HIDE DEF m
<1>6. \A i \in 1 .. m : text[i] \in Characters
  BY <1>1, <1>2
<1>7. /\ SubSeq(text, 1, m) \in Seq(Characters)
      /\ Len(SubSeq(text, 1, m)) = IF 1 <= m THEN m - 1 + 1 ELSE 0
      /\ \A i \in 1 .. m - 1 + 1 : SubSeq(text, 1, m)[i] = text[1 + i - 1]
  BY <1>2, <1>6, SubSeqProperties
<1>8. Len(SubSeq(text, 1, m)) = m /\ \A i \in 1 .. m : SubSeq(text, 1, m)[i] = text[i]
  BY <1>2, <1>7
<1>. QED  BY <1>3, <1>4, <1>5, <1>7, <1>8 DEF Texts

LEMMA NodeTyped ==
  ASSUME NEW node \in Node
  PROVE  /\ node.hostname # NULL => node.hostname \in Texts
         /\ node.couchApiBase # NULL => node.couchApiBase \in Texts
         /\ node.port \in Texts /\ Len(node.port) + 2 <= PortRoom
         /\ \A i \in 1 .. Len(node.port) : node.port[i] # Marker
<1>1. node.hostname \in Hostnames \cup {NULL} /\ node.couchApiBase \in Bases \cup {NULL} /\ node.port \in Ports
  BY DEF Node
<1>2. /\ Hostnames \subseteq Texts /\ Bases \subseteq Texts /\ Ports \subseteq Texts
      /\ \A port \in Ports : Len(port) + 2 <= PortRoom /\ \A i \in DOMAIN port : port[i] # Marker
  BY LookupAssumption, Zenon DEF Texts
<1>3. node.port \in Texts /\ DOMAIN node.port = 1 .. Len(node.port)
  BY <1>1, <1>2 DEF Texts
<1>. QED  BY <1>1, <1>2, <1>3

LEMMA PortText ==
  ASSUME NEW node \in Node
  PROVE  /\ <<Colon>> \o node.port \in Texts
         /\ Len(<<Colon>> \o node.port) = Len(node.port) + 1
         /\ (<<Colon>> \o node.port)[1] = Colon
         /\ \A i \in 1 .. Len(node.port) : (<<Colon>> \o node.port)[i + 1] = node.port[i]
         /\ Fitting(<<Colon>> \o node.port, PortRoom) = <<Colon>> \o node.port
<1>1. node.port \in Seq(Characters) /\ Len(node.port) + 2 <= PortRoom
  BY NodeTyped DEF Texts
<1>2. Colon \in Characters /\ PortRoom \in Nat
  BY LookupAssumption
<1>3. <<Colon>> \in Seq(Characters) /\ Len(<<Colon>>) = 1
  BY <1>2
<1>4. /\ <<Colon>> \o node.port \in Seq(Characters)
      /\ Len(<<Colon>> \o node.port) = Len(node.port) + 1
  BY <1>1, <1>3
<1>5. /\ (<<Colon>> \o node.port)[1] = Colon
      /\ \A i \in 1 .. Len(node.port) : (<<Colon>> \o node.port)[i + 1] = node.port[i]
  BY <1>1, <1>3
<1>6. Len(<<Colon>> \o node.port) < PortRoom /\ PortRoom \in Nat \ {0}
  BY <1>1, <1>2, <1>4
<1>7. Fitting(<<Colon>> \o node.port, PortRoom) = <<Colon>> \o node.port
  <2> DEFINE text == <<Colon>> \o node.port
  <2>1. text \in Texts /\ Len(text) < PortRoom
    BY <1>4, <1>6 DEF Texts
  <2> HIDE DEF text
  <2>2. Fitting(text, PortRoom) = text
    BY <1>6, <2>1, Cut
  <2>. QED  BY <2>2 DEF text
<1>. QED  BY <1>4, <1>5, <1>7 DEF Texts

(* The host in the buffer. *)
HostText(node) == Before(Colon, Fitting(node.hostname, MaxAuthoritySize - PortRoom))

LEMMA NodeTextIs ==
  ASSUME NEW node \in Node, node.hostname # NULL
  PROVE  /\ HostText(node) \in Texts /\ Len(HostText(node)) < MaxAuthoritySize - PortRoom
         /\ NodeText(node) = HostText(node) \o (<<Colon>> \o node.port)
         /\ NodeText(node) \in Texts
         /\ Len(NodeText(node)) = Len(HostText(node)) + Len(node.port) + 1
         /\ Len(NodeText(node)) < MaxAuthoritySize
<1>1. node.hostname \in Texts /\ node.port \in Texts /\ Len(node.port) + 2 <= PortRoom
  BY NodeTyped
<1>2. /\ MaxAuthoritySize \in Nat /\ PortRoom \in Nat /\ MaxAuthoritySize - PortRoom \in Nat \ {0}
      /\ Len(node.port) \in Nat /\ Len(node.hostname) \in Nat
  BY <1>1, LookupAssumption DEF Texts
<1> DEFINE room == MaxAuthoritySize - PortRoom
           host == Fitting(node.hostname, room)
<1>3. host \in Texts /\ Len(host) < room /\ Len(host) \in Nat
  <2>1. /\ host \in Texts
        /\ Len(host) = IF Len(node.hostname) < room THEN Len(node.hostname) ELSE room - 1
    BY <1>1, <1>2, Cut
  <2>. QED  BY <1>2, <2>1
<1>4. HostText(node) = Before(Colon, host)
  BY DEF HostText
<1> HIDE DEF host
<1>5. /\ HostText(node) \in Texts /\ Len(HostText(node)) = FirstOf(Colon, host) - 1
      /\ FirstOf(Colon, host) \in 1 .. Len(host) + 1
  BY <1>3, <1>4, BeforeIs, FirstIs
<1>6. Len(HostText(node)) < room /\ Len(HostText(node)) \in Nat
  BY <1>2, <1>3, <1>5
<1>7. NodeText(node) = HostText(node) \o (<<Colon>> \o node.port)
  BY PortText DEF NodeText, HostText
<1>8. /\ NodeText(node) \in Texts
      /\ Len(NodeText(node)) = Len(HostText(node)) + Len(<<Colon>> \o node.port)
  <2>1. HostText(node) \in Seq(Characters) /\ <<Colon>> \o node.port \in Seq(Characters)
    BY <1>5, PortText DEF Texts
  <2>2. /\ HostText(node) \o (<<Colon>> \o node.port) \in Seq(Characters)
        /\ Len(HostText(node) \o (<<Colon>> \o node.port)) = Len(HostText(node)) + Len(<<Colon>> \o node.port)
    BY ONLY <2>1, ConcatProperties, Zenon
  <2>. QED  BY <1>7, <2>2 DEF Texts
<1>9. Len(NodeText(node)) = Len(HostText(node)) + Len(node.port) + 1
  BY <1>2, <1>6, <1>8, PortText
<1>. QED  BY <1>1, <1>2, <1>5, <1>6, <1>7, <1>8, <1>9

-------------------------------------------------------------------------------
(* The variables hold what they are meant to. *)
Typed ==
  /\ localhost \in LocalAddresses
  /\ pc \in {"servers", "nodes", "done"}
  /\ pc = "servers" => nodes = <<>>
  /\ list \in Seq(Listed)
  /\ nodes \in Seq(Node)
  /\ DOMAIN servers = DOMAIN list

LEMMA TypedInit == Init => Typed
BY DEF Init, Typed

(* A node changes the fields of a server that it describes. *)
LEMMA TypedStep == Typed /\ [Next]_vars => Typed'
<1>. SUFFICES ASSUME Typed, [Next]_vars PROVE Typed'
  OBVIOUS
<1>1. CASE populate_servers
  <2>1. PICK text \in Listed :
          /\ list' = Append(list, text)
          /\ servers' = Append(servers,
               [authority |-> substitute_localhost_marker(strdup(text)),
                couchdb_api_base |-> NULL, rest_api_authority |-> NULL, config_node |-> 0])
    BY <1>1 DEF populate_servers
  <2>. QED  BY <1>1, <2>1 DEF Typed, populate_servers
<1>2. CASE NodesFollow
  BY <1>2 DEF Typed, NodesFollow
<1>3. CASE update_server_info
  BY <1>3 DEF Typed, update_server_info
<1>4. CASE EndOfNodes
  BY <1>4 DEF Typed, EndOfNodes
<1>5. CASE UNCHANGED vars
  BY <1>5 DEF Typed, vars
<1>. QED  BY <1>1, <1>2, <1>3, <1>4, <1>5 DEF Next

LEMMA TypedAlways == Spec => []Typed
<1>. QED  BY TypedInit, TypedStep, PTL DEF Spec

(* However long a hostname is, the authority that get_node_authority writes  *)
(* ends with the port, inside the buffer. *)
THEOREM PortsSurvive == Spec => []PortSurvives
<1>1. Typed => PortSurvives
  <2>. SUFFICES ASSUME Typed, NEW k \in DOMAIN nodes, nodes[k].hostname # NULL
                PROVE  LET text == NodeText(nodes[k])
                           n    == Len(nodes[k].port)
                       IN  /\ Len(text) < MaxAuthoritySize
                           /\ SubSeq(text, Len(text) - n, Len(text)) = <<Colon>> \o nodes[k].port
    BY DEF PortSurvives
  <2> DEFINE node == nodes[k]
             text == NodeText(node)
             host == HostText(node)
             port == <<Colon>> \o node.port
  <2>1. node \in Node
    BY DEF Typed
  <2>2. /\ host \in Texts /\ port \in Texts /\ text = host \o port
        /\ Len(text) < MaxAuthoritySize
        /\ Len(port) = Len(node.port) + 1
        /\ Len(text) = Len(host) + Len(node.port) + 1
        /\ Len(node.port) \in Nat /\ Len(host) \in Nat
    BY <2>1, NodeTextIs, PortText, NodeTyped DEF Texts
  <2> HIDE DEF node, text, host, port
  <2>3. SubSeq(text, Len(host) + 1, Len(host) + Len(port))
          = SubSeq(port, Len(host) + 1 - Len(host), Len(host) + Len(port) - Len(host))
    BY <2>2, SubSeqOfConcat2 DEF Texts
  <2>4. SubSeq(port, 1, Len(port)) = port
    BY <2>2, SubSeqFull DEF Texts
  <2>5. /\ Len(host) + 1 - Len(host) = 1 /\ Len(host) + Len(port) - Len(host) = Len(port)
        /\ Len(text) - Len(node.port) = Len(host) + 1 /\ Len(text) = Len(host) + Len(port)
    <3>1. PICK h \in Nat, p \in Nat : h = Len(host) /\ p = Len(node.port)
      BY <2>2
    <3>2. Len(port) = p + 1 /\ Len(text) = h + p + 1
      BY <2>2, <3>1, Zenon
    <3>3. /\ h + 1 - h = 1 /\ h + (p + 1) - h = p + 1
          /\ (h + p + 1) - p = h + 1 /\ h + p + 1 = h + (p + 1)
      OBVIOUS
    <3>. QED  BY ONLY <3>1, <3>2, <3>3, Zenon
  <2>6. SubSeq(text, Len(text) - Len(node.port), Len(text)) = port
    BY <2>3, <2>4, <2>5
  <2>. QED  BY <2>2, <2>6 DEF node, text, port
<1>. QED  BY <1>1, TypedAlways, PTL

-------------------------------------------------------------------------------
(* What is stored for an entry of the list, whatever its nodes say; and that *)
(* they have not said anything yet while the list is read. *)
Fields == {"authority", "couchdb_api_base", "rest_api_authority", "config_node"}

Stored ==
  \A i \in DOMAIN servers :
    /\ DOMAIN servers[i] = Fields
    /\ servers[i].authority = substitute_localhost_marker(strdup(list[i]))
    /\ pc = "servers" => /\ servers[i].couchdb_api_base = NULL
                         /\ servers[i].rest_api_authority = NULL
                         /\ servers[i].config_node = 0

LEMMA StoredInit == Init => Stored
BY DEF Init, Stored

LEMMA DescribedKeeps ==
  ASSUME NEW server, NEW node, DOMAIN server = Fields
  PROVE  /\ DOMAIN Described(server, node) = Fields
         /\ Described(server, node).authority = server.authority
BY DEF Described, Fields

LEMMA StoredStep == Typed /\ Stored /\ [Next]_vars => Stored'
<1>. SUFFICES ASSUME Typed, Stored, [Next]_vars, NEW i \in (DOMAIN servers)'
              PROVE  /\ DOMAIN servers'[i] = Fields
                     /\ servers'[i].authority = (substitute_localhost_marker(strdup(list[i])))'
                     /\ pc' = "servers" => /\ servers'[i].couchdb_api_base = NULL
                                           /\ servers'[i].rest_api_authority = NULL
                                           /\ servers'[i].config_node = 0
  BY DEF Stored
<1>1. list \in Seq(Listed) /\ DOMAIN servers = 1 .. Len(list) /\ Len(list) \in Nat
  BY DEF Typed
<1>2. CASE populate_servers
  <2> DEFINE server(text) == [authority |-> substitute_localhost_marker(strdup(text)),
                              couchdb_api_base |-> NULL, rest_api_authority |-> NULL, config_node |-> 0]
  <2>1. PICK text \in Listed : list' = Append(list, text) /\ servers' = Append(servers, server(text))
    BY <1>2 DEF populate_servers
  <2>2. localhost' = localhost /\ pc' = pc /\ pc = "servers"
    BY <1>2 DEF populate_servers
  <2>3. (substitute_localhost_marker(strdup(list[i])))' = substitute_localhost_marker(strdup(list'[i]))
    BY <2>2 DEF substitute_localhost_marker, Substituted, strdup
  <2>4. i \in 1 .. Len(list) + 1 /\ Len(servers) = Len(list)
    BY <1>1, <2>1
  <2>5. CASE i \in 1 .. Len(list)
    <3>1. servers'[i] = servers[i] /\ list'[i] = list[i]
      BY <1>1, <2>1, <2>4, <2>5
    <3>. QED  BY <1>1, <2>2, <2>3, <2>5, <3>1 DEF Stored
  <2>6. CASE i = Len(list) + 1
    <3>1. servers'[i] = server(text) /\ list'[i] = text
      BY <1>1, <2>1, <2>4, <2>6
    <3>. QED  BY <2>3, <3>1 DEF Fields
  <2>. QED  BY <1>1, <2>4, <2>5, <2>6
<1>3. ASSUME list' = list, localhost' = localhost
      PROVE  (substitute_localhost_marker(strdup(list[i])))' = substitute_localhost_marker(strdup(list[i]))
  BY <1>3 DEF substitute_localhost_marker, Substituted, strdup
<1>4. CASE update_server_info
  <2>1. list' = list /\ localhost' = localhost /\ pc' = pc /\ pc = "nodes"
    BY <1>4 DEF update_server_info
  <2>2. PICK node, idx : servers' = IF idx = 0 THEN servers
                                    ELSE [servers EXCEPT ![idx] = Described(@, node)]
    BY <1>4 DEF update_server_info
  <2>3. i \in DOMAIN servers /\ (servers'[i] = servers[i] \/ servers'[i] = Described(servers[i], node))
    BY <2>2
  <2>4. DOMAIN servers[i] = Fields /\ servers[i].authority = substitute_localhost_marker(strdup(list[i]))
    BY <2>3 DEF Stored
  <2>5. DOMAIN servers'[i] = Fields /\ servers'[i].authority = servers[i].authority
    BY <2>3, <2>4, DescribedKeeps
  <2>. QED  BY <1>3, <2>1, <2>4, <2>5
<1>5. CASE NodesFollow \/ EndOfNodes
  <2>1. list' = list /\ localhost' = localhost /\ servers' = servers /\ pc' # "servers"
    BY <1>5 DEF NodesFollow, EndOfNodes
  <2>. QED  BY <1>3, <2>1 DEF Stored
<1>6. CASE UNCHANGED vars
  <2>1. list' = list /\ localhost' = localhost /\ servers' = servers /\ pc' = pc
    BY <1>6 DEF vars
  <2>. QED  BY <1>3, <2>1 DEF Stored
<1>. QED  BY <1>2, <1>4, <1>5, <1>6 DEF Next

LEMMA StoredAlways == Spec => []Stored
<1>1. Typed /\ Typed' /\ Stored /\ [Next]_vars => Stored'
  BY StoredStep
<1>. QED  BY <1>1, StoredInit, TypedAlways, PTL DEF Spec

-------------------------------------------------------------------------------
(* What the search among the servers finds. *)
LEMMA MatchesIs ==
  ASSUME NEW n \in Nat, NEW reads, DOMAIN reads = 1 .. n, NEW text
  PROVE  /\ Matches(reads, text) \in 0 .. n
         /\ Matches(reads, text) = 0 => \A i \in 1 .. n : reads[i] # text
         /\ Matches(reads, text) # 0 =>
              /\ reads[Matches(reads, text)] = text
              /\ \A j \in 1 .. Matches(reads, text) - 1 : reads[j] # text
<1> DEFINE same == { i \in DOMAIN reads : reads[i] = text }
           Is(i) == \A j \in same : i <= j
<1>1. same \in SUBSET Nat /\ same \subseteq 1 .. n
  OBVIOUS
<1>2. CASE same = {}
  <2>1. Matches(reads, text) = 0
    BY <1>2 DEF Matches
  <2>. QED  BY <1>2, <2>1
<1>3. CASE same # {}
  <2>1. \E i \in same : Is(i)
    BY <1>1, <1>3, LeastNumber
  <2>2. Matches(reads, text) = CHOOSE i \in same : Is(i)
    BY <1>3 DEF Matches
  <2>3. Matches(reads, text) \in same /\ Is(Matches(reads, text))
    BY <2>1, <2>2
  <2>. QED  BY <1>1, <2>3
<1>. QED  BY <1>2, <1>3

(* The last of some places. *)
LEMMA LastIs ==
  ASSUME NEW n \in Nat, NEW S \in SUBSET (1 .. n)
  PROVE  /\ S # {} => LastOf(S) \in S
         /\ \A k \in S : (\A j \in S : j <= k) => LastOf(S) = k
<1> DEFINE P(k) == \A j \in S : j <= k
<1>1. LastOf(S) = CHOOSE k \in S : P(k)
  BY DEF LastOf
<1>2. ASSUME S # {}
      PROVE  \E k \in S : P(k)
  <2> DEFINE T == { i \in Nat : n - i \in S }
  <2>1. T # {}
    <3>1. PICK j \in S : TRUE
      BY <1>2
    <3>2. n - j \in Nat /\ n - (n - j) = j
      BY <3>1
    <3>. QED  BY <3>1, <3>2
  <2>2. PICK m \in T : \A i \in T : m <= i
    BY <2>1, LeastNumber
  <2>3. ASSUME NEW j \in S
        PROVE  j <= n - m
    <3>1. n - j \in Nat /\ n - (n - j) = j
      OBVIOUS
    <3>2. n - j \in T
      BY <3>1
    <3>3. m <= n - j
      BY <2>2, <3>2
    <3>. QED  BY <3>3
  <2>. QED  BY <2>2, <2>3
<1>3. S # {} => LastOf(S) \in S /\ P(LastOf(S))
  BY <1>1, <1>2
<1>4. ASSUME NEW k \in S, \A j \in S : j <= k
      PROVE  LastOf(S) = k
  <2>1. LastOf(S) \in S /\ k <= LastOf(S) /\ LastOf(S) <= k
    BY <1>3, <1>4
  <2>2. LastOf(S) \in 1 .. n /\ k \in 1 .. n
    BY <2>1
  <2>. QED  BY <2>1, <2>2
<1>. QED  BY <1>3, <1>4

LEMMA LastNext ==
  ASSUME NEW n \in Nat, NEW S \in SUBSET (1 .. n + 1), n + 1 \in S
  PROVE  LastOf(S) = n + 1
<1>1. n + 1 \in Nat /\ \A j \in S : j <= n + 1
  OBVIOUS
<1>. QED  BY <1>1, LastIs

(* A host that fits is in the buffer as a whole: the node is written as it   *)
(* is known. *)
LEMMA ShortHostText ==
  ASSUME NEW node \in Node, node.hostname # NULL, ShortHost(node)
  PROVE  /\ HostText(node) = Before(Colon, node.hostname)
         /\ NodeText(node) = KnownAs(node)
<1> DEFINE h == node.hostname
           room == MaxAuthoritySize - PortRoom
           c == Fitting(h, room)
           f == FirstOf(Colon, h)
<1>1. h \in Texts /\ Len(h) \in Nat
  BY NodeTyped DEF Texts
<1>2. room \in Nat \ {0}
  BY LookupAssumption
<1>3. /\ c \in Texts /\ Len(c) = (IF Len(h) < room THEN Len(h) ELSE room - 1) /\ Len(c) \in Nat
      /\ \A i \in 1 .. Len(c) : c[i] = h[i]
  <2>1. /\ c \in Texts /\ Len(c) = IF Len(h) < room THEN Len(h) ELSE room - 1
        /\ \A i \in 1 .. Len(c) : c[i] = h[i]
    BY <1>1, <1>2, Cut
  <2>. QED  BY <1>1, <1>2, <2>1
<1>4. /\ f \in 1 .. Len(h) + 1 /\ Len(Before(Colon, h)) = f - 1
      /\ f <= Len(h) => h[f] = Colon
      /\ \A j \in 1 .. f - 1 : h[j] # Colon
  BY <1>1, FirstIs, BeforeIs
<1>5. f - 1 < room
  BY <1>4 DEF ShortHost
<1>. HIDE DEF h, room, c, f
<1>6. f \in 1 .. Len(c) + 1
  BY <1>1, <1>2, <1>3, <1>4, <1>5
<1>7. f <= Len(c) => c[f] = Colon
  BY <1>1, <1>2, <1>3, <1>4
<1>8. \A j \in 1 .. f - 1 : c[j] # Colon
  BY <1>1, <1>3, <1>4, <1>6
<1>9. FirstOf(Colon, c) = f
  BY <1>3, <1>6, <1>7, <1>8, FirstUnique
<1>10. /\ Before(Colon, c) \in Seq(Characters) /\ Before(Colon, h) \in Seq(Characters)
       /\ Len(Before(Colon, c)) = f - 1 /\ Len(Before(Colon, h)) = f - 1
       /\ \A i \in 1 .. f - 1 : Before(Colon, c)[i] = c[i] /\ Before(Colon, h)[i] = h[i]
  BY <1>1, <1>3, <1>9, BeforeIs DEF Texts, f
<1>11. \A i \in 1 .. f - 1 : c[i] = h[i]
  BY <1>3, <1>6
<1>12. Before(Colon, c) = Before(Colon, h)
  BY <1>10, <1>11, SeqEqual
<1>13. HostText(node) = Before(Colon, h)
  BY <1>12 DEF HostText, c, h, room
<1>14. NodeText(node) = Before(Colon, h) \o (<<Colon>> \o node.port)
  BY <1>13, NodeTextIs
<1>15. <<Colon>> \in Seq(Characters) /\ node.port \in Seq(Characters)
  BY NodeTyped, LookupAssumption DEF Texts
<1>16. Before(Colon, h) \o (<<Colon>> \o node.port) = Before(Colon, h) \o <<Colon>> \o node.port
  <2>1. \A s, t, u \in Seq(Characters) : (s \o t) \o u = s \o (t \o u)
    BY ConcatAssociative
  <2>. QED  BY ONLY <1>10, <1>15, <2>1, Zenon
<1>. QED  BY <1>13, <1>14, <1>16 DEF KnownAs, h

(* A node whose hostname has no marker has none in its authority. *)
LEMMA NoMarkerInNode ==
  ASSUME NEW node \in Node, node.hostname # NULL, ~Occurs(Marker, node.hostname), ShortHost(node)
  PROVE  ~Occurs(Marker, NodeText(node))
<1> DEFINE h == node.hostname
           host == HostText(node)
           port == <<Colon>> \o node.port
<1>1. h \in Texts /\ \A i \in 1 .. Len(h) : h[i] # Marker
  BY NodeTyped DEF Texts, Occurs
<1>2. host = Before(Colon, h)
  BY ShortHostText
<1>3. /\ host \in Seq(Characters) /\ Len(host) <= Len(h) /\ Len(host) \in Nat /\ Len(h) \in Nat
      /\ \A i \in 1 .. Len(host) : host[i] = h[i]
  BY <1>1, <1>2, BeforeIs, FirstIs DEF Texts
<1>4. \A i \in 1 .. Len(host) : host[i] # Marker
  BY <1>1, <1>3
<1>5. /\ port \in Seq(Characters) /\ Len(port) = Len(node.port) + 1 /\ port[1] = Colon
      /\ Len(node.port) \in Nat
      /\ \A i \in 1 .. Len(node.port) : port[i + 1] = node.port[i]
      /\ \A i \in 1 .. Len(node.port) : node.port[i] # Marker
  BY PortText, NodeTyped DEF Texts
<1>6. ASSUME NEW i \in 1 .. Len(port)
      PROVE  port[i] # Marker
  <2>1. CASE i = 1
    BY <1>5, <2>1, LookupAssumption
  <2>2. CASE i # 1
    <3>1. i - 1 \in 1 .. Len(node.port) /\ (i - 1) + 1 = i
      BY <1>5, <2>2
    <3>. QED  BY <1>5, <3>1
  <2>. QED  BY <2>1, <2>2
<1>7. NodeText(node) = host \o port
  BY NodeTextIs
<1> HIDE DEF host, port
<1>8. /\ Len(host \o port) = Len(host) + Len(port)
      /\ \A i \in 1 .. Len(host) + Len(port) :
           (host \o port)[i] = IF i <= Len(host) THEN host[i] ELSE port[i - Len(host)]
      /\ host \o port \in Seq(Characters)
  <2>1. host \in Seq(Characters) /\ port \in Seq(Characters)
    BY <1>3, <1>5
  <2>. QED  BY ONLY <2>1, ConcatProperties, Zenon
<1>9. ASSUME NEW i \in 1 .. Len(host) + Len(port)
      PROVE  (host \o port)[i] # Marker
  <2>1. CASE i <= Len(host)
    BY <1>3, <1>4, <1>8, <2>1
  <2>2. CASE ~(i <= Len(host))
    <3>1. i - Len(host) \in 1 .. Len(port)
      BY <1>3, <1>5, <2>2
    <3>. QED  BY <1>6, <1>8, <2>2, <3>1
  <2>. QED  BY <2>1, <2>2
<1>10. DOMAIN (host \o port) = 1 .. Len(host) + Len(port)
  BY ONLY <1>8, LenProperties
<1>. QED  BY <1>7, <1>9, <1>10 DEF Occurs

(* Without a marker to replace, the search compares the entries of the list  *)
(* with what the node is known as, and finds the first that is equal. *)
LEMMA LookupIs ==
  ASSUME Typed, Stored, NEW node \in Node, node.hostname # NULL, ShortHost(node),
         localhost = NULL \/ (/\ \A i \in DOMAIN list : ~Occurs(Marker, list[i])
                              /\ ~Occurs(Marker, node.hostname)),
         NEW idx \in lookup_server_struct(node)
  PROVE  /\ idx \in 0 .. Len(list)
         /\ idx = 0 => \A i \in 1 .. Len(list) : list[i] # KnownAs(node)
         /\ idx # 0 => /\ list[idx] = KnownAs(node)
                       /\ \A j \in 1 .. idx - 1 : list[j] # KnownAs(node)
<1>1. /\ Len(list) \in Nat /\ DOMAIN list = 1 .. Len(list) /\ DOMAIN servers = 1 .. Len(list)
      /\ \A i \in 1 .. Len(list) : list[i] \in Listed
  BY DEF Typed
<1>2. \A i \in 1 .. Len(list) : list[i] \in Texts
  BY <1>1, LookupAssumption DEF Texts
<1>3. NodeText(node) \in Texts /\ NodeText(node) = KnownAs(node) /\ Len(NodeText(node)) < MaxAuthoritySize
  BY NodeTextIs, ShortHostText
<1>4. \A text \in Texts : text \o <<>> = text
  BY ConcatEmptySeq DEF Texts
<1>5. Reads(get_node_authority(node)) = {KnownAs(node)}
  <2> DEFINE block == [text |-> NodeText(node), room |-> MaxAuthoritySize - Len(NodeText(node))]
  <2>1. get_node_authority(node) = block
    BY NoMarkerInNode DEF get_node_authority, substitute_localhost_marker
  <2>2. block.room > 0
    <3>1. Len(NodeText(node)) \in Nat /\ MaxAuthoritySize \in Nat
      BY <1>3, LookupAssumption DEF Texts
    <3>. QED  BY <1>3, <3>1
  <2>3. Reads(block) = { block.text \o tail : tail \in {<<>>} }
    BY <2>2 DEF Reads
  <2>4. block.text = KnownAs(node)
    BY <1>3
  <2> HIDE DEF block
  <2>5. block.text \o <<>> = KnownAs(node)
    BY <1>3, <1>4, <2>4
  <2>. QED  BY <2>1, <2>3, <2>5
<1>6. ASSUME NEW i \in 1 .. Len(list)
      PROVE  Reads(servers[i].authority) = {list[i]}
  <2> DEFINE block == servers[i].authority
  <2>1. block = substitute_localhost_marker(strdup(list[i]))
    BY <1>1 DEF Stored
  <2> HIDE DEF block
  <2>2. strdup(list[i]).text = list[i]
    BY DEF strdup
  <2>3. block = strdup(list[i])
    BY <1>1, <2>1, <2>2 DEF substitute_localhost_marker
  <2>4. block.text = list[i] /\ block.room = 1
    BY <2>3 DEF strdup
  <2>5. Reads(block) = { block.text \o tail : tail \in {<<>>} }
    BY <2>4 DEF Reads
  <2>6. block.text \o <<>> = list[i]
    BY <1>2, <1>4, <2>4
  <2>. QED  BY <2>5, <2>6 DEF block
<1>7. PICK reads \in { r \in [DOMAIN servers -> UNION { Reads(servers[i].authority) : i \in DOMAIN servers }] :
                         \A i \in DOMAIN servers : r[i] \in Reads(servers[i].authority) },
           text \in Reads(get_node_authority(node)) :
        idx = Matches(reads, text)
  BY DEF lookup_server_struct
<1>8. /\ DOMAIN reads = 1 .. Len(list)
      /\ \A i \in 1 .. Len(list) : reads[i] \in Reads(servers[i].authority)
  BY <1>1, <1>7
<1>9. \A i \in 1 .. Len(list) : reads[i] = list[i]
  BY <1>6, <1>8
<1>10. text = KnownAs(node)
  BY <1>5, <1>7
<1>11. /\ idx \in 0 .. Len(list)
       /\ idx = 0 => \A i \in 1 .. Len(list) : reads[i] # text
       /\ idx # 0 => reads[idx] = text /\ \A j \in 1 .. idx - 1 : reads[j] # text
  BY <1>1, <1>7, <1>8, MatchesIs
<1>. QED  BY <1>1, <1>9, <1>10, <1>11

-------------------------------------------------------------------------------
(* What NodesFindTheirServers says of one server and its nodes. *)
WithBase(mine, ns) == { k \in mine : ns[k].couchApiBase # NULL }

Has(server, mine, ns) ==
  /\ server.rest_api_authority =
       IF mine = {} THEN NULL ELSE strdup(ns[LastOf(mine)].hostname)
  /\ server.couchdb_api_base =
       IF WithBase(mine, ns) = {} THEN NULL
       ELSE strdup(ns[LastOf(WithBase(mine, ns))].couchApiBase)
  /\ server.config_node = IF \E k \in mine : ns[k].thisNode THEN 1 ELSE 0

Quiet ==
  /\ NoMarkerReplaced
  /\ \A k \in DOMAIN nodes : nodes[k].hostname # NULL => ShortHost(nodes[k])

LEMMA FindMeansHas ==
  NodesFindTheirServers <=> (Quiet => \A i \in DOMAIN servers : Has(servers[i], NodesOf(i), nodes))
BY Zenon DEF NodesFindTheirServers, Quiet, Has, WithBase

(* A further node changes nothing for the servers that are not its own. *)
LEMMA HasKept ==
  ASSUME NEW n \in Nat, NEW mine \in SUBSET (1 .. n), NEW ns, NEW ms, NEW server,
         \A k \in 1 .. n : ms[k] = ns[k], Has(server, mine, ns)
  PROVE  Has(server, mine, ms)
<1>1. WithBase(mine, ms) = WithBase(mine, ns) /\ WithBase(mine, ns) \in SUBSET (1 .. n)
  BY DEF WithBase
<1>2. mine # {} => LastOf(mine) \in 1 .. n
  BY LastIs
<1>3. WithBase(mine, ns) # {} => LastOf(WithBase(mine, ns)) \in 1 .. n
  BY <1>1, LastIs
<1>4. (\E k \in mine : ms[k].thisNode) <=> (\E k \in mine : ns[k].thisNode)
  OBVIOUS
<1>. QED  BY <1>1, <1>2, <1>3, <1>4 DEF Has

LEMMA HasNext ==
  ASSUME NEW n \in Nat, NEW mine \in SUBSET (1 .. n), NEW ns, NEW ms, NEW server,
         \A k \in 1 .. n : ms[k] = ns[k], Has(server, mine, ns), DOMAIN server = Fields,
         NEW node, ms[n + 1] = node,
         localhost = NULL \/ (/\ ~Occurs(Marker, node.hostname)
                              /\ node.couchApiBase # NULL => ~Occurs(Marker, node.couchApiBase))
  PROVE  Has(Described(server, node), mine \cup {n + 1}, ms)
<1> DEFINE all == mine \cup {n + 1}
           base == WithBase(mine, ns)
           next == Described(server, node)
<1>1. Has(server, mine, ms)
  BY HasKept
<1>2. LastOf(all) = n + 1
  <2>1. all \in SUBSET (1 .. n + 1) /\ n + 1 \in all
    OBVIOUS
  <2> HIDE DEF all
  <2>. QED  BY <2>1, LastNext
<1>3. /\ substitute_localhost_marker(strdup(node.hostname)) = strdup(node.hostname)
      /\ node.couchApiBase # NULL =>
           substitute_localhost_marker(strdup(node.couchApiBase)) = strdup(node.couchApiBase)
  BY DEF substitute_localhost_marker, strdup
<1>4. /\ next.rest_api_authority = substitute_localhost_marker(strdup(node.hostname))
      /\ next.couchdb_api_base = IF node.couchApiBase = NULL THEN server.couchdb_api_base
                                 ELSE substitute_localhost_marker(strdup(node.couchApiBase))
      /\ next.config_node = IF node.thisNode THEN 1 ELSE server.config_node
  BY DEF Described, Fields
<1>5. next.rest_api_authority = IF all = {} THEN NULL ELSE strdup(ms[LastOf(all)].hostname)
  BY <1>2, <1>3, <1>4
<1>6. next.couchdb_api_base =
        IF WithBase(all, ms) = {} THEN NULL ELSE strdup(ms[LastOf(WithBase(all, ms))].couchApiBase)
  <2>1. CASE node.couchApiBase = NULL
    <3>1. WithBase(all, ms) = WithBase(mine, ms)
      BY <2>1 DEF WithBase
    <3>2. next.couchdb_api_base = server.couchdb_api_base
      BY <1>4, <2>1
    <3>. QED  BY <1>1, <3>1, <3>2 DEF Has
  <2>2. CASE node.couchApiBase # NULL
    <3>1. n + 1 \in WithBase(all, ms)
      BY <2>2 DEF WithBase
    <3>2. WithBase(all, ms) \in SUBSET (1 .. n + 1)
      <4>1. all \subseteq 1 .. n + 1
        OBVIOUS
      <4>2. WithBase(all, ms) \subseteq all
        BY DEF WithBase
      <4>. QED  BY <4>1, <4>2
    <3> HIDE DEF all
    <3>3. LastOf(WithBase(all, ms)) = n + 1
      BY <3>1, <3>2, LastNext
    <3>4. next.couchdb_api_base = strdup(node.couchApiBase)
      BY <1>3, <1>4, <2>2
    <3>. QED  BY <3>1, <3>3, <3>4
  <2>. QED  BY <2>1, <2>2
<1>7. next.config_node = IF \E k \in all : ms[k].thisNode THEN 1 ELSE 0
  <2>1. CASE node.thisNode
    BY <1>4, <2>1
  <2>2. CASE ~node.thisNode
    <3>1. (\E k \in all : ms[k].thisNode) <=> (\E k \in mine : ms[k].thisNode)
      BY <2>2
    <3>2. next.config_node = server.config_node
      BY <1>4, <2>2
    <3>. QED  BY <1>1, <3>1, <3>2 DEF Has
  <2>. QED  BY <2>1, <2>2
<1>. QED  BY <1>5, <1>6, <1>7 DEF Has

-------------------------------------------------------------------------------
(* One turn of update_server_info keeps the property. *)
LEMMA NodeFound ==
  ASSUME Typed, Stored, NodesFindTheirServers, update_server_info
  PROVE  NodesFindTheirServers'
<1> DEFINE n == Len(nodes)
<1>0. PICK node \in Node :
        /\ nodes' = Append(nodes, node)
        /\ \E idx \in lookup_server_struct(node) :
             servers' = IF idx = 0 THEN servers
                        ELSE [servers EXCEPT ![idx] = Described(@, node)]
  BY DEF update_server_info
<1>1. PICK idx \in lookup_server_struct(node) :
        servers' = IF idx = 0 THEN servers
                   ELSE [servers EXCEPT ![idx] = Described(@, node)]
  BY <1>0
<1>2. localhost' = localhost /\ list' = list
  BY DEF update_server_info
<1>3. /\ n \in Nat /\ DOMAIN nodes = 1 .. n /\ DOMAIN nodes' = 1 .. n + 1
      /\ \A k \in 1 .. n : nodes'[k] = nodes[k]
      /\ nodes'[n + 1] = node
      /\ Len(list) \in Nat /\ DOMAIN list = 1 .. Len(list) /\ DOMAIN servers = 1 .. Len(list)
      /\ DOMAIN servers' = DOMAIN servers
  BY <1>0, <1>1 DEF Typed
<1> HIDE DEF n
<1>. SUFFICES ASSUME Quiet', NEW i \in 1 .. Len(list)
              PROVE  Has(servers'[i], NodesOf(i)', nodes')
  <2>1. NodesFindTheirServers' <=>
          (Quiet' => \A i \in DOMAIN servers' : Has(servers'[i], NodesOf(i)', nodes'))
    BY FindMeansHas, Zenon DEF NodesFindTheirServers, Quiet, Has, WithBase
  <2>. QED  BY <1>3, <2>1
<1>4. /\ Quiet
      /\ node.hostname # NULL => ShortHost(node)
      /\ localhost = NULL \/
           /\ \A j \in DOMAIN list : ~Occurs(Marker, list[j])
           /\ node.hostname # NULL => ~Occurs(Marker, node.hostname)
           /\ node.couchApiBase # NULL => ~Occurs(Marker, node.couchApiBase)
  <2>1. /\ localhost = NULL \/
             /\ \A j \in DOMAIN list : ~Occurs(Marker, list[j])
             /\ \A k \in 1 .. n + 1 :
                  /\ nodes'[k].hostname # NULL => ~Occurs(Marker, nodes'[k].hostname)
                  /\ nodes'[k].couchApiBase # NULL => ~Occurs(Marker, nodes'[k].couchApiBase)
        /\ \A k \in 1 .. n + 1 : nodes'[k].hostname # NULL => ShortHost(nodes'[k])
    BY <1>2, <1>3, Zenon DEF Quiet, NoMarkerReplaced
  <2>2. n + 1 \in 1 .. n + 1 /\ \A k \in 1 .. n : k \in 1 .. n + 1
    BY <1>3
  <2>3. Quiet
    BY <1>3, <2>1, <2>2, Zenon DEF Quiet, NoMarkerReplaced
  <2>. QED  BY <1>3, <2>1, <2>2, <2>3, Zenon
<1>5. Has(servers[i], NodesOf(i), nodes)
  BY <1>3, <1>4, FindMeansHas
<1>6. NodesOf(i) \in SUBSET (1 .. n)
  BY <1>3 DEF NodesOf
<1>7. \A k \in 1 .. n : k \in NodesOf(i)' <=> k \in NodesOf(i)
  BY <1>2, <1>3 DEF NodesOf
<1>8. n + 1 \in NodesOf(i)' <=> /\ node.hostname # NULL
                                /\ KnownAs(node) = list[i]
                                /\ \A j \in 1 .. i - 1 : list[j] # list[i]
  BY <1>2, <1>3 DEF NodesOf
<1>9. NodesOf(i)' \in SUBSET (1 .. n + 1)
  BY <1>3 DEF NodesOf
<1>10. CASE node.hostname = NULL
  <2>1. idx = 0
    BY <1>1, <1>10 DEF lookup_server_struct
  <2>2. servers' = servers
    BY <1>1, <2>1
  <2>3. n + 1 \notin NodesOf(i)'
    BY <1>8, <1>10
  <2>4. NodesOf(i)' = NodesOf(i)
    BY <1>3, <1>6, <1>7, <1>9, <2>3
  <2>. QED  BY <1>3, <1>5, <1>6, <2>2, <2>4, HasKept
<1>11. CASE node.hostname # NULL
  <2>1. /\ idx \in 0 .. Len(list)
        /\ idx = 0 => \A j \in 1 .. Len(list) : list[j] # KnownAs(node)
        /\ idx # 0 => /\ list[idx] = KnownAs(node)
                      /\ \A j \in 1 .. idx - 1 : list[j] # KnownAs(node)
    BY <1>4, <1>11, LookupIs
  <2>2. CASE i = idx
    <3>1. n + 1 \in NodesOf(i)'
      BY <1>8, <1>11, <2>1, <2>2
    <3>2. NodesOf(i)' = NodesOf(i) \cup {n + 1}
      BY <1>3, <1>6, <1>7, <1>9, <3>1
    <3>3. servers'[i] = Described(servers[i], node)
      BY <1>1, <1>3, <2>2
    <3>4. DOMAIN servers[i] = Fields
      BY <1>3 DEF Stored
    <3>5. Has(Described(servers[i], node), NodesOf(i) \cup {n + 1}, nodes')
      BY <1>3, <1>4, <1>5, <1>6, <1>11, <3>4, HasNext
    <3>. QED  BY <3>2, <3>3, <3>5
  <2>3. CASE i # idx
    <3>1. n + 1 \notin NodesOf(i)'
      <4>. SUFFICES ASSUME KnownAs(node) = list[i], \A j \in 1 .. i - 1 : list[j] # list[i]
                    PROVE  FALSE
        BY <1>8
      <4>1. idx # 0
        BY <2>1
      <4>2. ~(idx < i)
        BY <1>3, <2>1, <4>1
      <4>3. ~(i < idx)
        BY <1>3, <2>1, <4>1
      <4>. QED  BY <1>3, <2>1, <2>3, <4>2, <4>3
    <3>2. NodesOf(i)' = NodesOf(i)
      BY <1>3, <1>6, <1>7, <1>9, <3>1
    <3>3. servers'[i] = servers[i]
      BY <1>1, <1>3, <2>3
    <3>. QED  BY <1>3, <1>5, <1>6, <3>2, <3>3, HasKept
  <2>. QED  BY <2>2, <2>3
<1>. QED  BY <1>10, <1>11

(* While the list is read nothing has been described. *)
LEMMA NothingFound == Stored /\ nodes = <<>> /\ pc = "servers" => NodesFindTheirServers
<1>. SUFFICES ASSUME Stored, nodes = <<>>, pc = "servers", NEW i \in DOMAIN servers
              PROVE  Has(servers[i], NodesOf(i), nodes)
  BY FindMeansHas
<1>1. NodesOf(i) = {}
  BY DEF NodesOf
<1>2. WithBase(NodesOf(i), nodes) = {}
  BY <1>1 DEF WithBase
<1>3. ~\E k \in NodesOf(i) : nodes[k].thisNode
  BY <1>1
<1>. QED  BY <1>1, <1>2, <1>3 DEF Has, Stored

(* A server is described by the nodes of its own host and port and by no     *)
(* others, the last of them counting and the first of several equal entries  *)
(* of the list, for hosts that fit the buffer and where nothing was replaced *)
(* (update_server_info, lookup_server_struct). *)
THEOREM NodesFound == Spec => []NodesFindTheirServers
<1>1. Typed /\ Stored /\ Init => NodesFindTheirServers
  BY NothingFound DEF Init
<1>2. Typed /\ Typed' /\ Stored /\ Stored' /\ NodesFindTheirServers /\ [Next]_vars => NodesFindTheirServers'
  <2>. SUFFICES ASSUME Typed, Typed', Stored, Stored', NodesFindTheirServers, [Next]_vars
                PROVE  NodesFindTheirServers'
    OBVIOUS
  <2>1. CASE populate_servers
    <3>1. pc' = "servers"
      BY <2>1 DEF populate_servers
    <3>2. nodes' = <<>>
      BY <3>1 DEF Typed
    <3>3. (Stored /\ nodes = <<>> /\ pc = "servers" => NodesFindTheirServers)'
      BY NothingFound, PTL
    <3>. QED  BY <3>1, <3>2, <3>3
  <2>2. CASE update_server_info
    BY <2>2, NodeFound
  <2>3. CASE NodesFollow \/ EndOfNodes \/ UNCHANGED vars
    <3>1. localhost' = localhost /\ list' = list /\ servers' = servers /\ nodes' = nodes
      BY <2>3 DEF NodesFollow, EndOfNodes, vars
    <3>2. Quiet' <=> Quiet
      BY <3>1 DEF Quiet, NoMarkerReplaced
    <3>3. \A i : NodesOf(i)' = NodesOf(i)
      BY <3>1 DEF NodesOf
    <3>4. NodesFindTheirServers' <=>
            (Quiet' => \A i \in DOMAIN servers' : Has(servers'[i], NodesOf(i)', nodes'))
      BY FindMeansHas, Zenon DEF NodesFindTheirServers, Quiet, Has, WithBase
    <3>. QED  BY <3>1, <3>2, <3>3, <3>4, FindMeansHas
  <2>. QED  BY <2>1, <2>2, <2>3 DEF Next
<1>. QED  BY <1>1, <1>2, TypedAlways, StoredAlways, PTL DEF Spec
=================================================================================
