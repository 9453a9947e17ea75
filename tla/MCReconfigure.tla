------------------------------ MODULE MCReconfigure ------------------------------
(* A small instance of Reconfigure. *)
EXTENDS Reconfigure

CONSTANTS a, b, c    \* server names and credentials

Configuration(servers, password, masters) ==
  [servers |-> servers, user |-> NULL, password |-> password,
   vbuckets |-> [i \in DOMAIN masters |-> [master |-> masters[i], replica |-> 0]]]

(* Two servers in either order, one or two vbuckets or none (ketama), one    *)
(* without a master, a password that changes, and servers that join, leave   *)
(* or are all replaced by one that is listed twice.                          *)
MCHandles ==
  { Configuration(<<a, b>>, NULL, m) : m \in {<<0, 0>>, <<0, 1>>, <<1>>, <<-1, 1>>, <<>>} }
    \cup { Configuration(<<b, a>>, NULL, <<0, 1>>), Configuration(<<a, b>>, c, <<0, 1>>),
           Configuration(<<a, b, c>>, NULL, <<2, 1>>), Configuration(<<c, c>>, NULL, <<0, 0>>) }

MCDigests == 0 .. 1
==================================================================================
