----------------------------- MODULE MCKetamaConfig -----------------------------
(* Small instances of KetamaConfig. *)
EXTENDS KetamaConfig

CONSTANT MaxNodes    \* bound: nodes in a configuration

MCAuthorities == 1 .. 3

MCNodeLists == UNION { [1 .. n -> Authorities] : n \in 1 .. MaxNodes }
================================================================================
