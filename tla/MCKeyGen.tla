-------------------------------- MODULE MCKeyGen --------------------------------
(* Small instances of KeyGen. *)
EXTENDS KeyGen

(* What atoi makes of the arguments: nonsense, nothing, too few, enough. *)
MCKeysPerVBucket == -1 .. 3

MCKeysToGenerate == {-1, 0, 2, 4, 6}
=================================================================================
