------------------------------- MODULE MCMD5Stream -------------------------------
(* A small instance of MD5Stream: bytes of four bits, blocks of sixteen      *)
(* bytes, words of two bytes, which the bits of four blocks fill.            *)
EXTENDS MD5Stream

MCByte == 0 .. 15

(* Neighbouring blocks differ, and so do the places of a byte in them. *)
MCStream == [i \in 1 .. 150 |-> i % 13]

(* Around the length of the padding, of a block and of a count that wraps. *)
MCPieceLens == {0, 1, 11, 12, 13, 15, 16, 17, 63, 64, 65, 81}
==================================================================================
