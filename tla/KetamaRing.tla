------------------------------- MODULE KetamaRing -------------------------------
(***************************************************************************)
(* The ketama continuum as data: an array of n items, each a server index  *)
(* and a point, in ascending order of points, and the item that answers    *)
(* for a digest.                                                           *)
(***************************************************************************)
EXTENDS Integers

Item(Indexes, Points) == [index : Indexes, point : Points]

Sorted(c, n) ==
  \A i, j \in 0 .. n - 1 : i <= j => c[i].point <= c[j].point

(* Item i is the first one at or after digest; the ring closes, so past the  *)
(* last point it is item 0.                                                  *)
IsSuccessor(c, n, digest, i) ==
  \/ /\ digest <= c[i].point
     /\ \A j \in 0 .. i - 1 : c[j].point < digest
  \/ /\ i = 0
     /\ \A j \in 0 .. n - 1 : c[j].point < digest
================================================================================
