------------------------------ MODULE KetamaLookup ------------------------------
(***************************************************************************)
(* vbucket_map on a handle in "ketama" distribution (src/vbucket.c): the   *)
(* binary search for the server with the next point after the digest of a  *)
(* key, one action per turn of its loop.  Pointers into vb->continuum are  *)
(* offsets from beginp.  The vbucket id such a handle reports is always 0. *)
(***************************************************************************)
EXTENDS KetamaRing

CONSTANTS
  NumContinuum,   \* vb->num_continuum
  NumServers,     \* vb->num_servers
  MaxPoint        \* the largest uint32_t, 2^32 - 1 in the code

ASSUME LookupAssumption ==
  /\ NumContinuum \in Nat \ {0}
  /\ NumServers \in Nat \ {0}
  /\ MaxPoint \in Nat

VARIABLES
  continuum,    \* vb->continuum
  digest,       \* hash_ketama of the key
  lowp, highp,  \* the limits of the search
  server_idx,   \* the answer
  pc            \* "call": before the loop, "search": in it, "done": returned

vars == <<continuum, digest, lowp, highp, server_idx, pc>>

Points  == 0 .. MaxPoint
Indexes == 0 .. NumServers - 1
Cells   == 0 .. NumContinuum - 1

endp == NumContinuum

TypeOK ==
  /\ continuum \in [Cells -> Item(Indexes, Points)]
  /\ digest \in Points
  /\ lowp \in 0 .. endp
  /\ highp \in -1 .. endp
  /\ server_idx \in Indexes
  /\ pc \in {"call", "search", "done"}

(* What update_ketama_continuum leaves (module KetamaConfig), and any key. *)
Init ==
  /\ continuum \in { c \in [Cells -> Item(Indexes, Points)] : Sorted(c, NumContinuum) }
  /\ digest \in Points
  /\ lowp = 0 /\ highp = 0
  /\ server_idx = 0
  /\ pc = "call"

-------------------------------------------------------------------------------
(* highp and lowp are never this far apart the wrong way round: the division *)
(* is of a number that is not negative.                                      *)
midp == lowp + (highp - lowp) \div 2

mid  == continuum[midp].point
prev == IF midp = 0 THEN 0 ELSE continuum[midp - 1].point

(* Faulty variants: the end recognised too late; a point that equals the     *)
(* digest taken for smaller; a lower limit that stays on the middle.         *)
AtEndLate       == midp > endp
IsNearestOrOn   == digest <= mid /\ digest >= prev
LimitsStuck     == [low |-> IF mid < digest THEN midp ELSE lowp,
                    high |-> IF mid < digest THEN highp ELSE midp - 1]

AtEnd     == midp = endp
IsNearest == digest <= mid /\ digest > prev

(* The limits for the next turn. *)
Limits == [low  |-> IF mid < digest THEN midp + 1 ELSE lowp,
           high |-> IF mid < digest THEN highp ELSE midp - 1]

Empty(l) == l.low > l.high

Return(i) ==
  /\ server_idx' = continuum[i].index
  /\ pc' = "done"
  /\ UNCHANGED <<continuum, digest>>

(* Faulty variant: the upper limit one item too far. *)
CallPastEnd ==
  /\ pc = "call"
  /\ lowp' = 0
  /\ highp' = endp + 1
  /\ pc' = "search"
  /\ UNCHANGED <<continuum, digest, server_idx>>

Call ==
  /\ pc = "call"
  /\ lowp' = 0
  /\ highp' = endp
  /\ pc' = "search"
  /\ UNCHANGED <<continuum, digest, server_idx>>

RollBack ==
  /\ pc = "search"
  /\ AtEnd
  /\ Return(0)
  /\ UNCHANGED <<lowp, highp>>

Hit ==
  /\ pc = "search"
  /\ ~AtEnd
  /\ IsNearest
  /\ Return(midp)
  /\ UNCHANGED <<lowp, highp>>

Narrow ==
  /\ pc = "search"
  /\ ~AtEnd
  /\ ~IsNearest
  /\ lowp' = Limits.low
  /\ highp' = Limits.high
  /\ IF Empty(Limits)
     THEN Return(0)
     ELSE UNCHANGED <<continuum, digest, server_idx, pc>>

Next == Call \/ RollBack \/ Hit \/ Narrow

Spec == Init /\ [][Next]_vars

(* The caller's thread runs the loop. *)
FairSpec == Spec /\ WF_vars(Next)

-------------------------------------------------------------------------------
(* vbucket_map answers the server with the next point at or after the digest *)
(* of the key, or the first one past the last point, on every continuum:     *)
(* points that collide and the digests 0 and 2^32 - 1 included.              *)
NearestServer ==
  pc = "done" => \E i \in Cells : /\ IsSuccessor(continuum, NumContinuum, digest, i)
                                  /\ server_idx = continuum[i].index

(* No turn of the loop reads outside the continuum: the two items it compares *)
(* with the digest are there, although highp starts one past the last item.  *)
ReadsInside ==
  pc = "search" /\ ~AtEnd => {midp} \cup (IF midp = 0 THEN {} ELSE {midp - 1}) \subseteq Cells

(* Divide and conquer: every turn that goes on leaves at most half of the     *)
(* items, so that a lookup takes a logarithmic number of turns.              *)
Halves ==
  [][pc = "search" /\ pc' = "search"
       => 2 * (highp' - lowp' + 1) <= highp - lowp + 1]_vars

(* Every lookup returns. *)
Returns == <>(pc = "done")
================================================================================
