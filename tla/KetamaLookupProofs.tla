--------------------------- MODULE KetamaLookupProofs ---------------------------
(***************************************************************************)
(* The ketama lookup is right on continua of every size.                   *)
(***************************************************************************)
EXTENDS KetamaLookup, TLAPS

(* What the loop knows between turns: everything below lowp is too small,    *)
(* and highp, once moved, is an item that is large enough (the loop goes     *)
(* left only when the item before the middle is).  Hence the answer lies     *)
(* between the limits, and the limits cross only for digest 0.               *)
LoopInv ==
  pc = "search" =>
    /\ lowp <= highp
    /\ \A i \in 0 .. lowp - 1 : continuum[i].point < digest
    /\ highp < endp => digest <= continuum[highp].point

Inv ==
  /\ TypeOK
  /\ Sorted(continuum, NumContinuum)
  /\ LoopInv
  /\ NearestServer

(* The middle lies between the limits, and at the upper one only if they meet. *)
LEMMA Middle ==
  ASSUME TypeOK, lowp <= highp
  PROVE  /\ midp \in lowp .. highp
         /\ midp \in 0 .. endp
         /\ midp = highp => lowp = highp
         /\ 2 * (highp - midp) <= highp - lowp + 1
         /\ 2 * (midp - lowp) <= highp - lowp + 1
BY LookupAssumption DEF TypeOK, midp, endp

(* The items the loop looks at have points. *)
LEMMA MidTypes ==
  ASSUME TypeOK, lowp <= highp, ~AtEnd
  PROVE  /\ midp \in Cells
         /\ mid \in Points
         /\ prev \in Points
         /\ midp # 0 => midp - 1 \in Cells
<1>1. midp \in 0 .. endp /\ midp # endp
  BY Middle DEF AtEnd
<1>2. midp \in Cells /\ (midp # 0 => midp - 1 \in Cells)
  BY <1>1, LookupAssumption DEF Cells, endp
<1>3. \A i \in Cells : continuum[i].point \in Points
  BY DEF TypeOK, Item
<1>4. 0 \in Points
  BY LookupAssumption DEF Points
<1>. QED  BY <1>2, <1>3, <1>4 DEF mid, prev

LEMMA InvInit == Init => Inv
BY LookupAssumption
DEF Init, Inv, TypeOK, LoopInv, NearestServer, Points, Indexes, Item, endp, Cells

-------------------------------------------------------------------------------
(* The three ways out of the loop answer the successor. *)

LEMMA RollBackIsRight ==
  ASSUME Inv, RollBack
  PROVE  IsSuccessor(continuum, NumContinuum, digest, 0)
<1>1. lowp = endp
  <2>1. lowp <= highp /\ midp = highp
    BY Middle, LookupAssumption DEF Inv, LoopInv, RollBack, AtEnd, TypeOK, endp
  <2>. QED  BY <2>1, Middle DEF Inv, RollBack, AtEnd
<1>. QED  BY <1>1 DEF Inv, LoopInv, RollBack, IsSuccessor, endp

LEMMA HitIsRight ==
  ASSUME Inv, Hit
  PROVE  midp \in Cells /\ IsSuccessor(continuum, NumContinuum, digest, midp)
<1>1. TypeOK /\ lowp <= highp /\ ~AtEnd /\ IsNearest
  BY DEF Inv, LoopInv, Hit
<1>2. midp \in Cells /\ (midp # 0 => midp - 1 \in Cells)
  BY <1>1, MidTypes
<1>3. digest <= continuum[midp].point
  BY <1>1 DEF IsNearest, mid
<1>4. ASSUME NEW j \in 0 .. midp - 1
      PROVE  continuum[j].point < digest
  <2>1. j \in Cells /\ midp - 1 \in Cells /\ j <= midp - 1 /\ midp # 0
    BY <1>2, <1>4, LookupAssumption DEF Cells
  <2>2. continuum[j].point <= continuum[midp - 1].point
    BY <2>1 DEF Inv, Sorted, Cells
  <2>3. continuum[midp - 1].point < digest
    BY <1>1, <2>1 DEF IsNearest, prev, TypeOK, Item, Points
  <2>4. continuum[j].point \in Int /\ continuum[midp - 1].point \in Int /\ digest \in Int
    <3>1. \A i \in Cells : continuum[i].point \in Points
      BY <1>1 DEF TypeOK, Item
    <3>2. \A p \in Points : p \in Int
      BY LookupAssumption DEF Points
    <3>. QED  BY <1>1, <2>1, <3>1, <3>2 DEF TypeOK
  <2>. QED  BY <2>2, <2>3, <2>4
<1>. QED  BY <1>2, <1>3, <1>4 DEF IsSuccessor

(* The limits cross only when every item is large enough. *)
LEMMA CrossingIsRight ==
  ASSUME Inv, Narrow, Empty(Limits)
  PROVE  IsSuccessor(continuum, NumContinuum, digest, 0)
<1>1. TypeOK /\ lowp <= highp /\ ~AtEnd /\ ~IsNearest /\ pc = "search"
  BY DEF Inv, LoopInv, Narrow
<1>2. /\ midp \in Cells
      /\ mid \in Points
      /\ prev \in Points
      /\ midp # 0 => midp - 1 \in Cells
      /\ digest \in Points
  BY <1>1, MidTypes DEF TypeOK
<1>3. /\ midp \in lowp .. highp
      /\ midp = highp => lowp = highp
      /\ lowp \in Int /\ highp \in Int /\ midp \in Int
      /\ highp <= endp
  BY <1>1, Middle, LookupAssumption DEF TypeOK, endp
<1>4. CASE mid < digest
  <2>1. midp + 1 > highp
    BY <1>4 DEF Empty, Limits
  <2>2. midp = highp
    BY <1>3, <2>1
  <2>3. highp < endp
    BY <1>1, <1>3, <2>2, LookupAssumption DEF AtEnd, endp
  <2>4. digest <= mid
    BY <1>1, <2>2, <2>3 DEF Inv, LoopInv, mid
  <2>. QED  BY <1>2, <1>4, <2>4 DEF Points
<1>5. CASE ~(mid < digest)
  <2>1. lowp > midp - 1
    BY <1>5 DEF Empty, Limits
  <2>2. midp = lowp
    BY <1>3, <2>1
  <2>3. digest <= mid /\ digest <= prev
    BY <1>1, <1>2, <1>5 DEF IsNearest, Points
  <2>4. midp = 0
    <3>. SUFFICES ASSUME midp # 0 PROVE FALSE
      OBVIOUS
    <3>1. midp - 1 \in 0 .. lowp - 1
      BY <1>2, <2>2 DEF Cells
    <3>2. prev < digest
      BY <1>1, <3>1 DEF Inv, LoopInv, prev
    <3>. QED  BY <1>2, <2>3, <3>2 DEF Points
  <2>5. digest <= continuum[0].point
    BY <2>3, <2>4 DEF mid
  <2>. QED  BY <2>5 DEF IsSuccessor
<1>. QED  BY <1>4, <1>5

-------------------------------------------------------------------------------
(* A turn that goes on keeps the answer between the limits. *)
LEMMA NarrowKeepsLoopInv ==
  ASSUME Inv, Narrow, ~Empty(Limits)
  PROVE  /\ TypeOK'
         /\ LoopInv'
         /\ pc' = "search"
<1>1. TypeOK /\ lowp <= highp /\ ~AtEnd /\ ~IsNearest /\ pc = "search"
  BY DEF Inv, LoopInv, Narrow
<1>2. /\ midp \in Cells
      /\ mid \in Points
      /\ prev \in Points
      /\ midp # 0 => midp - 1 \in Cells
      /\ digest \in Points
  BY <1>1, MidTypes DEF TypeOK
<1>3. /\ midp \in lowp .. highp
      /\ lowp \in 0 .. endp /\ highp \in -1 .. endp
  BY <1>1, Middle DEF TypeOK
<1>4. /\ lowp' = Limits.low /\ highp' = Limits.high
      /\ UNCHANGED <<continuum, digest, server_idx, pc>>
  BY DEF Narrow
<1>5. CASE mid < digest
  <2>1. lowp' = midp + 1 /\ highp' = highp
    BY <1>4, <1>5 DEF Limits
  <2>2. lowp' <= highp'
    BY <1>2, <1>3, <1>4, <2>1, LookupAssumption DEF Empty, Cells, endp
  <2>3. TypeOK'
    BY <1>1, <1>2, <1>4, <2>1, LookupAssumption DEF TypeOK, Cells, endp
  <2>4. ASSUME NEW i \in 0 .. midp
        PROVE  continuum[i].point < digest
    <3>1. i \in Cells /\ i <= midp
      BY <1>2, LookupAssumption DEF Cells
    <3>2. continuum[i].point <= mid
      BY <1>2, <3>1 DEF Inv, Sorted, Cells, mid
    <3>. QED  BY <1>1, <1>2, <1>5, <3>1, <3>2 DEF TypeOK, Item, Points
  <2>5. 0 .. lowp' - 1 = 0 .. midp
    BY <1>2, <2>1 DEF Cells
  <2>6. highp' < endp => digest <= continuum[highp'].point
    BY <1>1, <2>1 DEF Inv, LoopInv
  <2>. QED  BY <1>1, <1>4, <2>2, <2>3, <2>4, <2>5, <2>6 DEF LoopInv, endp
<1>6. CASE ~(mid < digest)
  <2>1. lowp' = lowp /\ highp' = midp - 1
    BY <1>4, <1>6 DEF Limits
  <2>2. lowp' <= highp'
    BY <1>2, <1>3, <1>4, <2>1, LookupAssumption DEF Empty, Cells, endp
  <2>3. TypeOK'
    BY <1>1, <1>2, <1>4, <2>1, LookupAssumption DEF TypeOK, Cells, endp
  <2>4. midp # 0
    BY <1>3, <2>1, <2>2
  <2>5. digest <= continuum[midp - 1].point
    BY <1>1, <1>2, <1>6, <2>4 DEF IsNearest, prev, Points
  <2>. QED  BY <1>1, <1>4, <2>1, <2>2, <2>3, <2>5 DEF Inv, LoopInv, endp
<1>7. pc' = "search"
  BY <1>1, <1>4
<1>. QED  BY <1>5, <1>6, <1>7

(* Returning item i is right if item i is the successor. *)
LEMMA ReturnIsRight ==
  ASSUME TypeOK, NEW i \in Cells, Return(i),
         IsSuccessor(continuum, NumContinuum, digest, i)
  PROVE  NearestServer' /\ LoopInv' /\ server_idx' \in Indexes /\ pc' = "done"
<1>1. server_idx' = continuum[i].index /\ pc' = "done" /\ UNCHANGED <<continuum, digest>>
  BY DEF Return
<1>2. server_idx' \in Indexes
  BY <1>1 DEF TypeOK, Item
<1>3. NearestServer'
  BY <1>1 DEF NearestServer
<1>. QED  BY <1>1, <1>2, <1>3 DEF LoopInv

LEMMA InvStep == Inv /\ [Next]_vars => Inv'
<1>. SUFFICES ASSUME Inv, [Next]_vars PROVE Inv'
  OBVIOUS
<1>0. 0 \in Cells
  BY LookupAssumption DEF Cells
<1>1. CASE Call
  BY <1>1, LookupAssumption
  DEF Call, Inv, TypeOK, LoopInv, NearestServer, endp, Sorted
<1>2. CASE RollBack
  <2>1. Return(0) /\ IsSuccessor(continuum, NumContinuum, digest, 0)
    BY <1>2, RollBackIsRight DEF RollBack
  <2>2. NearestServer' /\ LoopInv' /\ server_idx' \in Indexes /\ pc' = "done"
    BY <1>0, <2>1, ReturnIsRight DEF Inv
  <2>. QED  BY <1>2, <2>2 DEF RollBack, Return, Inv, TypeOK, Sorted
<1>3. CASE Hit
  <2>1. Return(midp) /\ midp \in Cells /\ IsSuccessor(continuum, NumContinuum, digest, midp)
    BY <1>3, HitIsRight DEF Hit
  <2>2. NearestServer' /\ LoopInv' /\ server_idx' \in Indexes /\ pc' = "done"
    BY <2>1, ReturnIsRight DEF Inv
  <2>. QED  BY <1>3, <2>2 DEF Hit, Return, Inv, TypeOK, Sorted
<1>4. CASE Narrow /\ Empty(Limits)
  <2>1. Return(0) /\ IsSuccessor(continuum, NumContinuum, digest, 0)
    BY <1>4, CrossingIsRight DEF Narrow
  <2>2. NearestServer' /\ LoopInv' /\ server_idx' \in Indexes /\ pc' = "done"
    BY <1>0, <2>1, ReturnIsRight DEF Inv
  <2>3. lowp' \in 0 .. endp /\ highp' \in -1 .. endp
    <3>1. TypeOK /\ lowp <= highp /\ ~AtEnd
      BY <1>4 DEF Inv, LoopInv, Narrow
    <3>2. midp \in Cells
      BY <3>1, MidTypes
    <3>. QED  BY <1>4, <3>1, <3>2, LookupAssumption DEF Narrow, Limits, TypeOK, Cells, endp
  <2>. QED  BY <2>1, <2>2, <2>3 DEF Return, Inv, TypeOK, Sorted
<1>5. CASE Narrow /\ ~Empty(Limits)
  <2>1. TypeOK' /\ LoopInv' /\ pc' = "search"
    BY <1>5, NarrowKeepsLoopInv
  <2>. QED  BY <1>5, <2>1 DEF Narrow, Inv, NearestServer, Sorted
<1>6. CASE UNCHANGED vars
  BY <1>6 DEF vars, Inv, TypeOK, LoopInv, NearestServer, Sorted, midp, endp
<1>. QED  BY <1>1, <1>2, <1>3, <1>4, <1>5, <1>6 DEF Next

LEMMA InvAlways == Spec => []Inv
<1>. QED  BY InvInit, InvStep, PTL DEF Spec

-------------------------------------------------------------------------------
(* The limits of the search stay within one item of the continuum, and the   *)
(* answer is an index of a server.                                           *)
THEOREM LookupTyped == Spec => []TypeOK
<1>1. Inv => TypeOK
  BY DEF Inv
<1>. QED  BY <1>1, InvAlways, PTL

(* vbucket_map answers the successor of the digest on every continuum. *)
THEOREM LookupIsNearest == Spec => []NearestServer
<1>1. Inv => NearestServer
  BY DEF Inv
<1>. QED  BY <1>1, InvAlways, PTL

(* It reads no item outside the continuum. *)
THEOREM LookupReadsInside == Spec => []ReadsInside
<1>1. Inv => ReadsInside
  BY MidTypes DEF Inv, LoopInv, ReadsInside
<1>. QED  BY <1>1, InvAlways, PTL

(* Every turn that goes on leaves at most half of the items.  With the type  *)
(* invariant this bounds the number of turns, since none leaves an empty     *)
(* range. *)
THEOREM LookupHalves == Spec => Halves
<1> DEFINE Half == pc = "search" /\ pc' = "search"
                     => 2 * (highp' - lowp' + 1) <= highp - lowp + 1
<1>1. ASSUME Inv, [Next]_vars, ~UNCHANGED vars PROVE Half
  <2>. SUFFICES ASSUME pc = "search", pc' = "search"
                PROVE  2 * (highp' - lowp' + 1) <= highp - lowp + 1
    OBVIOUS
  <2>1. Narrow
    BY <1>1 DEF Next, Call, RollBack, Hit, Return
  <2>2. TypeOK /\ lowp <= highp
    BY <1>1 DEF Inv, LoopInv
  <2>3. /\ midp \in 0 .. endp
        /\ 2 * (highp - midp) <= highp - lowp + 1
        /\ 2 * (midp - lowp) <= highp - lowp + 1
    BY <2>2, Middle
  <2>4. lowp \in Int /\ highp \in Int /\ midp \in Int
    BY <2>2, <2>3, LookupAssumption DEF TypeOK, endp
  <2>5. \/ lowp' = midp + 1 /\ highp' = highp
        \/ lowp' = lowp /\ highp' = midp - 1
    BY <2>1 DEF Narrow, Limits
  <2>. QED  BY <2>3, <2>4, <2>5
<1>2. Inv /\ [Next]_vars => [Half]_vars
  BY <1>1
<1>. QED  BY <1>2, InvAlways, PTL DEF Spec, Halves
================================================================================
