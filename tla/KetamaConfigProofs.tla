--------------------------- MODULE KetamaConfigProofs ---------------------------
(***************************************************************************)
(* The continuum that update_ketama_continuum builds, for any nodes, any   *)
(* number of points per server and any hash: it is sorted and complete,    *)
(* does not depend on the order of the nodes, and a change of the nodes    *)
(* moves only the keys that it must.                                       *)
(***************************************************************************)
EXTENDS KetamaConfig, FiniteSetTheorems, TLAPS

-------------------------------------------------------------------------------
(* Induction over the numbers, in the form of a set: from the least element  *)
(* that a set of numbers has. *)
LEMMA LeastNumber ==
  ASSUME NEW T \in SUBSET Nat, T # {}
  PROVE  \E m \in T : \A k \in T : m <= k
<1> DEFINE R == { ss \in Nat \X Nat : ss[1] < ss[2] }
<1>1. OpToRel(<, Nat) = R
  BY DEF OpToRel
<1>2. IsWellFoundedOn(R, Nat)
  BY <1>1, NatLessThanWellFounded, Zenon
<1>3. PICK m \in T : \A k \in T : <<k, m>> \notin R
  BY <1>2, WFMin
<1>4. ASSUME NEW k \in T
      PROVE  m <= k
  <2>1. <<k, m>> \notin R
    BY <1>3
  <2>. QED  BY <2>1
<1>. QED  BY <1>4

LEMMA Induction ==
  ASSUME NEW S, 0 \in S, \A n \in Nat : n \in S => n + 1 \in S
  PROVE  Nat \subseteq S
<1>. SUFFICES ASSUME Nat \ S # {} PROVE FALSE
  OBVIOUS
<1>1. PICK m \in Nat \ S : \A k \in Nat \ S : m <= k
  BY LeastNumber
<1>2. m # 0 /\ m - 1 \in Nat
  BY <1>1
<1>3. m - 1 \in S
  BY <1>1, <1>2
<1>4. (m - 1) + 1 \in S
  BY <1>2, <1>3
<1>. QED  BY <1>1, <1>4

-------------------------------------------------------------------------------
(* What qsort leaves.  The lists it picks from grow by one index at a time,  *)
(* one of least rank among those not picked.                                 *)
Picked(o) == { o[j] : j \in DOMAIN o }

Least(S, rank) == { i \in S : \A j \in S : rank[i] <= rank[j] }

Longer(orders, rank, n) ==
  UNION { { Append(o, i) : i \in Least((0 .. n - 1) \ Picked(o), rank) } : o \in orders }

IsFirst(first, rank, n, last) ==
  first = [k \in 0 .. last |-> IF k = 0 THEN {<<>>} ELSE Longer(first[k - 1], rank, n)]

LEMMA FirstExists ==
  ASSUME NEW rank, NEW n, NEW last \in Nat
  PROVE  \E first : IsFirst(first, rank, n, last)
<1> DEFINE S == { k \in Nat : \E first : IsFirst(first, rank, n, k) }
<1>1. 0 \in S
  <2>1. IsFirst([k \in 0 .. 0 |-> {<<>>}], rank, n, 0)
    BY DEF IsFirst
  <2>. QED  BY <2>1
<1>2. ASSUME NEW m \in Nat, m \in S
      PROVE  m + 1 \in S
  <2>1. PICK f : IsFirst(f, rank, n, m)
    BY <1>2
  <2> DEFINE g == [k \in 0 .. m + 1 |-> IF k = m + 1 THEN Longer(f[m], rank, n) ELSE f[k]]
  <2>2. ASSUME NEW k \in 0 .. m + 1
        PROVE  g[k] = IF k = 0 THEN {<<>>} ELSE Longer(g[k - 1], rank, n)
    <3>1. CASE k = m + 1
      BY <3>1
    <3>2. CASE k # m + 1
      <4>1. k \in 0 .. m /\ (k # 0 => k - 1 \in 0 .. m /\ k - 1 # m + 1 /\ k - 1 \in 0 .. m + 1)
        BY <3>2
      <4>. QED  BY <2>1, <3>2, <4>1 DEF IsFirst
    <3>. QED  BY <3>1, <3>2
  <2>3. IsFirst(g, rank, n, m + 1)
    <3>1. g = [k \in 0 .. m + 1 |-> g[k]]
      OBVIOUS
    <3> HIDE DEF g
    <3>. QED  BY <2>2, <3>1 DEF IsFirst
  <2>. QED  BY <2>3
<1> HIDE DEF S
<1>3. Nat \subseteq S
  BY <1>1, <1>2, Induction
<1>. QED  BY <1>3 DEF S

LEMMA QsortIsFirst ==
  ASSUME NEW rank, NEW n \in Nat
  PROVE  \E first : IsFirst(first, rank, n, n) /\ QsortOrders(rank, n) = first[n]
<1>1. \E first : IsFirst(first, rank, n, n)
  BY FirstExists
<1>2. QsortOrders(rank, n) = (CHOOSE first : IsFirst(first, rank, n, n))[n]
  BY DEF QsortOrders, IsFirst, Longer, Least, Picked
<1>. QED  BY <1>1, <1>2

(* A list of k indices, sorted, none of them twice, and none left out that   *)
(* is smaller than one of them. *)
Partial(o, rank, n, k) ==
  /\ o \in Seq(0 .. n - 1) /\ Len(o) = k
  /\ \A i, j \in 1 .. k : i < j => o[i] # o[j] /\ rank[o[i]] <= rank[o[j]]
  /\ \A j \in 1 .. k, r \in (0 .. n - 1) \ Picked(o) : rank[o[j]] <= rank[r]

LEMMA PartialGrows ==
  ASSUME NEW rank, NEW n \in Nat, NEW k \in Nat, NEW o, Partial(o, rank, n, k),
         NEW new \in Least((0 .. n - 1) \ Picked(o), rank)
  PROVE  Partial(Append(o, new), rank, n, k + 1)
<1> DEFINE p == Append(o, new)
<1>1. o \in Seq(0 .. n - 1) /\ Len(o) = k /\ DOMAIN o = 1 .. k
  BY DEF Partial
<1>2. /\ new \in 0 .. n - 1 /\ new \notin Picked(o)
      /\ \A r \in (0 .. n - 1) \ Picked(o) : rank[new] <= rank[r]
  BY DEF Least
<1>3. /\ p \in Seq(0 .. n - 1) /\ Len(p) = k + 1 /\ DOMAIN p = 1 .. k + 1
      /\ \A j \in 1 .. k : p[j] = o[j]
      /\ p[k + 1] = new
  BY <1>1, <1>2
<1> HIDE DEF p
<1>4. ASSUME NEW i \in 1 .. k + 1, NEW j \in 1 .. k + 1, i < j
      PROVE  p[i] # p[j] /\ rank[p[i]] <= rank[p[j]]
  <2>1. i \in 1 .. k
    BY <1>4
  <2>2. CASE j = k + 1
    <3>1. o[i] \in Picked(o)
      BY <1>1, <2>1 DEF Picked
    <3>2. rank[o[i]] <= rank[new]
      BY <1>2, <2>1 DEF Partial
    <3>. QED  BY <1>2, <1>3, <2>1, <2>2, <3>1, <3>2
  <2>3. CASE j # k + 1
    <3>1. j \in 1 .. k
      BY <2>3
    <3>. QED  BY <1>3, <1>4, <2>1, <3>1 DEF Partial
  <2>. QED  BY <2>2, <2>3
<1>5. ASSUME NEW j \in 1 .. k + 1, NEW r \in (0 .. n - 1) \ Picked(p)
      PROVE  rank[p[j]] <= rank[r]
  <2>1. r \in (0 .. n - 1) \ Picked(o)
    <3>1. ASSUME NEW x \in Picked(o)
          PROVE  x \in Picked(p)
      <4>1. PICK i \in 1 .. k : x = o[i]
        BY <1>1 DEF Picked
      <4>2. i \in DOMAIN p /\ p[i] = x
        BY ONLY k \in Nat, i \in 1 .. k, <1>3, <4>1
      <4>. QED  BY ONLY <4>2, Zenon DEF Picked
    <3>. QED  BY <3>1
  <2>2. CASE j = k + 1
    BY <1>2, <1>3, <2>1, <2>2
  <2>3. CASE j # k + 1
    <3>1. j \in 1 .. k
      BY <2>3
    <3>. QED  BY <1>3, <2>1, <3>1 DEF Partial
  <2>. QED  BY <2>2, <2>3
<1>. QED  BY <1>3, <1>4, <1>5 DEF Partial, p

LEMMA FirstPartial ==
  ASSUME NEW rank, NEW n \in Nat, NEW first, IsFirst(first, rank, n, n)
  PROVE  \A k \in 0 .. n : \A o \in first[k] : Partial(o, rank, n, k)
<1> DEFINE S == { k \in Nat : k <= n => \A o \in first[k] : Partial(o, rank, n, k) }
<1>1. 0 \in S
  <2>1. first[0] = {<<>>}
    BY DEF IsFirst
  <2>2. Partial(<<>>, rank, n, 0)
    BY DEF Partial
  <2>. QED  BY <2>1, <2>2
<1>2. ASSUME NEW k \in Nat, k \in S
      PROVE  k + 1 \in S
  <2>. SUFFICES ASSUME k + 1 <= n, NEW p \in first[k + 1] PROVE Partial(p, rank, n, k + 1)
    OBVIOUS
  <2>1. first[k + 1] = Longer(first[k], rank, n)
    <3>1. k + 1 \in 0 .. n /\ k + 1 # 0 /\ (k + 1) - 1 = k
      OBVIOUS
    <3>. QED  BY <3>1 DEF IsFirst
  <2>2. PICK o \in first[k] : \E new \in Least((0 .. n - 1) \ Picked(o), rank) : p = Append(o, new)
    BY <2>1 DEF Longer
  <2>3. Partial(o, rank, n, k)
    BY <1>2
  <2>. QED  BY <2>2, <2>3, PartialGrows
<1> HIDE DEF S
<1>3. Nat \subseteq S
  BY <1>1, <1>2, Induction
<1>. QED  BY <1>3 DEF S

LEMMA IntervalSizes ==
  ASSUME NEW n \in Nat
  PROVE  /\ IsFiniteSet(0 .. n - 1) /\ Cardinality(0 .. n - 1) = n
         /\ IsFiniteSet(1 .. n) /\ Cardinality(1 .. n) = n
BY FS_Interval

(* What the continuum needs of qsort: every entry once, in ascending order. *)
IsOrder(o, rank, n) ==
  /\ o \in [1 .. n -> 0 .. n - 1]
  /\ \A i, j \in 1 .. n : o[i] = o[j] => i = j
  /\ \A pp \in 0 .. n - 1 : \E j \in 1 .. n : o[j] = pp
  /\ \A i, j \in 1 .. n : i < j => rank[o[i]] <= rank[o[j]]

LEMMA QsortSorts ==
  ASSUME NEW rank, NEW n \in Nat, NEW o \in QsortOrders(rank, n)
  PROVE  IsOrder(o, rank, n)
<1>1. Partial(o, rank, n, n)
  BY QsortIsFirst, FirstPartial
<1>2. o \in [1 .. n -> 0 .. n - 1]
  BY <1>1 DEF Partial
<1>3. \A i, j \in 1 .. n : o[i] = o[j] => i = j
  BY <1>1 DEF Partial
<1>4. o \in Surjection(1 .. n, 0 .. n - 1)
  <2>1. o \in Injection(1 .. n, 0 .. n - 1)
    BY <1>2, <1>3 DEF Injection, IsInjective
  <2>. QED  BY <2>1, IntervalSizes, FS_Injection
<1>. QED  BY <1>1, <1>2, <1>3, <1>4 DEF IsOrder, Partial, Surjection

(* And it does return. *)
LEMMA QsortReturns ==
  ASSUME NEW n \in Nat, NEW rank \in [0 .. n - 1 -> Nat]
  PROVE  QsortOrders(rank, n) # {}
<1>1. PICK first : IsFirst(first, rank, n, n) /\ QsortOrders(rank, n) = first[n]
  BY QsortIsFirst
<1> DEFINE S == { k \in Nat : k <= n => first[k] # {} }
<1>2. 0 \in S
  BY <1>1 DEF IsFirst
<1>3. ASSUME NEW k \in Nat, k \in S
      PROVE  k + 1 \in S
  <2>. SUFFICES ASSUME k + 1 <= n PROVE first[k + 1] # {}
    OBVIOUS
  <2>1. PICK o \in first[k] : Partial(o, rank, n, k)
    BY <1>1, <1>3, FirstPartial
  <2> DEFINE rest == (0 .. n - 1) \ Picked(o)
  <2>2. rest # {}
    <3>. SUFFICES ASSUME rest = {} PROVE FALSE
      OBVIOUS
    <3>1. o \in Surjection(1 .. k, 0 .. n - 1)
      <4>1. o \in [1 .. k -> 0 .. n - 1] /\ DOMAIN o = 1 .. k
        BY <2>1 DEF Partial
      <4>2. \A pp \in 0 .. n - 1 : \E j \in 1 .. k : o[j] = pp
        BY <4>1 DEF Picked
      <4>. QED  BY <4>1, <4>2 DEF Surjection
    <3>2. Cardinality(0 .. n - 1) <= Cardinality(1 .. k)
      BY <3>1, IntervalSizes, FS_Surjection
    <3>3. Cardinality(0 .. n - 1) = n
      BY IntervalSizes
    <3>4. Cardinality(1 .. k) = k
      BY IntervalSizes
    <3>. QED  BY <3>2, <3>3, <3>4
  <2>3. { rank[i] : i \in rest } \subseteq Nat /\ { rank[i] : i \in rest } # {}
    BY <2>2
  <2>4. PICK least \in { rank[i] : i \in rest } : \A m \in { rank[i] : i \in rest } : least <= m
    BY <2>3, LeastNumber
  <2>5. PICK i \in rest : rank[i] = least
    BY <2>4
  <2>6. i \in Least((0 .. n - 1) \ Picked(o), rank)
    BY <2>4, <2>5 DEF Least
  <2>7. Append(o, i) \in Longer(first[k], rank, n)
    <3>1. Append(o, i) \in { Append(o, j) : j \in Least((0 .. n - 1) \ Picked(o), rank) }
      BY <2>6
    <3>. QED  BY <3>1 DEF Longer
  <2>8. first[k + 1] = Longer(first[k], rank, n)
    <3>1. k + 1 \in 0 .. n /\ k + 1 # 0 /\ (k + 1) - 1 = k
      OBVIOUS
    <3>. QED  BY <1>1, <3>1 DEF IsFirst
  <2>. QED  BY <2>7, <2>8
<1> HIDE DEF S
<1>4. Nat \subseteq S
  BY <1>2, <1>3, Induction
<1>. QED  BY <1>1, <1>4 DEF S

-------------------------------------------------------------------------------
(* The same, for arrays numbered from zero. *)
Rearranges(q, n) ==
  /\ q \in [0 .. n - 1 -> 0 .. n - 1]
  /\ \A i, j \in 0 .. n - 1 : q[i] = q[j] => i = j
  /\ \A pp \in 0 .. n - 1 : \E i \in 0 .. n - 1 : q[i] = pp

LEMMA OrderRearranges ==
  ASSUME NEW n \in Nat, NEW rank, NEW o, IsOrder(o, rank, n)
  PROVE  LET q == [i \in 0 .. n - 1 |-> o[i + 1]]
         IN  /\ Rearranges(q, n)
             /\ \A i, j \in 0 .. n - 1 : i < j => rank[q[i]] <= rank[q[j]]
<1> DEFINE q == [i \in 0 .. n - 1 |-> o[i + 1]]
<1>1. \A i \in 0 .. n - 1 : i + 1 \in 1 .. n /\ q[i] = o[i + 1] /\ q[i] \in 0 .. n - 1
  BY DEF IsOrder
<1>2. q \in [0 .. n - 1 -> 0 .. n - 1]
  BY <1>1
<1>3. ASSUME NEW pp \in 0 .. n - 1
      PROVE  \E i \in 0 .. n - 1 : q[i] = pp
  <2>1. PICK j \in 1 .. n : o[j] = pp
    BY DEF IsOrder
  <2>2. j - 1 \in 0 .. n - 1 /\ (j - 1) + 1 = j
    OBVIOUS
  <2>. QED  BY <1>1, <2>1, <2>2
<1> HIDE DEF q
<1>4. \A i, j \in 0 .. n - 1 : q[i] = q[j] => i = j
  BY <1>1 DEF IsOrder
<1>5. ASSUME NEW i \in 0 .. n - 1, NEW j \in 0 .. n - 1, i < j
      PROVE  rank[q[i]] <= rank[q[j]]
  <2>1. i + 1 \in 1 .. n /\ j + 1 \in 1 .. n /\ i + 1 < j + 1
    BY <1>5
  <2>2. rank[o[i + 1]] <= rank[o[j + 1]]
    BY <2>1 DEF IsOrder
  <2>. QED  BY <1>1, <2>2
<1>. QED  BY <1>2, <1>3, <1>4, <1>5 DEF Rearranges, q

LEMMA SortOrdersRearrange ==
  ASSUME NEW n \in Nat, NEW items, NEW c \in SortOrders(items, n)
  PROVE  \E q : /\ Rearranges(q, n)
                /\ c = [k \in 0 .. n - 1 |-> items[q[k]]]
                /\ \A i, j \in 0 .. n - 1 : i < j => c[i].point <= c[j].point
<1> DEFINE rank == [k \in 0 .. n - 1 |-> items[k].point]
<1>1. PICK o \in QsortOrders(rank, n) : c = [k \in 0 .. n - 1 |-> items[o[k + 1]]]
  BY DEF SortOrders
<1> DEFINE q == [i \in 0 .. n - 1 |-> o[i + 1]]
<1>2. IsOrder(o, rank, n)
  <2> HIDE DEF rank
  <2>. QED  BY QsortSorts
<1>3. /\ Rearranges(q, n)
      /\ \A i, j \in 0 .. n - 1 : i < j => rank[q[i]] <= rank[q[j]]
  <2> HIDE DEF rank
  <2>. QED  BY <1>2, OrderRearranges
<1>4. c = [k \in 0 .. n - 1 |-> items[q[k]]]
  BY <1>1
<1>5. \A i \in 0 .. n - 1 : q[i] \in 0 .. n - 1
  BY <1>3 DEF Rearranges
<1> HIDE DEF q
<1>6. \A i \in 0 .. n - 1 : rank[q[i]] = c[i].point
  BY <1>4, <1>5
<1>. QED  BY <1>3, <1>4, <1>6

LEMMA SortedServersRearrange ==
  ASSUME NEW list, Len(list) \in Nat, NEW srv \in SortedServers(list)
  PROVE  \E q : /\ Rearranges(q, Len(list))
                /\ srv = [i \in 0 .. Len(list) - 1 |-> list[q[i] + 1]]
                /\ \A i, j \in 0 .. Len(list) - 1 : i < j => srv[i] <= srv[j]
<1> DEFINE n == Len(list)
           rank == [i \in 0 .. n - 1 |-> list[i + 1]]
<1>1. PICK o \in QsortOrders(rank, n) : srv = [i \in 0 .. n - 1 |-> list[o[i + 1] + 1]]
  BY DEF SortedServers
<1> DEFINE q == [i \in 0 .. n - 1 |-> o[i + 1]]
<1>2. IsOrder(o, rank, n)
  <2> HIDE DEF rank
  <2>. QED  BY QsortSorts
<1>3. /\ Rearranges(q, n)
      /\ \A i, j \in 0 .. n - 1 : i < j => rank[q[i]] <= rank[q[j]]
  <2> HIDE DEF rank
  <2>. QED  BY <1>2, OrderRearranges
<1>4. srv = [i \in 0 .. n - 1 |-> list[q[i] + 1]]
  BY <1>1
<1>5. \A i \in 0 .. n - 1 : q[i] \in 0 .. n - 1
  BY <1>3 DEF Rearranges
<1> HIDE DEF q
<1>6. \A i \in 0 .. n - 1 : rank[q[i]] = srv[i]
  BY <1>4, <1>5
<1>. QED  BY <1>3, <1>4, <1>6

-------------------------------------------------------------------------------
(* Division: the places of the points, PointsPerServer for each server.      *)
LEMMA DivUnique ==
  ASSUME NEW d \in Nat \ {0}, NEW q \in Int, NEW r \in 0 .. d - 1
  PROVE  (q * d + r) \div d = q /\ (q * d + r) % d = r
  BY SMTT(30)

LEMMA DivNamed ==
  ASSUME NEW d \in Nat, d > 0, NEW x \in Nat, NEW q \in Int, NEW r \in Int,
         q = x \div d, r = x % d
  PROVE  q >= 0 /\ r \in 0 .. d - 1 /\ x = d * q + r
  BY SMTT(30)

LEMMA PlaceSplit ==
  ASSUME NEW d \in Nat \ {0}, NEW n \in Nat, NEW pp \in 0 .. d * n - 1
  PROVE  \E q \in 0 .. n - 1, r \in 0 .. d - 1 :
           q = pp \div d /\ r = pp % d /\ pp = d * q + r
<1>1. d > 0 /\ d \in Nat /\ d * n \in Nat /\ pp \in Nat /\ pp < d * n
  OBVIOUS
<1>2. PICK q \in Int, r \in Int : q = pp \div d /\ r = pp % d
  OBVIOUS
<1>3. q >= 0 /\ r \in 0 .. d - 1 /\ pp = d * q + r
  BY <1>1, <1>2, DivNamed
<1>4. q <= n - 1
  <2>. SUFFICES ASSUME q >= n PROVE FALSE
    BY <1>1
  <2>1. d * q >= d * n
    BY <1>1, SMTT(30)
  <2>. QED  BY <1>1, <1>3, <2>1
<1>5. q \in 0 .. n - 1
  BY <1>1, <1>3, <1>4
<1>. QED  BY ONLY <1>2, <1>3, <1>5, Zenon

LEMMA PlaceOf ==
  ASSUME NEW d \in Nat \ {0}, NEW n \in Nat, NEW ss \in 0 .. n - 1, NEW k \in 0 .. d - 1
  PROVE  /\ d * ss + k \in 0 .. d * n - 1
         /\ (d * ss + k) \div d = ss
         /\ (d * ss + k) % d = k
<1>1. ss \in Nat /\ ss + 1 <= n /\ k \in Nat /\ k < d
  OBVIOUS
<1>2. d * (ss + 1) <= d * n /\ d * (ss + 1) = d * ss + d /\ d * ss \in Nat /\ d * n \in Nat
  BY <1>1, SMTT(30)
<1>3. d * ss = ss * d
  BY <1>1
<1>4. (ss * d + k) \div d = ss /\ (ss * d + k) % d = k
  BY DivUnique
<1>. QED  BY <1>1, <1>2, <1>3, <1>4

-------------------------------------------------------------------------------
(* The invariant: servers and continuum are what the two calls of qsort made *)
(* of the nodes parsed last. *)
Built ==
  /\ points \in [Authorities -> [Numbers -> Points]]
  /\ nodes \in NodeLists \cup {<<>>}
  /\ servers \in SortedServers(nodes)
  /\ continuum \in SortOrders(Placed(servers, num_continuum), num_continuum)

LEMMA BuiltInit == Init => Built
<1>. SUFFICES ASSUME Init PROVE Built
  OBVIOUS
<1>1. points \in [Authorities -> [Numbers -> Points]] /\ nodes = <<>> /\ servers = <<>> /\ continuum = <<>>
  BY DEF Init
<1>2. Len(nodes) = 0 /\ num_servers = 0 /\ num_continuum = 0
  BY <1>1, ConfigAssumption DEF num_servers, num_continuum
<1>3. \A rank \in [0 .. 0 - 1 -> Nat] : QsortOrders(rank, 0) # {}
  BY QsortReturns
<1>4. 0 .. 0 - 1 = {}
  OBVIOUS
<1>5. servers \in SortedServers(nodes)
  <2>1. [i \in 0 .. 0 - 1 |-> nodes[i + 1]] \in [0 .. 0 - 1 -> Nat]
    BY <1>4
  <2>2. PICK o : o \in QsortOrders([i \in 0 .. 0 - 1 |-> nodes[i + 1]], 0)
    BY <1>3, <2>1
  <2>3. [i \in 0 .. 0 - 1 |-> nodes[o[i + 1] + 1]] = <<>>
    BY <1>4
  <2>. QED  BY <1>1, <1>2, <2>2, <2>3 DEF SortedServers
<1>6. continuum \in SortOrders(Placed(servers, num_continuum), num_continuum)
  <2> DEFINE items == Placed(servers, num_continuum)
  <2>1. [k \in 0 .. 0 - 1 |-> items[k].point] \in [0 .. 0 - 1 -> Nat]
    BY <1>4
  <2>2. PICK o : o \in QsortOrders([k \in 0 .. 0 - 1 |-> items[k].point], 0)
    BY <1>3, <2>1
  <2>3. [k \in 0 .. 0 - 1 |-> items[o[k + 1]]] = <<>>
    BY <1>4
  <2> HIDE DEF items
  <2>4. <<>> \in SortOrders(items, 0)
    BY <2>2, <2>3 DEF SortOrders
  <2>. QED  BY <1>1, <1>2, <2>4 DEF items
<1>. QED  BY <1>1, <1>5, <1>6 DEF Built

LEMMA BuiltStep == Built /\ [Next]_vars => Built'
<1>. SUFFICES ASSUME Built, [Next]_vars PROVE Built'
  OBVIOUS
<1>1. CASE Next
  <2>1. PICK list \in NodeLists : parse_ketama_config(list)
    BY <1>1 DEF Next
  <2>2. /\ nodes' = list /\ points' = points
        /\ servers' \in SortedServers(list)
        /\ continuum' \in SortOrders(Placed(servers', PointsPerServer * Len(list)), PointsPerServer * Len(list))
    BY <2>1 DEF parse_ketama_config, update_ketama_continuum
  <2>3. num_continuum' = PointsPerServer * Len(list)
    BY <2>2 DEF num_continuum, num_servers
  <2>4. \A srv, n : Placed(srv, n)' = Placed(srv, n)
    BY <2>2 DEF Placed, PointOf, NumberOf
  <2>5. (Placed(servers, num_continuum))' = Placed(servers', PointsPerServer * Len(list))
    BY <2>2, <2>3 DEF Placed, PointOf, NumberOf
  <2>. QED  BY <2>2, <2>3, <2>5 DEF Built
<1>2. CASE UNCHANGED vars
  BY <1>2 DEF Built, vars, num_continuum, num_servers, Placed, PointOf, NumberOf
<1>. QED  BY <1>1, <1>2

LEMMA BuiltAlways == Spec => []Built
<1>. QED  BY BuiltInit, BuiltStep, PTL DEF Spec

-------------------------------------------------------------------------------
(* What is known of a handle that was built. *)
LEMMA BuiltNodes ==
  ASSUME Built
  PROVE  /\ num_servers \in Nat
         /\ nodes \in [1 .. num_servers -> Authorities]
         /\ PointsPerServer \in Nat \ {0}
         /\ num_continuum \in Nat /\ num_continuum = PointsPerServer * num_servers
         /\ points \in [Authorities -> [Numbers -> Points]]
         /\ Authorities \subseteq Nat /\ Points \subseteq Nat
<1>1. nodes \in Seq(Authorities)
  <2>1. nodes = <<>> \/ nodes \in NodeLists
    BY DEF Built
  <2>2. CASE nodes = <<>>
    BY <2>2
  <2>3. CASE nodes \in NodeLists
    BY <2>3, ConfigAssumption
  <2>. QED  BY <2>1, <2>2, <2>3
<1>2. num_servers \in Nat /\ nodes \in [1 .. num_servers -> Authorities]
  BY <1>1 DEF num_servers
<1>3. PointsPerServer \in Nat \ {0} /\ Authorities \subseteq Nat
  BY ConfigAssumption
<1>4. num_continuum \in Nat /\ num_continuum = PointsPerServer * num_servers
  BY <1>2, <1>3 DEF num_continuum
<1>. QED  BY <1>2, <1>3, <1>4 DEF Built, Points

(* The servers are the nodes, in ascending order. *)
LEMMA BuiltServers ==
  ASSUME Built
  PROVE  /\ servers \in [0 .. num_servers - 1 -> Authorities]
         /\ \A i, j \in 0 .. num_servers - 1 : i <= j => servers[i] <= servers[j]
         /\ \E q : /\ Rearranges(q, num_servers)
                   /\ \A i \in 0 .. num_servers - 1 : servers[i] = nodes[q[i] + 1]
<1>1. num_servers \in Nat /\ nodes \in [1 .. num_servers -> Authorities] /\ Authorities \subseteq Nat
  BY BuiltNodes
<1>2. num_servers = Len(nodes) /\ servers \in SortedServers(nodes)
  BY DEF num_servers, Built
<1>3. PICK q : /\ Rearranges(q, num_servers)
               /\ servers = [i \in 0 .. num_servers - 1 |-> nodes[q[i] + 1]]
               /\ \A i, j \in 0 .. num_servers - 1 : i < j => servers[i] <= servers[j]
  BY <1>1, <1>2, SortedServersRearrange
<1>4. \A i \in 0 .. num_servers - 1 : q[i] + 1 \in 1 .. num_servers
  <2>1. q \in [0 .. num_servers - 1 -> 0 .. num_servers - 1]
    BY ONLY <1>3, Zenon DEF Rearranges
  <2>2. \A i \in 0 .. num_servers - 1 : q[i] \in 0 .. num_servers - 1
    BY ONLY <2>1, Zenon
  <2>3. \A m \in 0 .. num_servers - 1 : m + 1 \in 1 .. num_servers
    BY <1>1
  <2>. QED  BY ONLY <2>2, <2>3, Zenon
<1>5. servers \in [0 .. num_servers - 1 -> Authorities]
  <2>1. \A i \in 0 .. num_servers - 1 : nodes[q[i] + 1] \in Authorities
    BY ONLY <1>1, <1>4
  <2>. QED  BY ONLY <1>3, <2>1, Zenon
<1>6. ASSUME NEW i \in 0 .. num_servers - 1, NEW j \in 0 .. num_servers - 1, i <= j
      PROVE  servers[i] <= servers[j]
  <2>1. CASE i < j
    BY <1>3, <2>1
  <2>2. CASE i = j
    <3>1. servers[i] \in Nat
      BY <1>1, <1>5
    <3>. QED  BY <2>2, <3>1
  <2>. QED  BY <1>1, <1>6, <2>1, <2>2
<1>. QED  BY <1>3, <1>5, <1>6

(* The cell at which the loops write point k of server ss. *)
Cell(ss, k) == PointsPerServer * ss + k

PointAt(ss, k) == points[servers[ss]][k]

(* Cell by cell, where an item of the continuum came from. *)
IsPlacement(q) ==
  /\ Rearranges(q, num_continuum)
  /\ \A i \in 0 .. num_continuum - 1 :
       \E ss \in 0 .. num_servers - 1, k \in Numbers : q[i] = Cell(ss, k)
  /\ \A i \in 0 .. num_continuum - 1, ss \in 0 .. num_servers - 1, k \in Numbers :
       q[i] = Cell(ss, k) => continuum[i] = [index |-> ss, point |-> PointAt(ss, k)]
  /\ \A ss \in 0 .. num_servers - 1, k \in Numbers :
       \E i \in 0 .. num_continuum - 1 : q[i] = Cell(ss, k)

LEMMA CellsDiffer ==
  ASSUME Built, NEW s1 \in 0 .. num_servers - 1, NEW s2 \in 0 .. num_servers - 1,
         NEW k1 \in Numbers, NEW k2 \in Numbers, Cell(s1, k1) = Cell(s2, k2)
  PROVE  s1 = s2 /\ k1 = k2
<1>1. PointsPerServer \in Nat \ {0} /\ num_servers \in Nat
  BY BuiltNodes
<1>2. /\ Cell(s1, k1) \div PointsPerServer = s1 /\ Cell(s1, k1) % PointsPerServer = k1
      /\ Cell(s2, k2) \div PointsPerServer = s2 /\ Cell(s2, k2) % PointsPerServer = k2
  BY <1>1, PlaceOf DEF Cell, Numbers
<1>. QED  BY ONLY <1>2, Cell(s1, k1) = Cell(s2, k2), Zenon

(* The continuum is the points of the servers, in ascending order. *)
LEMMA BuiltContinuum ==
  ASSUME Built
  PROVE  /\ continuum \in [0 .. num_continuum - 1 -> Item(0 .. num_servers - 1, Points)]
         /\ Sorted(continuum, num_continuum)
         /\ \E q : IsPlacement(q)
<1> DEFINE placed == Placed(servers, num_continuum)
<1>1. /\ num_servers \in Nat /\ num_continuum \in Nat
      /\ PointsPerServer \in Nat \ {0}
      /\ num_continuum = PointsPerServer * num_servers
      /\ points \in [Authorities -> [Numbers -> Points]]
      /\ Points \subseteq Nat
  BY BuiltNodes
<1>2. servers \in [0 .. num_servers - 1 -> Authorities]
  BY BuiltServers
<1>3. PICK q : /\ Rearranges(q, num_continuum)
               /\ continuum = [k \in 0 .. num_continuum - 1 |-> placed[q[k]]]
               /\ \A i, j \in 0 .. num_continuum - 1 : i < j => continuum[i].point <= continuum[j].point
  <2> HIDE DEF placed
  <2>1. continuum \in SortOrders(placed, num_continuum)
    BY DEF Built, placed
  <2>. QED  BY <1>1, <2>1, SortOrdersRearrange
<1>4. ASSUME NEW pp \in 0 .. num_continuum - 1
      PROVE  \E ss \in 0 .. num_servers - 1, k \in Numbers : pp = Cell(ss, k)
  <2>1. pp \in 0 .. PointsPerServer * num_servers - 1
    BY <1>1
  <2>2. \E ss \in 0 .. num_servers - 1, r \in 0 .. PointsPerServer - 1 :
          ss = pp \div PointsPerServer /\ r = pp % PointsPerServer /\ pp = PointsPerServer * ss + r
    BY ONLY <1>1, <2>1, PlaceSplit
  <2>. QED  BY ONLY <2>2, Zenon DEF Cell, Numbers
<1>5. ASSUME NEW ss \in 0 .. num_servers - 1, NEW k \in Numbers
      PROVE  /\ Cell(ss, k) \in 0 .. num_continuum - 1
             /\ placed[Cell(ss, k)] = [index |-> ss, point |-> PointAt(ss, k)]
             /\ PointAt(ss, k) \in Points
  <2>1. /\ Cell(ss, k) \in 0 .. num_continuum - 1
        /\ Cell(ss, k) \div PointsPerServer = ss
        /\ Cell(ss, k) % PointsPerServer = k
    BY <1>1, PlaceOf DEF Cell, Numbers
  <2>2. placed[Cell(ss, k)] = [index |-> ss, point |-> PointAt(ss, k)]
    BY <2>1 DEF Placed, PointOf, NumberOf, PointAt
  <2>3. PointAt(ss, k) \in Points
    BY <1>1, <1>2 DEF PointAt
  <2>. QED  BY <2>1, <2>2, <2>3
<1> HIDE DEF placed
<1>6. \A i \in 0 .. num_continuum - 1 : q[i] \in 0 .. num_continuum - 1 /\ continuum[i] = placed[q[i]]
  BY <1>3 DEF Rearranges
<1>7. IsPlacement(q)
  <2>1. \A ss \in 0 .. num_servers - 1, k \in Numbers :
          \E i \in 0 .. num_continuum - 1 : q[i] = Cell(ss, k)
    BY <1>3, <1>5 DEF Rearranges
  <2>. QED  BY <1>3, <1>4, <1>5, <1>6, <2>1 DEF IsPlacement
<1>8. continuum \in [0 .. num_continuum - 1 -> Item(0 .. num_servers - 1, Points)]
  <2>1. ASSUME NEW i \in 0 .. num_continuum - 1
        PROVE  continuum[i] \in Item(0 .. num_servers - 1, Points)
    <3>1. PICK ss \in 0 .. num_servers - 1, k \in Numbers : q[i] = Cell(ss, k)
      BY <1>4, <1>6
    <3>2. continuum[i] = [index |-> ss, point |-> PointAt(ss, k)] /\ PointAt(ss, k) \in Points
      BY <1>5, <1>6, <3>1
    <3>. QED  BY <3>2 DEF Item
  <2>. QED  BY <1>3, <2>1
<1>9. Sorted(continuum, num_continuum)
  <2>. SUFFICES ASSUME NEW i \in 0 .. num_continuum - 1, NEW j \in 0 .. num_continuum - 1, i <= j
                PROVE  continuum[i].point <= continuum[j].point
    BY DEF Sorted
  <2>1. CASE i < j
    BY <1>3, <2>1
  <2>2. CASE i = j
    <3>1. continuum[i] \in Item(0 .. num_servers - 1, Points)
      BY <1>8
    <3>2. continuum[i].point \in Nat
      BY <1>1, <3>1 DEF Item
    <3>. QED  BY <2>2, <3>2
  <2>. QED  BY <1>1, <2>1, <2>2
<1>. QED  BY <1>7, <1>8, <1>9

(* Every parse leaves arrays of the announced lengths, and every item of the *)
(* continuum has the index of a server. *)
THEOREM ConfigTyped == Spec => []TypeOK
<1>1. Built => TypeOK
  <2>. SUFFICES ASSUME Built PROVE TypeOK
    OBVIOUS
  <2>1. servers \in [0 .. num_servers - 1 -> Authorities]
    BY BuiltServers
  <2>2. continuum \in [0 .. num_continuum - 1 -> Item(DOMAIN servers, Points)]
    BY <2>1, BuiltContinuum
  <2>. QED  BY <2>1, <2>2 DEF TypeOK, Built
<1>. QED  BY <1>1, BuiltAlways, PTL

(* A server has as many items at a point as the hash gave it points there.   *)
LEMMA ItemsOfServer ==
  ASSUME Built, NEW ss \in DOMAIN servers, NEW p \in Points
  PROVE  Cardinality({ i \in DOMAIN continuum : continuum[i].index = ss /\ continuum[i].point = p })
           = Cardinality({ k \in Numbers : points[servers[ss]][k] = p })
<1> DEFINE cells == { i \in DOMAIN continuum : continuum[i].index = ss /\ continuum[i].point = p }
           drawn == { k \in Numbers : points[servers[ss]][k] = p }
<1>1. /\ DOMAIN continuum = 0 .. num_continuum - 1
      /\ ss \in 0 .. num_servers - 1
      /\ num_continuum \in Nat
  BY BuiltContinuum, BuiltServers, BuiltNodes
<1>2. PICK q : IsPlacement(q)
  BY BuiltContinuum
<1>3. ASSUME NEW i \in cells
      PROVE  \E k \in drawn : q[i] = Cell(ss, k)
  <2>1. PICK s1 \in 0 .. num_servers - 1, k \in Numbers : q[i] = Cell(s1, k)
    BY <1>1, <1>2 DEF IsPlacement
  <2>2. continuum[i] = [index |-> s1, point |-> PointAt(s1, k)]
    BY <1>1, <1>2, <2>1 DEF IsPlacement
  <2>3. s1 = ss /\ PointAt(ss, k) = p
    BY <2>2
  <2>. QED  BY <2>1, <2>3 DEF PointAt
<1>4. ASSUME NEW k \in drawn
      PROVE  \E i \in cells : q[i] = Cell(ss, k)
  <2>1. PICK i \in 0 .. num_continuum - 1 : q[i] = Cell(ss, k)
    BY <1>1, <1>2 DEF IsPlacement
  <2>2. continuum[i] = [index |-> ss, point |-> PointAt(ss, k)]
    BY <1>1, <1>2, <2>1 DEF IsPlacement
  <2>. QED  BY <1>1, <2>1, <2>2 DEF PointAt
<1> DEFINE number == [i \in cells |-> CHOOSE k \in drawn : q[i] = Cell(ss, k)]
<1>5. \A i \in cells : number[i] \in drawn /\ q[i] = Cell(ss, number[i])
  BY <1>3
<1>6. number \in [cells -> drawn]
  BY <1>5
<1>7. \A i, j \in cells : q[i] = q[j] => i = j
  BY <1>1, <1>2 DEF IsPlacement, Rearranges
<1>8. \A k1, k2 \in drawn : Cell(ss, k1) = Cell(ss, k2) => k1 = k2
  BY <1>1, CellsDiffer
<1> HIDE DEF number
<1>9. number \in Bijection(cells, drawn)
  <2> HIDE DEF cells, drawn
  <2>1. \A i, j \in cells : number[i] = number[j] => i = j
    BY <1>5, <1>7
  <2>2. \A k \in drawn : \E i \in cells : number[i] = k
    BY <1>4, <1>5, <1>8
  <2>. QED  BY <1>6, <2>1, <2>2 DEF Bijection, Injection, IsInjective, Surjection
<1>10. IsFiniteSet(cells)
  BY <1>1, IntervalSizes, FS_Subset
<1> HIDE DEF cells, drawn
<1>11. Cardinality(cells) = Cardinality(drawn)
  BY <1>9, <1>10, FS_Bijection DEF ExistsBijection
<1>. QED  BY <1>11 DEF cells, drawn

(* What every parse leaves is ready for the search of vbucket_map: sorted,   *)
(* with all points of all servers on it. *)
THEOREM ContinuumIsReady == Spec => []ContinuumReady
<1>1. Built => ContinuumReady
  BY BuiltContinuum, ItemsOfServer DEF ContinuumReady
<1>. QED  BY <1>1, BuiltAlways, PTL

-------------------------------------------------------------------------------
(* The ring as a set of points, whatever the order of the servers: the point *)
(* that answers for a digest is the first one at or after it, or the first   *)
(* of all.                                                                   *)
Draws(a, p) == \E k \in Numbers : points[a][k] = p

Ring(authorities) == { p \in Points : \E a \in authorities : Draws(a, p) }

IsNext(ring, d, p) ==
  /\ p \in ring
  /\ \/ d <= p /\ \A r \in ring : d <= r => p <= r
     \/ \A r \in ring : r < d /\ p <= r

LEMMA NextUnique ==
  ASSUME NEW ring \in SUBSET Nat, NEW other \in SUBSET Nat, NEW d \in Nat,
         NEW p \in ring \cap other, NEW r \in ring \cap other,
         IsNext(ring, d, p), IsNext(other, d, r)
  PROVE  p = r
BY DEF IsNext

(* One authority answers, and it has drawn that point. *)
Owned(d) ==
  \E a \in NodeSet : \E p \in Ring(NodeSet) :
     Answer(d) = {a} /\ Draws(a, p) /\ IsNext(Ring(NodeSet), d, p)

LEMMA ServersAreNodes ==
  ASSUME Built
  PROVE  /\ \A ss \in 0 .. num_servers - 1 : servers[ss] \in NodeSet
         /\ \A a \in NodeSet : \E ss \in 0 .. num_servers - 1 : servers[ss] = a
<1>1. num_servers \in Nat /\ nodes \in [1 .. num_servers -> Authorities]
  BY BuiltNodes
<1>2. PICK q : /\ Rearranges(q, num_servers)
               /\ \A i \in 0 .. num_servers - 1 : servers[i] = nodes[q[i] + 1]
  BY BuiltServers
<1>3. ASSUME NEW ss \in 0 .. num_servers - 1
      PROVE  servers[ss] \in NodeSet
  <2>1. q[ss] \in 0 .. num_servers - 1
    BY <1>2 DEF Rearranges
  <2>2. q[ss] + 1 \in 1 .. num_servers
    BY <1>1, <2>1
  <2>. QED  BY <1>1, <1>2, <2>2 DEF NodeSet
<1>4. ASSUME NEW a \in NodeSet
      PROVE  \E ss \in 0 .. num_servers - 1 : servers[ss] = a
  <2>1. PICK i \in 1 .. num_servers : nodes[i] = a
    BY <1>1 DEF NodeSet
  <2>2. i - 1 \in 0 .. num_servers - 1 /\ (i - 1) + 1 = i
    BY <1>1
  <2>3. PICK ss \in 0 .. num_servers - 1 : q[ss] = i - 1
    BY <1>2, <2>2 DEF Rearranges
  <2>. QED  BY <1>2, <2>1, <2>2, <2>3
<1>. QED  BY <1>3, <1>4

LEMMA NodesAreServed ==
  Built => /\ \A ss \in 0 .. num_servers - 1 : servers[ss] \in NodeSet
           /\ \A a \in NodeSet : \E ss \in 0 .. num_servers - 1 : servers[ss] = a
BY ServersAreNodes

(* The points of the continuum are the ring of the nodes. *)
LEMMA ItemsAreRing ==
  ASSUME Built
  PROVE  /\ \A i \in 0 .. num_continuum - 1 :
              /\ continuum[i].point \in Ring(NodeSet)
              /\ servers[continuum[i].index] \in NodeSet
              /\ Draws(servers[continuum[i].index], continuum[i].point)
         /\ \A p \in Ring(NodeSet) : \E i \in 0 .. num_continuum - 1 : continuum[i].point = p
<1>1. continuum \in [0 .. num_continuum - 1 -> Item(0 .. num_servers - 1, Points)]
  BY BuiltContinuum
<1>2. PICK q : IsPlacement(q)
  BY BuiltContinuum
<1>3. ASSUME NEW i \in 0 .. num_continuum - 1
      PROVE  /\ continuum[i].point \in Ring(NodeSet)
             /\ servers[continuum[i].index] \in NodeSet
             /\ Draws(servers[continuum[i].index], continuum[i].point)
  <2>1. PICK ss \in 0 .. num_servers - 1, k \in Numbers : q[i] = Cell(ss, k)
    BY <1>2 DEF IsPlacement
  <2>2. continuum[i] = [index |-> ss, point |-> PointAt(ss, k)]
    BY <1>2, <2>1 DEF IsPlacement
  <2>3. continuum[i].index = ss /\ continuum[i].point = points[servers[ss]][k]
    BY <2>2 DEF PointAt
  <2>4. continuum[i].point \in Points
    BY <1>1 DEF Item
  <2>5. servers[ss] \in NodeSet
    BY ServersAreNodes
  <2>. QED  BY <2>3, <2>4, <2>5 DEF Ring, Draws
<1>4. ASSUME NEW p \in Ring(NodeSet)
      PROVE  \E i \in 0 .. num_continuum - 1 : continuum[i].point = p
  <2>1. PICK a \in NodeSet : \E k \in Numbers : points[a][k] = p
    BY DEF Ring, Draws
  <2>2. PICK k \in Numbers : points[a][k] = p
    BY <2>1
  <2>3. PICK ss \in 0 .. num_servers - 1 : servers[ss] = a
    BY ServersAreNodes
  <2>4. PICK i \in 0 .. num_continuum - 1 : q[i] = Cell(ss, k)
    BY <1>2 DEF IsPlacement
  <2>5. continuum[i] = [index |-> ss, point |-> PointAt(ss, k)]
    BY <1>2, <2>4 DEF IsPlacement
  <2>. QED  BY <2>2, <2>3, <2>5 DEF PointAt
<1>. QED  BY <1>3, <1>4

(* A ring with an item has a successor for every digest, and its point is    *)
(* the next one. *)
LEMMA SuccessorExists ==
  ASSUME NEW n \in Nat \ {0}, NEW c, \A i \in 0 .. n - 1 : c[i].point \in Nat, NEW d \in Nat
  PROVE  \E i \in 0 .. n - 1 : IsSuccessor(c, n, d, i)
<1> DEFINE T == { i \in 0 .. n - 1 : d <= c[i].point }
<1>1. CASE T = {}
  <2>1. \A i \in 0 .. n - 1 : c[i].point < d
    BY <1>1
  <2>. QED  BY <2>1 DEF IsSuccessor
<1>2. CASE T # {}
  <2>1. T \subseteq Nat
    OBVIOUS
  <2>2. PICK i \in T : \A j \in T : i <= j
    BY <1>2, <2>1, LeastNumber
  <2>3. \A j \in 0 .. i - 1 : j \in 0 .. n - 1 /\ j \notin T
    BY <2>2
  <2>4. \A j \in 0 .. i - 1 : c[j].point < d
    BY <2>3
  <2>. QED  BY <2>2, <2>4 DEF IsSuccessor
<1>. QED  BY <1>1, <1>2

LEMMA SuccessorIsNext ==
  ASSUME NEW n \in Nat, NEW c, NEW ring \in SUBSET Nat, NEW d \in Nat, Sorted(c, n),
         \A i \in 0 .. n - 1 : c[i].point \in ring,
         \A p \in ring : \E i \in 0 .. n - 1 : c[i].point = p,
         NEW i \in 0 .. n - 1, IsSuccessor(c, n, d, i)
  PROVE  IsNext(ring, d, c[i].point)
<1>1. CASE d <= c[i].point /\ \A j \in 0 .. i - 1 : c[j].point < d
  <2>1. ASSUME NEW r \in ring, d <= r
        PROVE  c[i].point <= r
    <3>1. PICK j \in 0 .. n - 1 : c[j].point = r
      OBVIOUS
    <3>2. ~(j \in 0 .. i - 1)
      BY <1>1, <2>1, <3>1
    <3>3. i <= j
      BY <3>2
    <3>. QED  BY <3>1, <3>3 DEF Sorted
  <2>. QED  BY <1>1, <2>1 DEF IsNext
<1>2. CASE i = 0 /\ \A j \in 0 .. n - 1 : c[j].point < d
  <2>1. ASSUME NEW r \in ring
        PROVE  r < d /\ c[i].point <= r
    <3>1. PICK j \in 0 .. n - 1 : c[j].point = r
      OBVIOUS
    <3>. QED  BY <1>2, <3>1 DEF Sorted
  <2>. QED  BY <2>1 DEF IsNext
<1>. QED  BY <1>1, <1>2 DEF IsSuccessor

LEMMA AnswerOwned ==
  Built /\ nodes # <<>> /\ Untied(NodeSet) => \A e \in Points : Owned(e)
<1>. SUFFICES ASSUME Built, nodes # <<>>, Untied(NodeSet), NEW d \in Points PROVE Owned(d)
  OBVIOUS
<1>1. /\ num_servers \in Nat /\ nodes \in [1 .. num_servers -> Authorities]
      /\ PointsPerServer \in Nat \ {0} /\ num_continuum \in Nat
      /\ num_continuum = PointsPerServer * num_servers
      /\ Points \subseteq Nat
  BY BuiltNodes
<1>2. num_continuum # 0
  <2>1. num_servers # 0
    <3>. SUFFICES ASSUME num_servers = 0 PROVE FALSE
      OBVIOUS
    <3>1. nodes = <<>>
      BY <1>1
    <3>. QED  BY <3>1
  <2>2. \A a, b \in Nat \ {0} : a * b # 0
    BY SMTT(30)
  <2>. QED  BY <1>1, <2>1, <2>2
<1>3. /\ \A i \in 0 .. num_continuum - 1 :
           /\ continuum[i].point \in Ring(NodeSet)
           /\ servers[continuum[i].index] \in NodeSet
           /\ Draws(servers[continuum[i].index], continuum[i].point)
      /\ \A p \in Ring(NodeSet) : \E i \in 0 .. num_continuum - 1 : continuum[i].point = p
  BY ItemsAreRing
<1>4. /\ Sorted(continuum, num_continuum) /\ DOMAIN continuum = 0 .. num_continuum - 1
      /\ Ring(NodeSet) \subseteq Nat
  BY <1>1, BuiltContinuum DEF Ring
<1>5. PICK i \in 0 .. num_continuum - 1 : IsSuccessor(continuum, num_continuum, d, i)
  <2>1. \A j \in 0 .. num_continuum - 1 : continuum[j].point \in Nat
    BY <1>3, <1>4
  <2>. QED  BY <1>1, <1>2, <2>1, SuccessorExists
<1>6. \A j \in 0 .. num_continuum - 1 :
        IsSuccessor(continuum, num_continuum, d, j) => IsNext(Ring(NodeSet), d, continuum[j].point)
  BY <1>1, <1>3, <1>4, SuccessorIsNext
<1>7. ASSUME NEW j \in 0 .. num_continuum - 1, IsSuccessor(continuum, num_continuum, d, j)
      PROVE  servers[continuum[j].index] = servers[continuum[i].index]
  <2>1. continuum[j].point = continuum[i].point
    <3> DEFINE p == continuum[i].point
               r == continuum[j].point
    <3>1. p \in Ring(NodeSet) /\ r \in Ring(NodeSet)
      BY <1>3
    <3>2. IsNext(Ring(NodeSet), d, p) /\ IsNext(Ring(NodeSet), d, r)
      BY <1>5, <1>6, <1>7
    <3>3. d \in Nat
      BY <1>1
    <3> HIDE DEF p, r
    <3>4. p = r
      BY <1>4, <3>1, <3>2, <3>3, NextUnique
    <3>. QED  BY <3>4 DEF p, r
  <2>2. PICK k \in Numbers : points[servers[continuum[i].index]][k] = continuum[i].point
    BY <1>3 DEF Draws
  <2>3. PICK l \in Numbers : points[servers[continuum[j].index]][l] = continuum[j].point
    BY <1>3 DEF Draws
  <2>. QED  BY <1>3, <2>1, <2>2, <2>3 DEF Untied
<1>8. Answer(d) = {servers[continuum[i].index]}
  BY <1>4, <1>5, <1>7 DEF Answer
<1>. QED  BY <1>3, <1>5, <1>6, <1>8 DEF Owned

(* Consistent hashing: a change of the nodes moves a key only from a node    *)
(* that left or to one that joined, whatever the hash and the order of the   *)
(* lists.                                                                    *)
THEOREM DisruptionIsMinimal == Spec => MinimalDisruption
<1> DEFINE Disrupts ==
      nodes # <<>> /\ Untied(NodeSet \cup NodeSet') =>
        \A d \in Points :
          Answer(d)' = Answer(d) \/ Answer(d) \cap NodeSet' = {}
                                 \/ Answer(d)' \cap NodeSet = {}
<1>1. Built /\ Built' /\ [Next]_vars => [Disrupts]_vars
  <2>. SUFFICES ASSUME Built, Built', Next, nodes # <<>>, Untied(NodeSet \cup NodeSet'),
                       NEW d \in Points,
                       Answer(d) \cap NodeSet' # {}, Answer(d)' \cap NodeSet # {}
                PROVE  Answer(d)' = Answer(d)
    OBVIOUS
  <2>1. points' = points /\ nodes' # <<>>
    BY ConfigAssumption DEF Next, parse_ketama_config
  <2>2. Untied(NodeSet) /\ Untied(NodeSet)'
    BY <2>1 DEF Untied
  <2>3. Owned(d)
    BY <2>2, AnswerOwned
  <2>4. Owned(d)'
    <3>1. (Built /\ nodes # <<>> /\ Untied(NodeSet) => \A e \in Points : Owned(e))'
      BY AnswerOwned, PTL
    <3>2. (\A e \in Points : Owned(e))' => Owned(d)'
      BY DEF Points, Owned
    <3>. QED  BY <2>1, <2>2, <3>1, <3>2
  <2>5. PICK a \in NodeSet : \E p \in Ring(NodeSet) :
           Answer(d) = {a} /\ Draws(a, p) /\ IsNext(Ring(NodeSet), d, p)
    BY <2>3 DEF Owned
  <2>6. PICK p \in Ring(NodeSet) :
           Answer(d) = {a} /\ Draws(a, p) /\ IsNext(Ring(NodeSet), d, p)
    BY <2>5
  <2>7. \E b \in NodeSet' : \E r \in Ring(NodeSet') :
           Answer(d)' = {b} /\ Draws(b, r) /\ IsNext(Ring(NodeSet'), d, r)
    BY <2>1, <2>4 DEF Owned, Draws, Ring, IsNext
  <2>8. PICK b \in NodeSet' : \E r \in Ring(NodeSet') :
           Answer(d)' = {b} /\ Draws(b, r) /\ IsNext(Ring(NodeSet'), d, r)
    BY <2>7
  <2>9. PICK r \in Ring(NodeSet') :
           Answer(d)' = {b} /\ Draws(b, r) /\ IsNext(Ring(NodeSet'), d, r)
    BY <2>8
  <2>10. a \in NodeSet' /\ b \in NodeSet
    BY <2>6, <2>9
  <2>11. p \in Ring(NodeSet') /\ r \in Ring(NodeSet)
    BY <2>6, <2>9, <2>10 DEF Ring
  <2>12. Ring(NodeSet) \subseteq Nat /\ Ring(NodeSet') \subseteq Nat /\ d \in Nat
    BY BuiltNodes DEF Ring
  <2>13. p = r
    BY <2>6, <2>9, <2>11, <2>12, NextUnique
  <2>14. a = b
    BY <2>6, <2>9, <2>10, <2>13 DEF Untied, Draws
  <2>. QED  BY <2>6, <2>9, <2>14
<1>2. Spec => [][Disrupts]_vars
  BY <1>1, BuiltAlways, PTL DEF Spec
<1>. QED  BY <1>2 DEF MinimalDisruption

-------------------------------------------------------------------------------
(* The order of the nodes: two sorted arrays that hold every value equally   *)
(* often are the same.  Up to the first difference they agree, and what      *)
(* comes next in one is at that place or later in the other.                 *)
Ascends(f, n, values) ==
  /\ f \in [0 .. n - 1 -> values]
  /\ \A i, j \in 0 .. n - 1 : i <= j => f[i] <= f[j]

Places(f, n, a) == { i \in 0 .. n - 1 : f[i] = a }

LEMMA NextIsLater ==
  ASSUME NEW n \in Nat, NEW m \in Nat, NEW f, NEW g, NEW i \in 0 .. n - 1,
         \A j \in 0 .. i - 1 : j < m => g[j] = f[j],
         Cardinality(Places(f, n, f[i])) = Cardinality(Places(g, m, f[i]))
  PROVE  \E j \in 0 .. m - 1 : i <= j /\ g[j] = f[i]
<1>. SUFFICES ASSUME \A j \in 0 .. m - 1 : g[j] = f[i] => j < i PROVE FALSE
  OBVIOUS
<1>1. IsFiniteSet(Places(f, n, f[i]))
  BY IntervalSizes, FS_Subset DEF Places
<1>2. Places(g, m, f[i]) \subseteq Places(f, n, f[i])
  <2>. SUFFICES ASSUME NEW j \in 0 .. m - 1, g[j] = f[i] PROVE j \in 0 .. n - 1 /\ f[j] = f[i]
    BY DEF Places
  <2>1. j \in 0 .. i - 1 /\ j \in 0 .. n - 1
    OBVIOUS
  <2>. QED  BY <2>1
<1>3. i \in Places(f, n, f[i]) /\ i \notin Places(g, m, f[i])
  BY DEF Places
<1>. QED  BY <1>1, <1>2, <1>3, FS_Subset

LEMMA SortedUnique ==
  ASSUME NEW n \in Nat, NEW m \in Nat, NEW values \in SUBSET Nat,
         NEW f, NEW g, Ascends(f, n, values), Ascends(g, m, values),
         \A a \in values : Cardinality(Places(f, n, a)) = Cardinality(Places(g, m, a))
  PROVE  n = m /\ f = g
<1> DEFINE S == { i \in Nat : \A j \in 0 .. i - 1 : (j < n <=> j < m) /\ (j < n => f[j] = g[j]) }
<1>1. 0 \in S
  OBVIOUS
<1>2. ASSUME NEW i \in Nat, i \in S
      PROVE  i + 1 \in S
  <2>1. \A j \in 0 .. i - 1 : (j < n <=> j < m) /\ (j < n => f[j] = g[j])
    BY <1>2
  <2>2. ASSUME i < n
        PROVE  i < m /\ g[i] <= f[i]
    <3>1. i \in 0 .. n - 1 /\ f[i] \in values
      BY <2>2 DEF Ascends
    <3>2. Cardinality(Places(f, n, f[i])) = Cardinality(Places(g, m, f[i]))
      BY <3>1
    <3>3. \A j \in 0 .. i - 1 : j < m => g[j] = f[j]
      BY <2>1
    <3>4. PICK j \in 0 .. m - 1 : i <= j /\ g[j] = f[i]
      BY <3>1, <3>2, <3>3, NextIsLater
    <3>5. i \in 0 .. m - 1
      BY <3>4
    <3>. QED  BY <3>4, <3>5 DEF Ascends
  <2>3. ASSUME i < m
        PROVE  i < n /\ f[i] <= g[i]
    <3>1. i \in 0 .. m - 1 /\ g[i] \in values
      BY <2>3 DEF Ascends
    <3>2. Cardinality(Places(g, m, g[i])) = Cardinality(Places(f, n, g[i]))
      BY <3>1
    <3>3. \A j \in 0 .. i - 1 : j < n => f[j] = g[j]
      BY <2>1
    <3>4. PICK j \in 0 .. n - 1 : i <= j /\ f[j] = g[i]
      <4>1. \E j \in 0 .. n - 1 : i <= j /\ f[j] = g[i]
        BY ONLY n \in Nat, m \in Nat, <3>1, <3>2, <3>3, NextIsLater
      <4>. QED  BY <4>1
    <3>5. i \in 0 .. n - 1
      BY <3>4
    <3>. QED  BY <3>4, <3>5 DEF Ascends
  <2>4. i < n => f[i] \in values /\ g[i] \in values /\ f[i] = g[i]
    <3>. SUFFICES ASSUME i < n PROVE f[i] \in values /\ g[i] \in values /\ f[i] = g[i]
      OBVIOUS
    <3>1. i \in 0 .. n - 1 /\ i \in 0 .. m - 1
      BY <2>2
    <3>2. f[i] \in values /\ g[i] \in values
      BY <3>1 DEF Ascends
    <3>3. g[i] <= f[i] /\ f[i] <= g[i]
      BY <2>2, <2>3
    <3>4. f[i] \in Nat /\ g[i] \in Nat
      BY <3>2
    <3>. QED  BY <3>2, <3>3, <3>4
  <2>5. \A j \in 0 .. (i + 1) - 1 : j \in 0 .. i - 1 \/ j = i
    OBVIOUS
  <2>6. i < n <=> i < m
    BY <2>2, <2>3
  <2>7. \A j \in 0 .. (i + 1) - 1 : (j < n <=> j < m) /\ (j < n => f[j] = g[j])
    BY <2>1, <2>4, <2>5, <2>6, Zenon
  <2>. QED  BY <2>7
<1> HIDE DEF S
<1>3. Nat \subseteq S
  BY <1>1, <1>2, Induction
<1>4. ASSUME NEW j \in Nat
      PROVE  (j < n <=> j < m) /\ (j < n => f[j] = g[j])
  <2>1. j + 1 \in S /\ j \in 0 .. (j + 1) - 1
    BY <1>3
  <2>. QED  BY <2>1, Zenon DEF S
<1>5. n = m
  <2>1. (n < n <=> n < m) /\ (m < n <=> m < m)
    BY <1>4
  <2>. QED  BY <2>1
<1>6. \A j \in 0 .. n - 1 : f[j] = g[j]
  BY <1>4
<1>. QED  BY <1>5, <1>6 DEF Ascends

(* A node is listed as often as it is a server. *)
LEMMA MentionedServers ==
  ASSUME Built, NEW a
  PROVE  Mentions(a) = Cardinality(Places(servers, num_servers, a))
<1> DEFINE listed == { i \in DOMAIN nodes : nodes[i] = a }
           served == Places(servers, num_servers, a)
<1>1. num_servers \in Nat /\ nodes \in [1 .. num_servers -> Authorities]
  BY BuiltNodes
<1>2. PICK q : /\ Rearranges(q, num_servers)
               /\ \A i \in 0 .. num_servers - 1 : servers[i] = nodes[q[i] + 1]
  BY BuiltServers
<1> DEFINE entry == [i \in served |-> q[i] + 1]
<1>3. \A i \in served : i \in 0 .. num_servers - 1 /\ servers[i] = a
  BY DEF Places
<1>4. \A i \in 0 .. num_servers - 1 : q[i] \in 0 .. num_servers - 1
  BY <1>2 DEF Rearranges
<1>5. ASSUME NEW i \in served
      PROVE  q[i] + 1 \in listed
  <2>1. q[i] + 1 \in 1 .. num_servers
    BY <1>1, <1>3, <1>4
  <2>. QED  BY <1>1, <1>2, <1>3, <2>1
<1>6. ASSUME NEW i \in listed
      PROVE  \E j \in served : q[j] + 1 = i
  <2>1. i \in 1 .. num_servers /\ nodes[i] = a
    BY <1>1
  <2>2. i - 1 \in 0 .. num_servers - 1 /\ (i - 1) + 1 = i
    BY <1>1, <2>1
  <2>3. PICK j \in 0 .. num_servers - 1 : q[j] = i - 1
    BY <1>2, <2>2 DEF Rearranges
  <2>. QED  BY <1>2, <2>1, <2>2, <2>3 DEF Places
<1>7. ASSUME NEW i \in served, NEW j \in served, q[i] + 1 = q[j] + 1
      PROVE  i = j
  <2>1. q[i] = q[j]
    BY <1>1, <1>3, <1>4, <1>7
  <2>. QED  BY <1>2, <1>3, <2>1 DEF Rearranges
<1>8. IsFiniteSet(served)
  BY <1>1, IntervalSizes, FS_Subset DEF Places
<1> HIDE DEF listed, served
<1>9. entry \in Bijection(served, listed)
  <2>1. entry \in [served -> listed]
    BY <1>5
  <2>. QED  BY <2>1, <1>6, <1>7 DEF Bijection, Injection, IsInjective, Surjection
<1>10. Cardinality(served) = Cardinality(listed)
  BY <1>8, <1>9, FS_Bijection DEF ExistsBijection
<1>. QED  BY <1>10 DEF listed, served, Mentions

LEMMA MentionsCount ==
  Built => /\ num_servers \in Nat
           /\ Ascends(servers, num_servers, Authorities)
           /\ \A a \in Authorities : Mentions(a) = Cardinality(Places(servers, num_servers, a))
<1>. SUFFICES ASSUME Built
              PROVE  /\ num_servers \in Nat
                     /\ Ascends(servers, num_servers, Authorities)
                               /\ \A a \in Authorities : Mentions(a) = Cardinality(Places(servers, num_servers, a))
  OBVIOUS
<1>1. /\ num_servers \in Nat /\ Authorities \subseteq Nat
      /\ servers \in [0 .. num_servers - 1 -> Authorities]
      /\ \A i, j \in 0 .. num_servers - 1 : i <= j => servers[i] <= servers[j]
  BY BuiltNodes, BuiltServers
<1>2. Ascends(servers, num_servers, Authorities)
  BY <1>1 DEF Ascends
<1>. QED  BY <1>1, <1>2, MentionedServers

(* The configuration's order of the nodes makes no difference: two of them   *)
(* that list the same nodes give the same servers array and every key the    *)
(* same authority, if no two nodes share a point.                            *)
THEOREM OrderDoesNotMatter == Spec => OrderIndependent
<1> DEFINE Orders ==
      Untied(NodeSet) /\ (\A a \in Authorities : Mentions(a)' = Mentions(a))
        => servers' = servers /\ \A d \in Points : Answer(d)' = Answer(d)
<1>1. Built /\ Built' /\ [Next]_vars => [Orders]_vars
  <2>. SUFFICES ASSUME Built, Built', Next, Untied(NodeSet),
                       \A a \in Authorities : Mentions(a)' = Mentions(a)
                PROVE  servers' = servers /\ \A d \in Points : Answer(d)' = Answer(d)
    OBVIOUS
  <2>1. points' = points /\ nodes' # <<>> /\ nodes' \in Seq(Authorities)
    BY ConfigAssumption DEF Next, parse_ketama_config
  <2>2. /\ num_servers \in Nat
        /\ Ascends(servers, num_servers, Authorities)
        /\ \A a \in Authorities : Mentions(a) = Cardinality(Places(servers, num_servers, a))
    BY MentionsCount
  <2>3. /\ num_servers' \in Nat
        /\ Ascends(servers', num_servers', Authorities)
        /\ \A a \in Authorities : Mentions(a)' = Cardinality(Places(servers', num_servers', a))
    <3>1. (Built => /\ num_servers \in Nat
                    /\ Ascends(servers, num_servers, Authorities)
                    /\ \A a \in Authorities :
                         Mentions(a) = Cardinality(Places(servers, num_servers, a)))'
      BY MentionsCount, PTL
    <3>2. /\ (num_servers \in Nat)' /\ Ascends(servers, num_servers, Authorities)'
          /\ (\A a \in Authorities : Mentions(a) = Cardinality(Places(servers, num_servers, a)))'
      BY <3>1
    <3>. QED  BY <3>2 DEF Ascends, Places
  <2>4. Authorities \in SUBSET Nat
    BY ConfigAssumption
  <2>5. servers' = servers /\ num_servers' = num_servers
    BY <2>2, <2>3, <2>4, SortedUnique
  <2>6. NodeSet' = NodeSet
    <3>1. /\ \A ss \in 0 .. num_servers - 1 : servers[ss] \in NodeSet
          /\ \A a \in NodeSet : \E ss \in 0 .. num_servers - 1 : servers[ss] = a
      BY NodesAreServed
    <3>2. /\ \A ss \in 0 .. num_servers - 1 : servers[ss] \in NodeSet'
          /\ \A a \in NodeSet' : \E ss \in 0 .. num_servers - 1 : servers[ss] = a
      <4>1. (Built => /\ \A ss \in 0 .. num_servers - 1 : servers[ss] \in NodeSet
                      /\ \A a \in NodeSet : \E ss \in 0 .. num_servers - 1 : servers[ss] = a)'
        BY NodesAreServed, PTL
      <4>. QED  BY <2>5, <4>1
    <3>. QED  BY <3>1, <3>2
  <2>7. nodes # <<>> /\ Untied(NodeSet)'
    <3>1. nodes'[1] \in NodeSet'
      BY <2>1 DEF NodeSet
    <3>2. NodeSet # {}
      BY <2>6, <3>1
    <3>3. nodes # <<>>
      BY <3>2 DEF NodeSet
    <3>4. Numbers' = Numbers
      BY DEF Numbers
    <3>5. Untied(NodeSet)'
      BY <2>1, <2>6, <3>4 DEF Untied
    <3>. QED  BY <3>3, <3>5
  <2>8. ASSUME NEW d \in Points
        PROVE  Answer(d)' = Answer(d)
    <3>1. Owned(d)
      BY <2>7, AnswerOwned
    <3>2. \E b \in NodeSet : \E r \in Ring(NodeSet) :
             Answer(d)' = {b} /\ Draws(b, r) /\ IsNext(Ring(NodeSet), d, r)
      <4>1. (Built /\ nodes # <<>> /\ Untied(NodeSet) => \A e \in Points : Owned(e))'
        BY AnswerOwned, PTL
      <4>2. Owned(d)'
        <5>1. (\A e \in Points : Owned(e))' => Owned(d)'
          BY DEF Points, Owned
        <5>. QED  BY <2>1, <2>7, <4>1, <5>1
      <4>. QED  BY <2>1, <2>6, <4>2 DEF Owned, Draws, Ring, IsNext
    <3>3. PICK a \in NodeSet : \E p \in Ring(NodeSet) :
             Answer(d) = {a} /\ Draws(a, p) /\ IsNext(Ring(NodeSet), d, p)
      BY <3>1 DEF Owned
    <3>4. PICK p \in Ring(NodeSet) :
             Answer(d) = {a} /\ Draws(a, p) /\ IsNext(Ring(NodeSet), d, p)
      BY <3>3
    <3>5. PICK b \in NodeSet : \E r \in Ring(NodeSet) :
             Answer(d)' = {b} /\ Draws(b, r) /\ IsNext(Ring(NodeSet), d, r)
      BY <3>2
    <3>6. PICK r \in Ring(NodeSet) :
             Answer(d)' = {b} /\ Draws(b, r) /\ IsNext(Ring(NodeSet), d, r)
      BY <3>5
    <3>7. Ring(NodeSet) \subseteq Nat /\ d \in Nat
      BY BuiltNodes DEF Ring
    <3>8. p = r
      BY <3>4, <3>6, <3>7, NextUnique
    <3>9. a = b
      BY <3>4, <3>6, <3>8 DEF Untied, Draws
    <3>. QED  BY <3>4, <3>6, <3>9
  <2>. QED  BY <2>5, <2>8
<1>2. Spec => [][Orders]_vars
  BY <1>1, BuiltAlways, PTL DEF Spec
<1>. QED  BY <1>2 DEF OrderIndependent
================================================================================
