--------------------------- MODULE DemoBagsProofs ---------------------------
(***************************************************************************)
(* The linked chunks of the naive simulation: no chunk is in two bags, none *)
(* is lost, and none is reached after it was freed; the report lists every *)
(* particle once; and the chunks implement bags that are sets of particles.*)
(***************************************************************************)
EXTENDS PicDemoBags, FiniteSetTheorems, TLAPS

-----------------------------------------------------------------------------
(* Linked lists.                                                            *)

Addresses == 1 .. HeapSize

\* The lists that start at hd and go along nx hold each address of lv once: it is in
\* the list owner, with pos addresses after it.
Chained(owner, pos, nx, lv, hd) ==
  /\ owner \in [Addresses -> BagIds] /\ pos \in [Addresses -> Nat]
  /\ lv \subseteq Addresses
  /\ \A c \in lv : IF pos[c] = 0 THEN nx[c] = NULL
                   ELSE nx[c] \in lv /\ owner[nx[c]] = owner[c] /\ pos[nx[c]] = pos[c] - 1
  /\ \A c, d \in lv : owner[c] = owner[d] /\ pos[c] = pos[d] => c = d
  /\ \A b \in BagIds : hd[b] # NULL => hd[b] \in lv /\ owner[hd[b]] = b
  /\ \A c \in lv : hd[owner[c]] # NULL /\ pos[c] <= pos[hd[owner[c]]]

\* A new address goes in front of a list.
LEMMA PrependKeeps ==
  ASSUME NEW owner, NEW pos, NEW nx, NEW lv, NEW hd \in [BagIds -> 0 .. HeapSize],
         Chained(owner, pos, nx, lv, hd),
         NEW n \in Addresses \ lv, NEW b \in BagIds,
         NEW nx2, \A a \in lv : nx2[a] = nx[a], nx2[n] = hd[b]
  PROVE  Chained([owner EXCEPT ![n] = b], [pos EXCEPT ![n] = IF hd[b] = NULL THEN 0 ELSE pos[hd[b]] + 1],
                 nx2, lv \cup {n}, [hd EXCEPT ![b] = n])
<1> DEFINE rank == IF hd[b] = NULL THEN 0 ELSE pos[hd[b]] + 1
           owner2 == [owner EXCEPT ![n] = b]
           pos2 == [pos EXCEPT ![n] = rank]
           hd2 == [hd EXCEPT ![b] = n]
<1>1. /\ owner \in [Addresses -> BagIds] /\ pos \in [Addresses -> Nat] /\ lv \subseteq Addresses
      /\ \A c \in lv : IF pos[c] = 0 THEN nx[c] = NULL
                       ELSE nx[c] \in lv /\ owner[nx[c]] = owner[c] /\ pos[nx[c]] = pos[c] - 1
      /\ \A c, d \in lv : owner[c] = owner[d] /\ pos[c] = pos[d] => c = d
      /\ \A a \in BagIds : hd[a] # NULL => hd[a] \in lv /\ owner[hd[a]] = a
      /\ \A c \in lv : hd[owner[c]] # NULL /\ pos[c] <= pos[hd[owner[c]]]
  BY DEF Chained
<1>2. rank \in Nat /\ (hd[b] # NULL => hd[b] \in lv /\ pos[hd[b]] = rank - 1) /\ (hd[b] = NULL => rank = 0)
  BY <1>1
<1> HIDE DEF rank
<1>3. /\ owner2 \in [Addresses -> BagIds] /\ pos2 \in [Addresses -> Nat] /\ n \in Addresses
      /\ owner2[n] = b /\ pos2[n] = rank /\ hd2[b] = n
      /\ \A c \in lv : owner2[c] = owner[c] /\ pos2[c] = pos[c] /\ c # n
      /\ \A a \in BagIds : a # b => hd2[a] = hd[a]
      /\ n # NULL
  BY <1>1, <1>2 DEF Addresses, NULL
<1> HIDE DEF owner2, pos2, hd2
<1>4. \A c \in lv : owner[c] = b => hd[b] # NULL /\ pos[c] < rank
  <2> SUFFICES ASSUME NEW c \in lv, owner[c] = b PROVE hd[b] # NULL /\ pos[c] < rank
    OBVIOUS
  <2>1. hd[b] # NULL /\ pos[c] <= pos[hd[b]] /\ pos[c] \in Nat
    BY <1>1
  <2> QED BY <2>1, <1>2
<1>5. ASSUME NEW c \in lv \cup {n}
      PROVE  IF pos2[c] = 0 THEN nx2[c] = NULL
             ELSE nx2[c] \in lv \cup {n} /\ owner2[nx2[c]] = owner2[c] /\ pos2[nx2[c]] = pos2[c] - 1
  <2>1. CASE c \in lv
    BY <1>1, <1>3, <2>1
  <2>2. CASE c = n
    <3>1. nx2[c] = hd[b] /\ pos2[c] = rank /\ owner2[c] = b
      BY <1>3, <2>2
    <3>2. CASE hd[b] = NULL
      BY <1>2, <3>1, <3>2
    <3>3. CASE hd[b] # NULL
      <4>1. hd[b] \in lv /\ owner[hd[b]] = b /\ pos[hd[b]] = rank - 1 /\ pos[hd[b]] \in Nat
        BY <1>1, <1>2, <3>3
      <4>2. owner2[hd[b]] = b /\ pos2[hd[b]] = rank - 1
        BY <1>3, <4>1
      <4> QED BY <1>2, <3>1, <4>1, <4>2
    <3> QED BY <3>2, <3>3
  <2> QED BY <2>1, <2>2
<1>6. \A c, d \in lv \cup {n} : owner2[c] = owner2[d] /\ pos2[c] = pos2[d] => c = d
  <2>1. \A c \in lv : owner2[c] = owner2[n] => pos2[c] # pos2[n]
    BY <1>1, <1>2, <1>3, <1>4
  <2> QED BY <1>1, <1>3, <2>1
<1>7. \A a \in BagIds : hd2[a] # NULL => hd2[a] \in lv \cup {n} /\ owner2[hd2[a]] = a
  BY <1>1, <1>3
<1>8. ASSUME NEW c \in lv \cup {n} PROVE hd2[owner2[c]] # NULL /\ pos2[c] <= pos2[hd2[owner2[c]]]
  <2>1. CASE owner2[c] = b
    <3>1. pos2[c] <= rank
      BY <1>2, <1>3, <1>4, <1>1, <2>1
    <3> QED BY <1>3, <2>1, <3>1
  <2>2. CASE owner2[c] # b
    <3>1. c \in lv /\ owner2[c] = owner[c] /\ owner[c] \in BagIds /\ pos2[c] = pos[c]
      BY <1>1, <1>3, <2>2
    <3>2. hd2[owner2[c]] = hd[owner[c]]
      BY <1>3, <2>2, <3>1
    <3>3. hd[owner[c]] # NULL /\ pos[c] <= pos[hd[owner[c]]] /\ hd[owner[c]] \in lv
      BY <1>1, <3>1
    <3> QED BY <1>3, <3>1, <3>2, <3>3
  <2> QED BY <2>1, <2>2
<1> QED
  <2>1. lv \cup {n} \subseteq Addresses
    BY <1>1, <1>3
  <2>2. Chained(owner2, pos2, nx2, lv \cup {n}, hd2)
    BY <1>3, <1>5, <1>6, <1>7, <1>8, <2>1 DEF Chained
  <2> QED BY <2>2 DEF owner2, pos2, hd2, rank

\* The front of a list is cut off.
CutOff(owner, pos, lv, b, d) == {e \in lv : owner[e] = b /\ (d = NULL \/ pos[d] < pos[e])}

LEMMA CutKeeps ==
  ASSUME NEW owner, NEW pos, NEW nx, NEW lv, NEW hd \in [BagIds -> 0 .. HeapSize],
         Chained(owner, pos, nx, lv, hd),
         NEW b \in BagIds, NEW d, d = NULL \/ (d \in lv /\ owner[d] = b)
  PROVE  Chained(owner, pos, nx, lv \ CutOff(owner, pos, lv, b, d), [hd EXCEPT ![b] = d])
<1> DEFINE lv2 == lv \ CutOff(owner, pos, lv, b, d)
           hd2 == [hd EXCEPT ![b] = d]
<1>1. /\ owner \in [Addresses -> BagIds] /\ pos \in [Addresses -> Nat] /\ lv \subseteq Addresses
      /\ \A c \in lv : IF pos[c] = 0 THEN nx[c] = NULL
                       ELSE nx[c] \in lv /\ owner[nx[c]] = owner[c] /\ pos[nx[c]] = pos[c] - 1
      /\ \A c, e \in lv : owner[c] = owner[e] /\ pos[c] = pos[e] => c = e
      /\ \A a \in BagIds : hd[a] # NULL => hd[a] \in lv /\ owner[hd[a]] = a
      /\ \A c \in lv : hd[owner[c]] # NULL /\ pos[c] <= pos[hd[owner[c]]]
  BY DEF Chained
<1>2. \A c : c \in lv2 <=> c \in lv /\ (owner[c] = b => d # NULL /\ pos[c] <= pos[d])
  <2> SUFFICES ASSUME NEW c \in lv PROVE c \in lv2 <=> (owner[c] = b => d # NULL /\ pos[c] <= pos[d])
    BY DEF CutOff
  <2>1. d # NULL => pos[d] \in Nat /\ pos[c] \in Nat
    BY <1>1
  <2> QED BY <2>1 DEF CutOff
<1>3. hd2[b] = d /\ \A a \in BagIds : a # b => hd2[a] = hd[a]
  OBVIOUS
<1> HIDE DEF lv2, hd2
<1>4. ASSUME NEW c \in lv2
      PROVE  IF pos[c] = 0 THEN nx[c] = NULL
             ELSE nx[c] \in lv2 /\ owner[nx[c]] = owner[c] /\ pos[nx[c]] = pos[c] - 1
  <2>1. c \in lv /\ (owner[c] = b => d # NULL /\ pos[c] <= pos[d])
    BY <1>2
  <2>2. CASE pos[c] # 0
    <3>1. nx[c] \in lv /\ owner[nx[c]] = owner[c] /\ pos[nx[c]] = pos[c] - 1 /\ pos[c] \in Nat
      BY <1>1, <2>1, <2>2
    <3>2. owner[c] = b => pos[d] \in Nat
      BY <1>1, <2>1
    <3>3. nx[c] \in lv2
      BY <1>2, <2>1, <3>1, <3>2
    <3> QED BY <2>2, <3>1, <3>3
  <2> QED BY <1>1, <2>1, <2>2
<1>5. \A a \in BagIds : hd2[a] # NULL => hd2[a] \in lv2 /\ owner[hd2[a]] = a
  <2> SUFFICES ASSUME NEW a \in BagIds, hd2[a] # NULL PROVE hd2[a] \in lv2 /\ owner[hd2[a]] = a
    OBVIOUS
  <2>1. CASE a = b
    <3>1. d \in lv /\ owner[d] = b /\ pos[d] \in Nat
      BY <1>1, <1>3, <2>1
    <3> QED BY <1>2, <1>3, <2>1, <3>1
  <2>2. CASE a # b
    BY <1>1, <1>2, <1>3, <2>2
  <2> QED BY <2>1, <2>2
<1>6. \A c \in lv2 : hd2[owner[c]] # NULL /\ pos[c] <= pos[hd2[owner[c]]]
  <2> SUFFICES ASSUME NEW c \in lv2 PROVE hd2[owner[c]] # NULL /\ pos[c] <= pos[hd2[owner[c]]]
    OBVIOUS
  <2>1. c \in lv /\ owner[c] \in BagIds
    BY <1>1, <1>2
  <2>2. CASE owner[c] = b
    BY <1>2, <1>3, <2>2
  <2>3. CASE owner[c] # b
    BY <1>1, <1>3, <2>1, <2>3
  <2> QED BY <2>2, <2>3
<1> QED
  <2>1. lv2 \subseteq Addresses /\ \A c \in lv2 : c \in lv
    BY <1>1, <1>2
  <2>2. Chained(owner, pos, nx, lv2, hd2)
    BY <1>1, <1>4, <1>5, <1>6, <2>1 DEF Chained
  <2> QED BY <2>2 DEF lv2, hd2

\* All lists are given another name.
Other(b) == <<IF b[1] = "cur" THEN "nxt" ELSE "cur", b[2]>>

LEMMA SwapKeeps ==
  ASSUME NEW owner, NEW pos, NEW nx, NEW lv, NEW hd, Chained(owner, pos, nx, lv, hd)
  PROVE  Chained([c \in Addresses |-> Other(owner[c])], pos, nx, lv, [b \in BagIds |-> hd[Other(b)]])
<1>1. \A b \in BagIds : Other(b) \in BagIds /\ Other(Other(b)) = b
  BY DEF Other, BagIds
<1> DEFINE owner2 == [c \in Addresses |-> Other(owner[c])]
           hd2 == [b \in BagIds |-> hd[Other(b)]]
<1>2. /\ owner \in [Addresses -> BagIds] /\ pos \in [Addresses -> Nat] /\ lv \subseteq Addresses
      /\ \A c \in lv : IF pos[c] = 0 THEN nx[c] = NULL
                       ELSE nx[c] \in lv /\ owner[nx[c]] = owner[c] /\ pos[nx[c]] = pos[c] - 1
      /\ \A c, e \in lv : owner[c] = owner[e] /\ pos[c] = pos[e] => c = e
      /\ \A a \in BagIds : hd[a] # NULL => hd[a] \in lv /\ owner[hd[a]] = a
      /\ \A c \in lv : hd[owner[c]] # NULL /\ pos[c] <= pos[hd[owner[c]]]
  BY DEF Chained
<1>3. /\ owner2 \in [Addresses -> BagIds]
      /\ \A c \in lv : owner2[c] = Other(owner[c]) /\ owner[c] \in BagIds /\ hd2[owner2[c]] = hd[owner[c]]
      /\ \A b \in BagIds : hd2[b] = hd[Other(b)]
  <2> HIDE DEF Other
  <2> QED BY <1>1, <1>2
<1> HIDE DEF owner2, hd2
<1>4. Chained(owner2, pos, nx, lv, hd2)
  <2>1. \A c, e \in lv : owner2[c] = owner2[e] => owner[c] = owner[e]
    BY <1>1, <1>3
  <2>2. \A a \in BagIds : hd2[a] # NULL => hd2[a] \in lv /\ owner2[hd2[a]] = a
    BY <1>1, <1>2, <1>3
  <2>3. \A c \in lv : IF pos[c] = 0 THEN nx[c] = NULL
                      ELSE nx[c] \in lv /\ owner2[nx[c]] = owner2[c] /\ pos[nx[c]] = pos[c] - 1
    BY <1>2, <1>3
  <2>4. \A c \in lv : hd2[owner2[c]] # NULL /\ pos[c] <= pos[hd2[owner2[c]]]
    BY <1>2, <1>3
  <2> QED BY <1>2, <1>3, <2>1, <2>2, <2>3, <2>4 DEF Chained
<1> QED BY <1>4 DEF owner2, hd2

-----------------------------------------------------------------------------
(* Naturals.                                                                *)

\* As in TilingProofs.
LEMMA LeastNatural ==
  ASSUME NEW S, S \subseteq Nat, S # {}
  PROVE  \E n \in S : \A m \in S : n <= m
<1> DEFINE Below(n) == 0 .. n - 1
           R == StrictSubsetOrdering(Nat)
           F == FiniteSubsetsOf(Nat)
           U == {Below(n) : n \in S}
<1>1. IsWellFoundedOn(R, F)
  BY FS_StrictSubsetOrderingWellFounded
<1>2. U \subseteq F
  <2> SUFFICES ASSUME NEW n \in S PROVE Below(n) \in F
    OBVIOUS
  <2>1. IsFiniteSet(0 .. n - 1)
    BY FS_Interval
  <2> QED BY <2>1 DEF FiniteSubsetsOf
<1>3. \E x \in U : \A y \in U : ~(<<y, x>> \in R)
  <2>1. U # {}
    OBVIOUS
  <2> HIDE DEF R, F, U
  <2> QED BY <1>1, <1>2, <2>1, WFMin
<1>4. PICK n \in S : \A m \in S : ~(<<Below(m), Below(n)>> \in R)
  BY <1>3
<1>5. ASSUME NEW m \in S, m < n PROVE FALSE
  <2>1. Below(m) \subseteq Below(n) /\ Below(m) \in SUBSET Nat /\ Below(n) \in SUBSET Nat
    BY <1>5
  <2>2. m \in Below(n) /\ m \notin Below(m)
    BY <1>5
  <2>3. <<Below(m), Below(n)>> \in R
    BY <2>1, <2>2 DEF StrictSubsetOrdering
  <2> QED BY <2>3, <1>4
<1> QED BY <1>5

\* Numbers of a set that has no more of them than addresses.
LEMMA NotMoreThanAddresses ==
  ASSUME NEW f \in [0 .. HeapSize -> Addresses]
  PROVE  \E i, j \in 0 .. HeapSize : i # j /\ f[i] = f[j]
<1> SUFFICES ASSUME \A i, j \in 0 .. HeapSize : f[i] = f[j] => i = j PROVE FALSE
  OBVIOUS
<1>1. HeapSize \in Nat
  BY DemoBagsAssumption
<1>2. IsFiniteSet(Addresses) /\ Cardinality(Addresses) = HeapSize
  <2>1. IsFiniteSet(1 .. HeapSize) /\ Cardinality(1 .. HeapSize) = IF 1 > HeapSize THEN 0 ELSE HeapSize - 1 + 1
    BY <1>1, FS_Interval
  <2> QED BY <1>1, <2>1 DEF Addresses
<1>3. IsFiniteSet(0 .. HeapSize) /\ Cardinality(0 .. HeapSize) = HeapSize + 1
  <2>1. IsFiniteSet(0 .. HeapSize) /\ Cardinality(0 .. HeapSize) = IF 0 > HeapSize THEN 0 ELSE HeapSize - 0 + 1
    BY <1>1, FS_Interval
  <2> QED BY <1>1, <2>1
<1>4. f \in Injection(0 .. HeapSize, Addresses)
  BY DEF Injection, IsInjective
<1>5. Cardinality(0 .. HeapSize) <= Cardinality(Addresses)
  BY <1>2, <1>4, FS_Injection DEF ExistsInjection
<1> QED BY <1>1, <1>2, <1>3, <1>5

\* Malloc returns an address that is free, if there is one.
LEMMA MallocFresh ==
  ASSUME live \subseteq Addresses, MemoryLeft
  PROVE  MallocIn(live) \in Addresses \ live
<1> DEFINE S == (1 .. HeapSize) \ live
<1>1. S # {} /\ S \subseteq Nat
  <2>1. PICK x \in 1 .. HeapSize : x \notin live
    BY Zenon DEF MemoryLeft, Addresses
  <2>2. x \in S /\ \A y \in S : y \in 1 .. HeapSize
    BY <2>1
  <2>3. \A y \in 1 .. HeapSize : y \in Nat
    BY DemoBagsAssumption
  <2> QED BY <2>2, <2>3
<1>2. PICK n \in S : \A m \in S : n <= m
  <2> HIDE DEF S
  <2> QED BY <1>1, LeastNatural
<1>3. MallocIn(live) = CHOOSE x \in S : \A y \in S : x <= y
  BY DEF MallocIn, Min
<1>4. MallocIn(live) \in S
  <2> HIDE DEF S
  <2> QED BY <1>2, <1>3
<1> QED BY <1>4 DEF Addresses

-----------------------------------------------------------------------------
(* Following the links of a list.                                           *)

Follows(f, n, memory, c) ==
  f = [i \in 0 .. n |-> IF i = 0 THEN c ELSE IF f[i - 1] = NULL THEN NULL ELSE memory[f[i - 1]].next]

LEMMA FollowsExists ==
  ASSUME NEW n \in Nat, NEW memory, NEW c
  PROVE  \E f : Follows(f, n, memory, c)
<1> DEFINE Bad == {m \in Nat : ~\E f : Follows(f, m, memory, c)}
<1> SUFFICES ASSUME Bad # {} PROVE FALSE
  OBVIOUS
<1>1. PICK m \in Bad : \A k \in Bad : m <= k
  BY LeastNatural
<1>2. m # 0
  <2>1. Follows([i \in 0 .. 0 |-> c], 0, memory, c)
    BY DEF Follows
  <2> QED BY <2>1, <1>1
<1>3. m \in Nat /\ m - 1 \in Nat /\ m - 1 \notin Bad
  BY <1>1, <1>2
<1>4. PICK f : Follows(f, m - 1, memory, c)
  BY <1>3
<1> DEFINE next == IF f[m - 1] = NULL THEN NULL ELSE memory[f[m - 1]].next
           g == [i \in 0 .. m |-> IF i = m THEN next ELSE f[i]]
<1>5. f = [i \in 0 .. m - 1 |-> IF i = 0 THEN c ELSE IF f[i - 1] = NULL THEN NULL ELSE memory[f[i - 1]].next]
  BY <1>4 DEF Follows
<1>6. \A i \in 0 .. m : g[i] = IF i = 0 THEN c ELSE IF g[i - 1] = NULL THEN NULL ELSE memory[g[i - 1]].next
  <2> SUFFICES ASSUME NEW i \in 0 .. m
               PROVE  g[i] = IF i = 0 THEN c ELSE IF g[i - 1] = NULL THEN NULL ELSE memory[g[i - 1]].next
    OBVIOUS
  <2>1. CASE i = m
    <3>1. g[i] = next /\ i # 0 /\ g[i - 1] = f[m - 1]
      BY <2>1, <1>2, <1>3
    <3> QED BY <2>1, <3>1
  <2>2. CASE i # m
    <3>1. i \in 0 .. m - 1 /\ g[i] = f[i]
      BY <2>2, <1>3
    <3>2. i # 0 => g[i - 1] = f[i - 1]
      BY <3>1, <1>3
    <3>3. f[i] = IF i = 0 THEN c ELSE IF f[i - 1] = NULL THEN NULL ELSE memory[f[i - 1]].next
      BY <1>5, <3>1
    <3> HIDE DEF g
    <3> QED BY <3>1, <3>2, <3>3
  <2> QED BY <2>1, <2>2
<1>7. g = [i \in 0 .. m |-> g[i]]
  OBVIOUS
<1>8. Follows(g, m, memory, c)
  <2> HIDE DEF g
  <2> QED BY <1>6, <1>7 DEF Follows
<1> QED BY <1>8, <1>1

LEMMA ChainLinks ==
  ASSUME NEW memory, NEW c
  PROVE  ChainIn(memory, c) =
           [i \in 0 .. HeapSize |->
             IF i = 0 THEN c ELSE IF ChainIn(memory, c)[i - 1] = NULL THEN NULL ELSE memory[ChainIn(memory, c)[i - 1]].next]
<1>1. \E f : Follows(f, HeapSize, memory, c)
  BY FollowsExists, DemoBagsAssumption
<1>2. ChainIn(memory, c) = CHOOSE f : Follows(f, HeapSize, memory, c)
  BY DEF ChainIn, Follows
<1>3. Follows(ChainIn(memory, c), HeapSize, memory, c)
  BY <1>1, <1>2
<1> QED BY <1>3 DEF Follows

LEMMA ChainSteps ==
  ASSUME NEW memory, NEW c
  PROVE  /\ ChainIn(memory, c) = [i \in 0 .. HeapSize |-> ChainIn(memory, c)[i]]
         /\ ChainIn(memory, c)[0] = c
         /\ \A i \in 0 .. HeapSize :
              i # 0 => ChainIn(memory, c)[i] = IF ChainIn(memory, c)[i - 1] = NULL THEN NULL ELSE memory[ChainIn(memory, c)[i - 1]].next
<1> DEFINE f == ChainIn(memory, c)
           Link(i) == IF i = 0 THEN c ELSE IF f[i - 1] = NULL THEN NULL ELSE memory[f[i - 1]].next
<1>1. 0 \in 0 .. HeapSize
  BY DemoBagsAssumption
<1>2. f = [i \in 0 .. HeapSize |-> Link(i)]
  BY ChainLinks
<1> HIDE DEF f, Link
<1>3. f = [i \in 0 .. HeapSize |-> f[i]] /\ \A i \in 0 .. HeapSize : f[i] = Link(i)
  BY <1>2
<1>4. f[0] = c /\ \A i \in 0 .. HeapSize : i # 0 => f[i] = IF f[i - 1] = NULL THEN NULL ELSE memory[f[i - 1]].next
  BY <1>1, <1>3 DEF Link
<1> QED BY <1>3, <1>4 DEF f

LEMMA ChainOfNull ==
  ASSUME NEW i \in 0 .. HeapSize
  PROVE  Chain(NULL)[i] = NULL
<1> DEFINE Bad == {k \in 0 .. HeapSize : Chain(NULL)[k] # NULL}
<1> SUFFICES ASSUME Bad # {} PROVE FALSE
  OBVIOUS
<1>1. PICK k \in Bad : \A m \in Bad : k <= m
  <2>1. Bad \subseteq Nat
    OBVIOUS
  <2> HIDE DEF Bad
  <2> QED BY <2>1, LeastNatural
<1>2. k # 0
  BY <1>1, ChainSteps DEF Chain
<1>3. k - 1 \in 0 .. HeapSize /\ k - 1 \notin Bad
  BY <1>1, <1>2, DemoBagsAssumption
<1>4. Chain(NULL)[k] = NULL
  BY <1>1, <1>2, <1>3, ChainSteps DEF Chain
<1> QED BY <1>1, <1>4

Nexts == [a \in Addresses |-> heap[a].next]

\* The chunk that is i links after a chunk of a list.
LEMMA ChainAt ==
  ASSUME NEW owner, NEW pos, NEW hd, Chained(owner, pos, Nexts, live, hd),
         NEW c \in live, NEW i \in 0 .. HeapSize
  PROVE  IF i <= pos[c]
         THEN Chain(c)[i] \in live /\ owner[Chain(c)[i]] = owner[c] /\ pos[Chain(c)[i]] = pos[c] - i
         ELSE Chain(c)[i] = NULL
<1> DEFINE P(k) == IF k <= pos[c]
                   THEN Chain(c)[k] \in live /\ owner[Chain(c)[k]] = owner[c] /\ pos[Chain(c)[k]] = pos[c] - k
                   ELSE Chain(c)[k] = NULL
           Bad == {k \in 0 .. HeapSize : ~P(k)}
<1> SUFFICES ASSUME Bad # {} PROVE FALSE
  OBVIOUS
<1>1. PICK k \in Bad : \A m \in Bad : k <= m
  <2>1. Bad \subseteq Nat
    OBVIOUS
  <2> HIDE DEF Bad
  <2> QED BY <2>1, LeastNatural
<1>2. /\ pos \in [Addresses -> Nat] /\ live \subseteq Addresses
      /\ \A e \in live : IF pos[e] = 0 THEN heap[e].next = NULL
                         ELSE heap[e].next \in live /\ owner[heap[e].next] = owner[e] /\ pos[heap[e].next] = pos[e] - 1
  BY DEF Chained, Nexts
<1>3. pos[c] \in Nat /\ k \in 0 .. HeapSize /\ HeapSize \in Nat /\ ~P(k)
  BY <1>1, <1>2, DemoBagsAssumption
<1>4. k # 0
  <2>1. Chain(c)[0] = c
    BY ChainSteps DEF Chain
  <2> QED BY <2>1, <1>3
<1>5. k - 1 \in 0 .. HeapSize /\ P(k - 1)
  <2>1. k - 1 \in 0 .. HeapSize /\ k - 1 \notin Bad
    BY <1>1, <1>3, <1>4
  <2> QED BY <2>1
<1> DEFINE e == Chain(c)[k - 1]
<1>6. Chain(c)[k] = IF e = NULL THEN NULL ELSE heap[e].next
  BY <1>3, <1>4, ChainSteps DEF Chain
<1>7. P(k)
  <2>1. CASE k - 1 <= pos[c]
    <3>1. e \in live /\ owner[e] = owner[c] /\ pos[e] = pos[c] - (k - 1)
      BY <1>5, <2>1
    <3>2. e # NULL
      BY <1>2, <3>1 DEF Addresses, NULL
    <3> HIDE DEF e
    <3>3. Chain(c)[k] = heap[e].next
      BY <1>6, <3>2
    <3>4. CASE k <= pos[c]
      <4>1. pos[e] # 0
        BY <1>3, <3>1, <3>4
      <4>2. heap[e].next \in live /\ owner[heap[e].next] = owner[e] /\ pos[heap[e].next] = pos[e] - 1
        BY <1>2, <3>1, <4>1
      <4>3. pos[e] - 1 = pos[c] - k
        BY <1>3, <3>1
      <4> QED BY <3>1, <3>3, <3>4, <4>2, <4>3
    <3>5. CASE ~(k <= pos[c])
      <4>1. pos[e] = 0
        BY <1>3, <2>1, <3>1, <3>5
      <4>2. heap[e].next = NULL
        BY <1>2, <3>1, <4>1
      <4> QED BY <3>3, <3>5, <4>2
    <3> QED BY <3>4, <3>5
  <2>2. CASE ~(k - 1 <= pos[c])
    <3>1. e = NULL /\ ~(k <= pos[c])
      BY <1>3, <1>5, <2>2
    <3> HIDE DEF e
    <3> QED BY <1>6, <3>1
  <2> QED BY <2>1, <2>2
<1> QED BY <1>3, <1>7

\* A list ends before there are more chunks than addresses.
LEMMA ChainEnds ==
  ASSUME NEW owner, NEW pos, NEW hd, Chained(owner, pos, Nexts, live, hd), NEW c \in live
  PROVE  pos[c] \in Nat /\ pos[c] < HeapSize
<1>1. pos[c] \in Nat /\ HeapSize \in Nat /\ live \subseteq Addresses
  BY DemoBagsAssumption DEF Chained
<1> SUFFICES ASSUME HeapSize <= pos[c] PROVE FALSE
  BY <1>1
<1>2. \A i \in 0 .. HeapSize : Chain(c)[i] \in live /\ pos[Chain(c)[i]] = pos[c] - i
  <2> SUFFICES ASSUME NEW i \in 0 .. HeapSize PROVE Chain(c)[i] \in live /\ pos[Chain(c)[i]] = pos[c] - i
    OBVIOUS
  <2>1. i <= pos[c]
    BY <1>1
  <2> QED BY <2>1, ChainAt
<1>3. Chain(c) \in [0 .. HeapSize -> Addresses]
  <2>1. Chain(c) = [i \in 0 .. HeapSize |-> Chain(c)[i]]
    BY ChainSteps DEF Chain
  <2> QED BY <1>1, <1>2, <2>1
<1>4. PICK i \in 0 .. HeapSize, j \in 0 .. HeapSize : i # j /\ Chain(c)[i] = Chain(c)[j]
  BY <1>3, NotMoreThanAddresses
<1>5. pos[c] - i = pos[c] - j
  BY <1>2, <1>4
<1> QED BY <1>1, <1>4, <1>5

\* The chunks that the links lead to are those of the list from there on.
LEMMA ChunksOfList ==
  ASSUME NEW owner, NEW pos, NEW hd, Chained(owner, pos, Nexts, live, hd), NEW c \in live
  PROVE  ChunksFrom(c) = {e \in live : owner[e] = owner[c] /\ pos[e] <= pos[c]}
<1>1. /\ pos \in [Addresses -> Nat] /\ live \subseteq Addresses /\ HeapSize \in Nat
      /\ pos[c] \in Nat /\ pos[c] < HeapSize
      /\ \A d, e \in live : owner[d] = owner[e] /\ pos[d] = pos[e] => d = e
  BY ChainEnds, DemoBagsAssumption DEF Chained
<1>2. \A i \in 0 .. HeapSize :
        IF i <= pos[c]
        THEN Chain(c)[i] \in live /\ owner[Chain(c)[i]] = owner[c] /\ pos[Chain(c)[i]] = pos[c] - i
        ELSE Chain(c)[i] = NULL
  BY ChainAt
<1>3. ASSUME NEW e \in ChunksFrom(c) PROVE e \in live /\ owner[e] = owner[c] /\ pos[e] <= pos[c]
  <2>1. PICK i \in 0 .. HeapSize : e = Chain(c)[i] /\ e # NULL
    BY DEF ChunksFrom
  <2>2. i <= pos[c] /\ e \in live /\ owner[e] = owner[c] /\ pos[e] = pos[c] - i
    BY <1>2, <2>1
  <2> QED BY <1>1, <2>2
<1>4. ASSUME NEW e \in live, owner[e] = owner[c], pos[e] <= pos[c] PROVE e \in ChunksFrom(c)
  <2> DEFINE i == pos[c] - pos[e]
  <2>1. pos[e] \in Nat /\ i \in 0 .. HeapSize /\ i <= pos[c] /\ pos[c] - i = pos[e]
    BY <1>1, <1>4
  <2> HIDE DEF i
  <2>2. Chain(c)[i] \in live /\ owner[Chain(c)[i]] = owner[c] /\ pos[Chain(c)[i]] = pos[e]
    BY <1>2, <2>1
  <2>3. Chain(c)[i] = e
    BY <1>1, <1>4, <2>2
  <2>4. e # NULL
    BY <1>1 DEF Addresses, NULL
  <2> QED BY <2>1, <2>3, <2>4 DEF ChunksFrom
<1> QED BY <1>3, <1>4

LEMMA ChunksOfNull == ChunksFrom(NULL) = {}
BY ChainOfNull DEF ChunksFrom

LEMMA FirstFullLeast ==
  ASSUME NEW c, NEW i \in 0 .. HeapSize, Chain(c)[i] = NULL
  PROVE  /\ FirstFull(c) \in 0 .. i
         /\ Chain(c)[FirstFull(c)] = NULL \/ Stored(Chain(c)[FirstFull(c)]) # 0
         /\ \A k \in 0 .. FirstFull(c) - 1 : Stored(Chain(c)[k]) = 0
<1> DEFINE S == {k \in 0 .. HeapSize : Chain(c)[k] = NULL \/ Stored(Chain(c)[k]) # 0}
<1>1. i \in S /\ S \subseteq Nat /\ S # {}
  OBVIOUS
<1>2. FirstFull(c) = CHOOSE x \in S : \A y \in S : x <= y
  BY DEF FirstFull, Min
<1>3. PICK n \in S : \A m \in S : n <= m
  <2> HIDE DEF S
  <2> QED BY <1>1, LeastNatural
<1>4. FirstFull(c) \in S /\ \A y \in S : FirstFull(c) <= y
  <2> HIDE DEF S
  <2> QED BY <1>2, <1>3
<1>5. FirstFull(c) <= i
  BY <1>1, <1>4
<1>6. \A k \in 0 .. FirstFull(c) - 1 : Stored(Chain(c)[k]) = 0
  <2> SUFFICES ASSUME NEW k \in 0 .. FirstFull(c) - 1 PROVE Stored(Chain(c)[k]) = 0
    OBVIOUS
  <2> DEFINE n2 == FirstFull(c)
  <2>1. n2 \in 0 .. HeapSize /\ k \in 0 .. n2 - 1 /\ HeapSize \in Nat
    BY <1>4, DemoBagsAssumption
  <2>2. k \in 0 .. HeapSize /\ ~(n2 <= k)
    <3> HIDE DEF n2
    <3> QED BY <2>1
  <2>3. k \notin S
    BY <1>4, <2>2
  <2> QED BY <2>2, <2>3
<1> QED BY <1>4, <1>5, <1>6

\* The chunks of a list from c on that are before d.
Between(owner, pos, c, d) ==
  {e \in live : owner[e] = owner[c] /\ pos[e] <= pos[c] /\ (d = NULL \/ pos[d] < pos[e])}

\* bag_iter_get from a chunk of a list: it goes to a chunk of the same list that is not
\* empty, or to the end, and leaves the chunks before it, which are empty.
LEMMA GetSkips ==
  ASSUME NEW owner, NEW pos, NEW hd, Chained(owner, pos, Nexts, live, hd), NEW c \in live
  PROVE  \E d : /\ d = NULL \/ (d \in live /\ owner[d] = owner[c] /\ pos[d] <= pos[c] /\ Stored(d) # 0)
                /\ Get(c) = IF d = NULL THEN Ended ELSE Load(d)
                /\ Skipped(c) = Between(owner, pos, c, d)
                /\ \A e \in Skipped(c) : Stored(e) = 0
<1>1. /\ pos \in [Addresses -> Nat] /\ live \subseteq Addresses /\ HeapSize \in Nat
      /\ pos[c] \in Nat /\ pos[c] < HeapSize
      /\ \A d, e \in live : owner[d] = owner[e] /\ pos[d] = pos[e] => d = e
      /\ \A e \in live : e # NULL
  <2>1. /\ pos \in [Addresses -> Nat] /\ live \subseteq Addresses
        /\ \A d, e \in live : owner[d] = owner[e] /\ pos[d] = pos[e] => d = e
    BY DEF Chained
  <2>2. \A e \in live : e # NULL
    BY <2>1 DEF Addresses, NULL
  <2>3. HeapSize \in Nat /\ pos[c] \in Nat /\ pos[c] < HeapSize
    BY ChainEnds, DemoBagsAssumption
  <2> QED BY <2>1, <2>2, <2>3
<1>2. \A i \in 0 .. HeapSize :
        IF i <= pos[c]
        THEN Chain(c)[i] \in live /\ owner[Chain(c)[i]] = owner[c] /\ pos[Chain(c)[i]] = pos[c] - i
        ELSE Chain(c)[i] = NULL
  BY ChainAt
<1> DEFINE k == FirstFull(c)
           d == Chain(c)[k]
<1>3. k \in 0 .. pos[c] + 1 /\ (d = NULL \/ Stored(d) # 0) /\ \A i \in 0 .. k - 1 : Stored(Chain(c)[i]) = 0
  <2>1. pos[c] + 1 \in 0 .. HeapSize /\ ~(pos[c] + 1 <= pos[c])
    BY <1>1
  <2>2. Chain(c)[pos[c] + 1] = NULL
    BY <1>2, <2>1
  <2> QED BY <2>1, <2>2, FirstFullLeast
<1>4. k \in 0 .. HeapSize
  BY <1>1, <1>3
<1>5. Get(c) = IF d = NULL THEN Ended ELSE Load(d)
  BY DEF Get
<1>6. Skipped(c) = {Chain(c)[i] : i \in 0 .. k - 1}
  BY DEF Skipped
<1> HIDE DEF k
<1>7. /\ d = NULL => k = pos[c] + 1
      /\ d # NULL => d \in live /\ owner[d] = owner[c] /\ pos[d] = pos[c] - k
  <2>1. CASE k <= pos[c]
    <3>1. d \in live /\ owner[d] = owner[c] /\ pos[d] = pos[c] - k
      BY <1>2, <1>4, <2>1
    <3> QED BY <1>1, <3>1
  <2>2. CASE ~(k <= pos[c])
    BY <1>1, <1>2, <1>3, <1>4, <2>2
  <2> QED BY <2>1, <2>2
<1> HIDE DEF d
<1>8. ASSUME NEW i \in 0 .. k - 1
      PROVE  Chain(c)[i] \in {e \in live : owner[e] = owner[c] /\ pos[e] <= pos[c] /\ (d = NULL \/ pos[d] < pos[e])}
  <2>1. i \in 0 .. HeapSize /\ i <= pos[c] /\ i < k /\ i \in Nat /\ k \in Nat
    BY <1>1, <1>3, <1>4
  <2>2. Chain(c)[i] \in live /\ owner[Chain(c)[i]] = owner[c] /\ pos[Chain(c)[i]] = pos[c] - i
    BY <1>2, <2>1
  <2>3. pos[c] - i <= pos[c] /\ pos[c] - k < pos[c] - i
    BY <1>1, <2>1
  <2> QED BY <1>7, <2>2, <2>3
<1>9. ASSUME NEW e \in live, owner[e] = owner[c], pos[e] <= pos[c], d = NULL \/ pos[d] < pos[e]
      PROVE  \E i \in 0 .. k - 1 : e = Chain(c)[i]
  <2> DEFINE i == pos[c] - pos[e]
  <2>1. pos[e] \in Nat /\ i \in 0 .. HeapSize /\ i <= pos[c] /\ pos[c] - i = pos[e]
    BY <1>1, <1>9
  <2>2. i \in 0 .. k - 1
    <3>1. CASE d = NULL
      BY <1>1, <1>7, <2>1, <3>1
    <3>2. CASE d # NULL
      BY <1>1, <1>3, <1>7, <1>9, <2>1, <3>2
    <3> QED BY <3>1, <3>2
  <2> HIDE DEF i
  <2>3. Chain(c)[i] \in live /\ owner[Chain(c)[i]] = owner[c] /\ pos[Chain(c)[i]] = pos[e]
    BY <1>2, <2>1
  <2>4. Chain(c)[i] = e
    BY <1>1, <1>9, <2>3
  <2> QED BY <2>2, <2>4
<1>10. Skipped(c) = {e \in live : owner[e] = owner[c] /\ pos[e] <= pos[c] /\ (d = NULL \/ pos[d] < pos[e])}
  BY <1>6, <1>8, <1>9
<1>11. d # NULL => pos[d] <= pos[c]
  BY <1>1, <1>3, <1>7
<1>12. \A e \in Skipped(c) : Stored(e) = 0
  BY <1>3, <1>6
<1> QED BY <1>3, <1>5, <1>7, <1>10, <1>11, <1>12 DEF Between

-----------------------------------------------------------------------------
(* The inductive invariant.                                                 *)

SlotIds == 0 .. ChunkSize - 1
Chunk == [size : 0 .. ChunkSize, next : 0 .. HeapSize, items : [SlotIds -> 0 .. NbParticles]]

TypesInv ==
  /\ main \in {"create", "step", "report", "returned"}
  /\ created \in 0 .. NbParticles /\ idCell \in 0 .. nbCells
  /\ heap \in [Addresses -> Chunk] /\ live \subseteq Addresses
  /\ cur \in [CellIds -> [front : Addresses, back : Addresses]]
  /\ nxt \in [CellIds -> [front : Addresses, back : Addresses]]

\* The iterator is on a bag only in the loops that go through the cells.
IterInv ==
  /\ it = [at |-> it.at, chunk |-> it.chunk, size |-> it.size, index |-> it.index]
  /\ it = NoIter \/ (it.at \in {"NULL", "particle"} /\ main \in {"step", "report"} /\ idCell < nbCells)
  /\ main = "step" /\ it.at = "particle" =>
       it.chunk \in Addresses /\ it.size = Stored(it.chunk) /\ it.index \in 0 .. it.size - 1

\* Where the list of each bag starts: a bag that is read destructively has lost the
\* chunks that the iterator has left.
FirstOf(b) ==
  IF b[1] = "nxt" THEN nxt[b[2]].front
  ELSE IF ~Reading(b[2]) THEN cur[b[2]].front
  ELSE IF it.at = "NULL" THEN NULL ELSE it.chunk
Firsts == [b \in BagIds |-> FirstOf(b)]

\* There is always room for one particle in the first chunk of a bag that is not being read.
RoomInv ==
  \A j \in CellIds : Stored(nxt[j].front) < ChunkSize /\ (~Reading(j) => Stored(cur[j].front) < ChunkSize)

ContentsInv ==
  \A c \in live : \A i \in SlotIds : i < Stored(c) => heap[c].items[i] \in 1 .. NbParticles

ListsInv == IF main = "returned" THEN live = {} ELSE \E owner, pos : Chained(owner, pos, Nexts, live, Firsts)

DemoInv == TypesInv /\ IterInv /\ RoomInv /\ ContentsInv /\ ListsInv

\* What a push does to the memory: h, l and f are the heap, the addresses allocated
\* and the front of the bag after it, c the front before it.
Pushed(h, l, f, c) ==
  /\ h \in [Addresses -> Chunk]
  /\ \A a \in live : a # c => h[a] = heap[a]
  /\ h[c].next = heap[c].next
  /\ \A i \in SlotIds : i < h[c].size => h[c].items[i] \in 1 .. NbParticles
  /\ f \in Addresses /\ h[f].size < ChunkSize
  /\ \/ l = live /\ f = c
     \/ /\ f \notin live /\ l = live \cup {f}
        /\ h[f].size = 0 /\ h[f].next = c

\* Particle p is added at the end of chunk c.
Written(h, c, p) ==
  /\ h[c].size = Stored(c) + 1 /\ h[c].items[Stored(c)] = p
  /\ \A i \in SlotIds : i < Stored(c) => h[c].items[i] = heap[c].items[i]

LEMMA ChunkSizes == ChunkSize \in Nat /\ ChunkSize > 0 /\ HeapSize \in Nat /\ NbParticles \in Nat
BY DemoBagsAssumption

\* The header of a chunk that is put in front of a list.
LEMMA Cleared ==
  ASSUME NEW h \in [Addresses -> Chunk], NEW n \in Addresses, NEW c
  PROVE  [h EXCEPT ![n].size = 0, ![n].next = c] = [h EXCEPT ![n] = [size |-> 0, next |-> c, items |-> h[n].items]]
<1>1. PICK r \in Chunk : r = h[n]
  OBVIOUS
<1>2. PICK s, t, u : r = [size |-> s, next |-> t, items |-> u]
  BY DEF Chunk
<1>3. [r EXCEPT !.size = 0] = [size |-> 0, next |-> t, items |-> u]
  BY <1>2
<1>4. [[r EXCEPT !.size = 0] EXCEPT !.next = c] = [size |-> 0, next |-> c, items |-> r.items]
  <2>1. [[size |-> 0, next |-> t, items |-> u] EXCEPT !.next = c] = [size |-> 0, next |-> c, items |-> u]
    OBVIOUS
  <2>2. r.items = u
    BY <1>2
  <2> QED BY <1>3, <2>1, <2>2
<1>5. [h EXCEPT ![n].size = 0, ![n].next = c] = [h EXCEPT ![n] = [[h[n] EXCEPT !.size = 0] EXCEPT !.next = c]]
  OBVIOUS
<1> QED BY <1>1, <1>4, <1>5

LEMMA PushKeeps ==
  ASSUME TypesInv, ContentsInv, NEW b, b.front \in live, Stored(b.front) < ChunkSize, CanPush(b),
         NEW p \in 1 .. NbParticles
  PROVE  Pushed(Push(b, p).heap, Push(b, p).live, Push(b, p).front, b.front) /\ Written(Push(b, p).heap, b.front, p)
<1> DEFINE c == b.front
           items == [heap[c].items EXCEPT ![heap[c].size] = p]
           written == [heap EXCEPT ![c] = [size |-> heap[c].size + 1, next |-> heap[c].next, items |-> items]]
<1>1. /\ heap \in [Addresses -> Chunk] /\ live \subseteq Addresses /\ c \in Addresses /\ c \in live
      /\ heap[c] \in Chunk /\ heap[c].size \in 0 .. ChunkSize /\ heap[c].next \in 0 .. HeapSize
      /\ heap[c].items \in [SlotIds -> 0 .. NbParticles]
  <2>1. heap \in [Addresses -> Chunk] /\ live \subseteq Addresses /\ c \in Addresses /\ c \in live
    BY DEF TypesInv
  <2>2. heap[c] \in Chunk
    BY <2>1
  <2> QED BY <2>1, <2>2 DEF Chunk
<1>2. heap[c].size < ChunkSize /\ heap[c].size \in SlotIds /\ heap[c].size + 1 \in 0 .. ChunkSize
  <2> HIDE DEF c
  <2>1. PICK s \in 0 .. ChunkSize : s = heap[c].size
    BY <1>1
  <2>2. s < ChunkSize
    BY <2>1 DEF Stored, c
  <2>3. s \in SlotIds /\ s + 1 \in 0 .. ChunkSize
    BY <2>2, ChunkSizes DEF SlotIds
  <2> QED BY <2>1, <2>2, <2>3
<1>3. items \in [SlotIds -> 0 .. NbParticles]
  <2>1. p \in 0 .. NbParticles
    BY ChunkSizes
  <2> QED BY <1>1, <2>1
<1>4. [heap EXCEPT ![c].size = Stored(c) + 1, ![c].items[Stored(c)] = p] = written
  <2> DEFINE s == heap[c].size
             sized == [heap[c] EXCEPT !.size = s + 1]
  <2>1. sized = [size |-> s + 1, next |-> heap[c].next, items |-> heap[c].items]
    BY <1>1 DEF Chunk
  <2> HIDE DEF sized
  <2>2. [sized EXCEPT !.items[s] = p] = [size |-> s + 1, next |-> heap[c].next, items |-> items]
    <3>1. sized.items = heap[c].items
      BY <2>1
    <3>2. [sized EXCEPT !.items[s] = p] = [sized EXCEPT !.items = items]
      BY <3>1
    <3> HIDE DEF s, items, c
    <3>3. [sized EXCEPT !.items = items] = [size |-> s + 1, next |-> heap[c].next, items |-> items]
      BY <2>1
    <3> QED BY <3>2, <3>3
  <2>3. [heap EXCEPT ![c].size = s + 1, ![c].items[s] = p] = [heap EXCEPT ![c] = [sized EXCEPT !.items[s] = p]]
    BY <1>1 DEF sized
  <2>4. s = Stored(c)
    BY DEF Stored
  <2> QED BY <2>2, <2>3, <2>4
<1>5. \A i \in SlotIds : i < heap[c].size + 1 => items[i] \in 1 .. NbParticles
  <2> SUFFICES ASSUME NEW i \in SlotIds, i < heap[c].size + 1 PROVE items[i] \in 1 .. NbParticles
    OBVIOUS
  <2>1. CASE i = heap[c].size
    BY <1>1, <1>2, <2>1 DEF Stored
  <2>2. CASE i # heap[c].size
    <3>1. i < Stored(c)
      BY <1>1, <2>2 DEF Stored, SlotIds
    <3>2. items[i] = heap[c].items[i]
      BY <1>1, <2>2 DEF Stored
    <3> QED BY <1>1, <3>1, <3>2 DEF ContentsInv
  <2> QED BY <2>1, <2>2
<1>6. items[Stored(c)] = p /\ \A i \in SlotIds : i < Stored(c) => items[i] = heap[c].items[i]
  <2>1. ~(Stored(c) < Stored(c)) /\ Stored(c) = heap[c].size
    BY <1>1 DEF Stored
  <2> QED BY <1>1, <1>2, <2>1
<1> HIDE DEF items
<1>7. /\ written \in [Addresses -> Chunk] /\ \A a \in Addresses : a # c => written[a] = heap[a]
      /\ written[c].next = heap[c].next /\ written[c].size = heap[c].size + 1 /\ written[c].items = items
  BY <1>1, <1>2, <1>3 DEF Chunk
<1> HIDE DEF written
<1>8. Push(b, p) = IF Stored(c) < ChunkSize - 1 THEN [heap |-> written, live |-> live, front |-> c] ELSE AddFront(written, c)
  <2> DEFINE w == [heap EXCEPT ![c].size = Stored(c) + 1, ![c].items[Stored(c)] = p]
  <2>1. Push(b, p) = IF Stored(c) < ChunkSize - 1 THEN [heap |-> w, live |-> live, front |-> c] ELSE AddFront(w, c)
    BY Zenon DEF Push
  <2>2. w = written
    BY <1>4
  <2> QED BY <2>1, <2>2
<1> HIDE DEF c
<1>9. CASE Stored(c) < ChunkSize - 1
  <2>1. written[c].size < ChunkSize
    BY <1>1, <1>7, <1>9, ChunkSizes DEF Stored
  <2>2. Pushed(written, live, c, c)
    BY <1>1, <1>5, <1>7, <2>1 DEF Pushed
  <2>3. Written(written, c, p)
    BY <1>7, <1>6 DEF Written, Stored
  <2> QED BY <1>8, <1>9, <2>2, <2>3 DEF c
<1>10. CASE ~(Stored(c) < ChunkSize - 1)
  <2> DEFINE n == MallocIn(live)
             grown == [written EXCEPT ![n] = [size |-> 0, next |-> c, items |-> written[n].items]]
  <2>1. n \in Addresses /\ n \notin live /\ n # c
    <3>1. MemoryLeft
      BY <1>10 DEF CanPush, c
    <3> QED BY <1>1, <3>1, MallocFresh
  <2> HIDE DEF n
  <2>2. written[n] \in Chunk /\ c \in 0 .. HeapSize /\ 0 \in 0 .. ChunkSize
    BY <1>1, <1>7, <2>1, ChunkSizes DEF Addresses
  <2>3. [written EXCEPT ![n].size = 0, ![n].next = c] = grown
    BY <1>7, <2>1, Cleared
  <2>4. AddFront(written, c) = [heap |-> grown, live |-> live \cup {n}, front |-> n]
    BY <2>3 DEF AddFront, n
  <2>5. /\ grown \in [Addresses -> Chunk] /\ grown[n].size = 0 /\ grown[n].next = c
        /\ \A a \in Addresses : a # n => grown[a] = written[a]
    BY <1>7, <2>1, <2>2 DEF Chunk
  <2> HIDE DEF grown
  <2>6. Pushed(grown, live \cup {n}, n, c)
    <3>1. grown[c] = written[c] /\ \A a \in live : a # c => grown[a] = heap[a]
      BY <1>1, <1>7, <2>1, <2>5
    <3>2. grown[n].size < ChunkSize
      BY <2>5, ChunkSizes
    <3>3. \A i \in SlotIds : i < grown[c].size => grown[c].items[i] \in 1 .. NbParticles
      BY <1>5, <1>7, <3>1
    <3> QED BY <1>7, <2>1, <2>5, <3>1, <3>2, <3>3 DEF Pushed
  <2>7. Written(grown, c, p)
    <3>1. grown[c] = written[c]
      BY <1>1, <2>1, <2>5
    <3> QED BY <1>7, <1>6, <3>1 DEF Written, Stored
  <2> QED BY <1>8, <1>10, <2>4, <2>6, <2>7 DEF c
<1> QED BY <1>9, <1>10

-----------------------------------------------------------------------------
(* What the steps do to the lists.                                          *)

LEMMA MeshSizes ==
  /\ gridX \in Nat /\ gridX > 0 /\ gridY \in Nat /\ gridY > 0 /\ gridZ \in Nat /\ gridZ > 0
  /\ nbCells \in Nat /\ nbCells > 0 /\ 2 * nbCells <= HeapSize
<1>1. /\ gridX \in Nat /\ gridX > 0 /\ gridY \in Nat /\ gridY > 0 /\ gridZ \in Nat /\ gridZ > 0
      /\ 2 * gridX * gridY * gridZ <= HeapSize
  BY DemoBagsAssumption
<1> DEFINE w == gridX * gridY
<1>2. w \in Nat /\ w > 0
  BY <1>1
<1>3. 2 * gridX * gridY * gridZ = 2 * (w * gridZ) /\ w * gridZ = nbCells
  BY <1>1 DEF nbCells
<1> HIDE DEF w
<1>4. w * gridZ \in Nat /\ w * gridZ > 0
  BY <1>1, <1>2
<1> QED BY <1>1, <1>3, <1>4

\* The destination of a particle is a cell.
LEMMA ShiftInCells ==
  ASSUME NEW j \in CellIds, NEW d \in Int \X Int \X Int
  PROVE  Geometry!Shift(j, d) \in CellIds
<1>1. gridX \in Nat /\ gridX > 0 /\ gridY \in Nat /\ gridY > 0 /\ gridZ \in Nat /\ gridZ > 0
  BY MeshSizes
<1>2. j \in Int /\ Geometry!CellX(j) \in Int /\ Geometry!CellY(j) \in Int /\ Geometry!CellZ(j) \in Int
  <2>1. j \in Int
    BY DEF CellIds
  <2>2. j \div gridZ \in Int /\ j % gridZ \in Int
    BY <1>1, <2>1
  <2> QED BY <1>1, <2>1, <2>2 DEF Geometry!CellX, Geometry!CellY, Geometry!CellZ
<1> DEFINE x == (Geometry!CellX(j) + d[1]) % gridX
           y == (Geometry!CellY(j) + d[2]) % gridY
           z == (Geometry!CellZ(j) + d[3]) % gridZ
<1>3. x \in 0 .. (gridX - 1) /\ y \in 0 .. (gridY - 1) /\ z \in 0 .. (gridZ - 1)
  BY <1>1, <1>2
<1> HIDE DEF x, y, z
<1>4. x * gridY + y \in 0 .. (gridX * gridY - 1)
  <2>1. x * gridY >= 0 /\ x * gridY \in Int
    BY <1>1, <1>3
  <2>2. (x + 1) * gridY <= gridX * gridY
    BY <1>1, <1>3
  <2>3. (x + 1) * gridY = x * gridY + gridY
    BY <1>1, <1>3
  <2> QED BY <2>1, <2>2, <2>3, <1>1, <1>3
<1> DEFINE w == x * gridY + y
           m == gridX * gridY
<1> HIDE DEF w, m
<1>5. w \in 0 .. (m - 1) /\ m \in Nat
  BY <1>1, <1>4 DEF w, m
<1>6. w * gridZ + z \in 0 .. (m * gridZ - 1)
  <2>1. w * gridZ >= 0 /\ w * gridZ \in Int
    BY <1>1, <1>5
  <2>2. (w + 1) * gridZ <= m * gridZ
    BY <1>1, <1>5
  <2>3. (w + 1) * gridZ = w * gridZ + gridZ
    BY <1>1, <1>5
  <2> QED BY <2>1, <2>2, <2>3, <1>1, <1>3, <1>5
<1>7. Geometry!Shift(j, d) = w * gridZ + z
  BY DEF Geometry!Shift, Geometry!CellOf, w, x, y, z
<1> QED BY <1>6, <1>7 DEF CellIds, nbCells, m

LEMMA FirstsType ==
  ASSUME TypesInv, IterInv
  PROVE  Firsts \in [BagIds -> 0 .. HeapSize]
<1> SUFFICES ASSUME NEW b \in BagIds PROVE FirstOf(b) \in 0 .. HeapSize
  BY DEF Firsts
<1>1. b[2] \in CellIds
  BY DEF BagIds
<1>2. \A a \in Addresses : a \in 0 .. HeapSize
  BY DEF Addresses
<1>3. NULL \in 0 .. HeapSize
  BY ChunkSizes DEF NULL
<1>4. cur[b[2]].front \in Addresses /\ nxt[b[2]].front \in Addresses
  BY <1>1 DEF TypesInv
<1>5. Reading(b[2]) /\ it.at # "NULL" => it.chunk \in Addresses
  BY DEF Reading, IterInv
<1> QED BY <1>2, <1>3, <1>4, <1>5 DEF FirstOf

\* The lists after a step in which the chunks that are allocated keep their place.
Extended(owner2, pos2, owner, pos, nx, lv, hd) ==
  Chained(owner2, pos2, nx, lv, hd) /\ \A a \in live : owner2[a] = owner[a] /\ pos2[a] = pos[a]

\* A push onto the bag b keeps the lists.
LEMMA ListsAfterPush ==
  ASSUME NEW owner, NEW pos, NEW hd \in [BagIds -> 0 .. HeapSize], Chained(owner, pos, Nexts, live, hd),
         NEW b \in BagIds, hd[b] # NULL,
         NEW h, NEW l, NEW f, Pushed(h, l, f, hd[b]),
         NEW nx2, \A a \in Addresses : nx2[a] = h[a].next
  PROVE  \E owner2, pos2 : Extended(owner2, pos2, owner, pos, nx2, l, [hd EXCEPT ![b] = f])
<1>1. live \subseteq Addresses /\ hd[b] \in live
  BY DEF Chained
<1>2. \A a \in live : nx2[a] = Nexts[a]
  <2> SUFFICES ASSUME NEW a \in live PROVE nx2[a] = Nexts[a]
    OBVIOUS
  <2>1. h[a].next = heap[a].next
    BY DEF Pushed
  <2> QED BY <1>1, <2>1 DEF Nexts
<1>3. CASE l = live /\ f = hd[b]
  <2>1. [hd EXCEPT ![b] = f] = hd
    BY <1>3
  <2>2. Chained(owner, pos, nx2, live, hd)
    BY <1>2 DEF Chained
  <2>3. Extended(owner, pos, owner, pos, nx2, l, [hd EXCEPT ![b] = f])
    BY <1>3, <2>1, <2>2 DEF Extended
  <2> QED BY <2>3
<1>4. CASE f \notin live /\ l = live \cup {f} /\ h[f].next = hd[b]
  <2>1. f \in Addresses /\ nx2[f] = hd[b]
    BY <1>4 DEF Pushed
  <2> DEFINE owner2 == [owner EXCEPT ![f] = b]
             pos2 == [pos EXCEPT ![f] = IF hd[b] = NULL THEN 0 ELSE pos[hd[b]] + 1]
  <2>2. Chained(owner2, pos2, nx2, live \cup {f}, [hd EXCEPT ![b] = f])
    BY <1>2, <1>4, <2>1, PrependKeeps
  <2>3. \A a \in live : owner2[a] = owner[a] /\ pos2[a] = pos[a]
    BY <1>4, <1>1 DEF Chained
  <2> HIDE DEF owner2, pos2
  <2>4. Extended(owner2, pos2, owner, pos, nx2, l, [hd EXCEPT ![b] = f])
    BY <1>4, <2>2, <2>3 DEF Extended
  <2> QED BY <2>4
<1> QED BY <1>3, <1>4 DEF Pushed

\* bag_iter_next leaves the chunks that are before the one it goes to, and those that it
\* skips are empty.
LEMMA LeavingSkips ==
  ASSUME NEW owner, NEW pos, NEW hd, Chained(owner, pos, Nexts, live, hd), it.chunk \in live,
         heap \in [Addresses -> Chunk],
         it = [at |-> "particle", chunk |-> it.chunk, size |-> Stored(it.chunk), index |-> it.index],
         it.index \in 0 .. it.size - 1
  PROVE  /\ \A e \in Left : e # it.chunk => Stored(e) = 0
         /\ \E d : /\ d = NULL \/ (d \in live /\ owner[d] = owner[it.chunk] /\ pos[d] <= pos[it.chunk])
                   /\ Left = Between(owner, pos, it.chunk, d)
                   /\ IF d = NULL THEN Advanced = Ended
                      ELSE \E i \in 0 .. Stored(d) - 1 :
                             Advanced = [at |-> "particle", chunk |-> d, size |-> Stored(d), index |-> i]
<1> DEFINE c == it.chunk
<1>1. /\ live \subseteq Addresses /\ c # NULL /\ \A e \in live : pos[e] \in Nat
      /\ \A d, e \in live : owner[d] = owner[e] /\ pos[d] = pos[e] => d = e
  <2>1. live \subseteq Addresses /\ pos \in [Addresses -> Nat]
    BY DEF Chained
  <2>2. \A d, e \in live : owner[d] = owner[e] /\ pos[d] = pos[e] => d = e
    BY DEF Chained
  <2> QED BY <2>1, <2>2 DEF Addresses, NULL
<1>2. \A a \in Addresses : Stored(a) \in Nat /\ heap[a].next = Nexts[a]
  <2> SUFFICES ASSUME NEW a \in Addresses PROVE Stored(a) \in Nat /\ heap[a].next = Nexts[a]
    OBVIOUS
  <2>1. heap[a] \in Chunk
    OBVIOUS
  <2> QED BY <2>1, ChunkSizes DEF Chunk, Stored, Nexts
<1>3. IF pos[c] = 0 THEN heap[c].next = NULL
      ELSE heap[c].next \in live /\ owner[heap[c].next] = owner[c] /\ pos[heap[c].next] = pos[c] - 1 /\ heap[c].next # NULL
  <2>1. IF pos[c] = 0 THEN Nexts[c] = NULL
        ELSE Nexts[c] \in live /\ owner[Nexts[c]] = owner[c] /\ pos[Nexts[c]] = pos[c] - 1
    BY DEF Chained
  <2>2. \A e \in live : e # NULL
    BY <1>1 DEF Addresses, NULL
  <2> QED BY <1>1, <1>2, <2>1, <2>2
<1>4. CASE InChunk
  <2>1. Left = {}
    BY <1>4 DEF Left
  <2>2. Between(owner, pos, c, c) = {}
    BY <1>1 DEF Between
  <2>3. Advanced = [at |-> "particle", chunk |-> c, size |-> Stored(c), index |-> it.index + 1]
    <3>1. Advanced = [it EXCEPT !.index = @ + 1]
      BY <1>4 DEF Advanced
    <3> QED BY <3>1
  <2>4. it.index + 1 \in 0 .. Stored(c) - 1 /\ pos[c] <= pos[c]
    <3>1. it.size = Stored(c) /\ Stored(c) \in Nat /\ it.index + 1 < it.size
      BY <1>1, <1>2, <1>4 DEF InChunk
    <3> QED BY <1>1, <3>1
  <2> QED BY <1>1, <2>1, <2>2, <2>3, <2>4
<1>5. CASE ~InChunk /\ heap[c].next = NULL
  <2>1. Left = {c} /\ Advanced = Ended
    BY <1>5 DEF Left, Advanced
  <2>2. pos[c] = 0
    BY <1>3, <1>5
  <2>3. \A e \in live : owner[e] = owner[c] /\ pos[e] <= pos[c] <=> e = c
    BY <1>1, <2>2
  <2>4. Between(owner, pos, c, NULL) = {c}
    BY <2>3 DEF Between
  <2> QED BY <2>1, <2>4
<1>6. CASE ~InChunk /\ heap[c].next # NULL
  <2> DEFINE e == heap[c].next
  <2>1. e \in live /\ owner[e] = owner[c] /\ pos[e] = pos[c] - 1
    BY <1>3, <1>6
  <2>2. Left = {c} \cup Skipped(e) /\ Advanced = Get(e)
    BY <1>6 DEF Left, Advanced
  <2> HIDE DEF e
  <2>3. PICK d : /\ d = NULL \/ (d \in live /\ owner[d] = owner[e] /\ pos[d] <= pos[e] /\ Stored(d) # 0)
                 /\ Get(e) = IF d = NULL THEN Ended ELSE Load(d)
                 /\ Skipped(e) = Between(owner, pos, e, d)
                 /\ \A x \in Skipped(e) : Stored(x) = 0
    BY <2>1, GetSkips
  <2>4. d # NULL => pos[d] \in Nat /\ pos[d] < pos[c]
    BY <1>1, <2>1, <2>3
  <2>5. \A x \in live : owner[x] = owner[c] =>
          (pos[x] <= pos[c] <=> x = c \/ pos[x] <= pos[e]) /\ (x # c => pos[x] # pos[c])
    BY <1>1, <2>1
  <2>6. Left = Between(owner, pos, c, d)
    <3>1. \A x \in live : x \in Between(owner, pos, c, d) <=> x \in {c} \cup Skipped(e)
      <4> SUFFICES ASSUME NEW x \in live PROVE x \in Between(owner, pos, c, d) <=> x \in {c} \cup Skipped(e)
        OBVIOUS
      <4>1. CASE x = c
        BY <1>1, <2>4, <4>1 DEF Between
      <4>2. CASE x # c
        BY <2>1, <2>3, <2>5, <4>2 DEF Between
      <4> QED BY <4>1, <4>2
    <3>2. {c} \cup Skipped(e) \subseteq live
      BY <2>3 DEF Between
    <3> QED BY <2>2, <3>1, <3>2 DEF Between
  <2>7. d # NULL => 0 \in 0 .. Stored(d) - 1
    <3> SUFFICES ASSUME d # NULL PROVE 0 \in 0 .. Stored(d) - 1
      OBVIOUS
    <3>1. Stored(d) \in Nat /\ Stored(d) # 0
      BY <1>1, <1>2, <2>3
    <3> QED BY <3>1
  <2>8. IF d = NULL THEN Advanced = Ended
        ELSE Advanced = [at |-> "particle", chunk |-> d, size |-> Stored(d), index |-> 0]
    BY <2>2, <2>3 DEF Load
  <2>9. IF d = NULL THEN Advanced = Ended
        ELSE \E i \in 0 .. Stored(d) - 1 :
               Advanced = [at |-> "particle", chunk |-> d, size |-> Stored(d), index |-> i]
    BY <2>7, <2>8
  <2>10. d = NULL \/ (d \in live /\ owner[d] = owner[c] /\ pos[d] <= pos[c])
    BY <1>1, <2>1, <2>3, <2>4
  <2>11. \A x \in Left : x # c => Stored(x) = 0
    BY <2>2, <2>3
  <2> QED BY <2>6, <2>9, <2>10, <2>11
<1> QED BY <1>4, <1>5, <1>6

-----------------------------------------------------------------------------
(* The steps keep the invariant.                                            *)

\* One empty chunk per bag.
LEMMA InitLists ==
  ASSUME DemoBagsInit
  PROVE  \E owner, pos : Chained(owner, pos, Nexts, live, Firsts)
<1> DEFINE Bag(a) == IF a % 2 = 1 THEN <<"cur", (a - 1) \div 2>> ELSE <<"nxt", (a - 2) \div 2>>
           owner == [a \in Addresses |-> IF a \in live THEN Bag(a) ELSE <<"cur", 0>>]
           pos == [a \in Addresses |-> 0]
<1>1. nbCells \in Nat /\ nbCells > 0 /\ 2 * nbCells <= HeapSize /\ HeapSize \in Nat
  BY MeshSizes, ChunkSizes
<1>2. live = 1 .. 2 * nbCells /\ live \subseteq Addresses
  BY <1>1 DEF DemoBagsInit, Addresses
<1>3. /\ \A j \in CellIds : Firsts[<<"cur", j>>] = (2 * j) + 1 /\ Firsts[<<"nxt", j>>] = (2 * j) + 2
      /\ \A b \in BagIds : \E j \in CellIds : b = <<"cur", j>> \/ b = <<"nxt", j>>
  <2>1. \A b \in BagIds : \E j \in CellIds : b = <<"cur", j>> \/ b = <<"nxt", j>>
    BY DEF BagIds
  <2>2. ASSUME NEW j \in CellIds
        PROVE  Firsts[<<"cur", j>>] = (2 * j) + 1 /\ Firsts[<<"nxt", j>>] = (2 * j) + 2
    <3>1. <<"cur", j>> \in BagIds /\ <<"nxt", j>> \in BagIds /\ ~Reading(j)
      BY DEF BagIds, Reading, DemoBagsInit
    <3>2. Firsts[<<"cur", j>>] = cur[j].front /\ Firsts[<<"nxt", j>>] = nxt[j].front
      BY <3>1 DEF Firsts, FirstOf
    <3> QED BY <3>2 DEF DemoBagsInit, BagOf
  <2> QED BY <2>1, <2>2
<1>4. \A a \in live : /\ Bag(a) \in BagIds /\ Firsts[Bag(a)] = a
  <2> SUFFICES ASSUME NEW a \in live PROVE Bag(a) \in BagIds /\ Firsts[Bag(a)] = a
    OBVIOUS
  <2>1. a \in Nat /\ a > 0 /\ a <= 2 * nbCells
    BY <1>1, <1>2
  <2>2. CASE a % 2 = 1
    <3> DEFINE j == (a - 1) \div 2
    <3>1. j \in CellIds /\ (2 * j) + 1 = a
      BY <1>1, <2>1, <2>2 DEF CellIds
    <3>2. Bag(a) = <<"cur", j>>
      BY <2>2
    <3> HIDE DEF j, Bag
    <3>3. Firsts[<<"cur", j>>] = (2 * j) + 1
      BY <1>3, <3>1
    <3>4. <<"cur", j>> \in BagIds
      BY <3>1 DEF BagIds
    <3> QED BY <3>1, <3>2, <3>3, <3>4
  <2>3. CASE a % 2 # 1
    <3> DEFINE j == (a - 2) \div 2
    <3>1. j \in CellIds /\ (2 * j) + 2 = a
      BY <1>1, <2>1, <2>3 DEF CellIds
    <3>2. Bag(a) = <<"nxt", j>>
      BY <2>3
    <3> HIDE DEF j, Bag
    <3>3. Firsts[<<"nxt", j>>] = (2 * j) + 2
      BY <1>3, <3>1
    <3>4. <<"nxt", j>> \in BagIds
      BY <3>1 DEF BagIds
    <3> QED BY <3>1, <3>2, <3>3, <3>4
  <2> QED BY <2>2, <2>3
<1>5. ASSUME NEW b \in BagIds PROVE Firsts[b] \in live /\ Bag(Firsts[b]) = b
  <2>1. PICK j \in CellIds : b = <<"cur", j>> \/ b = <<"nxt", j>>
    BY <1>3
  <2>2. j \in Nat /\ j <= nbCells - 1
    BY <1>1 DEF CellIds
  <2>3. CASE b = <<"cur", j>>
    <3>1. Firsts[b] = (2 * j) + 1
      BY <1>3, <2>3
    <3>2. (2 * j) + 1 \in live /\ ((2 * j) + 1) % 2 = 1 /\ (((2 * j) + 1) - 1) \div 2 = j
      BY <1>1, <1>2, <2>2
    <3> QED BY <2>3, <3>1, <3>2
  <2>4. CASE b = <<"nxt", j>>
    <3>1. Firsts[b] = (2 * j) + 2
      BY <1>3, <2>4
    <3>2. (2 * j) + 2 \in live /\ ((2 * j) + 2) % 2 # 1 /\ (((2 * j) + 2) - 2) \div 2 = j
      BY <1>1, <1>2, <2>2
    <3> QED BY <2>4, <3>1, <3>2
  <2> QED BY <2>1, <2>3, <2>4
<1>6. \A a \in live : Nexts[a] = NULL
  BY <1>2 DEF DemoBagsInit, Nexts, Addresses
<1> HIDE DEF Bag
<1>7. /\ \A a \in live : owner[a] = Bag(a) /\ pos[a] = 0
      /\ owner \in [Addresses -> BagIds] /\ pos \in [Addresses -> Nat]
  <2>1. <<"cur", 0>> \in BagIds
    BY <1>1 DEF BagIds, CellIds
  <2>2. \A a \in live : owner[a] = Bag(a) /\ pos[a] = 0
    BY <1>2
  <2> QED BY <1>4, <2>1, <2>2
<1> HIDE DEF owner, pos
<1>8. \A a \in live : a # NULL
  BY <1>2 DEF NULL
<1>9. Chained(owner, pos, Nexts, live, Firsts)
  <2>1. \A c, d \in live : owner[c] = owner[d] => c = d
    BY <1>4, <1>7
  <2>2. \A c \in live : Firsts[owner[c]] # NULL /\ pos[c] <= pos[Firsts[owner[c]]]
    <3>1. 0 <= 0
      OBVIOUS
    <3> QED BY <1>4, <1>7, <1>8, <3>1
  <2> QED BY <1>2, <1>5, <1>6, <1>7, <2>1, <2>2 DEF Chained
<1> QED BY <1>9

LEMMA InitKeeps == DemoBagsInit => DemoInv
<1> SUFFICES ASSUME DemoBagsInit PROVE DemoInv
  OBVIOUS
<1>1. /\ nbCells \in Nat /\ nbCells > 0 /\ 2 * nbCells <= HeapSize /\ HeapSize \in Nat
      /\ ChunkSize \in Nat /\ ChunkSize > 0 /\ NbParticles \in Nat
  BY MeshSizes, ChunkSizes
<1>2. \A j \in CellIds : (2 * j) + 1 \in Addresses /\ (2 * j) + 2 \in Addresses
  BY <1>1 DEF CellIds, Addresses
<1>3. /\ cur = [j \in CellIds |-> [front |-> (2 * j) + 1, back |-> (2 * j) + 1]]
      /\ nxt = [j \in CellIds |-> [front |-> (2 * j) + 2, back |-> (2 * j) + 2]]
  BY DEF DemoBagsInit, BagOf
<1>4. \A a \in Addresses : heap[a] = [size |-> 0, next |-> NULL, items |-> [i \in SlotIds |-> NULL]]
  BY DEF DemoBagsInit, Addresses, SlotIds
<1>5. heap \in [Addresses -> Chunk]
  <2>1. [size |-> 0, next |-> NULL, items |-> [i \in SlotIds |-> NULL]] \in Chunk
    BY <1>1 DEF Chunk, NULL
  <2>2. heap = [a \in Addresses |-> [size |-> 0, next |-> NULL, items |-> [i \in SlotIds |-> NULL]]]
    BY DEF DemoBagsInit, Addresses, SlotIds
  <2> QED BY <2>1, <2>2
<1>6. TypesInv
  <2>1. live \subseteq Addresses
    BY <1>1 DEF DemoBagsInit, Addresses
  <2>2. /\ cur \in [CellIds -> [front : Addresses, back : Addresses]]
        /\ nxt \in [CellIds -> [front : Addresses, back : Addresses]]
    BY <1>2, <1>3
  <2>3. main = "create" /\ created \in 0 .. NbParticles /\ idCell \in 0 .. nbCells
    BY <1>1 DEF DemoBagsInit
  <2> QED BY <1>5, <2>1, <2>2, <2>3 DEF TypesInv
<1>7. IterInv
  BY DEF DemoBagsInit, IterInv, NoIter
<1>8. \A a \in Addresses : Stored(a) = 0
  BY <1>4 DEF Stored
<1>9. RoomInv
  <2>1. \A j \in CellIds : cur[j].front \in Addresses /\ nxt[j].front \in Addresses
    BY <1>2, <1>3
  <2> QED BY <1>1, <1>8, <2>1 DEF RoomInv
<1>10. ContentsInv
  <2>1. \A c \in live : Stored(c) = 0
    BY <1>6, <1>8 DEF TypesInv
  <2> QED BY <1>1, <2>1 DEF ContentsInv, SlotIds
<1>11. ListsInv
  <2>1. main # "returned"
    BY DEF DemoBagsInit
  <2> QED BY <2>1, InitLists DEF ListsInv
<1> QED BY <1>6, <1>7, <1>9, <1>10, <1>11 DEF DemoInv

\* The fronts of the bags that are not being read are allocated, each in its own list.
LEMMA FrontsListed ==
  ASSUME TypesInv, NEW owner, NEW pos, Chained(owner, pos, Nexts, live, Firsts), NEW j \in CellIds
  PROVE  /\ <<"nxt", j>> \in BagIds /\ Firsts[<<"nxt", j>>] = nxt[j].front /\ nxt[j].front # NULL
         /\ nxt[j].front \in live /\ owner[nxt[j].front] = <<"nxt", j>>
         /\ <<"cur", j>> \in BagIds
         /\ ~Reading(j) => /\ Firsts[<<"cur", j>>] = cur[j].front /\ cur[j].front # NULL
                           /\ cur[j].front \in live /\ owner[cur[j].front] = <<"cur", j>>
<1>1. <<"nxt", j>> \in BagIds /\ <<"cur", j>> \in BagIds
  BY DEF BagIds
<1>2. nxt[j].front \in Addresses /\ cur[j].front \in Addresses
  BY DEF TypesInv
<1>3. nxt[j].front # NULL /\ cur[j].front # NULL
  BY <1>2 DEF Addresses, NULL
<1>4. Firsts[<<"nxt", j>>] = nxt[j].front /\ (~Reading(j) => Firsts[<<"cur", j>>] = cur[j].front)
  BY <1>1 DEF Firsts, FirstOf
<1>5. \A b \in BagIds : Firsts[b] # NULL => Firsts[b] \in live /\ owner[Firsts[b]] = b
  BY DEF Chained
<1> QED BY <1>1, <1>3, <1>4, <1>5

LEMMA ContentsAfterPush ==
  ASSUME ContentsInv, NEW c, NEW l, NEW f, Pushed(heap', l, f, c), live' \subseteq l
  PROVE  ContentsInv'
<1> SUFFICES ASSUME NEW a \in live', NEW i \in SlotIds, i < heap'[a].size PROVE heap'[a].items[i] \in 1 .. NbParticles
  BY DEF ContentsInv, Stored
<1>1. CASE a = c
  BY <1>1 DEF Pushed
<1>2. CASE a # c /\ a \in live
  <2>1. heap'[a] = heap[a]
    BY <1>2 DEF Pushed
  <2> QED BY <1>2, <2>1 DEF ContentsInv, Stored
<1>3. CASE a \notin live
  <2>1. a = f /\ heap'[f].size = 0
    BY <1>3 DEF Pushed
  <2>2. ~(i < 0)
    BY ChunkSizes DEF SlotIds
  <2> QED BY <2>1, <2>2
<1> QED BY <1>1, <1>2, <1>3

\* A chunk that is not pushed onto keeps its particles.
LEMMA StoredAfterPush ==
  ASSUME NEW c, NEW l, NEW f, Pushed(heap', l, f, c)
  PROVE  \A a \in live : a # c => Stored(a)' = Stored(a)
BY DEF Pushed, Stored

\* No step moves a chunk to another list, but for the swap of the bags.
ListsKept ==
  \E owner, pos, owner2, pos2 :
    /\ Chained(owner, pos, Nexts, live, Firsts) /\ Chained(owner2, pos2, Nexts', live', Firsts')
    /\ \A a \in live \cap live' : owner2[a] = owner[a]

LEMMA AddParticleKeeps == ASSUME DemoInv, AddParticle PROVE DemoInv' /\ ListsKept
<1>1. TypesInv /\ IterInv /\ RoomInv /\ ContentsInv /\ ListsInv
  BY DEF DemoInv
<1>2. /\ main = "create" /\ main' = main /\ created < NbParticles /\ created' = created + 1
      /\ idCell' = idCell /\ it' = it /\ nxt' = nxt
  BY DEF AddParticle
<1>3. PICK owner, pos : Chained(owner, pos, Nexts, live, Firsts)
  BY <1>1, <1>2 DEF ListsInv
<1>4. PICK j \in CellIds :
        LET pushed == Push(cur[j], created') IN
        /\ CanPush(cur[j])
        /\ heap' = pushed.heap /\ live' = pushed.live
        /\ cur' = [cur EXCEPT ![j].front = pushed.front]
  BY DEF AddParticle
<1> DEFINE c == cur[j].front
           f == Push(cur[j], created').front
           b == <<"cur", j>>
<1>5. it = NoIter /\ \A k \in CellIds : ~Reading(k) /\ ~Reading(k)'
  BY <1>1, <1>2 DEF IterInv, Reading
<1>6. b \in BagIds /\ Firsts[b] = c /\ c # NULL /\ c \in live /\ owner[c] = b
  BY <1>1, <1>3, <1>5, FrontsListed
<1>7. created' \in 1 .. NbParticles
  BY <1>1, <1>2, ChunkSizes DEF TypesInv
<1>8. Stored(c) < ChunkSize
  BY <1>1, <1>5 DEF RoomInv
<1>9. Pushed(heap', live', f, c)
  <2> DEFINE p == created'
  <2> HIDE DEF p
  <2>1. p \in 1 .. NbParticles
    BY <1>7 DEF p
  <2>2. Pushed(Push(cur[j], p).heap, Push(cur[j], p).live, Push(cur[j], p).front, cur[j].front)
    BY <1>1, <1>4, <1>6, <1>8, <2>1, PushKeeps
  <2> QED BY <1>4, <2>2 DEF p
<1>10. cur' = [cur EXCEPT ![j].front = f]
  BY <1>4
<1> HIDE DEF f
<1>11. /\ \A k \in CellIds : k # j => cur'[k] = cur[k]
       /\ cur'[j].front = f /\ cur'[j] \in [front : Addresses, back : Addresses]
       /\ cur' \in [CellIds -> [front : Addresses, back : Addresses]]
  <2>1. f \in Addresses /\ cur \in [CellIds -> [front : Addresses, back : Addresses]]
    BY <1>1, <1>9 DEF Pushed, TypesInv
  <2> QED BY <1>10, <2>1
<1>12. TypesInv'
  <2>1. heap' \in [Addresses -> Chunk] /\ live' \subseteq Addresses
    BY <1>1, <1>9 DEF Pushed, TypesInv
  <2>2. created' \in 0 .. NbParticles
    BY <1>7, ChunkSizes
  <2> QED BY <1>1, <1>2, <1>11, <2>1, <2>2 DEF TypesInv
<1>13. IterInv'
  BY <1>1, <1>2, <1>5 DEF IterInv, NoIter
<1>14. RoomInv'
  <2> SUFFICES ASSUME NEW k \in CellIds PROVE Stored(nxt[k].front)' < ChunkSize /\ Stored(cur[k].front)' < ChunkSize
    BY DEF RoomInv
  <2>1. nxt[k].front \in live /\ owner[nxt[k].front] = <<"nxt", k>> /\ cur[k].front \in live /\ owner[cur[k].front] = <<"cur", k>>
    BY <1>1, <1>3, <1>5, FrontsListed
  <2>2. nxt[k].front # c /\ (k # j => cur[k].front # c)
    BY <1>6, <2>1
  <2>3. Stored(nxt[k].front) < ChunkSize /\ Stored(cur[k].front) < ChunkSize
    BY <1>1, <1>5 DEF RoomInv
  <2>4. \A a \in live : a # c => heap'[a].size = Stored(a)
    BY <1>9, StoredAfterPush DEF Stored
  <2>5. heap'[nxt[k].front].size < ChunkSize
    BY <2>1, <2>2, <2>3, <2>4
  <2>6. heap'[f].size < ChunkSize
    BY <1>9 DEF Pushed
  <2>7. heap'[cur'[k].front].size < ChunkSize
    BY <1>11, <2>1, <2>2, <2>3, <2>4, <2>6
  <2> QED BY <1>2, <2>5, <2>7 DEF Stored
<1>15. ContentsInv'
  BY <1>1, <1>9, ContentsAfterPush
<1>16. ListsInv' /\ ListsKept
  <2>1. Firsts \in [BagIds -> 0 .. HeapSize]
    BY <1>1, FirstsType
  <2>2. Firsts' = [Firsts EXCEPT ![b] = f]
    <3>1. ASSUME NEW x \in BagIds PROVE FirstOf(x)' = IF x = b THEN f ELSE FirstOf(x)
      <4>1. x[2] \in CellIds /\ x = <<x[1], x[2]>> /\ x[1] \in {"cur", "nxt"}
        BY DEF BagIds
      <4>2. CASE x[1] = "nxt"
        BY <1>2, <4>1, <4>2 DEF FirstOf
      <4>3. CASE x[1] = "cur"
        <5>1. FirstOf(x)' = cur'[x[2]].front /\ FirstOf(x) = cur[x[2]].front
          BY <1>5, <4>1, <4>3 DEF FirstOf
        <5>2. x = b <=> x[2] = j
          BY <4>1, <4>3
        <5> QED BY <1>11, <4>1, <5>1, <5>2
      <4> QED BY <4>1, <4>2, <4>3
    <3> HIDE DEF b
    <3> QED BY <3>1, <1>6 DEF Firsts
  <2>3. \E owner2, pos2 : Extended(owner2, pos2, owner, pos, Nexts', live', Firsts')
    <3> DEFINE nx2 == Nexts'
               l == live'
               h == heap'
    <3>1. b \in BagIds /\ Firsts[b] # NULL /\ Pushed(h, l, f, Firsts[b])
      BY <1>6, <1>9
    <3>2. \A a \in Addresses : nx2[a] = h[a].next
      BY DEF Nexts
    <3> HIDE DEF b, c, nx2, l, h
    <3>3. \E owner2, pos2 : Extended(owner2, pos2, owner, pos, nx2, l, [Firsts EXCEPT ![b] = f])
      BY <1>3, <2>1, <3>1, <3>2, ListsAfterPush
    <3> QED BY <2>2, <3>3 DEF nx2, l
  <2>4. ListsKept
    BY <1>3, <2>3 DEF ListsKept, Extended
  <2> QED BY <1>2, <2>3, <2>4 DEF ListsInv, Extended
<1> QED BY <1>12, <1>13, <1>14, <1>15, <1>16 DEF DemoInv

\* The steps that do not touch the chunks.
LEMMA QuietKeeps ==
  ASSUME DemoInv, main # "returned", main' \in {"create", "step", "report"},
         created' = created, idCell' \in 0 .. nbCells,
         heap' = heap, live' = live, cur' = cur, nxt' = nxt,
         IterInv', \A k \in CellIds : ~Reading(k) /\ ~Reading(k)'
  PROVE  DemoInv'
<1>1. TypesInv /\ IterInv /\ RoomInv /\ ContentsInv /\ ListsInv
  BY DEF DemoInv
<1>2. TypesInv'
  BY <1>1 DEF TypesInv
<1>3. RoomInv' /\ ContentsInv'
  BY <1>1 DEF RoomInv, ContentsInv, Stored
<1>4. Firsts' = Firsts
  <2>1. \A b \in BagIds : FirstOf(b)' = FirstOf(b)
    BY DEF FirstOf, BagIds
  <2> QED BY <2>1 DEF Firsts
<1>5. ListsInv'
  BY <1>1, <1>4 DEF ListsInv, Nexts
<1> QED BY <1>2, <1>3, <1>5 DEF DemoInv

LEMMA StepLeapFrogKeeps == ASSUME DemoInv, StepLeapFrog PROVE DemoInv'
<1>1. TypesInv /\ IterInv /\ main = "create" /\ main' \in {"step", "report"}
  BY DEF DemoInv, StepLeapFrog, NextStep
<1>2. it = NoIter /\ it' = it /\ idCell' = idCell /\ idCell \in 0 .. nbCells
  BY <1>1 DEF IterInv, StepLeapFrog, TypesInv
<1>3. IterInv'
  BY <1>2 DEF IterInv, NoIter
<1>4. \A k \in CellIds : ~Reading(k) /\ ~Reading(k)'
  BY <1>2 DEF Reading
<1>5. created' = created /\ heap' = heap /\ live' = live /\ cur' = cur /\ nxt' = nxt
  BY DEF StepLeapFrog
<1> QED BY <1>1, <1>2, <1>3, <1>4, <1>5, QuietKeeps

LEMMA ReportNextKeeps == ASSUME DemoInv, ReportNext PROVE DemoInv'
<1>1. TypesInv /\ IterInv /\ main = "report" /\ main' = main /\ it.at = "particle" /\ it' = Advanced
  BY DEF DemoInv, ReportNext
<1>2. idCell' = idCell /\ idCell \in 0 .. nbCells /\ idCell < nbCells
  BY <1>1 DEF IterInv, ReportNext, TypesInv, NoIter
<1>3. it' = [at |-> it'.at, chunk |-> it'.chunk, size |-> it'.size, index |-> it'.index] /\ it'.at \in {"NULL", "particle"}
  <2>1. CASE InChunk
    <3>1. it' = [it EXCEPT !.index = it.index + 1]
      BY <1>1, <2>1 DEF Advanced
    <3> QED BY <1>1, <3>1 DEF IterInv
  <2>2. CASE ~InChunk
    <3>1. it' = Ended \/ \E c : it' = Load(c)
      BY <1>1, <2>2 DEF Advanced, Get
    <3> QED BY <3>1 DEF Ended, NoIter, Load
  <2> QED BY <2>1, <2>2
<1>4. IterInv'
  BY <1>1, <1>2, <1>3 DEF IterInv
<1>5. \A k \in CellIds : ~Reading(k) /\ ~Reading(k)'
  BY <1>1 DEF Reading
<1>6. created' = created /\ heap' = heap /\ live' = live /\ cur' = cur /\ nxt' = nxt
  BY DEF ReportNext
<1> QED BY <1>1, <1>2, <1>4, <1>5, <1>6, QuietKeeps

LEMMA BeginBagKeeps == ASSUME DemoInv, BeginBag PROVE DemoInv' /\ (main = "step" => ListsKept)
<1>1. TypesInv /\ IterInv /\ RoomInv /\ ContentsInv /\ ListsInv
  BY DEF DemoInv
<1>2. /\ main \in {"step", "report"} /\ main' = main /\ it = NoIter /\ idCell < nbCells
      /\ created' = created /\ idCell' = idCell /\ heap' = heap /\ cur' = cur /\ nxt' = nxt
      /\ it' = Get(cur[idCell].front)
      /\ live' = IF main = "step" THEN live \ Skipped(cur[idCell].front) ELSE live
  BY DEF BeginBag
<1>3. idCell \in CellIds /\ idCell \in 0 .. nbCells
  BY <1>1, <1>2, MeshSizes DEF TypesInv, CellIds
<1>4. \A k \in CellIds : ~Reading(k)
  BY <1>2 DEF Reading
<1>5. PICK owner, pos : Chained(owner, pos, Nexts, live, Firsts)
  BY <1>1, <1>2 DEF ListsInv
<1> DEFINE c == cur[idCell].front
           b == <<"cur", idCell>>
<1>6. b \in BagIds /\ Firsts[b] = c /\ c # NULL /\ c \in live /\ owner[c] = b
  BY <1>1, <1>3, <1>4, <1>5, FrontsListed
<1> HIDE DEF c
<1>7. PICK d : /\ d = NULL \/ (d \in live /\ owner[d] = owner[c] /\ pos[d] <= pos[c] /\ Stored(d) # 0)
               /\ Get(c) = IF d = NULL THEN Ended ELSE Load(d)
               /\ Skipped(c) = Between(owner, pos, c, d)
  BY <1>5, <1>6, GetSkips
<1>8. it' = (IF d = NULL THEN Ended ELSE Load(d)) /\ live' = IF main = "step" THEN live \ Skipped(c) ELSE live
  BY <1>2, <1>7 DEF c
<1>9. it' = [at |-> it'.at, chunk |-> it'.chunk, size |-> it'.size, index |-> it'.index] /\ it'.at \in {"NULL", "particle"}
  BY <1>8 DEF Ended, NoIter, Load
<1>10. CASE main = "report"
  <2>1. IterInv' /\ \A k \in CellIds : ~Reading(k)'
    BY <1>2, <1>3, <1>9, <1>10 DEF IterInv, Reading
  <2>2. live' = live
    BY <1>8, <1>10
  <2> QED BY <1>2, <1>3, <1>4, <1>10, <2>1, <2>2, QuietKeeps
<1>11. CASE main = "step"
  <2>1. live \subseteq Addresses /\ live' \subseteq live
    BY <1>1, <1>8, <1>11 DEF TypesInv
  <2>2. TypesInv'
    BY <1>1, <1>2, <2>1 DEF TypesInv
  <2>3. d # NULL => d \in Addresses /\ Stored(d) \in Nat /\ Stored(d) # 0
    <3> SUFFICES ASSUME d # NULL PROVE d \in Addresses /\ Stored(d) \in Nat /\ Stored(d) # 0
      OBVIOUS
    <3>1. d \in Addresses /\ Stored(d) # 0
      BY <1>7, <2>1
    <3>2. heap[d] \in Chunk
      BY <1>1, <3>1 DEF TypesInv
    <3> QED BY <3>1, <3>2, ChunkSizes DEF Chunk, Stored
  <2>4. IterInv'
    <3>1. it'.at = "particle" => it'.chunk \in Addresses /\ it'.size = heap[it'.chunk].size /\ it'.index \in 0 .. it'.size - 1
      <4> SUFFICES ASSUME it'.at = "particle"
                   PROVE  it'.chunk \in Addresses /\ it'.size = heap[it'.chunk].size /\ it'.index \in 0 .. it'.size - 1
        OBVIOUS
      <4>1. d # NULL
        BY <1>8 DEF Ended, NoIter
      <4>2. it'.chunk = d /\ it'.size = Stored(d) /\ it'.index = 0
        BY <1>8, <4>1 DEF Load
      <4> QED BY <2>3, <4>1, <4>2 DEF Stored
    <3> QED BY <1>2, <1>9, <3>1 DEF IterInv, Stored
  <2>5. RoomInv'
    BY <1>1, <1>2, <1>4 DEF RoomInv, Stored
  <2>6. ContentsInv'
    BY <1>1, <1>2, <2>1 DEF ContentsInv, Stored
  <2>7. \A k \in CellIds : Reading(k)' <=> k = idCell
    <3>1. it' # NoIter
      BY <1>9 DEF NoIter
    <3> QED BY <1>2, <1>11, <3>1 DEF Reading
  <2>8. Firsts' = [Firsts EXCEPT ![b] = d]
    <3>1. ASSUME NEW x \in BagIds PROVE FirstOf(x)' = IF x = b THEN d ELSE FirstOf(x)
      <4>1. x[2] \in CellIds /\ x = <<x[1], x[2]>> /\ x[1] \in {"cur", "nxt"}
        BY DEF BagIds
      <4>2. CASE x[1] = "nxt"
        BY <1>2, <4>1, <4>2 DEF FirstOf
      <4>3. CASE x[1] = "cur" /\ x[2] # idCell
        BY <1>2, <1>4, <2>7, <4>1, <4>3 DEF FirstOf
      <4>4. CASE x[1] = "cur" /\ x[2] = idCell
        <5>1. FirstOf(x)' = IF it'.at = "NULL" THEN NULL ELSE it'.chunk
          BY <2>7, <4>1, <4>4 DEF FirstOf
        <5>2. FirstOf(x)' = d
          BY <1>8, <5>1 DEF Ended, NoIter, Load
        <5> QED BY <4>1, <4>4, <5>2
      <4> QED BY <4>1, <4>2, <4>3, <4>4
    <3> HIDE DEF b
    <3> QED BY <3>1, <1>6 DEF Firsts
  <2>9. Skipped(c) = CutOff(owner, pos, live, b, d)
    <3>1. \A e \in live : owner[e] = b => pos[e] <= pos[c]
      BY <1>5, <1>6 DEF Chained
    <3> QED BY <1>6, <1>7, <3>1 DEF CutOff, Between
  <2>10. Chained(owner, pos, Nexts, live', Firsts')
    <3>1. Firsts \in [BagIds -> 0 .. HeapSize]
      BY <1>1, FirstsType
    <3>2. d = NULL \/ (d \in live /\ owner[d] = b)
      BY <1>6, <1>7
    <3>3. live' = live \ CutOff(owner, pos, live, b, d)
      BY <1>8, <1>11, <2>9
    <3> HIDE DEF b
    <3> QED BY <1>5, <1>6, <2>8, <3>1, <3>2, <3>3, CutKeeps
  <2>11. ListsInv' /\ ListsKept
    <3>1. Nexts' = Nexts
      BY <1>2 DEF Nexts
    <3>2. ListsKept
      BY <1>5, <2>10, <3>1 DEF ListsKept
    <3> QED BY <1>2, <1>11, <2>10, <3>1, <3>2 DEF ListsInv
  <2> QED BY <2>2, <2>4, <2>5, <2>6, <2>11 DEF DemoInv
<1> QED BY <1>2, <1>10, <1>11

LEMMA EndBagKeeps == ASSUME DemoInv, EndBag PROVE DemoInv' /\ (main = "step" => ListsKept)
<1>1. TypesInv /\ IterInv /\ RoomInv /\ ContentsInv /\ ListsInv
  BY DEF DemoInv
<1>2. /\ it.at = "NULL" /\ main' = main /\ created' = created /\ nxt' = nxt
      /\ idCell' = idCell + 1 /\ it' = NoIter
  BY DEF EndBag
<1>3. main \in {"step", "report"} /\ idCell < nbCells
  BY <1>1, <1>2 DEF IterInv, NoIter
<1>4. idCell \in CellIds /\ idCell' \in 0 .. nbCells
  BY <1>1, <1>2, <1>3, MeshSizes DEF TypesInv, CellIds
<1>5. IterInv' /\ \A k \in CellIds : ~Reading(k)'
  BY <1>2 DEF IterInv, Reading, NoIter
<1>6. CASE main = "report"
  <2>1. heap' = heap /\ live' = live /\ cur' = cur
    BY <1>6 DEF EndBag
  <2>2. \A k \in CellIds : ~Reading(k)
    BY <1>6 DEF Reading
  <2> QED BY <1>2, <1>4, <1>5, <1>6, <2>1, <2>2, QuietKeeps
<1>7. CASE main = "step"
  <2> DEFINE c == MallocIn(live)
             b == <<"cur", idCell>>
  <2>1. /\ MemoryLeft
        /\ heap' = [heap EXCEPT ![c].size = 0, ![c].next = NULL]
        /\ live' = live \cup {c}
        /\ cur' = [cur EXCEPT ![idCell] = BagOf(c)]
    BY <1>7 DEF EndBag
  <2>2. live \subseteq Addresses /\ heap \in [Addresses -> Chunk]
    BY <1>1 DEF TypesInv
  <2>3. c \in Addresses /\ c \notin live
    BY <2>1, <2>2, MallocFresh
  <2> HIDE DEF c
  <2>4. heap' = [heap EXCEPT ![c] = [size |-> 0, next |-> NULL, items |-> heap[c].items]]
    BY <2>1, <2>2, <2>3, Cleared
  <2>5. /\ heap' \in [Addresses -> Chunk] /\ heap'[c].size = 0 /\ heap'[c].next = NULL
        /\ \A a \in live : heap'[a] = heap[a]
    <3>1. heap[c].items \in [SlotIds -> 0 .. NbParticles]
      BY <2>2, <2>3 DEF Chunk
    <3>2. [size |-> 0, next |-> NULL, items |-> heap[c].items] \in Chunk
      BY <3>1, ChunkSizes DEF Chunk, NULL
    <3> QED BY <2>2, <2>3, <2>4, <3>2
  <2>6. /\ cur' \in [CellIds -> [front : Addresses, back : Addresses]]
        /\ cur'[idCell].front = c /\ \A k \in CellIds : k # idCell => cur'[k] = cur[k]
    BY <1>1, <1>4, <2>1, <2>3 DEF TypesInv, BagOf
  <2>7. TypesInv'
    <3>1. live' \subseteq Addresses
      BY <2>1, <2>2, <2>3
    <3> QED BY <1>1, <1>2, <1>4, <2>5, <2>6, <3>1 DEF TypesInv
  <2>8. \A k \in CellIds : Reading(k) <=> k = idCell
    BY <1>2, <1>7 DEF Reading, NoIter
  <2>9. PICK owner, pos : Chained(owner, pos, Nexts, live, Firsts)
    BY <1>1, <1>7 DEF ListsInv
  <2>10. RoomInv'
    <3> SUFFICES ASSUME NEW k \in CellIds PROVE heap'[nxt[k].front].size < ChunkSize /\ heap'[cur'[k].front].size < ChunkSize
      BY <1>2 DEF RoomInv, Stored
    <3>1. nxt[k].front \in live /\ (k # idCell => cur[k].front \in live)
      BY <1>1, <2>8, <2>9, FrontsListed
    <3>2. Stored(nxt[k].front) < ChunkSize /\ (k # idCell => Stored(cur[k].front) < ChunkSize)
      BY <1>1, <2>8 DEF RoomInv
    <3>3. CASE k = idCell
      BY <2>5, <2>6, <3>1, <3>2, <3>3, ChunkSizes DEF Stored
    <3>4. CASE k # idCell
      BY <2>5, <2>6, <3>1, <3>2, <3>4 DEF Stored
    <3> QED BY <3>3, <3>4
  <2>11. ContentsInv'
    <3> SUFFICES ASSUME NEW a \in live', NEW i \in SlotIds, i < heap'[a].size PROVE heap'[a].items[i] \in 1 .. NbParticles
      BY DEF ContentsInv, Stored
    <3>1. a # c
      BY <2>5, ChunkSizes DEF SlotIds
    <3> QED BY <1>1, <2>1, <2>5, <3>1 DEF ContentsInv, Stored
  <2>12. b \in BagIds /\ Firsts[b] = NULL
    <3>1. b \in BagIds
      BY <1>4 DEF BagIds
    <3> QED BY <1>2, <1>4, <2>8, <3>1 DEF Firsts, FirstOf
  <2>13. Firsts' = [Firsts EXCEPT ![b] = c]
    <3>1. ASSUME NEW x \in BagIds PROVE FirstOf(x)' = IF x = b THEN c ELSE FirstOf(x)
      <4>1. x[2] \in CellIds /\ x = <<x[1], x[2]>> /\ x[1] \in {"cur", "nxt"}
        BY DEF BagIds
      <4>2. CASE x[1] = "nxt"
        BY <1>2, <4>1, <4>2 DEF FirstOf
      <4>3. CASE x[1] = "cur" /\ x[2] # idCell
        <5>1. FirstOf(x) = cur[x[2]].front /\ FirstOf(x)' = cur'[x[2]].front
          BY <1>5, <2>8, <4>1, <4>3 DEF FirstOf
        <5> QED BY <2>6, <4>1, <4>3, <5>1
      <4>4. CASE x[1] = "cur" /\ x[2] = idCell
        <5>1. FirstOf(x)' = cur'[idCell].front
          BY <1>5, <4>1, <4>4 DEF FirstOf
        <5> QED BY <2>6, <4>1, <4>4, <5>1
      <4> QED BY <4>1, <4>2, <4>3, <4>4
    <3> HIDE DEF b
    <3> QED BY <3>1, <2>12 DEF Firsts
  <2>14. \E owner2, pos2 : Chained(owner2, pos2, Nexts', live', Firsts') /\ \A a \in live : owner2[a] = owner[a]
    <3>1. Firsts \in [BagIds -> 0 .. HeapSize]
      BY <1>1, FirstsType
    <3>2. (\A a \in live : Nexts'[a] = Nexts[a]) /\ Nexts'[c] = Firsts[b]
      BY <2>2, <2>3, <2>5, <2>12 DEF Nexts
    <3> DEFINE nx2 == Nexts'
    <3> HIDE DEF nx2, b
    <3>3. \A a \in live : nx2[a] = Nexts[a]
      BY <3>2 DEF nx2
    <3>4. nx2[c] = Firsts[b]
      BY <3>2 DEF nx2
    <3>5. Chained([owner EXCEPT ![c] = b], [pos EXCEPT ![c] = IF Firsts[b] = NULL THEN 0 ELSE pos[Firsts[b]] + 1],
                  nx2, live \cup {c}, [Firsts EXCEPT ![b] = c])
      BY <2>3, <2>9, <2>12, <3>1, <3>3, <3>4, PrependKeeps
    <3>6. \A a \in live : [owner EXCEPT ![c] = b][a] = owner[a]
      BY <2>2, <2>3, <2>9 DEF Chained
    <3> QED BY <2>1, <2>13, <3>5, <3>6 DEF nx2
  <2>15. ListsKept
    BY <2>9, <2>14 DEF ListsKept
  <2> QED BY <1>2, <1>5, <1>7, <2>7, <2>10, <2>11, <2>14, <2>15 DEF DemoInv, ListsInv
<1> QED BY <1>3, <1>6, <1>7

LEMMA SwapBagsKeeps == ASSUME DemoInv, SwapBags PROVE DemoInv'
<1>1. TypesInv /\ IterInv /\ RoomInv /\ ContentsInv /\ ListsInv
  BY DEF DemoInv
<1>2. /\ main = "step" /\ idCell = nbCells /\ cur' = nxt /\ nxt' = cur
      /\ idCell' = 0 /\ main' \in {"step", "report"}
      /\ created' = created /\ it' = it /\ heap' = heap /\ live' = live
  BY DEF SwapBags, NextStep
<1>3. it = NoIter /\ nbCells \in Nat
  BY <1>1, <1>2, MeshSizes DEF IterInv
<1>4. \A k \in CellIds : ~Reading(k) /\ ~Reading(k)'
  BY <1>2, <1>3 DEF Reading
<1>5. TypesInv'
  BY <1>1, <1>2, <1>3 DEF TypesInv
<1>6. IterInv'
  BY <1>2, <1>3 DEF IterInv, NoIter
<1>7. RoomInv'
  BY <1>1, <1>2, <1>4 DEF RoomInv, Stored
<1>8. ContentsInv'
  BY <1>1, <1>2 DEF ContentsInv, Stored
<1>9. PICK owner, pos : Chained(owner, pos, Nexts, live, Firsts)
  BY <1>1, <1>2 DEF ListsInv
<1>10. Firsts' = [b \in BagIds |-> Firsts[Other(b)]]
  <2>1. ASSUME NEW b \in BagIds PROVE FirstOf(b)' = Firsts[Other(b)]
    <3>1. Other(b) \in BagIds /\ b[2] \in CellIds /\ b[1] \in {"cur", "nxt"}
      BY DEF Other, BagIds
    <3>2. Firsts[Other(b)] = FirstOf(Other(b))
      BY <3>1 DEF Firsts
    <3> QED BY <1>2, <1>4, <3>1, <3>2 DEF FirstOf, Other
  <2> QED BY <2>1 DEF Firsts
<1>11. Chained([c \in Addresses |-> Other(owner[c])], pos, Nexts, live, [b \in BagIds |-> Firsts[Other(b)]])
  BY <1>9, SwapKeeps
<1>12. ListsInv'
  <2>1. Nexts' = Nexts
    BY <1>2 DEF Nexts
  <2>2. Chained([c \in Addresses |-> Other(owner[c])], pos, Nexts', live', Firsts')
    BY <1>2, <1>10, <1>11, <2>1
  <2> QED BY <1>2, <2>2 DEF ListsInv
<1> QED BY <1>5, <1>6, <1>7, <1>8, <1>12 DEF DemoInv

LEMMA DeallocateKeeps == ASSUME DemoInv, Deallocate PROVE DemoInv'
<1>1. TypesInv /\ IterInv /\ RoomInv /\ ContentsInv /\ ListsInv
  BY DEF DemoInv
<1>2. /\ main = "report" /\ idCell = nbCells /\ main' = "returned"
      /\ live' = live \ UNION {ChunksFrom(cur[j].front) \cup ChunksFrom(nxt[j].front) : j \in CellIds}
      /\ created' = created /\ idCell' = idCell /\ it' = it /\ heap' = heap /\ cur' = cur /\ nxt' = nxt
  BY DEF Deallocate
<1>3. it = NoIter /\ nbCells \in Nat
  BY <1>1, <1>2, MeshSizes DEF IterInv
<1>4. \A k \in CellIds : ~Reading(k) /\ ~Reading(k)'
  BY <1>2, <1>3 DEF Reading
<1>5. PICK owner, pos : Chained(owner, pos, Nexts, live, Firsts)
  BY <1>1, <1>2 DEF ListsInv
<1>6. live' = {}
  <2> SUFFICES ASSUME NEW c \in live
               PROVE  \E j \in CellIds : c \in ChunksFrom(cur[j].front) \/ c \in ChunksFrom(nxt[j].front)
    BY <1>2
  <2> DEFINE b == owner[c]
             e == Firsts[b]
  <2>1. b \in BagIds /\ e # NULL /\ pos[c] <= pos[e]
    BY <1>1, <1>5 DEF Chained, TypesInv
  <2>2. e \in live /\ owner[e] = b
    BY <1>5, <2>1 DEF Chained
  <2> HIDE DEF e
  <2>3. ChunksFrom(e) = {x \in live : owner[x] = owner[e] /\ pos[x] <= pos[e]}
    BY <1>5, <2>2, ChunksOfList
  <2>4. c \in ChunksFrom(e)
    BY <2>1, <2>2, <2>3
  <2>5. b[2] \in CellIds /\ e = FirstOf(b)
    BY <2>1 DEF BagIds, Firsts, e
  <2>6. e = cur[b[2]].front \/ e = nxt[b[2]].front
    BY <1>4, <2>5 DEF FirstOf
  <2> QED BY <2>4, <2>5, <2>6
<1>7. TypesInv'
  BY <1>1, <1>2, <1>6 DEF TypesInv
<1>8. IterInv'
  BY <1>2, <1>3 DEF IterInv, NoIter
<1>9. RoomInv'
  BY <1>1, <1>2, <1>4 DEF RoomInv, Stored
<1>10. ContentsInv' /\ ListsInv'
  BY <1>2, <1>6 DEF ContentsInv, ListsInv
<1> QED BY <1>7, <1>8, <1>9, <1>10 DEF DemoInv

\* One turn of the loop of step(): the particle goes to the bag of cell j, where l and f
\* are the addresses allocated and the front of the bag after the push, and the iterator
\* goes to chunk e.  The bag that is read and the bag that is filled are not the same one,
\* so the chunks that the iterator leaves are the same before and after the push.
Moving(owner, pos, j, l, f, e) ==
  /\ Chained(owner, pos, Nexts, live, Firsts)
  /\ idCell \in CellIds /\ j \in CellIds /\ \E d \in Moves[Current] : j = Geometry!Shift(idCell, d)
  /\ it.chunk \in live /\ owner[it.chunk] = <<"cur", idCell>> /\ Firsts[<<"cur", idCell>>] = it.chunk
  /\ nxt[j].front \in live /\ owner[nxt[j].front] = <<"nxt", j>> /\ Firsts[<<"nxt", j>>] = nxt[j].front
  /\ Pushed(heap', l, f, nxt[j].front) /\ Written(heap', nxt[j].front, Current)
  /\ nxt' = [nxt EXCEPT ![j].front = f] /\ live' = l \ Left /\ charge' = [charge EXCEPT ![j] = @ + 1]
  /\ e = NULL \/ (e \in live /\ owner[e] = <<"cur", idCell>>)
  /\ Left = CutOff(owner, pos, live, <<"cur", idCell>>, e)
  /\ IF e = NULL THEN Advanced = Ended
     ELSE \E i \in 0 .. Stored(e) - 1 :
            Advanced = [at |-> "particle", chunk |-> e, size |-> Stored(e), index |-> i]

LEMMA MoveNextMoves ==
  ASSUME DemoInv, MoveNext
  PROVE  Current \in 1 .. NbParticles /\ \E owner, pos, j, l, f, e : Moving(owner, pos, j, l, f, e)
<1>1. TypesInv /\ IterInv /\ RoomInv /\ ContentsInv /\ ListsInv
  BY DEF DemoInv
<1>2. /\ main = "step" /\ main' = main /\ it.at = "particle" /\ it' = Advanced
      /\ created' = created /\ idCell' = idCell /\ cur' = cur
  BY DEF MoveNext
<1>3. idCell \in 0 .. nbCells /\ idCell < nbCells /\ idCell \in CellIds
  BY <1>1, <1>2, MeshSizes DEF IterInv, TypesInv, CellIds, NoIter
<1>4. PICK owner, pos : Chained(owner, pos, Nexts, live, Firsts)
  BY <1>1, <1>2 DEF ListsInv
<1> DEFINE b == <<"cur", idCell>>
<1>5. \A k \in CellIds : Reading(k) <=> k = idCell
  BY <1>2 DEF Reading, NoIter
<1>6. /\ it.chunk \in Addresses /\ it.size = Stored(it.chunk) /\ it.index \in 0 .. it.size - 1
      /\ it = [at |-> "particle", chunk |-> it.chunk, size |-> Stored(it.chunk), index |-> it.index]
  BY <1>1, <1>2 DEF IterInv
<1>7. b \in BagIds /\ Firsts[b] = it.chunk /\ it.chunk # NULL
  <2>1. b \in BagIds /\ it.chunk # NULL
    BY <1>3, <1>6 DEF BagIds, Addresses, NULL
  <2>2. FirstOf(b) = it.chunk
    BY <1>2, <1>3, <1>5 DEF FirstOf
  <2> QED BY <2>1, <2>2 DEF Firsts
<1>8. it.chunk \in live /\ owner[it.chunk] = b
  BY <1>4, <1>7 DEF Chained
<1>9. live \subseteq Addresses /\ heap \in [Addresses -> Chunk]
  BY <1>1 DEF TypesInv
<1>10. Current \in 1 .. NbParticles
  <2>1. heap[it.chunk] \in Chunk
    BY <1>6, <1>9
  <2>2. Stored(it.chunk) \in 0 .. ChunkSize
    BY <2>1 DEF Chunk, Stored
  <2>3. it.index \in SlotIds /\ it.index < Stored(it.chunk)
    BY <1>6, <2>2, ChunkSizes DEF SlotIds
  <2> QED BY <1>1, <1>8, <2>3 DEF ContentsInv, Current
<1>11. PICK d \in Moves[Current] :
         LET idCell2 == Geometry!Shift(idCell, d)
             pushed == Push(nxt[idCell2], Current)
         IN  /\ CanPush(nxt[idCell2])
             /\ heap' = pushed.heap
             /\ nxt' = [nxt EXCEPT ![idCell2].front = pushed.front]
             /\ live' = pushed.live \ Left
             /\ charge' = [charge EXCEPT ![idCell2] = @ + 1]
  BY DEF MoveNext
<1> DEFINE j == Geometry!Shift(idCell, d)
           c == nxt[j].front
           l == Push(nxt[j], Current).live
           f == Push(nxt[j], Current).front
           b2 == <<"nxt", j>>
<1>12. j \in CellIds
  <2>1. d \in Int \X Int \X Int
    BY <1>10, <1>11, DemoBagsAssumption
  <2> QED BY <1>3, <2>1, ShiftInCells
<1>13. /\ CanPush(nxt[j]) /\ heap' = Push(nxt[j], Current).heap
       /\ nxt' = [nxt EXCEPT ![j].front = f] /\ live' = l \ Left /\ charge' = [charge EXCEPT ![j] = @ + 1]
       /\ \E d1 \in Moves[Current] : j = Geometry!Shift(idCell, d1)
  BY <1>11
<1> HIDE DEF j
<1>14. b2 \in BagIds /\ Firsts[b2] = c /\ c # NULL /\ c \in live /\ owner[c] = b2
  BY <1>1, <1>4, <1>12, FrontsListed
<1>15. Pushed(heap', l, f, c) /\ Written(heap', c, Current)
  <2>1. Stored(c) < ChunkSize
    BY <1>1, <1>12 DEF RoomInv
  <2> DEFINE p == Current
  <2>2. p \in 1 .. NbParticles
    BY <1>10
  <2> HIDE DEF p
  <2>3. /\ Pushed(Push(nxt[j], p).heap, Push(nxt[j], p).live, Push(nxt[j], p).front, nxt[j].front)
        /\ Written(Push(nxt[j], p).heap, nxt[j].front, p)
    <3>1. nxt[j].front \in live /\ Stored(nxt[j].front) < ChunkSize
      BY <1>14, <2>1
    <3> QED BY <1>1, <1>13, <2>2, <3>1, PushKeeps
  <2> QED BY <1>13, <2>3 DEF p
<1> HIDE DEF l, f
<1>16. PICK e : /\ e = NULL \/ (e \in live /\ owner[e] = b)
                /\ Left = CutOff(owner, pos, live, b, e)
                /\ IF e = NULL THEN Advanced = Ended
                   ELSE \E i \in 0 .. Stored(e) - 1 :
                          Advanced = [at |-> "particle", chunk |-> e, size |-> Stored(e), index |-> i]
  <2> HIDE DEF b
  <2>1. PICK e : /\ e = NULL \/ (e \in live /\ owner[e] = owner[it.chunk] /\ pos[e] <= pos[it.chunk])
                 /\ Left = Between(owner, pos, it.chunk, e)
                 /\ IF e = NULL THEN Advanced = Ended
                    ELSE \E i \in 0 .. Stored(e) - 1 :
                           Advanced = [at |-> "particle", chunk |-> e, size |-> Stored(e), index |-> i]
    BY <1>4, <1>6, <1>8, <1>9, LeavingSkips
  <2>2. \A x \in live : owner[x] = b => pos[x] <= pos[it.chunk]
    BY <1>4, <1>7 DEF Chained
  <2>3. Left = CutOff(owner, pos, live, b, e)
    BY <1>8, <2>1, <2>2 DEF CutOff, Between
  <2>4. e = NULL \/ (e \in live /\ owner[e] = b)
    BY <1>8, <2>1
  <2> QED BY <2>1, <2>3, <2>4
<1>17. Moving(owner, pos, j, l, f, e)
  BY <1>3, <1>4, <1>7, <1>8, <1>12, <1>13, <1>14, <1>15, <1>16 DEF Moving
<1> QED BY <1>10, <1>17

LEMMA MoveNextKeeps == ASSUME DemoInv, MoveNext PROVE DemoInv' /\ ListsKept
<1>1. TypesInv /\ IterInv /\ RoomInv /\ ContentsInv /\ ListsInv
  BY DEF DemoInv
<1>2. /\ main = "step" /\ main' = main /\ it.at = "particle" /\ it' = Advanced
      /\ created' = created /\ idCell' = idCell /\ cur' = cur
  BY DEF MoveNext
<1>3. PICK owner, pos, j, l, f, e : Moving(owner, pos, j, l, f, e)
  BY MoveNextMoves
<1> DEFINE c == nxt[j].front
           b == <<"cur", idCell>>
           b2 == <<"nxt", j>>
<1>4. idCell \in CellIds /\ j \in CellIds /\ idCell \in 0 .. nbCells /\ idCell < nbCells
  BY <1>1, <1>2, <1>3 DEF Moving, IterInv, TypesInv, NoIter
<1>5. Chained(owner, pos, Nexts, live, Firsts)
  BY <1>3 DEF Moving
<1>6. \A k \in CellIds : Reading(k) <=> k = idCell
  BY <1>2 DEF Reading, NoIter
<1>7. live \subseteq Addresses
  BY <1>1 DEF TypesInv
<1>8. b \in BagIds /\ Firsts[b] = it.chunk /\ it.chunk \in live /\ owner[it.chunk] = b
  BY <1>4, <1>3 DEF BagIds, Moving
<1>9. b2 \in BagIds /\ Firsts[b2] = c /\ c # NULL /\ c \in live /\ owner[c] = b2
  BY <1>4, <1>7, <1>3 DEF BagIds, Moving, Addresses, NULL
<1>10. nxt' = [nxt EXCEPT ![j].front = f] /\ live' = l \ Left
  BY <1>3 DEF Moving
<1>11. Pushed(heap', l, f, c)
  BY <1>3 DEF Moving
<1>12. /\ nxt' \in [CellIds -> [front : Addresses, back : Addresses]]
       /\ nxt'[j].front = f /\ \A k \in CellIds : k # j => nxt'[k] = nxt[k]
  <2>1. f \in Addresses /\ nxt \in [CellIds -> [front : Addresses, back : Addresses]]
    BY <1>1, <1>11 DEF Pushed, TypesInv
  <2> QED BY <1>4, <1>10, <2>1
<1>13. /\ e = NULL \/ (e \in live /\ owner[e] = b)
       /\ Left = CutOff(owner, pos, live, b, e)
       /\ IF e = NULL THEN Advanced = Ended
          ELSE \E i \in 0 .. Stored(e) - 1 :
                 Advanced = [at |-> "particle", chunk |-> e, size |-> Stored(e), index |-> i]
  BY <1>3 DEF Moving
<1>14. \A a \in live : a # c => heap'[a] = heap[a]
  BY <1>11 DEF Pushed
<1>15. live' \subseteq l /\ l \subseteq Addresses
  BY <1>7, <1>10, <1>11 DEF Pushed
<1>16. TypesInv'
  <2>1. heap' \in [Addresses -> Chunk]
    BY <1>11 DEF Pushed
  <2> QED BY <1>1, <1>2, <1>12, <1>15, <2>1 DEF TypesInv
<1>17. b # b2
  OBVIOUS
<1>18. IterInv' /\ it' # NoIter
  <2>1. CASE e = NULL
    <3>1. it' = Ended
      BY <1>2, <1>13, <2>1
    <3> QED BY <1>2, <1>4, <3>1 DEF IterInv, Ended, NoIter
  <2>2. CASE e # NULL
    <3>1. PICK i \in 0 .. Stored(e) - 1 : it' = [at |-> "particle", chunk |-> e, size |-> Stored(e), index |-> i]
      BY <1>2, <1>13, <2>2
    <3>2. e \in live /\ e \in Addresses /\ e # c
      BY <1>7, <1>9, <1>13, <1>17, <2>2
    <3>3. heap'[e].size = Stored(e)
      BY <1>14, <3>2 DEF Stored
    <3>4. it'.chunk \in Addresses /\ it'.size = heap'[it'.chunk].size /\ it'.index \in 0 .. it'.size - 1
      BY <3>1, <3>2, <3>3
    <3> QED BY <1>2, <1>4, <3>1, <3>4 DEF IterInv, Stored, NoIter
  <2> QED BY <2>1, <2>2
<1>19. \A k \in CellIds : Reading(k)' <=> k = idCell
  BY <1>2, <1>18 DEF Reading
<1>20. RoomInv'
  <2> SUFFICES ASSUME NEW k \in CellIds
               PROVE  heap'[nxt'[k].front].size < ChunkSize /\ (k # idCell => heap'[cur[k].front].size < ChunkSize)
    BY <1>2, <1>19 DEF RoomInv, Stored
  <2>1. /\ nxt[k].front \in live /\ owner[nxt[k].front] = <<"nxt", k>>
        /\ k # idCell => cur[k].front \in live /\ owner[cur[k].front] = <<"cur", k>>
    BY <1>1, <1>5, <1>6, FrontsListed
  <2>2. (k # j => nxt[k].front # c) /\ (k # idCell => cur[k].front # c)
    BY <1>9, <2>1
  <2>3. Stored(nxt[k].front) < ChunkSize /\ (k # idCell => Stored(cur[k].front) < ChunkSize)
    BY <1>1, <1>6 DEF RoomInv
  <2>4. heap'[f].size < ChunkSize
    BY <1>11 DEF Pushed
  <2>5. k # idCell => heap'[cur[k].front].size < ChunkSize
    BY <1>14, <2>1, <2>2, <2>3 DEF Stored
  <2>6. CASE k = j
    BY <1>12, <2>4, <2>5, <2>6
  <2>7. CASE k # j
    BY <1>12, <1>14, <2>1, <2>2, <2>3, <2>5, <2>7 DEF Stored
  <2> QED BY <2>6, <2>7
<1>21. ContentsInv'
  BY <1>1, <1>11, <1>15, ContentsAfterPush
<1>22. Firsts' = [[Firsts EXCEPT ![b2] = f] EXCEPT ![b] = e]
  <2>1. ASSUME NEW x \in BagIds PROVE FirstOf(x)' = IF x = b THEN e ELSE IF x = b2 THEN f ELSE FirstOf(x)
    <3>1. x[2] \in CellIds /\ x = <<x[1], x[2]>> /\ x[1] \in {"cur", "nxt"}
      BY DEF BagIds
    <3>2. CASE x[1] = "nxt"
      <4>1. FirstOf(x)' = nxt'[x[2]].front /\ FirstOf(x) = nxt[x[2]].front
        BY <3>2 DEF FirstOf
      <4>2. x # b /\ (x = b2 <=> x[2] = j)
        BY <3>1, <3>2
      <4> HIDE DEF b, b2
      <4> QED BY <1>12, <3>1, <4>1, <4>2
    <3>3. CASE x[1] = "cur" /\ x[2] # idCell
      <4>1. FirstOf(x)' = cur[x[2]].front /\ FirstOf(x) = cur[x[2]].front
        BY <1>2, <1>6, <1>19, <3>1, <3>3 DEF FirstOf
      <4>2. x # b /\ x # b2
        BY <3>3
      <4> QED BY <4>1, <4>2
    <3>4. CASE x[1] = "cur" /\ x[2] = idCell
      <4>1. FirstOf(x)' = IF it'.at = "NULL" THEN NULL ELSE it'.chunk
        BY <1>19, <3>1, <3>4 DEF FirstOf
      <4>2. (IF it'.at = "NULL" THEN NULL ELSE it'.chunk) = e
        BY <1>2, <1>13 DEF Ended, NoIter
      <4> QED BY <3>1, <3>4, <4>1, <4>2
    <3> QED BY <3>1, <3>2, <3>3, <3>4
  <2> HIDE DEF b, b2
  <2> QED BY <2>1 DEF Firsts
<1>23. \E owner2, pos2 : Chained(owner2, pos2, Nexts', live', Firsts') /\ \A a \in live : owner2[a] = owner[a]
  <2> DEFINE hd2 == [Firsts EXCEPT ![b2] = f]
             nx2 == [a \in Addresses |-> heap'[a].next]
  <2>1. Firsts \in [BagIds -> 0 .. HeapSize]
    BY <1>1, FirstsType
  <2>2. PICK owner2, pos2 : Extended(owner2, pos2, owner, pos, nx2, l, hd2)
    <3> DEFINE h == heap'
    <3>1. b2 \in BagIds /\ Firsts[b2] # NULL /\ Pushed(h, l, f, Firsts[b2])
      BY <1>9, <1>11
    <3>2. \A a \in Addresses : nx2[a] = h[a].next
      OBVIOUS
    <3> HIDE DEF b, b2, c, hd2, nx2, h
    <3>3. \E owner2, pos2 : Extended(owner2, pos2, owner, pos, nx2, l, [Firsts EXCEPT ![b2] = f])
      BY <1>5, <2>1, <3>1, <3>2, ListsAfterPush
    <3> QED BY <3>3 DEF hd2
  <2> HIDE DEF hd2, nx2
  <2>3. Chained(owner2, pos2, nx2, l, hd2) /\ \A a \in live : owner2[a] = owner[a] /\ pos2[a] = pos[a]
    BY <2>2 DEF Extended
  <2>4. hd2 \in [BagIds -> 0 .. HeapSize] /\ hd2[b2] = f /\ f # NULL
    <3>1. f \in Addresses
      BY <1>11 DEF Pushed
    <3>2. f \in 0 .. HeapSize /\ f # NULL
      BY <3>1 DEF Addresses, NULL
    <3> HIDE DEF b2
    <3> QED BY <1>9, <2>1, <3>2 DEF hd2
  <2>5. owner2[f] = b2
    <3> HIDE DEF b2
    <3> QED BY <1>9, <2>4, <2>3 DEF Chained
  <2>6. \A a : a \in l <=> a \in live \/ (a = f /\ a \in l)
    BY <1>11 DEF Pushed
  <2>7. CutOff(owner2, pos2, l, b, e) = Left
    <3> HIDE DEF b, b2
    <3>1. \A a \in l : owner2[a] = b => a \in live
      BY <1>17, <2>5, <2>6
    <3> QED BY <1>13, <2>6, <2>3, <3>1 DEF CutOff
  <2>8. e = NULL \/ (e \in l /\ owner2[e] = b)
    BY <1>13, <2>6, <2>3
  <2>9. Chained(owner2, pos2, nx2, l \ CutOff(owner2, pos2, l, b, e), [hd2 EXCEPT ![b] = e])
    <3> HIDE DEF b
    <3> QED BY <1>8, <2>4, <2>8, <2>3, CutKeeps
  <2>10. Nexts' = nx2 /\ live' = l \ CutOff(owner2, pos2, l, b, e) /\ Firsts' = [hd2 EXCEPT ![b] = e]
    BY <1>10, <1>22, <2>7 DEF Nexts, nx2, hd2
  <2>11. Chained(owner2, pos2, Nexts', live', Firsts')
    BY <2>9, <2>10
  <2> QED BY <2>3, <2>11
<1>24. ListsInv'
  BY <1>2, <1>23 DEF ListsInv
<1>25. ListsKept
  BY <1>5, <1>23 DEF ListsKept
<1> QED BY <1>16, <1>18, <1>20, <1>21, <1>24, <1>25 DEF DemoInv

LEMMA NextKeeps == DemoInv /\ [DemoBagsNext]_demoBagsVars => DemoInv'
<1> SUFFICES ASSUME DemoInv, [DemoBagsNext]_demoBagsVars PROVE DemoInv'
  OBVIOUS
<1>1. CASE AddParticle
  BY <1>1, AddParticleKeeps
<1>2. CASE StepLeapFrog
  BY <1>2, StepLeapFrogKeeps
<1>3. CASE BeginBag
  BY <1>3, BeginBagKeeps
<1>4. CASE MoveNext
  BY <1>4, MoveNextKeeps
<1>5. CASE ReportNext
  BY <1>5, ReportNextKeeps
<1>6. CASE EndBag
  BY <1>6, EndBagKeeps
<1>7. CASE SwapBags
  BY <1>7, SwapBagsKeeps
<1>8. CASE Deallocate
  BY <1>8, DeallocateKeeps
<1>9. CASE UNCHANGED demoBagsVars
  <2>1. /\ main' = main /\ created' = created /\ idCell' = idCell /\ it' = it
        /\ heap' = heap /\ live' = live /\ cur' = cur /\ nxt' = nxt
    BY <1>9 DEF demoBagsVars
  <2>2. TypesInv' /\ IterInv' /\ RoomInv' /\ ContentsInv'
    BY <2>1 DEF DemoInv, TypesInv, IterInv, RoomInv, ContentsInv, Stored, Reading
  <2>3. Firsts' = Firsts /\ Nexts' = Nexts
    BY <2>1 DEF Firsts, FirstOf, Reading, Nexts
  <2>4. ListsInv'
    BY <2>1, <2>3 DEF DemoInv, ListsInv
  <2> QED BY <2>2, <2>4 DEF DemoInv
<1> QED BY <1>1, <1>2, <1>3, <1>4, <1>5, <1>6, <1>7, <1>8, <1>9 DEF DemoBagsNext

-----------------------------------------------------------------------------
(* The theorem.                                                             *)

\* The chunks of a bag are those of its list.
Part(b) == ChunksFrom(Firsts[b])

LEMMA PartsOfLists ==
  \A owner, pos :
    Chained(owner, pos, Nexts, live, Firsts) => \A b \in BagIds : Part(b) = {c \in live : owner[c] = b}
<1> SUFFICES ASSUME NEW owner, NEW pos, Chained(owner, pos, Nexts, live, Firsts), NEW b \in BagIds
             PROVE  ChunksFrom(Firsts[b]) = {c \in live : owner[c] = b}
  BY DEF Part
<1>1. /\ \A a \in BagIds : Firsts[a] # NULL => Firsts[a] \in live /\ owner[Firsts[a]] = a
      /\ \A c \in live : owner[c] \in BagIds /\ Firsts[owner[c]] # NULL /\ pos[c] <= pos[Firsts[owner[c]]]
  BY DEF Chained
<1>2. CASE Firsts[b] = NULL
  <2>1. \A c \in live : owner[c] # b
    BY <1>1, <1>2
  <2> QED BY <1>2, <2>1, ChunksOfNull
<1>3. CASE Firsts[b] # NULL
  <2> DEFINE e == Firsts[b]
  <2>1. e \in live /\ owner[e] = b
    BY <1>1, <1>3
  <2>2. ChunksFrom(e) = {c \in live : owner[c] = owner[e] /\ pos[c] <= pos[e]}
    <3> HIDE DEF e
    <3> QED BY <2>1, ChunksOfList
  <2>3. \A c \in live : owner[c] = b => pos[c] <= pos[e]
    BY <1>1
  <2> QED BY <2>1, <2>2, <2>3
<1> QED BY <1>2, <1>3

LEMMA ChunksOfPart ==
  ASSUME NEW j \in CellIds
  PROVE  ChunksOf(j) = Part(<<"cur", j>>) /\ ChunksFrom(nxt[j].front) = Part(<<"nxt", j>>)
<1>1. <<"cur", j>> \in BagIds /\ <<"nxt", j>> \in BagIds
  BY DEF BagIds
<1> QED BY <1>1, ChunksOfNull DEF Part, Firsts, FirstOf, ChunksOf

LEMMA ListsPartition == DemoInv => ChunksPartitioned
<1> SUFFICES ASSUME DemoInv PROVE ChunksPartitioned
  OBVIOUS
<1>1. CASE main = "returned"
  BY <1>1 DEF DemoInv, ListsInv, ChunksPartitioned
<1>2. CASE main # "returned"
  <2> DEFINE parts == [bag \in BagIds |-> IF bag[1] = "cur" THEN ChunksOf(bag[2]) ELSE ChunksFrom(nxt[bag[2]].front)]
  <2>1. PICK owner, pos : Chained(owner, pos, Nexts, live, Firsts)
    BY <1>2 DEF DemoInv, ListsInv
  <2>2. \A c \in live : owner[c] \in BagIds
    BY <2>1 DEF Chained
  <2>3. ASSUME NEW b \in BagIds PROVE parts[b] = {c \in live : owner[c] = b}
    <3>1. b[2] \in CellIds /\ (b = <<"cur", b[2]>> \/ b = <<"nxt", b[2]>>)
      BY DEF BagIds
    <3>2. parts[b] = IF b[1] = "cur" THEN ChunksOf(b[2]) ELSE ChunksFrom(nxt[b[2]].front)
      OBVIOUS
    <3>3. parts[b] = Part(b)
      <4> DEFINE j == b[2]
      <4>1. j \in CellIds /\ ((b = <<"cur", j>> /\ b[1] = "cur") \/ (b = <<"nxt", j>> /\ b[1] # "cur"))
        BY <3>1
      <4>2. parts[b] = IF b[1] = "cur" THEN ChunksOf(j) ELSE ChunksFrom(nxt[j].front)
        BY <3>2
      <4> HIDE DEF j, parts
      <4> QED BY <4>1, <4>2, ChunksOfPart
    <3> QED BY <2>1, <3>3, PartsOfLists
  <2> HIDE DEF parts
  <2>4. live = UNION {parts[bag] : bag \in BagIds}
    <3>1. \A c \in live : c \in parts[owner[c]]
      BY <2>2, <2>3
    <3>2. \A b \in BagIds : parts[b] \subseteq live
      BY <2>3
    <3> QED BY <2>2, <3>1, <3>2
  <2>5. \A bag1, bag2 \in BagIds : bag1 # bag2 => parts[bag1] \cap parts[bag2] = {}
    BY <2>3
  <2> QED BY <1>2, <2>4, <2>5 DEF ChunksPartitioned, parts
<1> QED BY <1>1, <1>2

\* Whatever the mesh, the size of the chunks and the moves of the particles: although
\* step() frees the chunks of a bag while it reads it, and pushes into others that may
\* get them back, every chunk is in one bag, or is one that the iterator has still to
\* visit, and main() frees them all before it returns (simulations/pic_demo.c, src/bag.c).
THEOREM ChunksAlwaysPartitioned == DemoBagsSpec => []ChunksPartitioned
<1>1. DemoBagsSpec => []DemoInv
  BY InitKeeps, NextKeeps, PTL DEF DemoBagsSpec
<1> QED BY <1>1, ListsPartition, PTL

-----------------------------------------------------------------------------
(* The particles: each is in one slot that no loop has read yet, or in the    *)
(* report.                                                                  *)

\* The slots of some chunks that the iterator has not passed.
PastIn(iter, s) == iter.at = "particle" /\ s[1] = iter.chunk /\ s[2] < iter.index
Unread(chunks) == {s \in Addresses \X SlotIds : s[1] \in chunks /\ s[2] < Stored(s[1]) /\ ~PastIn(it, s)}

\* The chunks that the report has still to go through: they are in the bags of the next
\* cells, or not before the iterator.
Ahead(owner, pos) ==
  {c \in live : owner[c][1] = "cur" /\
     IF owner[c][2] = idCell THEN it = NoIter \/ (it.at = "particle" /\ pos[c] <= pos[it.chunk])
     ELSE owner[c][2] > idCell}

\* Every particle of ps is in one of the slots, and in one only.
InSlot(memory, s) == memory[s[1]].items[s[2]]
Numbered(slots, memory, ps) ==
  /\ \A s \in slots : InSlot(memory, s) \in ps
  /\ \A s, t \in slots : InSlot(memory, s) = InSlot(memory, t) => s = t
  /\ \A p \in ps : \E s \in slots : InSlot(memory, s) = p

\* The bags that step() has to fill are empty when it starts, and those it has read are
\* when it ends.
IsEmpty(b) == Stored(b.front) = 0 /\ heap[b.front].next = NULL
EmptyInv ==
  /\ main \in {"create", "report"} => \A j \in CellIds : IsEmpty(nxt[j])
  /\ main = "step" => \A j \in CellIds : j < idCell => IsEmpty(cur[j])

PhaseInv ==
  /\ IF main = "create" THEN idCell = 0 ELSE created = NbParticles
  /\ main \in {"create", "step"} => reported = <<>>

Listed == {reported[i] : i \in DOMAIN reported}
OnceInv ==
  /\ reported \in Seq(1 .. NbParticles)
  /\ \A i, j \in DOMAIN reported : reported[i] = reported[j] => i = j

\* While the report goes on, it is a reading that frees nothing.
ReportList(owner, pos) ==
  /\ Chained(owner, pos, Nexts, live, Firsts)
  /\ it.at = "particle" => /\ it.chunk \in live /\ owner[it.chunk] = <<"cur", idCell>>
                           /\ it.size = Stored(it.chunk) /\ it.index \in 0 .. it.size - 1
  /\ Numbered(Unread(Ahead(owner, pos)), heap, (1 .. NbParticles) \ Listed)

ItemsInv ==
  /\ main \in {"create", "step"} => Numbered(Unread(live), heap, 1 .. created)
  /\ main = "report" => \E owner, pos : ReportList(owner, pos)
  /\ main = "returned" => Listed = 1 .. NbParticles

ParticlesInv == DemoInv /\ EmptyInv /\ PhaseInv /\ OnceInv /\ ItemsInv

LEMMA NumberedSame ==
  ASSUME NEW slots, NEW m1, NEW ps, Numbered(slots, m1, ps),
         NEW m2, \A s \in slots : InSlot(m2, s) = InSlot(m1, s)
  PROVE  Numbered(slots, m2, ps)
BY DEF Numbered

\* A particle moves to another slot.
LEMMA NumberedMove ==
  ASSUME NEW slots, NEW m1, NEW ps, Numbered(slots, m1, ps),
         NEW s0 \in slots, NEW s1, s1 \notin slots, NEW m2,
         \A s \in slots : s # s0 => InSlot(m2, s) = InSlot(m1, s), InSlot(m2, s1) = InSlot(m1, s0)
  PROVE  Numbered((slots \ {s0}) \cup {s1}, m2, ps)
<1> DEFINE Home(s) == IF s = s1 THEN s0 ELSE s
           slots2 == (slots \ {s0}) \cup {s1}
<1>1. \A s \in slots2 : Home(s) \in slots /\ InSlot(m2, s) = InSlot(m1, Home(s))
  OBVIOUS
<1>2. \A s, t \in slots2 : Home(s) = Home(t) => s = t
  OBVIOUS
<1>3. \A s \in slots : \E t \in slots2 : InSlot(m2, t) = InSlot(m1, s)
  <2> SUFFICES ASSUME NEW s \in slots PROVE \E t \in slots2 : InSlot(m2, t) = InSlot(m1, s)
    OBVIOUS
  <2>1. CASE s = s0
    <3>1. s1 \in slots2 /\ InSlot(m2, s1) = InSlot(m1, s)
      BY <2>1
    <3> QED BY <3>1
  <2>2. CASE s # s0
    <3>1. s \in slots2 /\ InSlot(m2, s) = InSlot(m1, s)
      BY <2>2
    <3> QED BY <3>1
  <2> QED BY <2>1, <2>2
<1> HIDE DEF Home, slots2
<1>4. Numbered(slots2, m2, ps)
  BY <1>1, <1>2, <1>3 DEF Numbered
<1> QED BY <1>4 DEF slots2

\* A new particle.
LEMMA NumberedAdd ==
  ASSUME NEW slots, NEW m1, NEW ps, Numbered(slots, m1, ps), NEW s1, s1 \notin slots, NEW m2,
         \A s \in slots : InSlot(m2, s) = InSlot(m1, s), InSlot(m2, s1) \notin ps
  PROVE  Numbered(slots \cup {s1}, m2, ps \cup {InSlot(m2, s1)})
<1>1. \A s \in slots : InSlot(m2, s) \in ps
  BY DEF Numbered
<1>2. \A s, t \in slots \cup {s1} : InSlot(m2, s) = InSlot(m2, t) => s = t
  BY <1>1 DEF Numbered
<1>3. \A p \in ps : \E s \in slots : InSlot(m2, s) = p
  BY DEF Numbered
<1> QED BY <1>1, <1>2, <1>3 DEF Numbered

\* A particle is listed.
LEMMA NumberedDrop ==
  ASSUME NEW slots, NEW memory, NEW ps, Numbered(slots, memory, ps), NEW s0 \in slots
  PROVE  Numbered(slots \ {s0}, memory, ps \ {InSlot(memory, s0)})
BY DEF Numbered

\* bag_iter_next passes the slot that it has read and no other one that is in use.
LEMMA NextPassesOne ==
  ASSUME NEW owner, NEW pos, NEW hd, Chained(owner, pos, Nexts, live, hd), it.chunk \in live,
         heap \in [Addresses -> Chunk],
         it = [at |-> "particle", chunk |-> it.chunk, size |-> Stored(it.chunk), index |-> it.index],
         it.index \in 0 .. it.size - 1,
         NEW s \in Addresses \X SlotIds, s[1] \in live, s[2] < Stored(s[1])
  PROVE  s[1] \notin Left /\ ~PastIn(Advanced, s) <=> ~PastIn(it, s) /\ s # <<it.chunk, it.index>>
<1> DEFINE c == it.chunk
<1>1. /\ it.at = "particle" /\ it.size = Stored(c) /\ it.index \in 0 .. Stored(c) - 1
      /\ s = <<s[1], s[2]>> /\ s[2] \in Nat
  BY ChunkSizes DEF SlotIds
<1>2. Stored(c) \in Nat /\ it.index \in Nat
  <2>1. c \in Addresses
    BY DEF Chained
  <2>2. heap[c] \in Chunk
    BY <2>1
  <2>3. Stored(c) \in Nat
    BY <2>2, ChunkSizes DEF Chunk, Stored
  <2> QED BY <1>1, <2>3
<1>3. CASE InChunk
  <2>1. Left = {} /\ Advanced = [it EXCEPT !.index = @ + 1]
    BY <1>3 DEF Left, Advanced
  <2>2. Advanced.at = "particle" /\ Advanced.chunk = c /\ Advanced.index = it.index + 1
    BY <2>1
  <2> HIDE DEF c
  <2>3. s[2] < it.index + 1 <=> s[2] < it.index \/ s[2] = it.index
    BY <1>1, <1>2
  <2>4. s = <<c, it.index>> <=> s[1] = c /\ s[2] = it.index
    BY <1>1
  <2> QED BY <1>1, <2>1, <2>2, <2>3, <2>4 DEF PastIn, c
<1>4. CASE ~InChunk
  <2>1. c \in Left
    BY <1>4 DEF Left
  <2>2. \A e \in Left : e # c => Stored(e) = 0
    BY LeavingSkips
  <2>3. ~PastIn(Advanced, s)
    <3>1. Advanced = Ended \/ \E d : Advanced = Load(d)
      BY <1>4 DEF Advanced, Get
    <3>2. ~(s[2] < 0)
      BY <1>1
    <3> QED BY <3>1, <3>2 DEF PastIn, Ended, NoIter, Load
  <2> HIDE DEF c
  <2>4. s[1] \notin Left <=> s[1] # c
    BY <1>1, <2>1, <2>2
  <2>5. Stored(c) = it.index + 1
    BY <1>1, <1>2, <1>4 DEF InChunk
  <2>6. s[1] = c => s[2] < it.index \/ s[2] = it.index
    BY <1>1, <1>2, <2>5
  <2>7. s = <<c, it.index>> <=> s[1] = c /\ s[2] = it.index
    BY <1>1
  <2>8. s[2] = it.index => ~(s[2] < it.index)
    BY <1>2
  <2> QED BY <1>1, <2>3, <2>4, <2>6, <2>7 DEF PastIn, c
<1> QED BY <1>3, <1>4

\* What a push changes in the slots that are in use.
LEMMA SlotsAfterPush ==
  ASSUME heap \in [Addresses -> Chunk], live \subseteq Addresses,
         NEW h, NEW l, NEW f, NEW c \in live, NEW p, Pushed(h, l, f, c), Written(h, c, p), Stored(c) < ChunkSize
  PROVE  /\ <<c, Stored(c)>> \in Addresses \X SlotIds /\ InSlot(h, <<c, Stored(c)>>) = p
         /\ \A s \in Addresses \X SlotIds :
              /\ s[1] \in l /\ s[2] < h[s[1]].size <=>
                   (s[1] \in live /\ s[2] < Stored(s[1])) \/ s = <<c, Stored(c)>>
              /\ s[1] \in live /\ s[2] < Stored(s[1]) => InSlot(h, s) = InSlot(heap, s)
<1>1. Stored(c) \in SlotIds /\ Stored(c) \in Nat /\ c \in Addresses
  <2>1. heap[c] \in Chunk
    OBVIOUS
  <2> QED BY <2>1, ChunkSizes DEF Chunk, Stored, SlotIds
<1>2. /\ \A a \in live : a # c => h[a] = heap[a]
      /\ h[c].size = Stored(c) + 1 /\ h[c].items[Stored(c)] = p
      /\ \A i \in SlotIds : i < Stored(c) => h[c].items[i] = heap[c].items[i]
      /\ (l = live /\ f = c) \/ (f \notin live /\ l = live \cup {f} /\ h[f].size = 0)
  BY DEF Pushed, Written
<1>3. ASSUME NEW s \in Addresses \X SlotIds
      PROVE  /\ s[1] \in l /\ s[2] < h[s[1]].size <=>
                   (s[1] \in live /\ s[2] < Stored(s[1])) \/ s = <<c, Stored(c)>>
             /\ s[1] \in live /\ s[2] < Stored(s[1]) => InSlot(h, s) = InSlot(heap, s)
  <2>1. s = <<s[1], s[2]>> /\ s[2] \in Nat /\ s[2] \in SlotIds
    BY ChunkSizes DEF SlotIds
  <2>2. CASE s[1] = c
    <3>1. s[2] < Stored(c) + 1 <=> s[2] < Stored(c) \/ s[2] = Stored(c)
      BY <1>1, <2>1
    <3> QED BY <1>2, <2>1, <2>2, <3>1 DEF InSlot
  <2>3. CASE s[1] # c /\ s[1] \in live
    BY <1>2, <2>1, <2>3 DEF InSlot, Stored
  <2>4. CASE s[1] \notin live
    <3>1. s[1] \in l => ~(s[2] < h[s[1]].size)
      BY <1>2, <2>1, <2>4
    <3> QED BY <2>1, <2>4, <3>1
  <2> QED BY <2>2, <2>3, <2>4
<1> QED BY <1>1, <1>2, <1>3 DEF InSlot

\* With nothing in the bags to fill, what is allocated is what the report goes through.
LEMMA ReportStarts ==
  DemoInv /\ EmptyInv /\ main = "report" /\ idCell = 0 /\ it = NoIter /\ Numbered(Unread(live), heap, (1 .. NbParticles) \ Listed)
    => \E owner, pos : ReportList(owner, pos)
<1> SUFFICES ASSUME DemoInv, EmptyInv, main = "report", idCell = 0, it = NoIter,
                    Numbered(Unread(live), heap, (1 .. NbParticles) \ Listed)
             PROVE  \E owner, pos : ReportList(owner, pos)
  OBVIOUS
<1>1. PICK owner, pos : Chained(owner, pos, Nexts, live, Firsts)
  BY DEF DemoInv, ListsInv
<1>2. /\ pos \in [Addresses -> Nat] /\ live \subseteq Addresses
      /\ \A c \in live : IF pos[c] = 0 THEN Nexts[c] = NULL ELSE Nexts[c] \in live
      /\ \A c, d \in live : owner[c] = owner[d] /\ pos[c] = pos[d] => c = d
      /\ \A c \in live : owner[c] \in BagIds /\ pos[c] <= pos[Firsts[owner[c]]]
  BY <1>1 DEF Chained
<1>3. ASSUME NEW s \in Unread(live) PROVE s \in Unread(Ahead(owner, pos))
  <2> DEFINE c == s[1]
  <2>1. c \in live /\ s[2] < Stored(c) /\ s[2] \in Nat /\ owner[c] \in BagIds
    BY <1>2, ChunkSizes DEF Unread, SlotIds
  <2>2. PICK j \in CellIds : owner[c] = <<"cur", j>> \/ owner[c] = <<"nxt", j>>
    BY <2>1 DEF BagIds
  <2>3. owner[c] # <<"nxt", j>>
    <3> SUFFICES ASSUME owner[c] = <<"nxt", j>> PROVE FALSE
      OBVIOUS
    <3> DEFINE e == nxt[j].front
    <3>1. Firsts[<<"nxt", j>>] = e /\ e \in live /\ owner[e] = <<"nxt", j>>
      BY <1>1, FrontsListed DEF DemoInv
    <3>2. Stored(e) = 0 /\ heap[e].next = NULL
      BY DEF EmptyInv, IsEmpty
    <3> HIDE DEF e
    <3>3. Nexts[e] = NULL /\ NULL \notin live
      BY <1>2, <3>1, <3>2 DEF Nexts, Addresses, NULL
    <3>4. pos[e] = 0
      BY <1>2, <3>1, <3>3
    <3>5. pos[c] = 0
      BY <1>2, <2>1, <3>1, <3>4
    <3>6. c = e
      BY <1>2, <2>1, <3>1, <3>4, <3>5
    <3> QED BY <2>1, <3>2, <3>6
  <2>4. owner[c][1] = "cur" /\ owner[c][2] = j /\ j >= 0
    BY <2>2, <2>3 DEF CellIds
  <2>5. j # idCell => j > idCell
    BY <2>4 DEF CellIds
  <2>6. c \in Ahead(owner, pos)
    BY <2>1, <2>4, <2>5 DEF Ahead
  <2> QED BY <2>6 DEF Unread
<1>4. Unread(Ahead(owner, pos)) \subseteq Unread(live)
  BY DEF Unread, Ahead
<1>5. Unread(Ahead(owner, pos)) = Unread(live)
  BY <1>3, <1>4
<1>6. it.at # "particle"
  BY DEF NoIter
<1>7. ReportList(owner, pos)
  BY <1>1, <1>5, <1>6 DEF ReportList
<1> QED BY <1>7

LEMMA InitNumbers == DemoBagsInit => ParticlesInv
<1> SUFFICES ASSUME DemoBagsInit PROVE ParticlesInv
  OBVIOUS
<1>1. DemoInv /\ main = "create" /\ created = 0 /\ idCell = 0 /\ reported = <<>>
  BY InitKeeps DEF DemoBagsInit
<1>2. \A a \in Addresses : Stored(a) = 0 /\ heap[a].next = NULL
  BY DEF DemoBagsInit, Addresses, Stored
<1>3. EmptyInv
  <2>1. \A j \in CellIds : nxt[j].front \in Addresses
    BY <1>1 DEF DemoInv, TypesInv
  <2> QED BY <1>1, <1>2, <2>1 DEF EmptyInv, IsEmpty
<1>4. ItemsInv
  <2>1. Unread(live) = {}
    BY <1>2, ChunkSizes DEF Unread, SlotIds
  <2>2. 1 .. created = {}
    BY <1>1
  <2> QED BY <1>1, <2>1, <2>2 DEF ItemsInv, Numbered
<1>5. PhaseInv /\ OnceInv
  BY <1>1 DEF PhaseInv, OnceInv
<1> QED BY <1>1, <1>3, <1>4, <1>5 DEF ParticlesInv

\* Particle p is written to slot s1 of the bag b.
SlotWritten(b, s1, p) ==
  /\ s1 \in Unread(live)' /\ s1 \notin Unread(live) /\ InSlot(heap', s1) = p /\ s1[1] \in Part(b)

LEMMA AddParticleNumbers ==
  ASSUME ParticlesInv, AddParticle
  PROVE  /\ ParticlesInv'
         /\ \E j \in CellIds, s1 \in Unread(live)' :
              /\ charge' = [charge EXCEPT ![j] = @ + 1]
              /\ SlotWritten(<<"cur", j>>, s1, created') /\ Unread(live)' = Unread(live) \cup {s1}
              /\ \A s \in Unread(live) : InSlot(heap', s) = InSlot(heap, s)
<1>1. /\ DemoInv /\ TypesInv /\ IterInv /\ RoomInv /\ ContentsInv /\ EmptyInv /\ PhaseInv /\ OnceInv
      /\ main = "create" /\ Numbered(Unread(live), heap, 1 .. created)
  BY DEF ParticlesInv, DemoInv, ItemsInv, AddParticle
<1>2. /\ main' = main /\ created < NbParticles /\ created' = created + 1
      /\ idCell' = idCell /\ it' = it /\ nxt' = nxt /\ reported' = reported /\ it = NoIter
  BY <1>1 DEF AddParticle, IterInv
<1>3. DemoInv'
  BY <1>1, AddParticleKeeps
<1>4. PICK owner, pos : Chained(owner, pos, Nexts, live, Firsts)
  BY <1>1 DEF DemoInv, ListsInv
<1>5. PICK j \in CellIds :
        LET pushed == Push(cur[j], created') IN
        /\ CanPush(cur[j]) /\ heap' = pushed.heap /\ live' = pushed.live
        /\ charge' = [charge EXCEPT ![j] = @ + 1]
  BY DEF AddParticle
<1> DEFINE c == cur[j].front
           p == created'
           s1 == <<c, Stored(c)>>
<1>6. c \in live /\ owner[c] = <<"cur", j>> /\ Stored(c) < ChunkSize
  <2>1. ~Reading(j)
    BY <1>1 DEF Reading
  <2> QED BY <1>1, <1>4, <2>1, FrontsListed DEF RoomInv
<1>7. p \in 1 .. NbParticles /\ p \notin 1 .. created /\ 1 .. p = (1 .. created) \cup {p}
  BY <1>1, <1>2, ChunkSizes DEF TypesInv
<1>8. PICK f : Pushed(heap', live', f, c) /\ Written(heap', c, p)
  <2> HIDE DEF p
  <2>1. Pushed(Push(cur[j], p).heap, Push(cur[j], p).live, Push(cur[j], p).front, cur[j].front) /\ Written(Push(cur[j], p).heap, cur[j].front, p)
    BY <1>1, <1>5, <1>6, <1>7, PushKeeps
  <2> QED BY <1>5, <2>1 DEF p
<1> HIDE DEF c
<1>9. /\ s1 \in Addresses \X SlotIds /\ InSlot(heap', s1) = p
      /\ \A s \in Addresses \X SlotIds :
           /\ s[1] \in live' /\ s[2] < heap'[s[1]].size <=> (s[1] \in live /\ s[2] < Stored(s[1])) \/ s = s1
           /\ s[1] \in live /\ s[2] < Stored(s[1]) => InSlot(heap', s) = InSlot(heap, s)
  <2> DEFINE h == heap'
             l == live'
  <2> HIDE DEF h, l, p
  <2>1. heap \in [Addresses -> Chunk] /\ live \subseteq Addresses /\ Pushed(h, l, f, c) /\ Written(h, c, p)
    BY <1>1, <1>8 DEF TypesInv, h, l
  <2>2. /\ s1 \in Addresses \X SlotIds /\ InSlot(h, s1) = p
        /\ \A s \in Addresses \X SlotIds :
             /\ s[1] \in l /\ s[2] < h[s[1]].size <=> (s[1] \in live /\ s[2] < Stored(s[1])) \/ s = s1
             /\ s[1] \in live /\ s[2] < Stored(s[1]) => InSlot(h, s) = InSlot(heap, s)
    BY <1>6, <2>1, SlotsAfterPush
  <2> QED BY <2>2 DEF h, l
<1>10. Unread(live)' = Unread(live) \cup {s1} /\ s1 \notin Unread(live)
  <2>1. \A s : ~PastIn(it, s)
    BY <1>2 DEF PastIn, NoIter
  <2>2. Unread(live)' = {s \in Addresses \X SlotIds : s[1] \in live' /\ s[2] < heap'[s[1]].size}
    BY <1>2, <2>1 DEF Unread, Stored
  <2>3. Unread(live) = {s \in Addresses \X SlotIds : s[1] \in live /\ s[2] < Stored(s[1])}
    BY <2>1 DEF Unread
  <2>4. ~(Stored(c) < Stored(c))
    <3>1. heap[c] \in Chunk
      BY <1>1, <1>6 DEF TypesInv
    <3> QED BY <3>1, ChunkSizes DEF Chunk, Stored
  <2>5. s1[1] = c /\ s1[2] = Stored(c)
    OBVIOUS
  <2> HIDE DEF s1
  <2> QED BY <1>9, <2>2, <2>3, <2>4, <2>5
<1>11. Numbered(Unread(live)', heap', 1 .. p)
  <2> DEFINE h == heap'
             u == Unread(live)
  <2>1. \A s \in u : InSlot(h, s) = InSlot(heap, s)
    BY <1>9 DEF Unread
  <2>2. InSlot(h, s1) = p /\ p \notin 1 .. created /\ s1 \notin u /\ Numbered(u, heap, 1 .. created)
    BY <1>1, <1>7, <1>9, <1>10
  <2> HIDE DEF h, u, s1, p
  <2>3. Numbered(u \cup {s1}, h, (1 .. created) \cup {InSlot(h, s1)})
    BY <2>1, <2>2, NumberedAdd
  <2> QED BY <1>7, <1>10, <2>2, <2>3 DEF h, u
<1>12. ItemsInv'
  BY <1>1, <1>2, <1>11 DEF ItemsInv
<1>13. EmptyInv'
  <2> SUFFICES ASSUME NEW k \in CellIds PROVE heap'[nxt[k].front] = heap[nxt[k].front]
    BY <1>1, <1>2 DEF EmptyInv, IsEmpty, Stored
  <2>1. nxt[k].front \in live /\ owner[nxt[k].front] = <<"nxt", k>>
    BY <1>1, <1>4, FrontsListed
  <2> QED BY <1>6, <1>8, <2>1 DEF Pushed
<1>14. PhaseInv' /\ OnceInv'
  BY <1>1, <1>2 DEF PhaseInv, OnceInv
<1>15. SlotWritten(<<"cur", j>>, s1, created')
  <2>1. s1[1] = c /\ <<"cur", j>> \in BagIds
    BY DEF BagIds
  <2>2. c \in Part(<<"cur", j>>)
    BY <1>4, <1>6, <2>1, PartsOfLists
  <2> HIDE DEF s1
  <2> QED BY <1>9, <1>10, <2>1, <2>2 DEF SlotWritten
<1>16. \A s \in Unread(live) : InSlot(heap', s) = InSlot(heap, s)
  BY <1>9 DEF Unread
<1>17. ParticlesInv'
  BY <1>3, <1>12, <1>13, <1>14 DEF ParticlesInv
<1>18. charge' = [charge EXCEPT ![j] = @ + 1]
  BY <1>5
<1> HIDE DEF s1
<1> QED BY <1>10, <1>15, <1>16, <1>17, <1>18

\* The loops on the cells start again.
LEMMA LoopStarts ==
  ASSUME ParticlesInv, main \in {"create", "step"}, main' \in {"step", "report"}, DemoInv', EmptyInv',
         created = NbParticles, created' = created, idCell' = 0, it = NoIter, it' = it,
         heap' = heap, live' = live, reported' = reported
  PROVE  ParticlesInv'
<1>1. PhaseInv' /\ OnceInv' /\ Listed' = Listed
  BY DEF ParticlesInv, PhaseInv, OnceInv, Listed
<1>2. Unread(live)' = Unread(live)
  BY DEF Unread, Stored
<1>3. Listed = {} /\ Numbered(Unread(live), heap, 1 .. NbParticles)
  BY DEF ParticlesInv, PhaseInv, ItemsInv, Listed
<1>4. main' = "report" => (\E owner, pos : ReportList(owner, pos))'
  <2>1. (DemoInv /\ EmptyInv /\ main = "report" /\ idCell = 0 /\ it = NoIter /\ Numbered(Unread(live), heap, (1 .. NbParticles) \ Listed)
          => \E owner, pos : ReportList(owner, pos))'
    BY ReportStarts, PTL
  <2>2. Numbered(Unread(live)', heap', (1 .. NbParticles) \ Listed')
    BY <1>1, <1>2, <1>3
  <2> QED BY <2>1, <2>2
<1>5. ItemsInv'
  BY <1>2, <1>3, <1>4 DEF ItemsInv
<1> QED BY <1>1, <1>5 DEF ParticlesInv

LEMMA StepLeapFrogNumbers == ASSUME ParticlesInv, StepLeapFrog PROVE ParticlesInv'
<1>1. /\ DemoInv /\ IterInv /\ EmptyInv /\ PhaseInv /\ main = "create" /\ main' \in {"step", "report"}
      /\ created = NbParticles /\ created' = created /\ idCell' = idCell /\ it' = it
      /\ heap' = heap /\ live' = live /\ cur' = cur /\ nxt' = nxt /\ reported' = reported
  BY DEF ParticlesInv, DemoInv, StepLeapFrog, NextStep
<1>2. DemoInv'
  BY <1>1, StepLeapFrogKeeps
<1>3. idCell = 0 /\ it = NoIter
  BY <1>1 DEF PhaseInv, IterInv
<1>4. EmptyInv'
  <2>1. \A j \in CellIds : ~(j < 0)
    BY DEF CellIds
  <2> QED BY <1>1, <1>3, <2>1 DEF EmptyInv, IsEmpty, Stored
<1> QED BY <1>1, <1>2, <1>3, <1>4, LoopStarts

LEMMA SwapBagsNumbers == ASSUME ParticlesInv, SwapBags PROVE ParticlesInv'
<1>1. /\ DemoInv /\ IterInv /\ EmptyInv /\ PhaseInv /\ main = "step" /\ main' \in {"step", "report"}
      /\ idCell = nbCells /\ idCell' = 0 /\ it' = it /\ created' = created
      /\ heap' = heap /\ live' = live /\ cur' = nxt /\ nxt' = cur /\ reported' = reported
  BY DEF ParticlesInv, DemoInv, SwapBags, NextStep
<1>2. DemoInv'
  BY <1>1, SwapBagsKeeps
<1>3. created = NbParticles /\ it = NoIter /\ nbCells \in Nat
  BY <1>1, MeshSizes DEF PhaseInv, IterInv
<1>4. EmptyInv'
  <2>1. \A j \in CellIds : ~(j < 0) /\ j < nbCells
    BY <1>3 DEF CellIds
  <2> QED BY <1>1, <2>1 DEF EmptyInv, IsEmpty, Stored
<1> QED BY <1>1, <1>2, <1>3, <1>4, LoopStarts

LEMMA MoveNextNumbers ==
  ASSUME ParticlesInv, MoveNext
  PROVE  /\ ParticlesInv'
         /\ \E j \in CellIds, s1 \in Unread(live)' :
              /\ \E d \in Moves[Current] : j = Geometry!Shift(idCell, d)
              /\ charge' = [charge EXCEPT ![j] = @ + 1]
              /\ SlotWritten(<<"nxt", j>>, s1, Current)
              /\ Unread(live)' = (Unread(live) \ {<<it.chunk, it.index>>}) \cup {s1}
              /\ <<it.chunk, it.index>> \in Unread(live) /\ it.chunk \in Part(<<"cur", idCell>>)
              /\ \A s \in Unread(live) : s # <<it.chunk, it.index>> => InSlot(heap', s) = InSlot(heap, s)
              /\ heap'[it.chunk] = heap[it.chunk]
<1>1. /\ DemoInv /\ TypesInv /\ IterInv /\ RoomInv /\ EmptyInv /\ PhaseInv /\ OnceInv
      /\ main = "step" /\ Numbered(Unread(live), heap, 1 .. created)
  BY DEF ParticlesInv, DemoInv, ItemsInv, MoveNext
<1>2. /\ main' = main /\ created' = created /\ idCell' = idCell /\ cur' = cur /\ reported' = reported
      /\ it.at = "particle" /\ it' = Advanced
  BY DEF MoveNext
<1>3. DemoInv'
  BY <1>1, MoveNextKeeps
<1>4. PICK owner, pos, j, l, f, e : Moving(owner, pos, j, l, f, e)
  BY <1>1, MoveNextMoves
<1> DEFINE c == nxt[j].front
           p == Current
           s0 == <<it.chunk, it.index>>
           s1 == <<c, Stored(c)>>
<1>5. /\ Chained(owner, pos, Nexts, live, Firsts) /\ it.chunk \in live /\ owner[it.chunk] = <<"cur", idCell>>
      /\ c \in live /\ owner[c] = <<"nxt", j>> /\ c \notin Left
      /\ Pushed(heap', l, f, c) /\ Written(heap', c, p) /\ live' = l \ Left
      /\ idCell \in CellIds /\ j \in CellIds /\ Stored(c) < ChunkSize
      /\ it'.at = "particle" => it'.chunk \in live /\ owner[it'.chunk] = <<"cur", idCell>>
      /\ charge' = [charge EXCEPT ![j] = @ + 1] /\ \E d \in Moves[Current] : j = Geometry!Shift(idCell, d)
  <2>1. c \notin CutOff(owner, pos, live, <<"cur", idCell>>, e)
    BY <1>4 DEF Moving, CutOff
  <2>2. it'.at = "particle" => it'.chunk \in live /\ owner[it'.chunk] = <<"cur", idCell>>
    <3>1. e = NULL => it'.at # "particle"
      BY <1>2, <1>4 DEF Moving, Ended, NoIter
    <3>2. e # NULL => it'.chunk = e
      BY <1>2, <1>4 DEF Moving
    <3> QED BY <1>4, <3>1, <3>2 DEF Moving
  <2>3. Stored(c) < ChunkSize
    BY <1>1, <1>4 DEF Moving, RoomInv
  <2> QED BY <1>4, <2>1, <2>2, <2>3 DEF Moving
<1>6. /\ live \subseteq Addresses /\ heap \in [Addresses -> Chunk]
      /\ it.index \in 0 .. it.size - 1 /\ it.size = Stored(it.chunk)
      /\ it = [at |-> "particle", chunk |-> it.chunk, size |-> Stored(it.chunk), index |-> it.index]
  BY <1>1, <1>2 DEF TypesInv, IterInv
<1> HIDE DEF c, p
<1>7. /\ s1 \in Addresses \X SlotIds /\ InSlot(heap', s1) = p
      /\ \A s \in Addresses \X SlotIds :
           /\ s[1] \in l /\ s[2] < heap'[s[1]].size <=> (s[1] \in live /\ s[2] < Stored(s[1])) \/ s = s1
           /\ s[1] \in live /\ s[2] < Stored(s[1]) => InSlot(heap', s) = InSlot(heap, s)
  <2> DEFINE h == heap'
  <2>1. Pushed(h, l, f, c) /\ Written(h, c, p)
    BY <1>5
  <2> HIDE DEF h
  <2>2. /\ s1 \in Addresses \X SlotIds /\ InSlot(h, s1) = p
        /\ \A s \in Addresses \X SlotIds :
             /\ s[1] \in l /\ s[2] < h[s[1]].size <=> (s[1] \in live /\ s[2] < Stored(s[1])) \/ s = s1
             /\ s[1] \in live /\ s[2] < Stored(s[1]) => InSlot(h, s) = InSlot(heap, s)
    BY <1>5, <1>6, <2>1, SlotsAfterPush
  <2> QED BY <2>2 DEF h
<1>8. s0 \in Unread(live) /\ InSlot(heap, s0) = p
  <2>1. Stored(it.chunk) \in 0 .. ChunkSize
    <3>1. heap[it.chunk] \in Chunk
      BY <1>5, <1>6
    <3> QED BY <3>1 DEF Chunk, Stored
  <2>2. it.index \in SlotIds /\ it.index < Stored(it.chunk) /\ ~(it.index < it.index)
    BY <1>6, <2>1, ChunkSizes DEF SlotIds
  <2> QED BY <1>5, <1>6, <2>2 DEF Unread, PastIn, InSlot, p, Current
<1>9. s1 \notin Unread(live)
  <2>1. ~(Stored(c) < Stored(c))
    <3>1. heap[c] \in Chunk
      BY <1>5, <1>6
    <3> QED BY <3>1, ChunkSizes DEF Chunk, Stored
  <2> QED BY <2>1 DEF Unread
<1>10. Unread(live)' = (Unread(live) \ {s0}) \cup {s1}
  <2>1. Unread(live)' = {s \in Addresses \X SlotIds : s[1] \in l \ Left /\ s[2] < heap'[s[1]].size /\ ~PastIn(Advanced, s)}
    BY <1>2, <1>5 DEF Unread, Stored
  <2>2. \A s \in Addresses \X SlotIds : s[1] \in live /\ s[2] < Stored(s[1]) =>
          (s[1] \notin Left /\ ~PastIn(Advanced, s) <=> ~PastIn(it, s) /\ s # s0)
    BY <1>5, <1>6, NextPassesOne
  <2>3. s1[1] = c
    OBVIOUS
  <2>4. c \notin Left /\ ~PastIn(Advanced, s1)
    BY <1>2, <1>5 DEF PastIn
  <2> HIDE DEF s0, s1
  <2>5. \A s \in Addresses \X SlotIds :
          s \in Unread(live)' <=> (s \in Unread(live) /\ s # s0) \/ s = s1
    BY <1>7, <2>1, <2>2, <2>3, <2>4 DEF Unread
  <2>6. Unread(live)' \subseteq Addresses \X SlotIds /\ Unread(live) \subseteq Addresses \X SlotIds
    BY <2>1 DEF Unread
  <2> QED BY <1>7, <2>5, <2>6
<1>11. Numbered(Unread(live)', heap', 1 .. created)
  <2> DEFINE h == heap'
             u == Unread(live)
  <2>1. \A s \in u : s # s0 => InSlot(h, s) = InSlot(heap, s)
    BY <1>7 DEF Unread
  <2>2. InSlot(h, s1) = InSlot(heap, s0) /\ s0 \in u /\ s1 \notin u /\ Numbered(u, heap, 1 .. created)
    BY <1>1, <1>7, <1>8, <1>9
  <2> HIDE DEF h, u, s0, s1
  <2>3. Numbered((u \ {s0}) \cup {s1}, h, 1 .. created)
    BY <2>1, <2>2, NumberedMove
  <2> QED BY <1>10, <2>3 DEF h, u
<1>12. ItemsInv'
  BY <1>1, <1>2, <1>11 DEF ItemsInv
<1>13. EmptyInv'
  <2> SUFFICES ASSUME NEW k \in CellIds, k < idCell PROVE heap'[cur[k].front] = heap[cur[k].front]
    BY <1>1, <1>2 DEF EmptyInv, IsEmpty, Stored
  <2>1. ~Reading(k)
    BY <1>5 DEF Reading, CellIds
  <2>2. cur[k].front \in live /\ owner[cur[k].front] = <<"cur", k>>
    BY <1>1, <1>5, <2>1, FrontsListed
  <2> QED BY <1>5, <2>2 DEF Pushed
<1>14. PhaseInv' /\ OnceInv'
  BY <1>1, <1>2 DEF PhaseInv, OnceInv
<1>15. c \in Part(<<"nxt", j>>) /\ it.chunk \in Part(<<"cur", idCell>>)
  <2>1. <<"nxt", j>> \in BagIds /\ <<"cur", idCell>> \in BagIds
    BY <1>5 DEF BagIds
  <2> QED BY <1>5, <2>1, PartsOfLists
<1>16. SlotWritten(<<"nxt", j>>, s1, p)
  <2>1. s1[1] = c
    OBVIOUS
  <2> HIDE DEF s0, s1
  <2> QED BY <1>7, <1>9, <1>10, <1>15, <2>1 DEF SlotWritten
<1>17. \A s \in Unread(live) : s # s0 => InSlot(heap', s) = InSlot(heap, s)
  BY <1>7 DEF Unread
<1>18. heap'[it.chunk] = heap[it.chunk]
  BY <1>5 DEF Pushed
<1>19. ParticlesInv'
  BY <1>3, <1>12, <1>13, <1>14 DEF ParticlesInv
<1> HIDE DEF s1
<1> QED BY <1>5, <1>8, <1>10, <1>15, <1>16, <1>17, <1>18, <1>19 DEF p

LEMMA BeginBagNumbers ==
  ASSUME ParticlesInv, BeginBag
  PROVE  ParticlesInv' /\ (main = "step" => Unread(live)' = Unread(live))
<1>1. /\ DemoInv /\ TypesInv /\ IterInv /\ EmptyInv /\ PhaseInv /\ OnceInv /\ ItemsInv
      /\ main \in {"step", "report"} /\ main' = main /\ it = NoIter /\ idCell < nbCells
      /\ created' = created /\ idCell' = idCell /\ heap' = heap /\ cur' = cur /\ nxt' = nxt /\ reported' = reported
      /\ it' = Get(cur[idCell].front)
      /\ live' = IF main = "step" THEN live \ Skipped(cur[idCell].front) ELSE live
  BY DEF ParticlesInv, DemoInv, BeginBag
<1>2. DemoInv'
  BY <1>1, BeginBagKeeps
<1>3. EmptyInv' /\ PhaseInv' /\ OnceInv'
  BY <1>1 DEF EmptyInv, PhaseInv, OnceInv, IsEmpty, Stored
<1>4. idCell \in CellIds /\ \A k \in CellIds : ~Reading(k)
  BY <1>1, MeshSizes DEF TypesInv, CellIds, Reading
<1> DEFINE c == cur[idCell].front
           b == <<"cur", idCell>>
<1>5. ASSUME NEW owner, NEW pos, Chained(owner, pos, Nexts, live, Firsts)
      PROVE  /\ c \in live /\ owner[c] = b
             /\ \A a \in live : pos[a] \in Nat /\ owner[a] \in BagIds /\ (owner[a] = b => pos[a] <= pos[c])
             /\ \E d : /\ d = NULL \/ (d \in live /\ owner[d] = b /\ Stored(d) # 0)
                       /\ it' = IF d = NULL THEN Ended ELSE Load(d)
                       /\ Skipped(c) = Between(owner, pos, c, d)
                       /\ \A e \in Skipped(c) : Stored(e) = 0
  <2>1. c \in live /\ owner[c] = b /\ Firsts[b] = c
    BY <1>1, <1>4, <1>5, FrontsListed
  <2>2. \A a \in live : pos[a] \in Nat /\ owner[a] \in BagIds /\ (owner[a] = b => pos[a] <= pos[c])
    BY <1>5, <2>1 DEF Chained
  <2>3. it' = Get(c)
    BY <1>1
  <2> HIDE DEF c, b
  <2> QED BY <1>5, <2>1, <2>2, <2>3, GetSkips
<1> HIDE DEF c
<1>6. \A s \in Addresses \X SlotIds : ~PastIn(it, s) /\ ~PastIn(it', s)
  <2>1. it' = Ended \/ \E d : it' = Load(d)
    BY <1>1 DEF Get
  <2>2. \A s \in Addresses \X SlotIds : ~(s[2] < 0)
    BY ChunkSizes DEF SlotIds
  <2>3. it.at # "particle"
    BY <1>1 DEF NoIter
  <2>4. it'.at = "particle" => it'.index = 0
    <3>1. Ended.at # "particle" /\ \A d : Load(d).index = 0
      BY DEF Ended, NoIter, Load
    <3> QED BY <2>1, <3>1
  <2> QED BY <2>2, <2>3, <2>4 DEF PastIn
<1>7. \A s \in Addresses \X SlotIds : s[2] < Stored(s[1]) => Stored(s[1]) # 0
  BY ChunkSizes DEF SlotIds
<1>8. CASE main = "step"
  <2>1. PICK owner, pos : Chained(owner, pos, Nexts, live, Firsts)
    BY <1>1, <1>8 DEF DemoInv, ListsInv
  <2>2. \A e \in Skipped(c) : Stored(e) = 0
    BY <1>5, <2>1
  <2>3. live' = live \ Skipped(c)
    BY <1>1, <1>8 DEF c
  <2>4. Unread(live)' = Unread(live)
    BY <1>1, <1>6, <1>7, <2>2, <2>3 DEF Unread, Stored
  <2>5. ItemsInv'
    BY <1>1, <1>8, <2>4 DEF ItemsInv
  <2> QED BY <1>2, <1>3, <2>4, <2>5 DEF ParticlesInv
<1>9. CASE main = "report"
  <2>1. PICK owner, pos : ReportList(owner, pos)
    BY <1>1, <1>9 DEF ItemsInv
  <2>2. Chained(owner, pos, Nexts, live, Firsts)
    BY <2>1 DEF ReportList
  <2>3. PICK d : /\ d = NULL \/ (d \in live /\ owner[d] = b /\ Stored(d) # 0)
                 /\ it' = IF d = NULL THEN Ended ELSE Load(d)
                 /\ Skipped(c) = Between(owner, pos, c, d)
                 /\ \A e \in Skipped(c) : Stored(e) = 0
    BY <1>5, <2>2
  <2>4. c \in live /\ owner[c] = b /\ \A a \in live : pos[a] \in Nat /\ owner[a] \in BagIds /\ (owner[a] = b => pos[a] <= pos[c])
    BY <1>5, <2>2
  <2>5. /\ it'.at = "particle" <=> d # NULL
        /\ d # NULL => it'.chunk = d /\ it'.size = Stored(d) /\ it'.index = 0
        /\ it' # NoIter
    BY <2>3 DEF Ended, NoIter, Load
  <2>6. ASSUME NEW a \in live, Stored(a) # 0 PROVE a \in Ahead(owner, pos)' <=> a \in Ahead(owner, pos)
    <3>1. CASE owner[a] = b
      <4>1. a \notin Between(owner, pos, c, d) /\ pos[a] \in Nat /\ pos[a] <= pos[c]
        BY <2>3, <2>4, <2>6, <3>1
      <4>2. d # NULL /\ pos[a] <= pos[d]
        <5>1. ~(d = NULL \/ pos[d] < pos[a])
          BY <2>4, <3>1, <4>1 DEF Between
        <5>2. pos[d] \in Nat
          BY <2>3, <2>4, <5>1
        <5> QED BY <4>1, <5>1, <5>2
      <4>3. a \in Ahead(owner, pos)
        BY <1>1, <3>1 DEF Ahead
      <4> QED BY <1>1, <1>9, <2>5, <3>1, <4>2, <4>3 DEF Ahead
    <3>2. CASE owner[a] # b
      <4>1. ~(owner[a][1] = "cur" /\ owner[a][2] = idCell)
        BY <2>4, <3>2 DEF BagIds
      <4> QED BY <1>1, <1>9, <4>1 DEF Ahead
    <3> QED BY <3>1, <3>2
  <2>7. Unread(Ahead(owner, pos))' = Unread(Ahead(owner, pos))
    <3>1. Ahead(owner, pos)' \subseteq live /\ Ahead(owner, pos) \subseteq live
      BY <1>1, <1>9 DEF Ahead
    <3>2. Unread(Ahead(owner, pos))' = {s \in Addresses \X SlotIds : s[1] \in Ahead(owner, pos)' /\ s[2] < Stored(s[1]) /\ ~PastIn(it', s)}
      BY <1>1 DEF Unread, Stored
    <3> QED BY <1>6, <1>7, <2>6, <3>1, <3>2 DEF Unread
  <2>8. ReportList(owner, pos)'
    <3>1. Nexts' = Nexts /\ live' = live /\ Listed' = Listed
      BY <1>1, <1>9 DEF Nexts, Listed
    <3>2. Firsts' = Firsts
      BY <1>1, <1>9 DEF Firsts, FirstOf, Reading
    <3>3. d # NULL => heap'[d].size = Stored(d) /\ 0 \in 0 .. Stored(d) - 1
      <4> SUFFICES ASSUME d # NULL PROVE heap'[d].size = Stored(d) /\ 0 \in 0 .. Stored(d) - 1
        OBVIOUS
      <4>1. d \in Addresses /\ heap[d] \in Chunk
        BY <1>1, <2>3 DEF TypesInv
      <4>2. Stored(d) \in Nat /\ Stored(d) # 0
        BY <2>3, <4>1, ChunkSizes DEF Chunk, Stored
      <4> QED BY <1>1, <4>2 DEF Stored
    <3>4. it'.at = "particle" => /\ it'.chunk \in live /\ owner[it'.chunk] = b
                                 /\ it'.size = heap'[it'.chunk].size /\ it'.index \in 0 .. it'.size - 1
      BY <2>3, <2>5, <3>3
    <3>5. Numbered(Unread(Ahead(owner, pos))', heap', (1 .. NbParticles) \ Listed')
      BY <1>1, <2>1, <2>7, <3>1 DEF ReportList
    <3> QED BY <1>1, <2>2, <3>1, <3>2, <3>4, <3>5 DEF ReportList, Stored
  <2>9. ItemsInv'
    BY <1>1, <1>9, <2>8 DEF ItemsInv
  <2> QED BY <1>2, <1>3, <1>9, <2>9 DEF ParticlesInv
<1> QED BY <1>1, <1>8, <1>9

LEMMA EndBagNumbers ==
  ASSUME ParticlesInv, EndBag
  PROVE  /\ ParticlesInv'
         /\ main = "step" => Unread(live)' = Unread(live) /\ \A s \in Unread(live) : InSlot(heap', s) = InSlot(heap, s)
<1>1. /\ DemoInv /\ TypesInv /\ IterInv /\ EmptyInv /\ PhaseInv /\ OnceInv /\ ItemsInv
      /\ it.at = "NULL" /\ it' = NoIter /\ idCell' = idCell + 1 /\ main' = main
      /\ created' = created /\ nxt' = nxt /\ reported' = reported
  BY DEF ParticlesInv, DemoInv, EndBag
<1>2. main \in {"step", "report"} /\ idCell < nbCells /\ it # NoIter
  BY <1>1 DEF IterInv, NoIter
<1>3. DemoInv'
  BY <1>1, EndBagKeeps
<1>4. PhaseInv' /\ OnceInv'
  BY <1>1, <1>2 DEF PhaseInv, OnceInv
<1>5. idCell \in CellIds
  BY <1>1, <1>2, MeshSizes DEF TypesInv, CellIds
<1>6. \A s : ~PastIn(it, s) /\ ~PastIn(it', s)
  BY <1>1 DEF PastIn, NoIter
<1>7. CASE main = "step"
  <2> DEFINE c == MallocIn(live)
  <2>1. /\ MemoryLeft
        /\ heap' = [heap EXCEPT ![c].size = 0, ![c].next = NULL]
        /\ live' = live \cup {c}
        /\ cur' = [cur EXCEPT ![idCell] = BagOf(c)]
    BY <1>7 DEF EndBag
  <2>2. live \subseteq Addresses /\ heap \in [Addresses -> Chunk]
    BY <1>1 DEF TypesInv
  <2>3. c \in Addresses /\ c \notin live
    BY <2>1, <2>2, MallocFresh
  <2> HIDE DEF c
  <2>4. heap' = [heap EXCEPT ![c] = [size |-> 0, next |-> NULL, items |-> heap[c].items]]
    BY <2>1, <2>2, <2>3, Cleared
  <2>5. heap'[c].size = 0 /\ heap'[c].next = NULL /\ \A a \in live : heap'[a] = heap[a]
    BY <2>2, <2>3, <2>4
  <2>6. /\ cur'[idCell].front = c /\ \A k \in CellIds : k # idCell => cur'[k] = cur[k]
    BY <1>1, <1>5, <2>1 DEF TypesInv, BagOf
  <2>7. Unread(live)' = Unread(live)
    <3>1. \A s \in Addresses \X SlotIds : ~(s[2] < 0)
      BY ChunkSizes DEF SlotIds
    <3>2. Unread(live)' = {s \in Addresses \X SlotIds : s[1] \in live' /\ s[2] < heap'[s[1]].size}
      BY <1>6 DEF Unread, Stored
    <3>3. Unread(live) = {s \in Addresses \X SlotIds : s[1] \in live /\ s[2] < heap[s[1]].size}
      BY <1>6 DEF Unread, Stored
    <3>4. ASSUME NEW s \in Addresses \X SlotIds
          PROVE  s[1] \in live' /\ s[2] < heap'[s[1]].size <=> s[1] \in live /\ s[2] < heap[s[1]].size
      <4>1. CASE s[1] = c
        BY <2>3, <2>5, <3>1, <4>1
      <4>2. CASE s[1] # c
        BY <2>1, <2>5, <4>2
      <4> QED BY <4>1, <4>2
    <3> QED BY <3>2, <3>3, <3>4
  <2>8. Numbered(Unread(live)', heap', 1 .. created)
    <3> DEFINE h == heap'
               u == Unread(live)
    <3>1. \A s \in u : InSlot(h, s) = InSlot(heap, s)
      BY <2>5 DEF Unread, InSlot
    <3>2. Numbered(u, heap, 1 .. created)
      BY <1>1, <1>7 DEF ItemsInv
    <3> HIDE DEF h, u
    <3>3. Numbered(u, h, 1 .. created)
      BY <3>1, <3>2, NumberedSame
    <3> QED BY <2>7, <3>3 DEF h, u
  <2>9. ItemsInv'
    BY <1>1, <1>7, <2>8 DEF ItemsInv
  <2>10. EmptyInv'
    <3> SUFFICES ASSUME NEW k \in CellIds, k < idCell + 1 PROVE IsEmpty(cur[k])'
      BY <1>1, <1>7 DEF EmptyInv
    <3>1. CASE k = idCell
      BY <2>5, <2>6, <3>1 DEF IsEmpty, Stored
    <3>2. CASE k # idCell
      <4>1. k < idCell /\ ~Reading(k)
        BY <1>5, <3>2 DEF CellIds, Reading
      <4>2. PICK owner, pos : Chained(owner, pos, Nexts, live, Firsts)
        BY <1>1, <1>7 DEF DemoInv, ListsInv
      <4>3. cur[k].front \in live
        BY <1>1, <4>1, <4>2, FrontsListed
      <4>4. IsEmpty(cur[k])
        BY <1>1, <1>7, <4>1 DEF EmptyInv
      <4> QED BY <2>5, <2>6, <3>2, <4>3, <4>4 DEF IsEmpty, Stored
    <3> QED BY <3>1, <3>2
  <2>11. \A s \in Unread(live) : InSlot(heap', s) = InSlot(heap, s)
    BY <2>5 DEF Unread, InSlot
  <2> QED BY <1>3, <1>4, <2>7, <2>9, <2>10, <2>11 DEF ParticlesInv
<1>8. CASE main = "report"
  <2>1. heap' = heap /\ live' = live /\ cur' = cur
    BY <1>8 DEF EndBag
  <2>2. EmptyInv'
    BY <1>1, <1>8, <2>1 DEF EmptyInv, IsEmpty, Stored
  <2>3. PICK owner, pos : ReportList(owner, pos)
    BY <1>1, <1>8 DEF ItemsInv
  <2>4. \A c \in live : owner[c] \in BagIds
    BY <2>3 DEF ReportList, Chained
  <2>5. Ahead(owner, pos)' = Ahead(owner, pos)
    <3>1. ASSUME NEW c \in live, owner[c][1] = "cur"
          PROVE  IF owner[c][2] = idCell + 1 THEN owner[c][2] > idCell ELSE owner[c][2] > idCell + 1 <=> owner[c][2] > idCell
      <4>1. owner[c][2] \in Int /\ idCell \in Int
        BY <1>5, <2>4 DEF BagIds, CellIds
      <4> QED BY <4>1
    <3>2. Ahead(owner, pos) = {c \in live : owner[c][1] = "cur" /\ owner[c][2] > idCell}
      <4>1. \A c \in live : owner[c][2] \in Int /\ idCell \in Int
        BY <1>5, <2>4 DEF BagIds, CellIds
      <4>2. \A c \in live : owner[c][2] = idCell => ~(owner[c][2] > idCell)
        BY <4>1
      <4> QED BY <1>1, <1>2, <4>2 DEF Ahead
    <3>3. Ahead(owner, pos)' =
            {c \in live : owner[c][1] = "cur" /\ IF owner[c][2] = idCell + 1 THEN TRUE ELSE owner[c][2] > idCell + 1}
      BY <1>1, <2>1 DEF Ahead
    <3> QED BY <3>1, <3>2, <3>3
  <2>6. Unread(Ahead(owner, pos))' = Unread(Ahead(owner, pos))
    BY <1>6, <2>1, <2>5 DEF Unread, Stored
  <2>7. Nexts' = Nexts /\ Listed' = Listed
    BY <1>1, <2>1 DEF Nexts, Listed
  <2>8. Firsts' = Firsts
    BY <1>1, <1>8, <2>1 DEF Firsts, FirstOf, Reading
  <2>9. it'.at # "particle"
    BY <1>1 DEF NoIter
  <2>10. ReportList(owner, pos)'
    BY <2>1, <2>3, <2>6, <2>7, <2>8, <2>9 DEF ReportList
  <2>11. ItemsInv'
    BY <1>1, <1>8, <2>10 DEF ItemsInv
  <2> QED BY <1>3, <1>4, <1>8, <2>2, <2>11 DEF ParticlesInv
<1> QED BY <1>2, <1>7, <1>8

LEMMA ReportNextNumbers == ASSUME ParticlesInv, ReportNext PROVE ParticlesInv'
<1>1. /\ DemoInv /\ TypesInv /\ IterInv /\ ContentsInv /\ EmptyInv /\ PhaseInv /\ OnceInv /\ ItemsInv
      /\ main = "report" /\ main' = main /\ it.at = "particle" /\ it' = Advanced
      /\ created' = created /\ idCell' = idCell /\ heap' = heap /\ live' = live /\ cur' = cur /\ nxt' = nxt
      /\ reported' = Append(reported, Current)
  BY DEF ParticlesInv, DemoInv, ReportNext
<1>2. DemoInv'
  BY <1>1, ReportNextKeeps
<1>3. EmptyInv' /\ PhaseInv'
  BY <1>1 DEF EmptyInv, PhaseInv, IsEmpty, Stored
<1>4. PICK owner, pos : ReportList(owner, pos)
  BY <1>1 DEF ItemsInv
<1> DEFINE c == it.chunk
           b == <<"cur", idCell>>
           s0 == <<c, it.index>>
<1>5. /\ Chained(owner, pos, Nexts, live, Firsts) /\ c \in live /\ owner[c] = b
      /\ it.size = Stored(c) /\ it.index \in 0 .. it.size - 1
      /\ Numbered(Unread(Ahead(owner, pos)), heap, (1 .. NbParticles) \ Listed)
  BY <1>1, <1>4 DEF ReportList
<1>6. /\ live \subseteq Addresses /\ heap \in [Addresses -> Chunk]
      /\ it = [at |-> "particle", chunk |-> it.chunk, size |-> Stored(it.chunk), index |-> it.index]
      /\ \A a \in live : pos[a] \in Nat /\ owner[a] \in BagIds
  BY <1>1, <1>5 DEF TypesInv, IterInv, Chained
<1>7. it.index \in SlotIds /\ it.index < Stored(c) /\ ~(it.index < it.index)
  <2>1. heap[c] \in Chunk
    BY <1>5, <1>6
  <2>2. Stored(c) \in 0 .. ChunkSize
    BY <2>1 DEF Chunk, Stored
  <2> QED BY <1>5, <2>2, ChunkSizes DEF SlotIds
<1>8. s0 \in Unread(Ahead(owner, pos)) /\ InSlot(heap, s0) = Current
  <2>1. c \in Ahead(owner, pos)
    <3>1. pos[c] <= pos[c]
      BY <1>5, <1>6
    <3> QED BY <1>1, <1>5, <3>1 DEF Ahead
  <2> QED BY <1>5, <1>6, <1>7, <2>1 DEF Unread, PastIn, InSlot, Current
<1>9. Current \in (1 .. NbParticles) \ Listed
  BY <1>5, <1>8 DEF Numbered
<1>10. PICK d : /\ d = NULL \/ (d \in live /\ owner[d] = owner[it.chunk] /\ pos[d] <= pos[it.chunk])
                /\ Left = Between(owner, pos, it.chunk, d)
                /\ IF d = NULL THEN Advanced = Ended
                   ELSE \E i \in 0 .. Stored(d) - 1 :
                          Advanced = [at |-> "particle", chunk |-> d, size |-> Stored(d), index |-> i]
  BY <1>5, <1>6, LeavingSkips
<1>11. /\ it'.at = "particle" <=> d # NULL
       /\ d # NULL => it'.chunk = d /\ it'.size = Stored(d) /\ it'.index \in 0 .. Stored(d) - 1
       /\ it' # NoIter
  <2>1. CASE d = NULL
    <3>1. it' = Ended
      BY <1>1, <1>10, <2>1
    <3> QED BY <2>1, <3>1 DEF Ended, NoIter
  <2>2. CASE d # NULL
    <3>1. PICK i \in 0 .. Stored(d) - 1 : it' = [at |-> "particle", chunk |-> d, size |-> Stored(d), index |-> i]
      BY <1>1, <1>10, <2>2
    <3> QED BY <2>2, <3>1 DEF NoIter
  <2> QED BY <2>1, <2>2
<1> HIDE DEF b
<1>12. ASSUME NEW a \in live PROVE a \in Ahead(owner, pos)' <=> a \in Ahead(owner, pos) /\ a \notin Left
  <2>1. CASE owner[a] = b
    <3>1. owner[a][1] = "cur" /\ owner[a][2] = idCell
      BY <2>1 DEF b
    <3>2. a \in Ahead(owner, pos) <=> pos[a] <= pos[c]
      BY <1>1, <3>1 DEF Ahead, NoIter
    <3>3. a \in Ahead(owner, pos)' <=> d # NULL /\ pos[a] <= pos[d]
      BY <1>1, <1>11, <3>1 DEF Ahead
    <3>4. a \in Left <=> pos[a] <= pos[c] /\ (d = NULL \/ pos[d] < pos[a])
      BY <1>5, <1>10, <2>1 DEF Between
    <3>5. pos[a] \in Nat /\ pos[c] \in Nat /\ (d # NULL => pos[d] \in Nat /\ pos[d] <= pos[c])
      BY <1>5, <1>6, <1>10
    <3> QED BY <3>2, <3>3, <3>4, <3>5
  <2>2. CASE owner[a] # b
    <3>1. ~(owner[a][1] = "cur" /\ owner[a][2] = idCell)
      BY <1>6, <2>2 DEF BagIds, b
    <3>2. a \notin Left
      BY <1>5, <1>10, <2>2 DEF Between
    <3> QED BY <1>1, <3>1, <3>2 DEF Ahead
  <2> QED BY <2>1, <2>2
<1>13. Unread(Ahead(owner, pos))' = Unread(Ahead(owner, pos)) \ {s0}
  <2>1. Ahead(owner, pos)' \subseteq live /\ Ahead(owner, pos) \subseteq live
    BY <1>1 DEF Ahead
  <2>2. Unread(Ahead(owner, pos))' =
          {s \in Addresses \X SlotIds : s[1] \in Ahead(owner, pos)' /\ s[2] < Stored(s[1]) /\ ~PastIn(Advanced, s)}
    BY <1>1 DEF Unread, Stored
  <2>3. \A s \in Addresses \X SlotIds : s[1] \in live /\ s[2] < Stored(s[1]) =>
          (s[1] \notin Left /\ ~PastIn(Advanced, s) <=> ~PastIn(it, s) /\ s # s0)
    BY <1>5, <1>6, NextPassesOne
  <2> HIDE DEF s0
  <2>4. \A s \in Addresses \X SlotIds : s \in Unread(Ahead(owner, pos))' <=> s \in Unread(Ahead(owner, pos)) /\ s # s0
    BY <1>12, <2>1, <2>2, <2>3 DEF Unread
  <2>5. Unread(Ahead(owner, pos))' \subseteq Addresses \X SlotIds /\ Unread(Ahead(owner, pos)) \subseteq Addresses \X SlotIds
    BY <2>2 DEF Unread
  <2> QED BY <2>4, <2>5
<1>14. Listed' = Listed \cup {Current} /\ OnceInv'
  <2> DEFINE p == Current
             r == Append(reported, p)
             n == Len(reported)
  <2>1. reported \in Seq(1 .. NbParticles) /\ p \in 1 .. NbParticles /\ \A i \in DOMAIN reported : reported[i] # p
    BY <1>1, <1>9 DEF OnceInv, Listed
  <2> HIDE DEF p
  <2>2. /\ r \in Seq(1 .. NbParticles) /\ DOMAIN reported = 1 .. n /\ DOMAIN r = 1 .. n + 1 /\ n \in Nat
        /\ \A i \in 1 .. n : r[i] = reported[i]
        /\ r[n + 1] = p
    BY <2>1
  <2> HIDE DEF r, n
  <2>3. \A i \in 1 .. n + 1 : i \in 1 .. n \/ i = n + 1
    BY <2>2
  <2>4. \A i, k \in DOMAIN r : r[i] = r[k] => i = k
    BY <1>1, <2>1, <2>2, <2>3 DEF OnceInv
  <2>5. {r[i] : i \in DOMAIN r} = Listed \cup {p}
    <3>1. \A i \in 1 .. n : i \in 1 .. n + 1
      BY <2>2
    <3>2. n + 1 \in 1 .. n + 1
      BY <2>2
    <3> QED BY <2>2, <2>3, <3>1, <3>2 DEF Listed
  <2>6. reported' = r
    BY <1>1 DEF r, p
  <2> QED BY <2>2, <2>4, <2>5, <2>6 DEF OnceInv, Listed, p
<1>15. Numbered(Unread(Ahead(owner, pos))', heap', (1 .. NbParticles) \ Listed')
  <2> DEFINE u == Unread(Ahead(owner, pos))
             ps == (1 .. NbParticles) \ Listed
  <2>1. Numbered(u, heap, ps) /\ s0 \in u
    BY <1>5, <1>8
  <2> HIDE DEF u, ps, s0
  <2>2. Numbered(u \ {s0}, heap, ps \ {InSlot(heap, s0)})
    BY <2>1, NumberedDrop
  <2>3. (1 .. NbParticles) \ Listed' = ps \ {InSlot(heap, s0)}
    BY <1>8, <1>14 DEF ps
  <2> QED BY <1>1, <1>13, <2>2, <2>3 DEF u
<1>16. ReportList(owner, pos)'
  <2>1. Nexts' = Nexts
    BY <1>1 DEF Nexts
  <2>2. Firsts' = Firsts
    BY <1>1 DEF Firsts, FirstOf, Reading
  <2>3. it'.at = "particle" => /\ it'.chunk \in live /\ owner[it'.chunk] = b
                               /\ it'.size = heap'[it'.chunk].size /\ it'.index \in 0 .. it'.size - 1
    BY <1>1, <1>5, <1>10, <1>11 DEF Stored
  <2> QED BY <1>1, <1>5, <1>15, <2>1, <2>2, <2>3 DEF ReportList, Stored, b
<1>17. ItemsInv'
  BY <1>1, <1>16 DEF ItemsInv
<1> QED BY <1>2, <1>3, <1>14, <1>17 DEF ParticlesInv

LEMMA DeallocateNumbers == ASSUME ParticlesInv, Deallocate PROVE ParticlesInv'
<1>1. /\ DemoInv /\ TypesInv /\ IterInv /\ EmptyInv /\ PhaseInv /\ OnceInv /\ ItemsInv
      /\ main = "report" /\ main' = "returned" /\ idCell = nbCells
      /\ created' = created /\ reported' = reported /\ nbCells \in Nat
  BY MeshSizes DEF ParticlesInv, DemoInv, Deallocate
<1>2. DemoInv'
  BY <1>1, DeallocateKeeps
<1>3. EmptyInv' /\ PhaseInv' /\ OnceInv' /\ Listed' = Listed
  BY <1>1 DEF EmptyInv, PhaseInv, OnceInv, Listed
<1>4. PICK owner, pos : ReportList(owner, pos)
  BY <1>1 DEF ItemsInv
<1>5. Ahead(owner, pos) = {}
  <2> SUFFICES ASSUME NEW c \in Ahead(owner, pos) PROVE FALSE
    OBVIOUS
  <2>1. owner[c] \in BagIds
    BY <1>4 DEF ReportList, Chained, Ahead
  <2>2. owner[c][2] \in Int /\ owner[c][2] < nbCells
    BY <1>1, <2>1 DEF BagIds, CellIds
  <2>3. owner[c][2] > nbCells
    BY <1>1, <2>2 DEF Ahead
  <2> QED BY <1>1, <2>2, <2>3
<1>6. (1 .. NbParticles) \ Listed = {}
  <2>1. Unread(Ahead(owner, pos)) = {}
    BY <1>5 DEF Unread
  <2> QED BY <1>4, <2>1 DEF ReportList, Numbered
<1>7. Listed \subseteq 1 .. NbParticles
  <2>1. reported \in Seq(1 .. NbParticles)
    BY <1>1 DEF OnceInv
  <2>2. reported \in [1 .. Len(reported) -> 1 .. NbParticles]
    BY <2>1, ChunkSizes
  <2> QED BY <2>2 DEF Listed
<1>8. ItemsInv'
  BY <1>1, <1>3, <1>6, <1>7 DEF ItemsInv
<1> QED BY <1>2, <1>3, <1>8 DEF ParticlesInv

LEMMA NextNumbers == ParticlesInv /\ [DemoBagsNext]_demoBagsVars => ParticlesInv'
<1> SUFFICES ASSUME ParticlesInv, [DemoBagsNext]_demoBagsVars PROVE ParticlesInv'
  OBVIOUS
<1>1. CASE AddParticle
  BY <1>1, AddParticleNumbers
<1>2. CASE StepLeapFrog
  BY <1>2, StepLeapFrogNumbers
<1>3. CASE BeginBag
  BY <1>3, BeginBagNumbers
<1>4. CASE MoveNext
  BY <1>4, MoveNextNumbers
<1>5. CASE ReportNext
  BY <1>5, ReportNextNumbers
<1>6. CASE EndBag
  BY <1>6, EndBagNumbers
<1>7. CASE SwapBags
  BY <1>7, SwapBagsNumbers
<1>8. CASE Deallocate
  BY <1>8, DeallocateNumbers
<1>9. CASE UNCHANGED demoBagsVars
  <2>1. /\ main' = main /\ created' = created /\ idCell' = idCell /\ it' = it
        /\ heap' = heap /\ live' = live /\ cur' = cur /\ nxt' = nxt /\ reported' = reported
    BY <1>9 DEF demoBagsVars
  <2>2. DemoInv'
    BY <1>9, NextKeeps DEF ParticlesInv
  <2>3. EmptyInv' /\ PhaseInv' /\ OnceInv'
    BY <2>1 DEF ParticlesInv, EmptyInv, PhaseInv, OnceInv, IsEmpty, Stored
  <2>4. Firsts' = Firsts /\ Nexts' = Nexts /\ Listed' = Listed
    BY <2>1 DEF Firsts, FirstOf, Reading, Nexts, Listed
  <2>5. Unread(live)' = Unread(live)
    BY <2>1 DEF Unread, Stored
  <2>6. \A owner, pos : ReportList(owner, pos) => ReportList(owner, pos)'
    BY <2>1, <2>4 DEF ReportList, Unread, Ahead, Stored
  <2>7. ItemsInv'
    BY <2>1, <2>4, <2>5, <2>6 DEF ParticlesInv, ItemsInv
  <2> QED BY <2>2, <2>3, <2>7 DEF ParticlesInv
<1> QED BY <1>1, <1>2, <1>3, <1>4, <1>5, <1>6, <1>7, <1>8, <1>9 DEF DemoBagsNext

\* A list of all particles that has none twice is as long as they are many.
LEMMA AllListedOnce == ParticlesInv => ReportComplete
<1> SUFFICES ASSUME ParticlesInv, main = "returned"
             PROVE  Len(reported) = NbParticles /\ {reported[i] : i \in DOMAIN reported} = 1 .. NbParticles
  BY DEF ReportComplete
<1>1. /\ reported \in Seq(1 .. NbParticles) /\ Listed = 1 .. NbParticles
      /\ \A i, j \in DOMAIN reported : reported[i] = reported[j] => i = j
  BY DEF ParticlesInv, OnceInv, ItemsInv
<1> DEFINE n == Len(reported)
<1>2. n \in Nat /\ DOMAIN reported = 1 .. n /\ reported \in [1 .. n -> 1 .. NbParticles] /\ NbParticles \in Nat
  BY <1>1, ChunkSizes
<1>3. \A p \in 1 .. NbParticles : \E i \in 1 .. n : reported[i] = p
  BY <1>1, <1>2 DEF Listed
<1> HIDE DEF n
<1>4. reported \in Bijection(1 .. n, 1 .. NbParticles)
  BY <1>1, <1>2, <1>3 DEF Bijection, Injection, Surjection, IsInjective
<1>5. Cardinality(1 .. NbParticles) = n
  BY <1>2, <1>4, FS_CountingElements DEF ExistsBijection
<1>6. Cardinality(1 .. NbParticles) = IF 1 > NbParticles THEN 0 ELSE NbParticles - 1 + 1
  BY <1>2, FS_Interval
<1>7. n = NbParticles
  BY <1>2, <1>5, <1>6
<1> QED BY <1>1, <1>7 DEF n, Listed

\* Whatever the mesh, the size of the chunks, the moves and the number of particles: when
\* main() returns, the report has listed every particle once, although the chunks that
\* held them were freed and reused while they moved (simulations/pic_demo.c,
\* reportParticlesState and the checker's "particles were lost").
THEOREM ReportAlwaysComplete == DemoBagsSpec => []ReportComplete
<1>1. DemoBagsSpec => []ParticlesInv
  BY InitNumbers, NextNumbers, PTL DEF DemoBagsSpec
<1> QED BY <1>1, AllListedOnce, PTL

-----------------------------------------------------------------------------
(* The chunks implement bags: the naive simulation on sets of particles.     *)

\* The bags as PicDemo sees them.
CurBags == [j \in CellIds |-> Holds(ChunksOf(j)) \ Visited(j)]
NxtBags == [j \in CellIds |-> Holds(ChunksFrom(nxt[j].front))]

\* The same with the slots that are not read yet.
SlotsIn(b) == {s \in Unread(live) : s[1] \in Part(b)}
Bag(b) == {InSlot(heap, s) : s \in SlotsIn(b)}

\* What the iterator has passed is not in the bag any more.
VisitedInv ==
  main = "step" /\ it.at = "particle" =>
    \A i \in 0 .. it.index - 1 : \A s \in SlotsIn(<<"cur", idCell>>) : heap[it.chunk].items[i] # InSlot(heap, s)

StepInv ==
  /\ main = "create" => stepsDone = 0
  /\ main = "step" => stepsDone < NbSteps

BagsInv == ParticlesInv /\ VisitedInv /\ StepInv

LEMMA PartsApart ==
  DemoInv /\ main # "returned" =>
    \A b \in BagIds : Part(b) \subseteq live /\ \A b2 \in BagIds, a \in Part(b) : a \in Part(b2) => b2 = b
<1> SUFFICES ASSUME DemoInv, main # "returned", NEW b \in BagIds
             PROVE  Part(b) \subseteq live /\ \A b2 \in BagIds, a \in Part(b) : a \in Part(b2) => b2 = b
  OBVIOUS
<1>1. PICK owner, pos : Chained(owner, pos, Nexts, live, Firsts)
  BY DEF DemoInv, ListsInv
<1> QED BY <1>1, PartsOfLists

LEMMA PartsOfListsAfter ==
  (\A owner, pos :
     Chained(owner, pos, Nexts, live, Firsts) => \A b \in BagIds : Part(b) = {c \in live : owner[c] = b})'
BY PartsOfLists, PTL

LEMMA PartsKept ==
  ASSUME ListsKept, NEW b \in BagIds, NEW a \in live, a \in live'
  PROVE  a \in Part(b)' <=> a \in Part(b)
<1>1. PICK owner, pos, owner2, pos2 :
        /\ Chained(owner, pos, Nexts, live, Firsts) /\ Chained(owner2, pos2, Nexts', live', Firsts')
        /\ \A x \in live \cap live' : owner2[x] = owner[x]
  BY DEF ListsKept
<1>2. Part(b) = {c \in live : owner[c] = b}
  BY <1>1, PartsOfLists
<1>3. Part(b)' = {c \in live' : owner2[c] = b}
  BY <1>1, PartsOfListsAfter
<1> QED BY <1>1, <1>2, <1>3

\* A slot stays in its bag.
LEMMA SlotsKept ==
  ASSUME ListsKept, NEW b \in BagIds, \A s \in Unread(live)' : s[1] \in live
  PROVE  SlotsIn(b)' = {s \in Unread(live)' : s[1] \in Part(b)}
<1>1. \A s \in Unread(live)' : s[1] \in live'
  BY DEF Unread
<1> QED BY <1>1, PartsKept DEF SlotsIn

LEMMA BagsOfSlots ==
  BagsInv /\ main \in {"create", "step"} =>
    \A j \in CellIds : CurBags[j] = Bag(<<"cur", j>>) /\ NxtBags[j] = Bag(<<"nxt", j>>)
<1> SUFFICES ASSUME BagsInv, main \in {"create", "step"}, NEW j \in CellIds
             PROVE  Holds(ChunksOf(j)) \ Visited(j) = Bag(<<"cur", j>>) /\ Holds(ChunksFrom(nxt[j].front)) = Bag(<<"nxt", j>>)
  BY DEF CurBags, NxtBags
<1> DEFINE b == <<"cur", j>>
           b2 == <<"nxt", j>>
<1>1. DemoInv /\ TypesInv /\ IterInv /\ VisitedInv /\ b \in BagIds /\ b2 \in BagIds /\ live \subseteq Addresses
  BY DEF BagsInv, ParticlesInv, DemoInv, TypesInv, BagIds
<1>2. \A x \in BagIds : Part(x) \subseteq live /\ \A y \in BagIds, a \in Part(x) : a \in Part(y) => y = x
  BY <1>1, PartsApart
<1>3. ChunksOf(j) = Part(b) /\ ChunksFrom(nxt[j].front) = Part(b2)
  BY ChunksOfPart
<1>4. ASSUME NEW x \in BagIds
      PROVE  /\ Holds(Part(x)) = {InSlot(heap, s) : s \in Slots(Part(x))}
             /\ SlotsIn(x) = {s \in Slots(Part(x)) : ~PastIn(it, s)}
  <2>1. Part(x) \subseteq live /\ Part(x) \subseteq Addresses
    BY <1>1, <1>2
  <2>2. Holds(Part(x)) = {InSlot(heap, s) : s \in Slots(Part(x))}
    BY DEF Holds, InSlot
  <2>3. Slots(Part(x)) = {s \in Part(x) \X SlotIds : s[2] < Stored(s[1])}
    BY DEF Slots, SlotIds
  <2> QED BY <2>1, <2>2, <2>3 DEF SlotsIn, Unread
<1>5. it.at = "particle" => /\ main = "step" /\ idCell \in CellIds /\ it.chunk \in Part(<<"cur", idCell>>)
                            /\ it.index \in 0 .. it.size - 1 /\ it.size = Stored(it.chunk)
  <2> SUFFICES ASSUME it.at = "particle"
               PROVE  /\ main = "step" /\ idCell \in CellIds /\ it.chunk \in Part(<<"cur", idCell>>)
                      /\ it.index \in 0 .. it.size - 1 /\ it.size = Stored(it.chunk)
    OBVIOUS
  <2>1. main = "step" /\ idCell < nbCells
    BY <1>1 DEF IterInv, NoIter
  <2>2. idCell \in CellIds
    BY <1>1, <2>1, MeshSizes DEF TypesInv, CellIds
  <2>3. it.chunk \in Addresses /\ it.index \in 0 .. it.size - 1 /\ it.size = Stored(it.chunk)
    BY <1>1, <2>1 DEF IterInv
  <2>4. <<"cur", idCell>> \in BagIds /\ Reading(idCell) /\ it.chunk # NULL
    BY <2>1, <2>2, <2>3 DEF BagIds, Reading, NoIter, Addresses, NULL
  <2>5. Firsts[<<"cur", idCell>>] = it.chunk
    BY <2>4 DEF Firsts, FirstOf
  <2>6. PICK owner, pos : Chained(owner, pos, Nexts, live, Firsts)
    BY <1>1, <2>1 DEF DemoInv, ListsInv
  <2>7. it.chunk \in live /\ owner[it.chunk] = <<"cur", idCell>>
    BY <2>4, <2>5, <2>6 DEF Chained
  <2> QED BY <2>1, <2>2, <2>3, <2>4, <2>6, <2>7, PartsOfLists
<1>6. \A x \in BagIds : x # <<"cur", idCell>> => Holds(Part(x)) = Bag(x)
  <2> SUFFICES ASSUME NEW x \in BagIds, x # <<"cur", idCell>> PROVE Holds(Part(x)) = Bag(x)
    OBVIOUS
  <2>1. \A s \in Slots(Part(x)) : ~PastIn(it, s)
    <3>1. it.at = "particle" => it.chunk \notin Part(x)
      BY <1>2, <1>5 DEF BagIds
    <3> QED BY <3>1 DEF PastIn, Slots
  <2> QED BY <1>4, <2>1 DEF Bag
<1>7. Holds(Part(b2)) = Bag(b2)
  BY <1>1, <1>6
<1>8. CASE ~(it.at = "particle" /\ j = idCell)
  <2>1. Visited(j) = {}
    BY <1>8 DEF Visited, Reading
  <2>2. \A s \in Slots(Part(b)) : ~PastIn(it, s)
    <3>1. it.at = "particle" => it.chunk \notin Part(b)
      BY <1>1, <1>2, <1>5, <1>8 DEF BagIds
    <3> QED BY <3>1 DEF PastIn, Slots
  <2>3. Holds(Part(b)) = Bag(b)
    BY <1>1, <1>4, <2>2 DEF Bag
  <2> QED BY <1>3, <1>7, <2>1, <2>3
<1>9. CASE it.at = "particle" /\ j = idCell
  <2>1. Visited(j) = {heap[it.chunk].items[i] : i \in 0 .. it.index - 1}
    BY <1>5, <1>9 DEF Visited, Reading, NoIter
  <2>2. \A v \in Visited(j) : v \notin Bag(b)
    BY <1>1, <1>5, <1>9, <2>1 DEF VisitedInv, Bag
  <2>3. \A s \in Slots(Part(b)) : PastIn(it, s) => InSlot(heap, s) \in Visited(j)
    <3> SUFFICES ASSUME NEW s \in Slots(Part(b)), PastIn(it, s) PROVE heap[s[1]].items[s[2]] \in Visited(j)
      BY DEF InSlot
    <3>1. s[1] = it.chunk /\ s[2] \in Nat /\ s[2] < it.index
      BY ChunkSizes DEF PastIn, Slots
    <3>2. it.index \in Int
      BY <1>5, <1>9
    <3> QED BY <2>1, <3>1, <3>2
  <2>4. Holds(Part(b)) \ Visited(j) = Bag(b)
    <3>1. Bag(b) \subseteq Holds(Part(b))
      BY <1>1, <1>4 DEF Bag
    <3>2. ASSUME NEW v \in Holds(Part(b)), v \notin Visited(j) PROVE v \in Bag(b)
      <4>1. PICK s \in Slots(Part(b)) : v = InSlot(heap, s)
        BY <1>1, <1>4
      <4>2. ~PastIn(it, s)
        BY <2>3, <3>2, <4>1
      <4> QED BY <1>1, <1>4, <4>1, <4>2 DEF Bag
    <3> QED BY <2>2, <3>1, <3>2
  <2> QED BY <1>3, <1>7, <2>4
<1> QED BY <1>8, <1>9

LEMMA BagsOfSlotsAfter ==
  (BagsInv /\ main \in {"create", "step"} =>
     \A j \in CellIds : CurBags[j] = Bag(<<"cur", j>>) /\ NxtBags[j] = Bag(<<"nxt", j>>))'
BY BagsOfSlots, PTL

\* The steps that leave the bags and the memory alone.
LEMMA BagsAtRest ==
  ASSUME heap' = heap, cur' = cur, nxt' = nxt, \A j \in CellIds : ~Reading(j) /\ ~Reading(j)'
  PROVE  CurBags' = CurBags /\ NxtBags' = NxtBags
<1>1. \A c : ChunksFrom(c)' = ChunksFrom(c)
  BY DEF ChunksFrom, Chain
<1>2. \A chunks : Holds(chunks)' = Holds(chunks)
  BY DEF Holds, Slots, Stored
<1>3. ASSUME NEW j \in CellIds
      PROVE  /\ (Holds(ChunksOf(j)) \ Visited(j))' = Holds(ChunksOf(j)) \ Visited(j)
             /\ Holds(ChunksFrom(nxt[j].front))' = Holds(ChunksFrom(nxt[j].front))
  <2>1. Visited(j) = {} /\ Visited(j)' = {}
    BY DEF Visited
  <2>2. ChunksOf(j) = ChunksFrom(cur[j].front) /\ ChunksOf(j)' = ChunksFrom(cur[j].front)'
    BY DEF ChunksOf
  <2>3. ChunksOf(j)' = ChunksOf(j) /\ ChunksFrom(nxt[j].front)' = ChunksFrom(nxt[j].front)
    BY <2>2 DEF ChunksFrom, Chain
  <2>4. Holds(ChunksOf(j))' = Holds(ChunksOf(j)) /\ Holds(ChunksFrom(nxt[j].front))' = Holds(ChunksFrom(nxt[j].front))
    BY <2>3 DEF Holds, Slots, Stored
  <2> QED BY <2>1, <2>4
<1> QED BY <1>3 DEF CurBags, NxtBags

\* The steps that pass no particle and write none.
LEMMA BagsSame ==
  ASSUME BagsInv, BagsInv', main = "step", main' = main, ListsKept,
         Unread(live)' = Unread(live), \A s \in Unread(live) : InSlot(heap', s) = InSlot(heap, s)
  PROVE  CurBags' = CurBags /\ NxtBags' = NxtBags
<1>1. \A b \in BagIds : SlotsIn(b)' = SlotsIn(b)
  <2>1. \A s \in Unread(live)' : s[1] \in live
    BY DEF Unread
  <2> QED BY <2>1, SlotsKept DEF SlotsIn
<1>2. ASSUME NEW b \in BagIds PROVE Bag(b)' = Bag(b)
  <2>1. Bag(b)' = {InSlot(heap', s) : s \in SlotsIn(b)}
    BY <1>1 DEF Bag
  <2>2. \A s \in SlotsIn(b) : InSlot(heap', s) = InSlot(heap, s)
    BY DEF SlotsIn
  <2> QED BY <2>1, <2>2 DEF Bag
<1>3. \A j \in CellIds : CurBags'[j] = CurBags[j] /\ NxtBags'[j] = NxtBags[j]
  <2>1. \A j \in CellIds : <<"cur", j>> \in BagIds /\ <<"nxt", j>> \in BagIds
    BY DEF BagIds
  <2> QED BY <1>2, <2>1, BagsOfSlots, BagsOfSlotsAfter
<1> QED BY <1>3 DEF CurBags, NxtBags

LEMMA BeginBagBags == ASSUME BagsInv, BeginBag PROVE BagsInv' /\ CurBags' = CurBags /\ NxtBags' = NxtBags
<1>1. /\ ParticlesInv /\ DemoInv /\ StepInv /\ main \in {"step", "report"} /\ main' = main /\ stepsDone' = stepsDone
      /\ it = NoIter /\ heap' = heap /\ cur' = cur /\ nxt' = nxt /\ it' = Get(cur[idCell].front)
  BY DEF BagsInv, ParticlesInv, BeginBag
<1>2. ParticlesInv' /\ (main = "step" => ListsKept /\ Unread(live)' = Unread(live))
  BY <1>1, BeginBagKeeps, BeginBagNumbers
<1>3. it'.at = "particle" => it'.index = 0
  <2>1. it' = Ended \/ \E d : it' = Load(d)
    BY <1>1 DEF Get
  <2>2. Ended.at # "particle" /\ \A d : Load(d).index = 0
    BY DEF Ended, NoIter, Load
  <2> QED BY <2>1, <2>2
<1>4. BagsInv'
  <2>1. VisitedInv'
    BY <1>3 DEF VisitedInv
  <2>2. StepInv'
    BY <1>1 DEF StepInv
  <2> QED BY <1>2, <2>1, <2>2 DEF BagsInv
<1>5. CASE main = "step"
  <2>1. \A s \in Unread(live) : InSlot(heap', s) = InSlot(heap, s)
    BY <1>1
  <2> QED BY <1>1, <1>2, <1>4, <1>5, <2>1, BagsSame
<1>6. CASE main = "report"
  <2>1. \A j \in CellIds : ~Reading(j) /\ ~Reading(j)'
    BY <1>1, <1>6 DEF Reading
  <2> QED BY <1>1, <1>4, <2>1, BagsAtRest
<1> QED BY <1>1, <1>5, <1>6

LEMMA EndBagBags == ASSUME BagsInv, EndBag PROVE BagsInv' /\ CurBags' = CurBags /\ NxtBags' = NxtBags
<1>1. /\ ParticlesInv /\ DemoInv /\ IterInv /\ StepInv /\ it.at = "NULL" /\ main' = main /\ stepsDone' = stepsDone
      /\ nxt' = nxt /\ it' = NoIter
  BY DEF BagsInv, ParticlesInv, DemoInv, EndBag
<1>2. main \in {"step", "report"}
  BY <1>1 DEF IterInv, NoIter
<1>3. /\ ParticlesInv'
      /\ main = "step" => /\ ListsKept /\ Unread(live)' = Unread(live)
                          /\ \A s \in Unread(live) : InSlot(heap', s) = InSlot(heap, s)
  BY <1>1, EndBagKeeps, EndBagNumbers
<1>4. BagsInv'
  <2>1. VisitedInv'
    BY <1>1 DEF VisitedInv, NoIter
  <2>2. StepInv'
    BY <1>1 DEF StepInv
  <2> QED BY <1>3, <2>1, <2>2 DEF BagsInv
<1>5. CASE main = "step"
  BY <1>1, <1>3, <1>4, <1>5, BagsSame
<1>6. CASE main = "report"
  <2>1. heap' = heap /\ cur' = cur
    BY <1>6 DEF EndBag
  <2>2. \A j \in CellIds : ~Reading(j) /\ ~Reading(j)'
    BY <1>1, <1>6 DEF Reading
  <2> QED BY <1>1, <1>4, <2>1, <2>2, BagsAtRest
<1> QED BY <1>2, <1>5, <1>6

\* The steps of main() out of the loops on the cells.
LEMMA MainBags ==
  ASSUME BagsInv, StepLeapFrog \/ ReportNext \/ Deallocate
  PROVE  BagsInv' /\ CurBags' = CurBags /\ NxtBags' = NxtBags
<1>1. /\ ParticlesInv /\ IterInv /\ heap' = heap /\ cur' = cur /\ nxt' = nxt
      /\ main \in {"create", "report"} /\ (main' = "step" => it' = it /\ main = "create" /\ stepsDone' = stepsDone)
  BY DEF BagsInv, ParticlesInv, DemoInv, StepLeapFrog, ReportNext, Deallocate
<1>2. ParticlesInv'
  BY <1>1, StepLeapFrogNumbers, ReportNextNumbers, DeallocateNumbers
<1>3. main' = "step" => it' = NoIter
  BY <1>1 DEF IterInv
<1>4. \A j \in CellIds : ~Reading(j) /\ ~Reading(j)'
  BY <1>1, <1>3 DEF Reading
<1>5. StepInv'
  <2>1. main' = "step" => main = "create" /\ stepsDone' = stepsDone /\ 0 < NbSteps
    BY <1>1 DEF StepLeapFrog, NextStep, ReportNext, Deallocate
  <2>2. main' # "create"
    BY DEF StepLeapFrog, NextStep, ReportNext, Deallocate
  <2> QED BY <2>1, <2>2 DEF BagsInv, StepInv
<1>6. VisitedInv'
  BY <1>3 DEF VisitedInv, NoIter
<1> QED BY <1>1, <1>2, <1>4, <1>5, <1>6, BagsAtRest DEF BagsInv

LEMMA AddParticleBags ==
  ASSUME BagsInv, AddParticle
  PROVE  /\ BagsInv' /\ NxtBags' = NxtBags
         /\ \E j \in CellIds :
              /\ CurBags' = [CurBags EXCEPT ![j] = CurBags[j] \cup {created'}]
              /\ charge' = [charge EXCEPT ![j] = @ + 1]
<1>1. /\ ParticlesInv /\ DemoInv /\ IterInv /\ StepInv /\ main = "create" /\ main' = main /\ stepsDone' = stepsDone
  BY DEF BagsInv, ParticlesInv, DemoInv, AddParticle
<1>2. ParticlesInv' /\ ListsKept
  BY <1>1, AddParticleKeeps, AddParticleNumbers
<1>3. BagsInv'
  BY <1>1, <1>2 DEF BagsInv, VisitedInv, StepInv
<1>4. PICK j \in CellIds, s1 \in Unread(live)' :
        /\ charge' = [charge EXCEPT ![j] = @ + 1]
        /\ SlotWritten(<<"cur", j>>, s1, created') /\ Unread(live)' = Unread(live) \cup {s1}
        /\ \A s \in Unread(live) : InSlot(heap', s) = InSlot(heap, s)
  BY <1>1, AddParticleNumbers
<1> DEFINE b == <<"cur", j>>
<1>5. b \in BagIds /\ \A k \in CellIds : <<"cur", k>> \in BagIds /\ <<"nxt", k>> \in BagIds
  BY DEF BagIds
<1>6. s1[1] \in Part(b) /\ s1[1] \in live /\ InSlot(heap', s1) = created'
  <2>1. Part(b) \subseteq live
    BY <1>1, <1>5, PartsApart
  <2> QED BY <1>4, <2>1 DEF SlotWritten
<1>7. ASSUME NEW x \in BagIds PROVE Bag(x)' = IF x = b THEN Bag(x) \cup {created'} ELSE Bag(x)
  <2>1. \A s \in Unread(live)' : s[1] \in live
    BY <1>4, <1>6 DEF Unread
  <2>2. SlotsIn(x)' = {s \in Unread(live)' : s[1] \in Part(x)}
    BY <1>2, <2>1, SlotsKept
  <2>3. s1[1] \in Part(x) <=> x = b
    BY <1>1, <1>5, <1>6, PartsApart
  <2> HIDE DEF b
  <2>4. SlotsIn(x)' = IF x = b THEN SlotsIn(x) \cup {s1} ELSE SlotsIn(x)
    BY <1>4, <2>2, <2>3 DEF SlotsIn
  <2>5. Bag(x)' = {InSlot(heap', s) : s \in SlotsIn(x)'}
    BY DEF Bag
  <2>6. \A s \in SlotsIn(x) : InSlot(heap', s) = InSlot(heap, s)
    BY <1>4 DEF SlotsIn
  <2> QED BY <1>6, <2>4, <2>5, <2>6 DEF Bag
<1>8. \A k \in CellIds : NxtBags'[k] = NxtBags[k] /\ CurBags'[k] = IF k = j THEN CurBags[k] \cup {created'} ELSE CurBags[k]
  <2> SUFFICES ASSUME NEW k \in CellIds
               PROVE  NxtBags'[k] = NxtBags[k] /\ CurBags'[k] = IF k = j THEN CurBags[k] \cup {created'} ELSE CurBags[k]
    OBVIOUS
  <2>1. /\ CurBags[k] = Bag(<<"cur", k>>) /\ NxtBags[k] = Bag(<<"nxt", k>>)
        /\ CurBags'[k] = Bag(<<"cur", k>>)' /\ NxtBags'[k] = Bag(<<"nxt", k>>)'
    BY <1>1, <1>3, BagsOfSlots, BagsOfSlotsAfter
  <2>2. (<<"cur", k>> = b <=> k = j) /\ <<"nxt", k>> # b
    OBVIOUS
  <2> HIDE DEF b
  <2> QED BY <1>5, <1>7, <2>1, <2>2
<1>9. CurBags' = [CurBags EXCEPT ![j] = CurBags[j] \cup {created'}] /\ NxtBags' = NxtBags
  BY <1>8 DEF CurBags, NxtBags
<1> QED BY <1>3, <1>4, <1>9

LEMMA MoveNextBags ==
  ASSUME BagsInv, MoveNext
  PROVE  /\ BagsInv' /\ idCell \in CellIds /\ Current \in CurBags[idCell]
         /\ \E j \in CellIds :
              /\ \E d \in Moves[Current] : j = Geometry!Shift(idCell, d)
              /\ CurBags' = [CurBags EXCEPT ![idCell] = CurBags[idCell] \ {Current}]
              /\ NxtBags' = [NxtBags EXCEPT ![j] = NxtBags[j] \cup {Current}]
              /\ charge' = [charge EXCEPT ![j] = @ + 1]
<1>1. /\ ParticlesInv /\ DemoInv /\ TypesInv /\ IterInv /\ StepInv /\ VisitedInv
      /\ main = "step" /\ main' = main /\ stepsDone' = stepsDone /\ idCell' = idCell
      /\ it.at = "particle" /\ it' = Advanced
  BY DEF BagsInv, ParticlesInv, DemoInv, MoveNext
<1>2. ParticlesInv' /\ ListsKept
  BY <1>1, MoveNextKeeps, MoveNextNumbers
<1> DEFINE p == Current
           s0 == <<it.chunk, it.index>>
           b == <<"cur", idCell>>
<1>3. PICK j \in CellIds, s1 \in Unread(live)' :
        /\ \E d \in Moves[p] : j = Geometry!Shift(idCell, d)
        /\ charge' = [charge EXCEPT ![j] = @ + 1]
        /\ SlotWritten(<<"nxt", j>>, s1, p)
        /\ Unread(live)' = (Unread(live) \ {s0}) \cup {s1}
        /\ s0 \in Unread(live) /\ it.chunk \in Part(b)
        /\ \A s \in Unread(live) : s # s0 => InSlot(heap', s) = InSlot(heap, s)
        /\ heap'[it.chunk] = heap[it.chunk]
  BY <1>1, MoveNextNumbers
<1> DEFINE b2 == <<"nxt", j>>
<1>4. idCell \in CellIds
  <2>1. idCell < nbCells
    BY <1>1 DEF IterInv, NoIter
  <2> QED BY <1>1, <2>1, MeshSizes DEF TypesInv, CellIds
<1>5. b \in BagIds /\ b2 \in BagIds /\ b # b2 /\ \A k \in CellIds : <<"cur", k>> \in BagIds /\ <<"nxt", k>> \in BagIds
  BY <1>4 DEF BagIds
<1>6. /\ s1[1] \in Part(b2) /\ s1[1] \in live /\ InSlot(heap', s1) = p /\ s1 \notin Unread(live)
      /\ s0[1] \in Part(b) /\ InSlot(heap, s0) = p
  <2>1. Part(b2) \subseteq live
    BY <1>1, <1>5, PartsApart
  <2> QED BY <1>3, <2>1 DEF SlotWritten, InSlot, Current
<1>7. \A s \in Unread(live) : s # s0 => InSlot(heap, s) # p
  <2>1. Numbered(Unread(live), heap, 1 .. created)
    BY <1>1 DEF ParticlesInv, ItemsInv
  <2> HIDE DEF p, s0
  <2> QED BY <1>3, <1>6, <2>1 DEF Numbered
<1> HIDE DEF p
<1>8. ASSUME NEW x \in BagIds
      PROVE  /\ SlotsIn(x)' = {s \in SlotsIn(x) : s # s0} \cup (IF x = b2 THEN {s1} ELSE {})
             /\ s0 \in SlotsIn(x) <=> x = b
  <2>1. \A s \in Unread(live)' : s[1] \in live
    BY <1>3, <1>6 DEF Unread
  <2>2. SlotsIn(x)' = {s \in Unread(live)' : s[1] \in Part(x)}
    BY <1>2, <2>1, SlotsKept
  <2>3. (s1[1] \in Part(x) <=> x = b2) /\ (s0[1] \in Part(x) <=> x = b)
    BY <1>1, <1>5, <1>6, PartsApart
  <2> HIDE DEF b, b2, s0
  <2> QED BY <1>3, <2>2, <2>3 DEF SlotsIn
<1>9. ASSUME NEW x \in BagIds
      PROVE  Bag(x)' = IF x = b THEN Bag(x) \ {p} ELSE IF x = b2 THEN Bag(x) \cup {p} ELSE Bag(x)
  <2> HIDE DEF b, b2, s0
  <2>1. Bag(x)' = {InSlot(heap', s) : s \in SlotsIn(x)'}
    BY DEF Bag
  <2>2. \A s \in SlotsIn(x) : s # s0 => InSlot(heap', s) = InSlot(heap, s) /\ InSlot(heap, s) # p
    BY <1>3, <1>7 DEF SlotsIn
  <2>3. CASE x = b
    <3>1. SlotsIn(x)' = SlotsIn(x) \ {s0} /\ s0 \in SlotsIn(x)
      BY <1>5, <1>8, <2>3
    <3> QED BY <1>6, <2>1, <2>2, <2>3, <3>1 DEF Bag
  <2>4. CASE x = b2
    <3>1. SlotsIn(x)' = SlotsIn(x) \cup {s1} /\ s0 \notin SlotsIn(x)
      BY <1>5, <1>8, <2>4
    <3> QED BY <1>5, <1>6, <2>1, <2>2, <2>4, <3>1 DEF Bag
  <2>5. CASE x # b /\ x # b2
    <3>1. SlotsIn(x)' = SlotsIn(x) /\ s0 \notin SlotsIn(x)
      BY <1>8, <2>5
    <3> QED BY <2>1, <2>2, <2>5, <3>1 DEF Bag
  <2> QED BY <2>3, <2>4, <2>5
<1>10. VisitedInv'
  <2> SUFFICES ASSUME it'.at = "particle", NEW i \in 0 .. it'.index - 1, NEW s \in SlotsIn(b)'
               PROVE  heap'[it'.chunk].items[i] # InSlot(heap', s)
    BY <1>1 DEF VisitedInv
  <2>1. CASE InChunk
    <3>1. it' = [it EXCEPT !.index = it.index + 1]
      BY <1>1, <2>1 DEF Advanced
    <3>2. it'.chunk = it.chunk /\ it'.index = it.index + 1 /\ it.index \in Int
      BY <1>1, <3>1 DEF IterInv
    <3>3. i \in 0 .. it.index - 1 \/ i = it.index
      BY <3>2
    <3>4. s \in SlotsIn(b) /\ s # s0 /\ s \in Unread(live)
      <4>1. PICK x \in BagIds : x = b
        BY <1>5
      <4>2. s \in SlotsIn(x)'
        BY <1>1, <4>1 DEF SlotsIn, Part
      <4>3. s \in SlotsIn(x) /\ s # s0
        BY <1>5, <1>8, <4>1, <4>2
      <4> QED BY <4>1, <4>3 DEF SlotsIn
    <3>5. InSlot(heap', s) = InSlot(heap, s) /\ InSlot(heap, s) # p
      BY <1>3, <1>7, <3>4
    <3>6. heap[it.chunk].items[it.index] = p
      BY DEF p, Current
    <3>7. i \in 0 .. it.index - 1 => heap[it.chunk].items[i] # InSlot(heap, s)
      BY <1>1, <3>4 DEF VisitedInv
    <3> QED BY <1>3, <3>2, <3>3, <3>5, <3>6, <3>7
  <2>2. CASE ~InChunk
    <3>1. it' = Ended \/ \E d : it' = Load(d)
      BY <1>1, <2>2 DEF Advanced, Get
    <3>2. Ended.at # "particle" /\ \A d : Load(d).index = 0
      BY DEF Ended, NoIter, Load
    <3> QED BY <3>1, <3>2
  <2> QED BY <2>1, <2>2
<1>11. BagsInv'
  BY <1>1, <1>2, <1>10 DEF BagsInv, StepInv
<1>12. ASSUME NEW k \in CellIds
       PROVE  /\ CurBags'[k] = IF k = idCell THEN CurBags[k] \ {p} ELSE CurBags[k]
              /\ NxtBags'[k] = IF k = j THEN NxtBags[k] \cup {p} ELSE NxtBags[k]
  <2>1. /\ CurBags[k] = Bag(<<"cur", k>>) /\ NxtBags[k] = Bag(<<"nxt", k>>)
        /\ CurBags'[k] = Bag(<<"cur", k>>)' /\ NxtBags'[k] = Bag(<<"nxt", k>>)'
    BY <1>1, <1>11, BagsOfSlots, BagsOfSlotsAfter
  <2>2. /\ <<"cur", k>> = b <=> k = idCell
        /\ <<"nxt", k>> = b2 <=> k = j
        /\ <<"nxt", k>> # b /\ <<"cur", k>> # b2
    OBVIOUS
  <2> HIDE DEF b, b2
  <2> QED BY <1>5, <1>9, <2>1, <2>2
<1>13. /\ CurBags' = [CurBags EXCEPT ![idCell] = CurBags[idCell] \ {p}]
       /\ NxtBags' = [NxtBags EXCEPT ![j] = NxtBags[j] \cup {p}]
  BY <1>12 DEF CurBags, NxtBags
<1>14. p \in CurBags[idCell]
  <2>1. s0 \in SlotsIn(b)
    BY <1>5, <1>8
  <2>2. p \in Bag(b)
    BY <1>6, <2>1 DEF Bag
  <2> QED BY <1>1, <1>4, <2>2, BagsOfSlots
<1> QED BY <1>3, <1>4, <1>11, <1>13, <1>14 DEF p

\* At the end of a step the bags to read have become empty.
LEMMA SwapBagsBags ==
  ASSUME BagsInv, SwapBags
  PROVE  BagsInv' /\ CurBags' = NxtBags /\ NxtBags' = CurBags /\ CurBags = [j \in CellIds |-> {}]
<1>1. /\ ParticlesInv /\ DemoInv /\ TypesInv /\ IterInv /\ EmptyInv /\ ListsInv /\ main = "step" /\ idCell = nbCells
      /\ cur' = nxt /\ nxt' = cur /\ heap' = heap /\ it' = it
  BY DEF BagsInv, ParticlesInv, DemoInv, SwapBags
<1>2. it = NoIter /\ it' = NoIter
  BY <1>1, MeshSizes DEF IterInv
<1>3. \A j \in CellIds : ~Reading(j) /\ ~Reading(j)'
  BY <1>2 DEF Reading
<1>4. BagsInv'
  <2>1. ParticlesInv'
    BY <1>1, SwapBagsNumbers
  <2>2. VisitedInv'
    BY <1>2 DEF VisitedInv, NoIter
  <2>3. StepInv'
    BY DEF StepInv, SwapBags, NextStep
  <2> QED BY <2>1, <2>2, <2>3 DEF BagsInv
<1>5. ASSUME NEW j \in CellIds
      PROVE  /\ CurBags[j] = Holds(ChunksFrom(cur[j].front)) /\ NxtBags[j] = Holds(ChunksFrom(nxt[j].front))
             /\ CurBags'[j] = Holds(ChunksFrom(nxt[j].front)) /\ NxtBags'[j] = Holds(ChunksFrom(cur[j].front))
  <2>1. Visited(j) = {} /\ Visited(j)' = {}
    BY <1>3 DEF Visited
  <2>2. ChunksOf(j) = ChunksFrom(cur[j].front) /\ ChunksOf(j)' = ChunksFrom(cur[j].front)'
    BY <1>3 DEF ChunksOf
  <2>3. ChunksOf(j)' = ChunksFrom(nxt[j].front) /\ ChunksFrom(nxt[j].front)' = ChunksFrom(cur[j].front)
    BY <1>1, <2>2 DEF ChunksFrom, Chain
  <2>4. /\ Holds(ChunksOf(j))' = Holds(ChunksFrom(nxt[j].front))
        /\ Holds(ChunksFrom(nxt[j].front))' = Holds(ChunksFrom(cur[j].front))
    BY <1>1, <2>3 DEF Holds, Slots, Stored
  <2> QED BY <2>1, <2>2, <2>4 DEF CurBags, NxtBags
<1>6. CurBags' = NxtBags /\ NxtBags' = CurBags
  BY <1>5 DEF CurBags, NxtBags
<1>7. ASSUME NEW j \in CellIds PROVE CurBags[j] = {}
  <2> DEFINE c == cur[j].front
  <2>1. PICK owner, pos : Chained(owner, pos, Nexts, live, Firsts)
    BY <1>1 DEF ListsInv
  <2>2. /\ <<"cur", j>> \in BagIds
        /\ Firsts[<<"cur", j>>] = c /\ c # NULL
    <3>1. c \in Addresses
      BY <1>1 DEF TypesInv
    <3> QED BY <1>3, <3>1 DEF BagIds, Firsts, FirstOf, Addresses, NULL
  <2>3. c \in live /\ owner[c] = <<"cur", j>>
    BY <2>1, <2>2 DEF Chained
  <2>4. Stored(c) = 0 /\ heap[c].next = NULL
    BY <1>1, MeshSizes DEF EmptyInv, IsEmpty, CellIds
  <2> HIDE DEF c
  <2>5. /\ pos \in [Addresses -> Nat] /\ live \subseteq Addresses /\ c \in Addresses
        /\ \A d, e \in live : owner[d] = owner[e] /\ pos[d] = pos[e] => d = e
        /\ pos[c] # 0 => Nexts[c] \in live
    BY <2>1, <2>3 DEF Chained
  <2>6. pos[c] = 0
    BY <2>4, <2>5 DEF Nexts, Addresses, NULL
  <2>7. ChunksFrom(c) = {e \in live : owner[e] = owner[c] /\ pos[e] <= pos[c]}
    BY <2>1, <2>3, ChunksOfList
  <2>8. ChunksFrom(c) \subseteq {c}
    BY <2>3, <2>5, <2>6, <2>7
  <2>9. Slots(ChunksFrom(c)) = {}
    BY <2>4, <2>8, ChunkSizes DEF Slots
  <2> QED BY <1>5, <2>9 DEF Holds, c
<1> QED BY <1>4, <1>6, <1>7 DEF CurBags

LEMMA InitBags == DemoBagsInit => BagsInv /\ NaiveDemo!Init
<1> SUFFICES ASSUME DemoBagsInit PROVE BagsInv /\ NaiveDemo!Init
  OBVIOUS
<1>1. main = "create" /\ created = 0 /\ stepsDone = 0 /\ it = NoIter /\ charge = NoDeposit /\ electric = NoDeposit
  BY DEF DemoBagsInit
<1>2. BagsInv
  BY <1>1, InitNumbers DEF BagsInv, VisitedInv, StepInv
<1>3. \A a \in Addresses : Stored(a) = 0
  BY DEF DemoBagsInit, Addresses, Stored
<1>4. \A b : Bag(b) = {}
  BY <1>3, ChunkSizes DEF Bag, SlotsIn, Unread, SlotIds
<1>5. \A j \in CellIds : CurBags[j] = {} /\ NxtBags[j] = {}
  BY <1>1, <1>2, <1>4, BagsOfSlots
<1>6. CurBags = [j \in CellIds |-> {}] /\ NxtBags = [j \in CellIds |-> {}]
  BY <1>5 DEF CurBags, NxtBags
<1>7. NaiveDemo!Cells = CellIds
  BY DEF NaiveDemo!Cells, NaiveDemo!NumCells, CellIds, nbCells
<1>8. NbSteps \in Nat
  BY DemoBagsAssumption
<1>9. NaiveDemo!Init
  BY <1>1, <1>6, <1>7, <1>8 DEF NaiveDemo!Init, NaiveDemo!EmptyBags, NaiveDemo!NoCharge, NoDeposit, CurBags, NxtBags
<1> QED BY <1>2, <1>9

\* What PicDemo sees of a step.
LEMMA StepsImplement ==
  BagsInv /\ [DemoBagsNext]_demoBagsVars => BagsInv' /\ [NaiveDemo!Next]_NaiveDemo!demoVars
<1> SUFFICES ASSUME BagsInv, [DemoBagsNext]_demoBagsVars PROVE BagsInv' /\ [NaiveDemo!Next]_NaiveDemo!demoVars
  OBVIOUS
<1>1. NaiveDemo!Cells = CellIds /\ NaiveDemo!NoCharge = NoDeposit /\ NaiveDemo!EmptyBags = [j \in CellIds |-> {}]
  BY DEF NaiveDemo!Cells, NaiveDemo!NumCells, CellIds, nbCells, NaiveDemo!NoCharge, NaiveDemo!EmptyBags, NoDeposit
<1>2. \A j, d : NaiveDemo!Shift(j, d) = Geometry!Shift(j, d)
  BY DEF NaiveDemo!Shift, NaiveDemo!CellOf, NaiveDemo!CellX, NaiveDemo!CellY, NaiveDemo!CellZ,
         Geometry!Shift, Geometry!CellOf, Geometry!CellX, Geometry!CellY, Geometry!CellZ
<1>3. main = "step" => stepsDone < NbSteps
  BY DEF BagsInv, StepInv
<1>4. CASE AddParticle
  <2>1. BagsInv' /\ NxtBags' = NxtBags
    BY <1>4, AddParticleBags
  <2>2. PICK j \in CellIds : /\ CurBags' = [CurBags EXCEPT ![j] = CurBags[j] \cup {created'}]
                             /\ charge' = [charge EXCEPT ![j] = @ + 1]
    BY <1>4, AddParticleBags
  <2>3. /\ created < NbParticles /\ created' = created + 1 /\ main' = main
        /\ stepsDone' = stepsDone /\ electric' = electric
    BY <1>4 DEF AddParticle
  <2>4. NaiveDemo!addParticle
    BY <1>1, <2>1, <2>2, <2>3 DEF NaiveDemo!addParticle, CurBags, NxtBags
  <2> QED BY <2>1, <2>4 DEF NaiveDemo!Next
<1>5. CASE StepLeapFrog
  <2>1. BagsInv' /\ CurBags' = CurBags /\ NxtBags' = NxtBags
    BY <1>5, MainBags
  <2>2. /\ main = "create" /\ created = NbParticles /\ main' # "create" /\ created' = created
        /\ stepsDone' = stepsDone /\ electric' = charge /\ charge' = NoDeposit
    BY <1>5 DEF StepLeapFrog, UpdateField, NextStep
  <2>3. NaiveDemo!stepLeapFrog
    BY <1>1, <2>1, <2>2 DEF NaiveDemo!stepLeapFrog, NaiveDemo!updateFieldUsingDeposit, CurBags, NxtBags
  <2> QED BY <2>1, <2>3 DEF NaiveDemo!Next
<1>6. CASE MoveNext
  <2> DEFINE p == Current
  <2>1. BagsInv' /\ idCell \in CellIds /\ p \in CurBags[idCell]
    BY <1>6, MoveNextBags
  <2>2. PICK j \in CellIds : /\ \E d \in Moves[p] : j = Geometry!Shift(idCell, d)
                             /\ CurBags' = [CurBags EXCEPT ![idCell] = CurBags[idCell] \ {p}]
                             /\ NxtBags' = [NxtBags EXCEPT ![j] = NxtBags[j] \cup {p}]
                             /\ charge' = [charge EXCEPT ![j] = @ + 1]
    BY <1>6, MoveNextBags
  <2>3. /\ main = "step" /\ main' = main /\ created' = created
        /\ stepsDone' = stepsDone /\ electric' = electric
    BY <1>6 DEF MoveNext
  <2> HIDE DEF p
  <2>4. PICK d \in Moves[p] : j = NaiveDemo!Shift(idCell, d)
    BY <1>2, <2>2
  <2>5. \E c \in NaiveDemo!Cells : \E q \in CurBags[c] : \E m \in Moves[q] :
          LET c2 == NaiveDemo!Shift(c, m) IN
          /\ charge' = [charge EXCEPT ![c2] = @ + 1]
          /\ CurBags' = [CurBags EXCEPT ![c] = CurBags[c] \ {q}]
          /\ NxtBags' = [NxtBags EXCEPT ![c2] = NxtBags[c2] \cup {q}]
    BY <1>1, <2>1, <2>2, <2>4
  <2>6. NaiveDemo!MoveParticle
    BY <1>3, <2>3, <2>5 DEF NaiveDemo!MoveParticle, CurBags, NxtBags
  <2> QED BY <2>1, <2>6 DEF NaiveDemo!Next
<1>7. CASE SwapBags
  <2>1. BagsInv' /\ CurBags' = NxtBags /\ NxtBags' = CurBags /\ CurBags = [j \in CellIds |-> {}]
    BY <1>7, SwapBagsBags
  <2>2. /\ main = "step" /\ main' # "create" /\ created' = created
        /\ stepsDone' = stepsDone + 1 /\ electric' = charge /\ charge' = NoDeposit
    BY <1>7 DEF SwapBags, UpdateField, NextStep
  <2>3. NaiveDemo!EndStep
    BY <1>1, <1>3, <2>1, <2>2 DEF NaiveDemo!EndStep, NaiveDemo!updateFieldUsingDeposit, CurBags, NxtBags
  <2> QED BY <2>1, <2>3 DEF NaiveDemo!Next
<1>8. CASE BeginBag \/ EndBag \/ ReportNext \/ Deallocate
  <2>1. BagsInv' /\ CurBags' = CurBags /\ NxtBags' = NxtBags
    BY <1>8, BeginBagBags, EndBagBags, MainBags
  <2>2. /\ (main' # "create") = (main # "create") /\ created' = created
        /\ stepsDone' = stepsDone /\ charge' = charge /\ electric' = electric
    <3>1. BeginBag => main \in {"step", "report"} /\ main' = main
      BY DEF BeginBag
    <3>2. EndBag => main' = main
      BY DEF EndBag
    <3>3. ReportNext => main' = main
      BY DEF ReportNext
    <3>4. Deallocate => main = "report" /\ main' = "returned"
      BY DEF Deallocate
    <3> QED BY <1>8, <3>1, <3>2, <3>3, <3>4 DEF BeginBag, EndBag, ReportNext, Deallocate
  <2> QED BY <2>1, <2>2 DEF NaiveDemo!demoVars, CurBags, NxtBags
<1>9. CASE UNCHANGED demoBagsVars
  <2>1. /\ main' = main /\ created' = created /\ stepsDone' = stepsDone /\ idCell' = idCell /\ it' = it /\ heap' = heap
        /\ live' = live /\ cur' = cur /\ nxt' = nxt /\ charge' = charge /\ electric' = electric
    BY <1>9 DEF demoBagsVars
  <2>2. ParticlesInv'
    BY <1>9, NextNumbers DEF BagsInv
  <2>3. CurBags' = CurBags /\ NxtBags' = NxtBags
    BY <2>1 DEF CurBags, NxtBags, Holds, Slots, Stored, Visited, Reading, ChunksOf, ChunksFrom, Chain
  <2>4. SlotsIn(<<"cur", idCell>>)' = SlotsIn(<<"cur", idCell>>)
    BY <2>1 DEF SlotsIn, Unread, Stored, Part, Firsts, FirstOf, Reading, ChunksFrom, Chain
  <2>5. VisitedInv' /\ StepInv'
    BY <2>1, <2>4 DEF BagsInv, VisitedInv, StepInv, InSlot
  <2> QED BY <2>1, <2>2, <2>3, <2>5 DEF BagsInv, NaiveDemo!demoVars, CurBags, NxtBags
<1> QED BY <1>4, <1>5, <1>6, <1>7, <1>8, <1>9 DEF DemoBagsNext

\* Whatever the mesh, the size of the chunks and the moves: the chunks that are freed while
\* their bag is read, and reused for another bag, behave as bags of particles that are
\* emptied one by one (src/bag.c, step() of simulations/pic_demo.c).
THEOREM ChunksAlwaysImplementBags == DemoBagsSpec => ChunksImplementBags
<1>1. DemoBagsInit => BagsInv /\ NaiveDemo!Init
  BY InitBags
<1>2. BagsInv /\ [DemoBagsNext]_demoBagsVars => BagsInv' /\ [NaiveDemo!Next]_NaiveDemo!demoVars
  BY StepsImplement
<1> QED BY <1>1, <1>2, PTL DEF DemoBagsSpec, ChunksImplementBags, NaiveDemo!Spec

=============================================================================
