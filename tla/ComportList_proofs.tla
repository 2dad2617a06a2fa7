------------------------- MODULE ComportList_proofs -------------------------
(***************************************************************************)
(* Proofs about ComportList for any devices, addresses and descriptors.    *)
(* The walk from the head comes to two ports at most, First and Second:    *)
(* comport_list_add_to_tail puts a port behind the first one, where it     *)
(* takes the place of the second.  A port that was pushed out points       *)
(* forward to the head and backward to some block, which may have been     *)
(* freed and handed out again.                                             *)
(***************************************************************************)
EXTENDS ComportList, FiniteSetTheorems, WellFoundedInduction, TLAPS

First == next[ListHead]
Second == next[First]

LinksType == /\ next \in [Nodes -> Nodes \cup {Nil}]
             /\ prev \in [Nodes -> Nodes \cup {Nil}]

PortType(p) == /\ p.name \in Names
               /\ p.fd \in Descriptors
               /\ p.cfg \in AllConfigs

(* The shape of the list, and of what is left of it after a shutdown.      *)
Listable ==
  /\ First \in Ports \cup {ListHead}
  /\ \A p \in Ports : /\ next[p] \in (Ports \ {p}) \cup {ListHead}
                      /\ p # First => next[p] = ListHead
                      /\ prev[p] \in Nodes \ {p}
                      /\ prev[p] = ListHead <=> p = First
  /\ Second # ListHead => prev[Second] = First

LeftOver == \A p \in Ports : next[p] = ListHead /\ prev[p] \in Blocks \ {p}

ShapeInv == ~stray => IF inited THEN Listable ELSE LeftOver

(* While no port was pushed out, the two are all there are.                *)
CompleteInv ==
  ~crowded =>
    /\ ~stray
    /\ held = Ports
    /\ ~inited => Ports = {}
    /\ inited => /\ Ports \subseteq {First, Second}
                 /\ prev[ListHead] = IF Second = ListHead THEN First ELSE Second

HeldInv == held \subseteq Ports

-----------------------------------------------------------------------------
(* The walk.                                                               *)

NatLess == {pair \in Nat \X Nat : pair[1] < pair[2]}

LEMMA NatLessWellFounded == IsWellFoundedOn(NatLess, Nat)
  BY NatLessThanWellFounded, Zenon DEF OpToRel, NatLess

LEMMA LeastNumber ==
  ASSUME NEW T, T \subseteq Nat, T # {}
  PROVE  \E m \in T : \A k \in T : m <= k
<1>1. PICK m \in T : \A k \in T : <<k, m>> \notin NatLess
  BY NatLessWellFounded, WFMin
<1>2. \A k \in T : ~(k < m)
  BY <1>1 DEF NatLess
<1>3. \A k \in T : m <= k
  BY <1>2
<1> QED
  BY <1>3

(* What does not change from m on is what it is at m. *)
LEMMA Settles ==
  ASSUME NEW f, NEW m \in Nat,
         \A k \in Nat : k > m => f[k] = f[k - 1]
  PROVE  \A k \in Nat : k >= m => f[k] = f[m]
<1> DEFINE Off == {k \in Nat : k >= m /\ f[k] # f[m]}
<1>1. SUFFICES ASSUME Off # {} PROVE FALSE
  OBVIOUS
<1>2. PICK i \in Off : \A k \in Off : i <= k
  <2>1. Off \subseteq Nat
    OBVIOUS
  <2> HIDE DEF Off
  <2> QED
    BY <1>1, <2>1, LeastNumber
<1>3. i \in Nat /\ i >= m /\ f[i] # f[m]
  OBVIOUS
<1>4. i > m
  <2>1. i # m
    BY <1>3
  <2> QED
    BY <1>3, <2>1
<1>5. i - 1 \in Nat /\ i - 1 >= m /\ ~(i <= i - 1)
  BY <1>3, <1>4
<1>6. f[i - 1] = f[m]
  BY <1>2, <1>5
<1> QED
  BY <1>3, <1>4, <1>6

(* The equation of Walk. *)
Walks(at, n) ==
  at = [k \in Nat |-> IF k = 0 THEN n[ListHead]
                      ELSE IF at[k - 1] \in {ListHead, Nil} THEN at[k - 1]
                      ELSE n[at[k - 1]]]

(* A list of two nodes at most: the walk is over at its third step.        *)
LEMMA ShortWalk ==
  ASSUME NEW n, n[ListHead] # Nil, n[n[ListHead]] # Nil,
         ListHead \in {n[ListHead], n[n[ListHead]], n[n[n[ListHead]]]}
  PROVE  /\ Walk(n)[0] = n[ListHead]
         /\ Walk(n)[1] = n[n[ListHead]]
         /\ \A k \in Nat : k >= 2 => Walk(n)[k] = ListHead
<1> DEFINE a == n[ListHead]
           b == n[a]
           g == [k \in Nat |-> IF k = 0 THEN a ELSE IF k = 1 THEN b ELSE ListHead]
<1>0. a # Nil /\ b # Nil /\ (a = ListHead => b = ListHead)
      /\ (a = ListHead \/ b = ListHead \/ n[b] = ListHead)
  OBVIOUS
<1>1. Walks(g, n)
  <2>1. \A k \in Nat : g[k] = IF k = 0 THEN n[ListHead]
                              ELSE IF g[k - 1] \in {ListHead, Nil} THEN g[k - 1]
                              ELSE n[g[k - 1]]
    <3> TAKE k \in Nat
    <3>1. CASE k = 0
      BY <3>1
    <3>2. CASE k = 1
      <4>1. g[k - 1] = a /\ g[k] = b
        BY <3>2
      <4> HIDE DEF g
      <4> QED
        BY <1>0, <3>2, <4>1
    <3>3. CASE k = 2
      <4>1. g[k - 1] = b /\ g[k] = ListHead
        BY <3>3
      <4> HIDE DEF g
      <4> QED
        BY <1>0, <3>3, <4>1
    <3>4. CASE k > 2
      <4>1. k - 1 \in Nat /\ k - 1 # 0 /\ k - 1 # 1 /\ k # 0 /\ k # 1
        BY <3>4
      <4>2. g[k - 1] = ListHead /\ g[k] = ListHead
        BY <4>1
      <4> HIDE DEF g
      <4> QED
        BY <4>1, <4>2
    <3> QED
      BY <3>1, <3>2, <3>3, <3>4
  <2>2. g = [k \in Nat |-> g[k]]
    OBVIOUS
  <2> HIDE DEF g
  <2> QED
    BY <2>1, <2>2 DEF Walks
<1> HIDE DEF g
<1>2. Walk(n) = CHOOSE at : Walks(at, n)
  BY DEF Walk, Walks
<1>3. Walks(Walk(n), n)
  BY <1>1, <1>2
<1> DEFINE w == Walk(n)
<1>4. \A k \in Nat : w[k] = IF k = 0 THEN n[ListHead]
                            ELSE IF w[k - 1] \in {ListHead, Nil} THEN w[k - 1]
                            ELSE n[w[k - 1]]
  BY <1>3 DEF Walks
<1> HIDE DEF w
<1>5. w[0] = a
  BY <1>4
<1>6. w[1] = b
  <2>1. w[1] = IF w[0] \in {ListHead, Nil} THEN w[0] ELSE n[w[0]]
    BY <1>4
  <2> QED
    BY <1>0, <1>5, <2>1
<1>7. w[2] = ListHead
  <2>1. w[2] = IF w[1] \in {ListHead, Nil} THEN w[1] ELSE n[w[1]]
    BY <1>4
  <2> QED
    BY <1>0, <1>6, <2>1
<1>8. \A k \in Nat : k >= 2 => w[k] = ListHead
  <2> DEFINE Off == {k \in Nat : k >= 2 /\ w[k] # ListHead}
  <2>1. SUFFICES ASSUME Off # {} PROVE FALSE
    OBVIOUS
  <2>2. PICK i \in Off : \A k \in Off : i <= k
    <3>1. Off \subseteq Nat
      OBVIOUS
    <3> HIDE DEF Off
    <3> QED
      BY <2>1, <3>1, LeastNumber
  <2>3. i \in Nat /\ i >= 2 /\ w[i] # ListHead
    OBVIOUS
  <2>4. i # 2
    BY <1>7, <2>3
  <2>5. i - 1 \in Nat /\ i - 1 >= 2 /\ ~(i <= i - 1) /\ i # 0
    BY <2>3, <2>4
  <2>6. w[i - 1] = ListHead
    BY <2>2, <2>5
  <2>7. w[i] = ListHead
    BY <1>4, <2>3, <2>5, <2>6
  <2> QED
    BY <2>3, <2>7
<1> QED
  BY <1>5, <1>6, <1>8 DEF w
-----------------------------------------------------------------------------
(* The list operations.                                                    *)

Pair(n, p) == [next |-> n, prev |-> p]
LinkMap == [Nodes -> Nodes \cup {Nil}]

LEMMA Names_Nodes == ListHead \in Nodes /\ Nil \notin Nodes /\ ListHead # Nil /\ Blocks \subseteq Nodes
                     /\ ListHead \notin Blocks
  BY ComportAssumption DEF Nodes

LEMMA DelEffect ==
  ASSUME NEW n \in LinkMap, NEW p \in LinkMap, NEW b \in Blocks,
         n[b] \in Nodes \ {b}, p[b] \in Nodes \ {b}
  PROVE  LET l == comport_list_del(Pair(n, p), b)
         IN /\ l = Pair(l.next, l.prev) /\ l.next \in LinkMap /\ l.prev \in LinkMap
            /\ \A x \in Nodes : l.next[x] = IF x = b THEN Nil
                                            ELSE IF x = p[b] THEN n[b] ELSE n[x]
            /\ \A x \in Nodes : l.prev[x] = IF x = b THEN Nil
                                            ELSE IF x = n[b] THEN p[b] ELSE p[x]
<1> DEFINE n2 == [[n EXCEPT ![p[b]] = n[b]] EXCEPT ![b] = Nil]
           p2 == [[p EXCEPT ![n[b]] = p[b]] EXCEPT ![b] = Nil]
<1>1. comport_list_del(Pair(n, p), b) = Pair(n2, p2)
  BY DEF comport_list_del, Pair
<1>2. n2 \in LinkMap /\ p2 \in LinkMap
  BY Names_Nodes DEF LinkMap
<1>3. \A x \in Nodes : n2[x] = IF x = b THEN Nil ELSE IF x = p[b] THEN n[b] ELSE n[x]
  BY DEF LinkMap
<1>4. \A x \in Nodes : p2[x] = IF x = b THEN Nil ELSE IF x = n[b] THEN p[b] ELSE p[x]
  BY DEF LinkMap
<1> HIDE DEF n2, p2
<1>5. Pair(n2, p2).next = n2 /\ Pair(n2, p2).prev = p2
  BY DEF Pair
<1> QED
  BY <1>1, <1>2, <1>3, <1>4, <1>5

LEMMA AddEffect ==
  ASSUME NEW n \in LinkMap, NEW p \in LinkMap, NEW b \in Blocks,
         n[ListHead] \in Nodes \ {b}
  PROVE  LET l == comport_list_add_to_tail(Pair(n, p), b)
         IN /\ l.next \in LinkMap /\ l.prev \in LinkMap
            /\ \A x \in Nodes : l.next[x] = IF x = n[ListHead] THEN b
                                            ELSE IF x = b THEN ListHead ELSE n[x]
            /\ \A x \in Nodes : l.prev[x] = IF x = ListHead THEN b
                                            ELSE IF x = b THEN n[ListHead] ELSE p[x]
<1> DEFINE n2 == [[n EXCEPT ![b] = ListHead] EXCEPT ![n[ListHead]] = b]
           p2 == [[p EXCEPT ![b] = n[ListHead]] EXCEPT ![ListHead] = b]
<1>1. comport_list_add_to_tail(Pair(n, p), b) = Pair(n2, p2)
  BY DEF comport_list_add_to_tail, comport_list_add, Pair
<1>2. n2 \in LinkMap /\ p2 \in LinkMap
  BY Names_Nodes DEF LinkMap
<1>3. \A x \in Nodes : n2[x] = IF x = n[ListHead] THEN b
                               ELSE IF x = b THEN ListHead ELSE n[x]
  BY DEF LinkMap
<1>4. \A x \in Nodes : p2[x] = IF x = ListHead THEN b
                               ELSE IF x = b THEN n[ListHead] ELSE p[x]
  BY DEF LinkMap
<1> HIDE DEF n2, p2
<1>5. Pair(n2, p2).next = n2 /\ Pair(n2, p2).prev = p2
  BY DEF Pair
<1> QED
  BY <1>1, <1>2, <1>3, <1>4, <1>5

LEMMA PortsAreBlocks == Ports \subseteq Blocks
  BY DEF Ports

(* What the walk over a list of the invariant's shape comes to. *)
LEMMA WalkOfShape ==
  ASSUME Listable
  PROVE  /\ Walk(next)[0] = First
         /\ Walk(next)[1] = Second
         /\ \A k \in Nat : k >= 2 => Walk(next)[k] = ListHead
         /\ Second \in Ports \cup {ListHead}
         /\ First = ListHead => Second = ListHead
         /\ Second # ListHead => First \in Ports /\ Second # First
<1>1. First \in Ports \cup {ListHead} /\ Second \in Ports \cup {ListHead}
      /\ (First \in Ports => Second # First)
      /\ (First = ListHead => Second = ListHead)
  BY DEF Listable, First, Second
<1>2. First # Nil /\ Second # Nil
  BY <1>1, Names_Nodes, PortsAreBlocks
<1>3. ListHead \in {First, Second, next[Second]}
  <2>1. CASE Second \in Ports /\ First \in Ports
    BY <1>1, <2>1 DEF Listable
  <2> QED
    BY <1>1, <2>1
<1>4. /\ Walk(next)[0] = First
      /\ Walk(next)[1] = Second
      /\ \A k \in Nat : k >= 2 => Walk(next)[k] = ListHead
  BY <1>2, <1>3, ShortWalk, Zenon DEF First, Second
<1> QED
  BY <1>1, <1>4, Names_Nodes, PortsAreBlocks

LEMMA BlocksCounted ==
  /\ Cardinality(Blocks) \in Nat
  /\ \A b \in Blocks : Cardinality(Blocks) >= 1
  /\ \A b, c \in Blocks : b # c => Cardinality(Blocks) >= 2
<1>1. IsFiniteSet(Blocks) /\ Cardinality(Blocks) \in Nat
  BY ComportAssumption, FS_CardinalityType, Zenon
<1>2. ASSUME NEW b \in Blocks
      PROVE  /\ IsFiniteSet(Blocks \ {b}) /\ Cardinality(Blocks \ {b}) \in Nat
             /\ Cardinality(Blocks) = Cardinality(Blocks \ {b}) + 1
  <2>1. IsFiniteSet(Blocks \ {b}) /\ Cardinality(Blocks \ {b}) = Cardinality(Blocks) - 1
    BY <1>1, FS_RemoveElement, Zenon
  <2>2. Cardinality(Blocks \ {b}) \in Nat
    BY <2>1, FS_CardinalityType, Zenon
  <2> QED
    BY <1>1, <2>1, <2>2
<1>3. ASSUME NEW b \in Blocks, NEW c \in Blocks, b # c
      PROVE  Cardinality(Blocks) >= 2
  <2>1. IsFiniteSet(Blocks \ {b}) /\ c \in Blocks \ {b}
    BY <1>2, <1>3
  <2>2. Cardinality(Blocks \ {b}) # 0
    BY <2>1, FS_EmptySet, Zenon
  <2> QED
    BY <1>2, <2>2
<1>4. ASSUME NEW b \in Blocks PROVE Cardinality(Blocks) >= 1
  <2>1. Cardinality(Blocks \ {b}) \in Nat /\ Cardinality(Blocks) = Cardinality(Blocks \ {b}) + 1
    BY <1>2
  <2> QED
    BY <2>1
<1> QED
  BY <1>1, <1>3, <1>4

(* The search sees these ports. *)
LEMMA ListedIs ==
  ASSUME Listable
  PROVE  /\ Listed = {First, Second} \ {ListHead}
         /\ Listed \subseteq Ports
         /\ Walk(next)[Cardinality(Blocks)] = ListHead
<1> DEFINE c == Cardinality(Blocks)
           w == Walk(next)
<1>1. /\ w[0] = First /\ w[1] = Second
      /\ \A k \in Nat : k >= 2 => w[k] = ListHead
      /\ First = ListHead => Second = ListHead
      /\ First \in Blocks \cup {ListHead} /\ Second \in Blocks \cup {ListHead}
      /\ Second # ListHead => First \in Blocks /\ Second # First
  BY WalkOfShape, PortsAreBlocks DEF Listable
<1>2. c \in Nat /\ Steps = 0..c
  BY BlocksCounted DEF Steps
<1>3. c = 0 => First = ListHead
  BY <1>1, BlocksCounted
<1>4. c <= 1 => Second = ListHead
  <2>1. Second # ListHead => c >= 2
    BY <1>1, BlocksCounted
  <2> QED
    BY <1>2, <2>1
<1>5. Listed = {w[k] : k \in 0..c} \ {ListHead}
  BY <1>2 DEF Listed
<1> HIDE DEF c, w
<1>6. w[c] = ListHead
  <2>1. CASE c = 0
    BY <1>1, <1>3, <2>1
  <2>2. CASE c = 1
    BY <1>1, <1>4, <2>2
  <2>3. CASE c >= 2
    BY <1>1, <1>2, <2>3
  <2> QED
    BY <1>2, <2>1, <2>2, <2>3
<1>7. \A k \in 0..c : w[k] \in {First, Second, ListHead}
  <2> TAKE k \in 0..c
  <2>1. k = 0 \/ k = 1 \/ k >= 2
    BY <1>2
  <2> QED
    BY <1>1, <1>2, <2>1
<1>8. First \in {w[k] : k \in 0..c}
  BY <1>1, <1>2
<1>9. Second \in {w[k] : k \in 0..c} \cup {ListHead}
  <2>1. CASE c <= 1
    BY <1>4, <2>1
  <2>2. CASE ~(c <= 1)
    <3>1. 1 \in 0..c
      BY <1>2, <2>2
    <3> QED
      BY <1>1, <3>1
  <2> QED
    BY <2>1, <2>2
<1>10. Listed = {First, Second} \ {ListHead}
  BY <1>5, <1>7, <1>8, <1>9
<1>11. Listed \subseteq Ports
  BY <1>10, WalkOfShape DEF Listable
<1> QED
  BY <1>6, <1>10, <1>11 DEF c, w
-----------------------------------------------------------------------------
(* The shutdown.                                                           *)

Start == [links |-> Links, live |-> Ports \cup {ListHead}, stray |-> FALSE]

(* The turns of the loop, as ReleaseAll counts them. *)
Turns(t, w) ==
  t = [k \in Nat |-> IF k = 0 THEN Start
                     ELSE IF w[k - 1] = ListHead THEN t[k - 1]
                     ELSE Release(t[k - 1], w[k - 1])]

After(s, b) == IF b = ListHead THEN s ELSE Release(s, b)

(* The loop has a turn for First and one for Second, if there are such.    *)
LEMMA ReleaseAllIs ==
  ASSUME Listable
  PROVE  ReleaseAll = After(After(Start, First), Second)
<1> DEFINE w == Walk(next)
           r1 == After(Start, First)
           r2 == After(r1, Second)
           c == Cardinality(Blocks)
           g == [k \in Nat |-> IF k = 0 THEN Start ELSE IF k = 1 THEN r1 ELSE r2]
<1>0. w[0] = First /\ w[1] = Second /\ \A k \in Nat : k >= 2 => w[k] = ListHead
  BY WalkOfShape
<1>1. /\ c \in Nat
      /\ c = 0 => First = ListHead
      /\ First = ListHead => Second = ListHead
  BY BlocksCounted, WalkOfShape, PortsAreBlocks DEF Listable
<1>2. ReleaseAll = (CHOOSE t : Turns(t, w))[c + 1]
  BY DEF ReleaseAll, Turns, Start
<1> HIDE DEF w, c
<1>3. Turns(g, w)
  <2>1. \A k \in Nat : g[k] = IF k = 0 THEN Start
                              ELSE IF w[k - 1] = ListHead THEN g[k - 1]
                              ELSE Release(g[k - 1], w[k - 1])
    <3> TAKE k \in Nat
    <3>1. CASE k = 0
      BY <3>1
    <3>2. CASE k = 1
      <4>1. g[k - 1] = Start /\ g[k] = r1
        BY <3>2
      <4> HIDE DEF g
      <4> QED
        BY <1>0, <3>2, <4>1 DEF After
    <3>3. CASE k = 2
      <4>1. g[k - 1] = r1 /\ g[k] = r2
        BY <3>3
      <4> HIDE DEF g, r1
      <4> QED
        BY <1>0, <3>3, <4>1 DEF After
    <3>4. CASE k > 2
      <4>1. k - 1 \in Nat /\ k - 1 >= 2 /\ k - 1 # 0 /\ k - 1 # 1 /\ k # 0 /\ k # 1
        BY <3>4
      <4>2. g[k - 1] = r2 /\ g[k] = r2
        BY <4>1
      <4> HIDE DEF g, r2
      <4> QED
        BY <1>0, <4>1, <4>2
    <3> QED
      BY <3>1, <3>2, <3>3, <3>4
  <2>2. g = [k \in Nat |-> g[k]]
    OBVIOUS
  <2> HIDE DEF g
  <2> QED
    BY <2>1, <2>2 DEF Turns
<1> HIDE DEF g
<1>4. PICK t : Turns(t, w) /\ ReleaseAll = t[c + 1]
  BY <1>2, <1>3
<1>5. \A k \in Nat : t[k] = IF k = 0 THEN Start
                            ELSE IF w[k - 1] = ListHead THEN t[k - 1]
                            ELSE Release(t[k - 1], w[k - 1])
  BY <1>4 DEF Turns
<1>6. t[1] = r1
  <2>1. t[1] = IF w[0] = ListHead THEN t[0] ELSE Release(t[0], w[0])
    BY <1>5
  <2>2. t[0] = Start
    BY <1>5
  <2> QED
    BY <1>0, <2>1, <2>2 DEF After
<1>7. t[2] = r2
  <2>1. t[2] = IF w[1] = ListHead THEN t[1] ELSE Release(t[1], w[1])
    BY <1>5
  <2> HIDE DEF r1
  <2> QED
    BY <1>0, <1>6, <2>1 DEF After
<1>8. \A k \in Nat : k > 2 => t[k] = t[k - 1]
  <2> TAKE k \in Nat
  <2> HAVE k > 2
  <2>1. k - 1 \in Nat /\ k - 1 >= 2 /\ k # 0
    OBVIOUS
  <2> QED
    BY <1>0, <1>5, <2>1
<1>9. \A k \in Nat : k >= 2 => t[k] = t[2]
  BY <1>8, Settles
<1>10. CASE c = 0
  <2>1. ReleaseAll = r1
    BY <1>4, <1>6, <1>10
  <2> QED
    BY <1>1, <1>10, <2>1 DEF After
<1>11. CASE c # 0
  <2>1. c + 1 \in Nat /\ c + 1 >= 2
    BY <1>1, <1>11
  <2> HIDE DEF r2
  <2>2. ReleaseAll = r2
    BY <1>4, <1>7, <1>9, <2>1
  <2> QED
    BY <2>2 DEF r2
<1> QED
  BY <1>10, <1>11

(* The shutdown closes the two ports of the list and no other; it follows  *)
(* no link out of allocated memory, and the ports it leaves behind are     *)
(* shaped as they were.                                                    *)
LEMMA UninitEffect ==
  ASSUME LinksType, Listable
  PROVE  /\ ReleaseAll.stray = FALSE
         /\ Ports \ ReleaseAll.live = Ports \cap {First, Second}
         /\ ReleaseAll.links.next \in LinkMap /\ ReleaseAll.links.prev \in LinkMap
         /\ \A p \in Ports \ {First, Second} :
              ReleaseAll.links.next[p] = ListHead /\ ReleaseAll.links.prev[p] = prev[p]
<1> USE DEF LinksType, LinkMap
<1>0. /\ ListHead \notin Ports /\ Ports \subseteq Blocks /\ Blocks \subseteq Nodes
      /\ Start.links = Links /\ Start.live = Ports \cup {ListHead} /\ Start.stray = FALSE
      /\ Links = Pair(next, prev) /\ Pair(next, prev).next = next /\ Pair(next, prev).prev = prev
      /\ ListHead \in Nodes
  BY PortsAreBlocks, Names_Nodes DEF Start, Links, Pair
<1>1. CASE First = ListHead
  <2>1. Second = ListHead
    BY <1>1, WalkOfShape
  <2>2. ReleaseAll = Start
    BY <1>1, <2>1, ReleaseAllIs DEF After
  <2>3. \A p \in Ports : next[p] = ListHead
    BY <1>0, <1>1 DEF Listable
  <2> QED
    BY <1>0, <1>1, <2>1, <2>2, <2>3
<1>2. CASE First # ListHead
  <2> DEFINE f == First
             l == comport_list_del(Pair(next, prev), f)
             r == Release(Start, f)
  <2>1. f \in Ports /\ prev[f] = ListHead /\ next[f] = Second /\ Second \in (Ports \ {f}) \cup {ListHead}
    BY <1>2 DEF Listable, Second
  <2>2. /\ l = Pair(l.next, l.prev) /\ l.next \in LinkMap /\ l.prev \in LinkMap
        /\ \A x \in Nodes : l.next[x] = IF x = f THEN Nil
                                        ELSE IF x = ListHead THEN Second ELSE next[x]
        /\ \A x \in Nodes : l.prev[x] = IF x = f THEN Nil
                                        ELSE IF x = Second THEN ListHead ELSE prev[x]
    <3>1. f \in Blocks /\ next[f] \in Nodes \ {f} /\ prev[f] \in Nodes \ {f}
      BY <1>0, <2>1
    <3> QED
      BY <2>1, <3>1, DelEffect
  <2>3. r.links = l /\ r.live = (Ports \cup {ListHead}) \ {f} /\ r.stray = FALSE
    <3>1. {f, prev[f], next[f]} \subseteq Ports \cup {ListHead}
      BY <2>1
    <3> QED
      BY <1>0, <3>1 DEF Release
  <2>4. ReleaseAll = After(r, Second)
    BY <1>2, ReleaseAllIs DEF After
  <2>5. \A p \in Ports \ {f, Second} : l.next[p] = ListHead /\ l.prev[p] = prev[p]
    BY <1>0, <2>2 DEF Listable
  <2> HIDE DEF l, r, f
  <2>6. CASE Second = ListHead
    <3>1. ReleaseAll = r
      BY <2>4, <2>6 DEF After
    <3> QED
      BY <1>0, <2>1, <2>2, <2>3, <2>5, <2>6, <3>1 DEF f
  <2>7. CASE Second # ListHead
    <3> DEFINE s == Second
               m == comport_list_del(Pair(l.next, l.prev), s)
    <3>1. /\ s \in Ports /\ s # f /\ l.next[s] = ListHead /\ l.prev[s] = ListHead
      <4>1. s \in Ports /\ s # f
        BY <2>1, <2>7
      <4>2. next[s] = ListHead
        BY <4>1 DEF Listable, f
      <4> QED
        BY <1>0, <2>2, <4>1, <4>2
    <3>2. /\ m.next \in LinkMap /\ m.prev \in LinkMap
          /\ \A x \in Nodes : m.next[x] = IF x = s THEN Nil
                                          ELSE IF x = ListHead THEN ListHead ELSE l.next[x]
          /\ \A x \in Nodes : m.prev[x] = IF x = s THEN Nil
                                          ELSE IF x = ListHead THEN ListHead ELSE l.prev[x]
      <4>1. s \in Blocks /\ l.next[s] \in Nodes \ {s} /\ l.prev[s] \in Nodes \ {s}
        BY <1>0, <3>1
      <4> HIDE DEF s
      <4> QED
        BY <2>2, <3>1, <4>1, DelEffect
    <3>3. Pair(l.next, l.prev).next = l.next /\ Pair(l.next, l.prev).prev = l.prev
      BY DEF Pair
    <3>4. /\ ReleaseAll = Release(r, s)
          /\ r.links.prev[s] = ListHead /\ r.links.next[s] = ListHead
      BY <2>2, <2>3, <2>4, <2>7, <3>1, <3>3 DEF After
    <3>5. /\ ReleaseAll.links = m
          /\ ReleaseAll.live = ((Ports \cup {ListHead}) \ {f}) \ {s}
          /\ ReleaseAll.stray = FALSE
      <4>1. {s, ListHead} \subseteq r.live
        BY <1>0, <2>1, <2>3, <3>1
      <4>2. r.links = Pair(l.next, l.prev)
        BY <2>2, <2>3
      <4> HIDE DEF s
      <4> QED
        BY <2>3, <3>4, <4>1, <4>2 DEF Release, m
    <3>6. \A p \in Ports \ {f, s} : m.next[p] = ListHead /\ m.prev[p] = prev[p]
      BY <1>0, <2>5, <3>2
    <3> HIDE DEF m
    <3> QED
      BY <1>0, <2>1, <3>1, <3>2, <3>5, <3>6 DEF f
  <2> QED
    BY <2>6, <2>7
<1> QED
  BY <1>1, <1>2
-----------------------------------------------------------------------------
(* The actions, one way through the code at a time.                        *)

PortRecord == [name : Names, fd : Descriptors, cfg : AllConfigs]

(* comport_open with all going well, and with the attributes refused. *)
Opened(name, d, b) ==
  /\ inited /\ ~stray /\ ~Busy(name)
  /\ d \in Descriptors /\ b \in Blocks \ Ports /\ file[d] = Closed
  /\ file' = [file EXCEPT ![d] = name]
  /\ port' = [port EXCEPT ![b] = [name |-> name, fd |-> d, cfg |-> DefaultConfig]]
  /\ line' = [line EXCEPT ![name] = NewLine(line[name], DefaultConfig)]
  /\ next' = comport_list_add_to_tail(Pair(next, prev), b).next
  /\ prev' = comport_list_add_to_tail(Pair(next, prev), b).prev
  /\ held' = held \cup {b}
  /\ crowded' = (crowded \/ Cardinality(Listed) >= 2)
  /\ stray' = ~ Listed \subseteq Ports
  /\ UNCHANGED <<inited, fails>>

OpenFailed(name, d) ==
  /\ inited /\ ~stray
  /\ d \in Descriptors /\ file[d] = Closed
  /\ file' = [file EXCEPT ![d] = name]
  /\ failedOpens < MaxFailedOpens /\ failedOpens' = failedOpens + 1
  /\ stray' = ~ Listed \subseteq Ports
  /\ UNCHANGED <<inited, next, prev, port, held, line, crowded, failedSets>>

(* comport_set_cfg with the line accepting the configuration, and not. *)
ConfigSet(b, c) ==
  /\ b \in held
  /\ port' = [port EXCEPT ![b].cfg = c]
  /\ line' = [line EXCEPT ![port[b].name] = NewLine(line[port[b].name], c)]
  /\ UNCHANGED <<inited, next, prev, held, file, stray, fails, crowded>>

ConfigRefused(b) ==
  /\ b \in held
  /\ \E n \in {1, 2} : failedSets' = failedSets + n /\ failedSets' <= MaxFailedSets
  /\ line' \in {line, [line EXCEPT ![port[b].name] = NewLine(line[port[b].name], port[b].cfg)]}
  /\ UNCHANGED <<inited, next, prev, port, held, file, stray, crowded, failedOpens>>

LEMMA OpenCases ==
  ASSUME NEW name, comport_open(name)
  PROVE  \/ \E d \in Descriptors, b \in Blocks : Opened(name, d, b)
         \/ \E d \in Descriptors : OpenFailed(name, d)
<1>1. PICK d \in Descriptors, b \in Blocks \ Ports :
        /\ LowestClosed(d)
        /\ file' = [file EXCEPT ![d] = name]
        /\ \/ LET links == comport_list_add_to_tail(Links, b)
              IN /\ port' = [port EXCEPT ![b] = [name |-> name, fd |-> d,
                                                 cfg |-> DefaultConfig]]
                 /\ line' = comport_set_dev_attr(line, name, DefaultConfig, TRUE)
                 /\ next' = links.next
                 /\ prev' = links.prev
                 /\ held' = held \cup {b}
                 /\ crowded' = (crowded \/ Cardinality(Listed) >= 2)
                 /\ UNCHANGED fails
           \/ /\ failedOpens < MaxFailedOpens
              /\ failedOpens' = failedOpens + 1
              /\ UNCHANGED <<next, prev, port, held, line, crowded, failedSets>>
  BY Zenon DEF comport_open
<1>2. Usable /\ ~Busy(name) /\ stray' = ~ Listed \subseteq Ports /\ inited' = inited
  BY DEF comport_open
<1>3. Links = Pair(next, prev)
  BY DEF Links, Pair
<1>4. CASE /\ failedOpens < MaxFailedOpens
           /\ failedOpens' = failedOpens + 1
           /\ UNCHANGED <<next, prev, port, held, line, crowded, failedSets>>
  <2>1. OpenFailed(name, d)
    BY <1>1, <1>2, <1>4 DEF OpenFailed, LowestClosed, Usable
  <2> QED
    BY <2>1
<1>5. CASE LET links == comport_list_add_to_tail(Links, b)
           IN /\ port' = [port EXCEPT ![b] = [name |-> name, fd |-> d,
                                              cfg |-> DefaultConfig]]
              /\ line' = comport_set_dev_attr(line, name, DefaultConfig, TRUE)
              /\ next' = links.next
              /\ prev' = links.prev
              /\ held' = held \cup {b}
              /\ crowded' = (crowded \/ Cardinality(Listed) >= 2)
              /\ UNCHANGED fails
  <2>1. line' = [line EXCEPT ![name] = NewLine(line[name], DefaultConfig)]
    BY <1>5, Zenon DEF comport_set_dev_attr
  <2>2. Opened(name, d, b)
    BY <1>1, <1>2, <1>3, <1>5, <2>1, Zenon DEF Opened, LowestClosed, Usable
  <2> QED
    BY <2>2
<1> QED
  BY <1>1, <1>4, <1>5, Zenon

LEMMA ConfigCases ==
  ASSUME NEW b, NEW c, comport_set_cfg(b, c)
  PROVE  ConfigSet(b, c) \/ ConfigRefused(b)
<1>1. CASE /\ port' = [port EXCEPT ![b].cfg = c]
           /\ line' = comport_set_dev_attr(line, port[b].name, c, TRUE)
           /\ UNCHANGED fails
  BY <1>1 DEF comport_set_cfg, ConfigSet, comport_set_dev_attr
<1>2. CASE \E ok \in BOOLEAN :
             /\ failedSets' = failedSets + (IF ok THEN 1 ELSE 2)
             /\ failedSets' <= MaxFailedSets
             /\ line' = comport_set_dev_attr(line, port[b].name, port[b].cfg, ok)
             /\ UNCHANGED <<port, failedOpens>>
  <2>1. PICK ok \in BOOLEAN :
             /\ failedSets' = failedSets + (IF ok THEN 1 ELSE 2)
             /\ failedSets' <= MaxFailedSets
             /\ line' = comport_set_dev_attr(line, port[b].name, port[b].cfg, ok)
             /\ UNCHANGED <<port, failedOpens>>
    BY <1>2
  <2>2. \E n \in {1, 2} : failedSets' = failedSets + n /\ failedSets' <= MaxFailedSets
    BY <2>1
  <2>3. line' \in {line, [line EXCEPT ![port[b].name] = NewLine(line[port[b].name], port[b].cfg)]}
    BY <2>1 DEF comport_set_dev_attr
  <2> QED
    BY <2>1, <2>2, <2>3 DEF comport_set_cfg, ConfigRefused
<1> QED
  BY <1>1, <1>2 DEF comport_set_cfg

LEMMA StepCases ==
  ASSUME [Next]_vars
  PROVE  \/ comport_module_init
         \/ comport_module_uninit
         \/ \E name \in Names : OpenRefused(name)
         \/ \E name \in Names, d \in Descriptors, b \in Blocks : Opened(name, d, b)
         \/ \E name \in Names, d \in Descriptors : OpenFailed(name, d)
         \/ \E b \in Blocks : comport_close(b)
         \/ \E b \in Blocks, c \in Configs : ConfigSet(b, c)
         \/ \E b \in Blocks : ConfigRefused(b)
         \/ UNCHANGED vars
  BY OpenCases, ConfigCases, Zenon DEF Next

-----------------------------------------------------------------------------
(* Types and the shape of the list.                                        *)

TypesInv ==
  /\ LinksType
  /\ port \in [Blocks -> PortRecord \cup {Free}]
  /\ file \in [Descriptors -> Names \cup {Closed}]
  /\ DOMAIN line = Names
  /\ failedOpens \in 0..MaxFailedOpens
  /\ failedSets \in 0..MaxFailedSets

FlagsType == inited \in BOOLEAN /\ stray \in BOOLEAN /\ crowded \in BOOLEAN

LEMMA DefaultIsConfig == DefaultConfig \in AllConfigs
  BY DEF DefaultConfig, AllConfigs, Bauds, Parities

(* Which ports there are after each call. *)
LEMMA PortsOfOpened ==
  ASSUME TypesInv, NEW name \in Names, NEW d, NEW b, Opened(name, d, b)
  PROVE  /\ port'[b] = [name |-> name, fd |-> d, cfg |-> DefaultConfig]
         /\ port' \in [Blocks -> PortRecord \cup {Free}]
         /\ Ports' = Ports \cup {b}
         /\ b \in Blocks \ Ports
         /\ \A p \in Ports : p # b /\ port'[p] = port[p]
<1> DEFINE new == [name |-> name, fd |-> d, cfg |-> DefaultConfig]
<1>1. new \in PortRecord /\ new # Free
  BY ComportAssumption, DefaultIsConfig DEF Opened, PortRecord
<1> HIDE DEF new
<1>2. port' = [port EXCEPT ![b] = new] /\ b \in Blocks \ Ports
  BY DEF Opened, new
<1>3. port'[b] = new /\ port' \in [Blocks -> PortRecord \cup {Free}]
      /\ \A p \in Blocks \ {b} : port'[p] = port[p]
  BY <1>1, <1>2 DEF TypesInv
<1>4. Ports' = {p \in Blocks : port'[p] # Free}
  BY DEF Ports
<1>5. Ports' = Ports \cup {b}
  BY <1>1, <1>2, <1>3, <1>4 DEF Ports
<1> QED
  BY <1>2, <1>3, <1>5, PortsAreBlocks DEF new

LEMMA PortsOfClose ==
  ASSUME TypesInv, HeldInv, NEW b, comport_close(b)
  PROVE  /\ b \in Ports
         /\ port' \in [Blocks -> PortRecord \cup {Free}]
         /\ Ports' = Ports \ {b}
         /\ \A p \in Ports \ {b} : port'[p] = port[p]
<1>1. port' = [port EXCEPT ![b] = Free] /\ b \in Ports /\ b \in Blocks
  BY PortsAreBlocks DEF comport_close, HeldInv
<1>2. port'[b] = Free /\ port' \in [Blocks -> PortRecord \cup {Free}]
      /\ \A p \in Blocks \ {b} : port'[p] = port[p]
  BY <1>1 DEF TypesInv
<1>3. Ports' = {p \in Blocks : port'[p] # Free}
  BY DEF Ports
<1>4. Ports' = Ports \ {b}
  BY <1>1, <1>2, <1>3 DEF Ports
<1> QED
  BY <1>1, <1>2, <1>4, PortsAreBlocks

LEMMA PortsOfUninit ==
  ASSUME TypesInv, ShapeInv, comport_module_uninit
  PROVE  /\ port' \in [Blocks -> PortRecord \cup {Free}]
         /\ Ports' = Ports \ {First, Second}
         /\ \A p \in Ports \ {First, Second} : port'[p] = port[p]
         /\ file' = [d \in Descriptors |->
                       IF \E b \in Ports \cap {First, Second} : port[b].fd = d
                       THEN Closed ELSE file[d]]
         /\ next' \in LinkMap /\ prev' \in LinkMap
         /\ \A p \in Ports \ {First, Second} : next'[p] = ListHead /\ prev'[p] = prev[p]
         /\ ~stray' /\ stray' \in BOOLEAN
         /\ inited /\ ~stray /\ ~inited' /\ inited' \in BOOLEAN
<1>1. inited /\ ~stray /\ inited' = FALSE /\ Listable
  BY DEF comport_module_uninit, Usable, ShapeInv
<1> DEFINE gone == Ports \cap {First, Second}
<1>2. /\ ReleaseAll.stray = FALSE
      /\ Ports \ ReleaseAll.live = gone
      /\ ReleaseAll.links.next \in LinkMap /\ ReleaseAll.links.prev \in LinkMap
      /\ \A p \in Ports \ {First, Second} :
           ReleaseAll.links.next[p] = ListHead /\ ReleaseAll.links.prev[p] = prev[p]
  BY <1>1, UninitEffect DEF TypesInv
<1>3. /\ next' = ReleaseAll.links.next
      /\ prev' = ReleaseAll.links.prev
      /\ port' = [b \in Blocks |-> IF b \in gone THEN Free ELSE port[b]]
      /\ file' = [d \in Descriptors |->
                    IF \E b \in gone : port[b].fd = d THEN Closed ELSE file[d]]
      /\ stray' = FALSE
  BY <1>2 DEF comport_module_uninit
<1>4. /\ port' \in [Blocks -> PortRecord \cup {Free}]
      /\ \A b \in Blocks : port'[b] = IF b \in gone THEN Free ELSE port[b]
  BY <1>3 DEF TypesInv
<1>5. Ports' = {b \in Blocks : port'[b] # Free}
  BY DEF Ports
<1>6. Ports' = Ports \ {First, Second}
  BY <1>4, <1>5 DEF Ports
<1>7. \A p \in Ports \ {First, Second} : port'[p] = port[p]
  BY <1>4, PortsAreBlocks
<1> QED
  BY <1>1, <1>2, <1>3, <1>4, <1>6, <1>7

LEMMA PortsOfConfigSet ==
  ASSUME TypesInv, HeldInv, NEW b, NEW c \in Configs, ConfigSet(b, c)
  PROVE  /\ b \in Ports
         /\ port' \in [Blocks -> PortRecord \cup {Free}]
         /\ Ports' = Ports
         /\ port'[b].name = port[b].name /\ port'[b].fd = port[b].fd /\ port'[b].cfg = c
         /\ \A p \in Ports \ {b} : port'[p] = port[p]
<1> DEFINE new == [port[b] EXCEPT !.cfg = c]
<1>1. b \in Ports /\ b \in Blocks /\ port' = [port EXCEPT ![b] = new]
  BY PortsAreBlocks DEF ConfigSet, HeldInv
<1>2. port[b] \in PortRecord /\ c \in AllConfigs
  BY <1>1, ComportAssumption DEF TypesInv, Ports
<1>3. new \in PortRecord /\ new # Free
      /\ new.name = port[b].name /\ new.fd = port[b].fd /\ new.cfg = c
  BY <1>2, ComportAssumption DEF PortRecord
<1> HIDE DEF new
<1>4. port'[b] = new /\ port' \in [Blocks -> PortRecord \cup {Free}]
      /\ \A p \in Blocks \ {b} : port'[p] = port[p]
  BY <1>1, <1>3 DEF TypesInv
<1>5. Ports' = {p \in Blocks : port'[p] # Free}
  BY DEF Ports
<1>6. Ports' = Ports
  BY <1>1, <1>3, <1>4, <1>5 DEF Ports
<1> QED
  BY <1>1, <1>3, <1>4, <1>6, PortsAreBlocks
(* The links after an open and after a close. *)
LEMMA LinksOfOpened ==
  ASSUME TypesInv, ShapeInv, NEW name, NEW d, NEW b, Opened(name, d, b)
  PROVE  /\ Listable /\ b \in Blocks \ Ports /\ ~stray' /\ stray' \in BOOLEAN
         /\ next' \in LinkMap /\ prev' \in LinkMap
         /\ \A x \in Nodes : next'[x] = IF x = First THEN b
                                        ELSE IF x = b THEN ListHead ELSE next[x]
         /\ \A x \in Nodes : prev'[x] = IF x = ListHead THEN b
                                        ELSE IF x = b THEN First ELSE prev[x]
<1>1. Listable /\ b \in Blocks \ Ports
  BY DEF Opened, ShapeInv
<1>2. Listed \subseteq Ports
  BY <1>1, ListedIs
<1>3. stray' = FALSE
  BY <1>2 DEF Opened
<1>4. First \in Nodes \ {b}
  BY <1>1, PortsAreBlocks, Names_Nodes DEF Listable
<1>5. next \in LinkMap /\ prev \in LinkMap
  BY DEF TypesInv, LinksType, LinkMap
<1>6. /\ next' = comport_list_add_to_tail(Pair(next, prev), b).next
      /\ prev' = comport_list_add_to_tail(Pair(next, prev), b).prev
  BY DEF Opened
<1>7. /\ next' \in LinkMap /\ prev' \in LinkMap
      /\ \A x \in Nodes : next'[x] = IF x = next[ListHead] THEN b
                                     ELSE IF x = b THEN ListHead ELSE next[x]
      /\ \A x \in Nodes : prev'[x] = IF x = ListHead THEN b
                                     ELSE IF x = b THEN next[ListHead] ELSE prev[x]
  <2>1. b \in Blocks /\ next[ListHead] \in Nodes \ {b}
    BY <1>1, <1>4 DEF First
  <2> QED
    BY <1>5, <1>6, <2>1, AddEffect
<1> QED
  BY <1>1, <1>3, <1>7 DEF First

LEMMA LinksOfClose ==
  ASSUME TypesInv, ShapeInv, HeldInv, NEW b, comport_close(b)
  PROVE  /\ Listable /\ b \in Ports
         /\ next[b] \in (Ports \ {b}) \cup {ListHead} /\ prev[b] \in Nodes \ {b}
         /\ stray' = (prev[b] \notin Ports \cup {ListHead}) /\ stray' \in BOOLEAN
         /\ next' \in LinkMap /\ prev' \in LinkMap
         /\ \A x \in Nodes : next'[x] = IF x = b THEN Nil
                                        ELSE IF x = prev[b] THEN next[b] ELSE next[x]
         /\ \A x \in Nodes : prev'[x] = IF x = b THEN Nil
                                        ELSE IF x = next[b] THEN prev[b] ELSE prev[x]
<1>1. Listable /\ b \in Ports /\ b \in Blocks
  BY PortsAreBlocks DEF comport_close, ShapeInv, Usable, HeldInv
<1>2. next[b] \in (Ports \ {b}) \cup {ListHead} /\ prev[b] \in Nodes \ {b}
      /\ next[b] \in Nodes \ {b}
  BY <1>1, PortsAreBlocks, Names_Nodes DEF Listable
<1>3. next \in LinkMap /\ prev \in LinkMap
  BY DEF TypesInv, LinksType, LinkMap
<1>4. /\ next' = comport_list_del(Pair(next, prev), b).next
      /\ prev' = comport_list_del(Pair(next, prev), b).prev
      /\ stray' = (~Live(prev[b]) \/ ~Live(next[b]))
  BY DEF comport_close, Links, Pair
<1>5. stray' = (prev[b] \notin Ports \cup {ListHead})
  BY <1>2, <1>4 DEF Live
<1> QED
  BY <1>1, <1>2, <1>3, <1>4, <1>5, DelEffect

LEMMA InitBase == Init => TypesInv /\ FlagsType /\ HeldInv /\ ShapeInv
<1> SUFFICES ASSUME Init PROVE TypesInv /\ FlagsType /\ HeldInv /\ ShapeInv
  OBVIOUS
<1>1. Ports = {}
  BY DEF Init, Ports
<1>2. LinksType
  BY DEF Init, LinksType
<1>3. failedOpens \in 0..MaxFailedOpens /\ failedSets \in 0..MaxFailedSets
  BY ComportAssumption DEF Init
<1>4. DOMAIN line = Names
  BY DEF Init
<1>5. TypesInv
  BY <1>2, <1>3, <1>4 DEF Init, TypesInv
<1> QED
  BY <1>1, <1>5 DEF Init, FlagsType, HeldInv, ShapeInv, LeftOver

LEMMA TypesStep ==
  ASSUME TypesInv, FlagsType, HeldInv, ShapeInv, [Next]_vars
  PROVE  TypesInv' /\ FlagsType'
<1>1. CASE comport_module_init
  <2>1. LinksType'
    BY <1>1, Names_Nodes DEF comport_module_init, comport_list_init_listhead, TypesInv, LinksType
  <2>2. UNCHANGED <<port, file, line, fails, stray, crowded>> /\ inited' = TRUE
    BY <1>1 DEF comport_module_init
  <2> QED
    BY <2>1, <2>2 DEF TypesInv, FlagsType, fails
<1>2. CASE comport_module_uninit
  <2>1. /\ port' \in [Blocks -> PortRecord \cup {Free}] /\ LinksType'
        /\ inited' \in BOOLEAN /\ stray' \in BOOLEAN
    BY <1>2, PortsOfUninit DEF LinksType, LinkMap
  <2>2. file' \in [Descriptors -> Names \cup {Closed}]
    BY <1>2, PortsOfUninit DEF TypesInv
  <2>3. UNCHANGED <<line, fails, crowded>>
    BY <1>2 DEF comport_module_uninit
  <2> QED
    BY <2>1, <2>2, <2>3 DEF TypesInv, FlagsType, fails
<1>3. ASSUME NEW name \in Names, OpenRefused(name) PROVE TypesInv' /\ FlagsType'
  <2>1. stray' \in BOOLEAN /\ UNCHANGED <<inited, next, prev, port, file, line, fails, crowded>>
    BY <1>3 DEF OpenRefused
  <2> QED
    BY <2>1 DEF TypesInv, FlagsType, fails, LinksType
<1>4. ASSUME NEW name \in Names, NEW d \in Descriptors, NEW b \in Blocks, Opened(name, d, b)
      PROVE  TypesInv' /\ FlagsType'
  <2>1. LinksType' /\ stray' \in BOOLEAN
    BY <1>4, LinksOfOpened DEF LinksType, LinkMap
  <2>2. port' \in [Blocks -> PortRecord \cup {Free}]
    BY <1>4, PortsOfOpened
  <2>3. file' \in [Descriptors -> Names \cup {Closed}] /\ DOMAIN line' = Names
    BY <1>4 DEF Opened, TypesInv
  <2>4. fails' = fails /\ inited' = inited /\ crowded' \in BOOLEAN
    BY <1>4 DEF Opened
  <2> QED
    BY <2>1, <2>2, <2>3, <2>4 DEF TypesInv, FlagsType, fails
<1>5. ASSUME NEW name \in Names, NEW d \in Descriptors, OpenFailed(name, d)
      PROVE  TypesInv' /\ FlagsType'
  <2>1. file' \in [Descriptors -> Names \cup {Closed}]
    BY <1>5 DEF OpenFailed, TypesInv
  <2>2. failedOpens' \in 0..MaxFailedOpens /\ failedSets' = failedSets
    BY <1>5, ComportAssumption DEF OpenFailed, TypesInv
  <2>3. UNCHANGED <<inited, next, prev, port, line, crowded>> /\ stray' \in BOOLEAN
    BY <1>5 DEF OpenFailed
  <2> QED
    BY <2>1, <2>2, <2>3 DEF TypesInv, FlagsType, fails, LinksType
<1>6. ASSUME NEW b \in Blocks, comport_close(b) PROVE TypesInv' /\ FlagsType'
  <2>1. LinksType' /\ stray' \in BOOLEAN
    BY <1>6, LinksOfClose DEF LinksType, LinkMap
  <2>2. port' \in [Blocks -> PortRecord \cup {Free}]
    BY <1>6, PortsOfClose
  <2>3. file' \in [Descriptors -> Names \cup {Closed}]
    BY <1>6 DEF comport_close, TypesInv
  <2>4. UNCHANGED <<inited, line, fails, crowded>>
    BY <1>6 DEF comport_close
  <2> QED
    BY <2>1, <2>2, <2>3, <2>4 DEF TypesInv, FlagsType, fails
<1>7. ASSUME NEW b \in Blocks, NEW c \in Configs, ConfigSet(b, c) PROVE TypesInv' /\ FlagsType'
  <2>1. port' \in [Blocks -> PortRecord \cup {Free}]
    BY <1>7, PortsOfConfigSet
  <2>2. DOMAIN line' = Names /\ UNCHANGED <<inited, next, prev, file, stray, fails, crowded>>
    BY <1>7 DEF ConfigSet, TypesInv
  <2> QED
    BY <2>1, <2>2 DEF TypesInv, FlagsType, fails, LinksType
<1>8. ASSUME NEW b \in Blocks, ConfigRefused(b) PROVE TypesInv' /\ FlagsType'
  <2>1. DOMAIN line' = Names /\ UNCHANGED <<inited, next, prev, port, file, stray, crowded>>
    BY <1>8 DEF ConfigRefused, TypesInv
  <2>2. failedSets' \in 0..MaxFailedSets /\ failedOpens' = failedOpens
    BY <1>8, ComportAssumption DEF ConfigRefused, TypesInv
  <2> QED
    BY <2>1, <2>2 DEF TypesInv, FlagsType, fails, LinksType
<1>9. CASE UNCHANGED vars
  BY <1>9 DEF vars, fails, TypesInv, FlagsType, LinksType
<1> QED
  BY <1>1, <1>2, <1>3, <1>4, <1>5, <1>6, <1>7, <1>8, <1>9, StepCases, Zenon

LEMMA HeldStep ==
  ASSUME TypesInv, HeldInv, ShapeInv, [Next]_vars
  PROVE  HeldInv'
<1>1. CASE UNCHANGED <<held, port>>
  BY <1>1 DEF HeldInv, Ports
<1>2. CASE comport_module_uninit
  BY <1>2 DEF comport_module_uninit, HeldInv
<1>3. ASSUME NEW name \in Names, NEW d \in Descriptors, NEW b \in Blocks, Opened(name, d, b)
      PROVE  HeldInv'
  <2>1. Ports' = Ports \cup {b} /\ held' = held \cup {b}
    BY <1>3, PortsOfOpened DEF Opened
  <2> QED
    BY <2>1 DEF HeldInv
<1>4. ASSUME NEW b \in Blocks, comport_close(b) PROVE HeldInv'
  <2>1. Ports' = Ports \ {b} /\ held' = held \ {b}
    BY <1>4, PortsOfClose DEF comport_close
  <2> QED
    BY <2>1 DEF HeldInv
<1>5. ASSUME NEW b \in Blocks, NEW c \in Configs, ConfigSet(b, c) PROVE HeldInv'
  <2>1. Ports' = Ports /\ held' = held
    BY <1>5, PortsOfConfigSet DEF ConfigSet
  <2> QED
    BY <2>1 DEF HeldInv
<1> QED
  BY <1>1, <1>2, <1>3, <1>4, <1>5, StepCases, Zenon
     DEF comport_module_init, OpenRefused, OpenFailed, ConfigRefused, vars
(* A port is added behind the first one, or as the first one. *)
LEMMA OpenedShape ==
  ASSUME TypesInv, ShapeInv, NEW name \in Names, NEW d, NEW b, Opened(name, d, b)
  PROVE  /\ Listable'
         /\ First = ListHead => First' = b /\ Second' = ListHead
         /\ First # ListHead => First' = First /\ Second' = b
<1>1. /\ Ports' = Ports \cup {b} /\ b \in Blocks \ Ports
      /\ Listable
  BY PortsOfOpened, LinksOfOpened
<1>2. /\ \A x \in Nodes : next'[x] = IF x = First THEN b
                                     ELSE IF x = b THEN ListHead ELSE next[x]
      /\ \A x \in Nodes : prev'[x] = IF x = ListHead THEN b
                                     ELSE IF x = b THEN First ELSE prev[x]
  BY LinksOfOpened
<1>3. /\ First \in Ports \cup {ListHead} /\ ListHead \in Nodes /\ ListHead \notin Ports
      /\ b \in Nodes /\ b # ListHead /\ \A p \in Ports : p \in Nodes /\ p # b
  BY <1>1, PortsAreBlocks, Names_Nodes DEF Listable
<1>4. First' = next'[ListHead] /\ Second' = next'[First'] /\ First = next[ListHead]
  BY DEF First, Second
<1>5. CASE First = ListHead
  <2>1. First' = b /\ Second' = ListHead
    BY <1>2, <1>3, <1>4, <1>5
  <2>2. ASSUME NEW p \in Ports'
        PROVE  /\ next'[p] = ListHead
               /\ prev'[p] \in Nodes \ {p}
               /\ prev'[p] = ListHead <=> p = b
    <3>1. CASE p = b
      BY <1>2, <1>3, <1>5, <3>1
    <3>2. CASE p \in Ports
      <4>1. next'[p] = next[p] /\ prev'[p] = prev[p] /\ p # b /\ p # First
        BY <1>2, <1>3, <1>5, <3>2
      <4> QED
        BY <1>1, <3>2, <4>1 DEF Listable
    <3> QED
      BY <1>1, <3>1, <3>2
  <2>3. Listable'
    BY <1>1, <2>1, <2>2 DEF Listable, Nodes
  <2> QED
    BY <1>5, <2>1, <2>3
<1>6. CASE First # ListHead
  <2>1. First \in Ports /\ First' = First /\ Second' = b
    BY <1>2, <1>3, <1>4, <1>6
  <2>2. ASSUME NEW p \in Ports'
        PROVE  /\ next'[p] \in (Ports' \ {p}) \cup {ListHead}
               /\ p # First => next'[p] = ListHead
               /\ prev'[p] \in Nodes \ {p}
               /\ prev'[p] = ListHead <=> p = First
    <3>1. CASE p = b
      BY <1>2, <1>3, <1>6, <2>1, <3>1
    <3>2. CASE p \in Ports
      <4>1. next'[p] = (IF p = First THEN b ELSE next[p]) /\ prev'[p] = prev[p] /\ p # b
        BY <1>2, <1>3, <3>2
      <4> QED
        BY <1>1, <3>2, <4>1 DEF Listable
    <3> QED
      BY <1>1, <3>1, <3>2
  <2>3. prev'[b] = First
    BY <1>2, <1>3
  <2>4. Listable'
    BY <1>1, <2>1, <2>2, <2>3 DEF Listable, Nodes
  <2> QED
    BY <1>6, <2>1, <2>4
<1> QED
  BY <1>5, <1>6

(* Closing the first port makes the second the first; closing another one  *)
(* makes whatever is in front of it the last.                              *)
LEMMA ClosedShape ==
  ASSUME TypesInv, HeldInv, ShapeInv, NEW b, comport_close(b), ~stray'
  PROVE  /\ Listable'
         /\ b = First => First' = Second /\ Second' = ListHead
         /\ b # First => First' = First /\ (b = Second => Second' = ListHead)
<1>1. /\ Ports' = Ports \ {b} /\ b \in Ports /\ Listable
      /\ next[b] \in (Ports \ {b}) \cup {ListHead} /\ prev[b] \in (Ports \ {b}) \cup {ListHead}
  <2>1. /\ Listable /\ b \in Ports
        /\ next[b] \in (Ports \ {b}) \cup {ListHead} /\ prev[b] \in Nodes \ {b}
        /\ stray' = (prev[b] \notin Ports \cup {ListHead})
    BY LinksOfClose
  <2>2. Ports' = Ports \ {b}
    BY PortsOfClose
  <2> QED
    BY <2>1, <2>2
<1>2. /\ \A x \in Nodes : next'[x] = IF x = b THEN Nil
                                     ELSE IF x = prev[b] THEN next[b] ELSE next[x]
      /\ \A x \in Nodes : prev'[x] = IF x = b THEN Nil
                                     ELSE IF x = next[b] THEN prev[b] ELSE prev[x]
  BY LinksOfClose
<1>3. /\ ListHead \in Nodes /\ ListHead \notin Ports /\ b # ListHead
      /\ \A p \in Ports : p \in Nodes
  BY <1>1, PortsAreBlocks, Names_Nodes
<1>4. First' = next'[ListHead] /\ Second' = next'[First'] /\ First = next[ListHead]
      /\ Second = next[First]
  BY DEF First, Second
<1>5. CASE b = First
  <2>1. prev[b] = ListHead /\ next[b] = Second /\ Second \in Ports' \cup {ListHead}
    BY <1>1, <1>4, <1>5 DEF Listable
  <2>2. First' = Second
    BY <1>2, <1>3, <1>4, <2>1
  <2>3. ASSUME NEW p \in Ports'
        PROVE  /\ next'[p] = ListHead
               /\ prev'[p] \in Nodes \ {p}
               /\ prev'[p] = ListHead <=> p = Second
    <3>1. p \in Ports /\ p # b /\ p # ListHead /\ p \in Nodes
      BY <1>1, <1>3
    <3>2. next'[p] = next[p] /\ prev'[p] = IF p = Second THEN ListHead ELSE prev[p]
      BY <1>2, <2>1, <3>1
    <3> QED
      BY <1>1, <1>3, <1>5, <3>1, <3>2 DEF Listable
  <2>4. Second' = ListHead
    <3>1. CASE Second = ListHead
      BY <1>2, <1>3, <1>4, <2>1, <2>2, <3>1
    <3>2. CASE Second # ListHead
      BY <1>4, <2>1, <2>2, <2>3, <3>2
    <3> QED
      BY <3>1, <3>2
  <2>5. Listable'
    BY <2>1, <2>2, <2>3, <2>4 DEF Listable, Nodes
  <2> QED
    BY <1>5, <2>2, <2>4, <2>5
<1>6. CASE b # First
  <2>1. next[b] = ListHead /\ prev[b] # ListHead /\ prev[b] \in Ports \ {b}
    BY <1>1, <1>6 DEF Listable
  <2>2. First' = First /\ First \in Ports' \cup {ListHead}
    BY <1>1, <1>2, <1>3, <1>4, <1>6, <2>1 DEF Listable
  <2>3. b = Second => prev[b] = First
    BY <1>1, <1>3 DEF Listable
  <2>4. ASSUME NEW p \in Ports'
        PROVE  /\ next'[p] \in (Ports' \ {p}) \cup {ListHead}
               /\ p # First => next'[p] = ListHead
               /\ prev'[p] \in Nodes \ {p}
               /\ prev'[p] = ListHead <=> p = First
    <3>1. p \in Ports /\ p # b /\ p # ListHead /\ p \in Nodes
      BY <1>1, <1>3
    <3>2. next'[p] = (IF p = prev[b] THEN ListHead ELSE next[p]) /\ prev'[p] = prev[p]
      BY <1>2, <2>1, <3>1
    <3>3. next[p] = b => p = prev[b]
      BY <1>1, <1>3, <1>4, <2>3, <3>1 DEF Listable
    <3> QED
      BY <1>1, <3>1, <3>2, <3>3 DEF Listable
  <2>5. Second' = IF First = ListHead \/ First = prev[b] THEN ListHead ELSE Second
    <3>1. CASE First = ListHead
      BY <1>4, <2>2, <3>1
    <3>2. CASE First # ListHead
      <4>1. First \in Ports' /\ First \in Nodes /\ First # b
        BY <1>1, <1>3, <1>6, <2>2, <3>2
      <4> QED
        BY <1>2, <1>4, <2>1, <2>2, <3>2, <4>1
    <3> QED
      BY <3>1, <3>2
  <2>6. ASSUME Second' # ListHead PROVE prev'[Second'] = First
    <3>1. Second' = Second /\ Second # b /\ Second # ListHead /\ First # ListHead
      BY <2>3, <2>5, <2>6
    <3>2. Second \in Ports /\ prev[Second] = First
      BY <1>1, <3>1, WalkOfShape DEF Listable
    <3> QED
      BY <1>2, <1>3, <2>1, <3>1, <3>2
  <2>7. Listable'
    BY <2>2, <2>4, <2>6 DEF Listable, Nodes
  <2> QED
    BY <1>6, <2>2, <2>3, <2>5, <2>7
<1> QED
  BY <1>5, <1>6

LEMMA ShapeStep ==
  ASSUME TypesInv, FlagsType, HeldInv, ShapeInv, [Next]_vars
  PROVE  ShapeInv'
<1>1. CASE comport_module_init
  <2>1. /\ ~inited /\ ~stray /\ LeftOver
        /\ next' = [next EXCEPT ![ListHead] = ListHead] /\ prev' = [prev EXCEPT ![ListHead] = ListHead]
        /\ port' = port
    BY <1>1 DEF comport_module_init, comport_list_init_listhead, ShapeInv
  <2>2. Ports' = Ports
    BY <2>1 DEF Ports
  <2>3. next'[ListHead] = ListHead /\ \A p \in Ports : next'[p] = next[p] /\ prev'[p] = prev[p]
    BY <2>1, Names_Nodes, PortsAreBlocks DEF TypesInv, LinksType
  <2>4. First' = ListHead /\ Second' = ListHead
    BY <2>3 DEF First, Second
  <2>5. \A p \in Ports : p # ListHead /\ next'[p] = ListHead /\ prev'[p] \in Nodes \ {p}
                         /\ prev'[p] # ListHead
    BY <2>1, <2>3, Names_Nodes, PortsAreBlocks DEF LeftOver
  <2>6. Listable'
    BY <2>2, <2>4, <2>5 DEF Listable, Nodes
  <2>7. inited'
    BY <1>1 DEF comport_module_init
  <2> QED
    BY <2>6, <2>7 DEF ShapeInv
<1>2. CASE comport_module_uninit
  <2>1. /\ Ports' = Ports \ {First, Second} /\ ~inited' /\ Listable
        /\ \A p \in Ports \ {First, Second} : next'[p] = ListHead /\ prev'[p] = prev[p]
    BY <1>2, PortsOfUninit DEF ShapeInv
  <2>2. \A p \in Ports \ {First, Second} : prev[p] \in Blocks \ {p}
    BY <2>1 DEF Listable, Nodes
  <2>3. LeftOver'
    BY <2>1, <2>2 DEF LeftOver
  <2> QED
    BY <2>1, <2>3 DEF ShapeInv
<1>3. CASE UNCHANGED <<inited, next, prev>> /\ Ports' = Ports /\ ~stray
  <2>1. Listable => Listable'
    BY <1>3 DEF Listable, First, Second, Nodes
  <2>2. LeftOver => LeftOver'
    BY <1>3 DEF LeftOver
  <2> QED
    BY <1>3, <2>1, <2>2 DEF ShapeInv
<1>4. ASSUME NEW name \in Names, NEW d \in Descriptors, NEW b \in Blocks, Opened(name, d, b)
      PROVE  ShapeInv'
  <2>1. Listable' /\ inited'
    BY <1>4, OpenedShape DEF Opened
  <2> QED
    BY <2>1 DEF ShapeInv
<1>5. ASSUME NEW b \in Blocks, comport_close(b) PROVE ShapeInv'
  <2>1. inited'
    BY <1>5 DEF comport_close, Usable
  <2>2. ~stray' => Listable'
    BY <1>5, ClosedShape
  <2> QED
    BY <2>1, <2>2 DEF ShapeInv
<1>6. ASSUME NEW name \in Names, OpenRefused(name) PROVE ShapeInv'
  <2>1. UNCHANGED <<inited, next, prev>> /\ Ports' = Ports /\ ~stray
    BY <1>6 DEF OpenRefused, Ports
  <2> QED
    BY <1>3, <2>1
<1>7. ASSUME NEW name \in Names, NEW d \in Descriptors, OpenFailed(name, d) PROVE ShapeInv'
  <2>1. UNCHANGED <<inited, next, prev>> /\ Ports' = Ports /\ ~stray
    BY <1>7 DEF OpenFailed, Ports
  <2> QED
    BY <1>3, <2>1
<1>8. CASE UNCHANGED <<inited, next, prev, stray>> /\ Ports' = Ports
  BY <1>3, <1>8 DEF ShapeInv
<1>9. ASSUME NEW b \in Blocks, NEW c \in Configs, ConfigSet(b, c) PROVE ShapeInv'
  <2>1. UNCHANGED <<inited, next, prev, stray>> /\ Ports' = Ports
    BY <1>9, PortsOfConfigSet DEF ConfigSet
  <2> QED
    BY <1>8, <2>1
<1>10. ASSUME NEW b \in Blocks, ConfigRefused(b) PROVE ShapeInv'
  <2>1. UNCHANGED <<inited, next, prev, stray>> /\ Ports' = Ports
    BY <1>10 DEF ConfigRefused, Ports
  <2> QED
    BY <1>8, <2>1
<1>11. CASE UNCHANGED vars
  <2>1. UNCHANGED <<inited, next, prev, stray>> /\ Ports' = Ports
    BY <1>11 DEF vars, Ports
  <2> QED
    BY <1>8, <2>1
<1> QED
  BY <1>1, <1>2, <1>4, <1>5, <1>6, <1>7, <1>9, <1>10, <1>11, StepCases, Zenon
-----------------------------------------------------------------------------
(* Until a port is pushed out, the list is all the ports.                  *)

BaseInv == TypesInv /\ FlagsType /\ HeldInv /\ ShapeInv

LEMMA TwoListed ==
  ASSUME Listable, Second # ListHead
  PROVE  Cardinality(Listed) >= 2
<1>1. Listed = {First} \cup {Second} /\ First # Second
  BY WalkOfShape, ListedIs, Names_Nodes, PortsAreBlocks
<1>2. IsFiniteSet({First}) /\ Cardinality({First}) = 1
  BY FS_Singleton, Zenon
<1>3. Cardinality({First} \cup {Second}) = Cardinality({First}) + 1
  <2>1. Second \notin {First}
    BY <1>1
  <2> QED
    BY <1>2, <2>1, FS_AddElement
<1> QED
  BY <1>1, <1>2, <1>3

LEMMA CompleteStep ==
  ASSUME BaseInv, CompleteInv, [Next]_vars
  PROVE  CompleteInv'
<1> USE DEF BaseInv
<1>0. ListHead \notin Ports /\ ListHead \in Nodes
  BY PortsAreBlocks, Names_Nodes
<1>1. CASE comport_module_init
  <2>1. /\ next' = [next EXCEPT ![ListHead] = ListHead] /\ prev' = [prev EXCEPT ![ListHead] = ListHead]
        /\ port' = port /\ held' = held /\ stray' = stray /\ crowded' = crowded /\ ~inited /\ inited'
    BY <1>1 DEF comport_module_init, comport_list_init_listhead
  <2>2. next'[ListHead] = ListHead /\ prev'[ListHead] = ListHead
    BY <1>0, <2>1 DEF TypesInv, LinksType
  <2>3. First' = ListHead /\ Second' = ListHead
    BY <2>2 DEF First, Second
  <2>4. Ports' = Ports
    BY <2>1 DEF Ports
  <2> QED
    BY <2>1, <2>2, <2>3, <2>4 DEF CompleteInv
<1>2. CASE comport_module_uninit
  <2>1. Ports' = Ports \ {First, Second} /\ ~stray' /\ ~inited' /\ inited
    BY <1>2, PortsOfUninit
  <2>2. held' = {} /\ crowded' = crowded
    BY <1>2 DEF comport_module_uninit
  <2> QED
    BY <2>1, <2>2 DEF CompleteInv
<1>3. CASE /\ UNCHANGED <<inited, next, prev, held, crowded>> /\ Ports' = Ports
           /\ ~stray => ~stray'
  BY <1>3 DEF CompleteInv, First, Second
<1>4. ASSUME NEW name \in Names, NEW d \in Descriptors, NEW b \in Blocks, Opened(name, d, b)
      PROVE  CompleteInv'
  <2> SUFFICES ASSUME ~crowded' PROVE CompleteInv'
    BY DEF CompleteInv
  <2>1. ~crowded /\ ~(Cardinality(Listed) >= 2) /\ inited /\ inited' = inited /\ held' = held \cup {b}
    BY <1>4 DEF Opened
  <2>2. Listable /\ ~stray'
    BY <1>4, LinksOfOpened
  <2>3. Second = ListHead
    BY <2>1, <2>2, TwoListed
  <2>4. Ports \subseteq {First} /\ held = Ports
    BY <1>0, <2>1, <2>3 DEF CompleteInv
  <2>5. Ports' = Ports \cup {b} /\ b # ListHead
    BY <1>4, PortsOfOpened, Names_Nodes
  <2>6. prev'[ListHead] = b
    BY <1>0, <1>4, LinksOfOpened
  <2>7. /\ First = ListHead => First' = b /\ Second' = ListHead
        /\ First # ListHead => First' = First /\ Second' = b
    BY <1>4, OpenedShape
  <2> QED
    BY <1>0, <2>1, <2>2, <2>4, <2>5, <2>6, <2>7 DEF CompleteInv
<1>5. ASSUME NEW b \in Blocks, comport_close(b) PROVE CompleteInv'
  <2> SUFFICES ASSUME ~crowded' PROVE CompleteInv'
    BY DEF CompleteInv
  <2>1. ~crowded /\ inited /\ inited' = inited /\ held' = held \ {b}
    BY <1>5 DEF comport_close, Usable
  <2>2. /\ Listable /\ b \in Ports /\ Ports' = Ports \ {b} /\ Ports \subseteq {First, Second}
        /\ held = Ports /\ prev[ListHead] = IF Second = ListHead THEN First ELSE Second
    BY <1>5, <2>1, LinksOfClose, PortsOfClose DEF CompleteInv
  <2>3. /\ b = First => prev[b] = ListHead /\ next[b] = Second
        /\ b # First => b = Second /\ prev[b] = First /\ next[b] = ListHead /\ First \in Ports
    BY <1>0, <2>2, WalkOfShape DEF Listable, Second
  <2>4. ~stray'
    BY <1>5, <2>3, LinksOfClose
  <2>5. /\ b = First => First' = Second /\ Second' = ListHead
        /\ b # First => First' = First /\ (b = Second => Second' = ListHead)
    BY <1>5, <2>4, ClosedShape
  <2>6. prev'[ListHead] = IF ListHead = next[b] THEN prev[b] ELSE prev[ListHead]
    BY <1>0, <1>5, <2>2, LinksOfClose
  <2>7. prev'[ListHead] = First' /\ Second' = ListHead
    <3>1. CASE b = First
      BY <2>2, <2>3, <2>5, <2>6, <3>1
    <3>2. CASE b # First
      BY <2>2, <2>3, <2>5, <2>6, <3>2
    <3> QED
      BY <3>1, <3>2
  <2>8. Ports' \subseteq {First', Second'}
    BY <2>2, <2>3, <2>5
  <2> QED
    BY <2>1, <2>2, <2>4, <2>7, <2>8 DEF CompleteInv
<1>6. ASSUME NEW name \in Names, OpenRefused(name) PROVE CompleteInv'
  <2>1. UNCHANGED <<inited, next, prev, held, crowded>> /\ Ports' = Ports /\ ~stray
        /\ stray' = (inited /\ ~ Listed \subseteq Ports)
    BY <1>6 DEF OpenRefused, Ports
  <2>2. inited => Listed \subseteq Ports
    BY <2>1, ListedIs DEF ShapeInv
  <2> QED
    BY <1>3, <2>1, <2>2
<1>7. ASSUME NEW name \in Names, NEW d \in Descriptors, OpenFailed(name, d) PROVE CompleteInv'
  <2>1. UNCHANGED <<inited, next, prev, held, crowded>> /\ Ports' = Ports /\ ~stray /\ inited
        /\ stray' = ~ Listed \subseteq Ports
    BY <1>7 DEF OpenFailed, Ports
  <2>2. Listed \subseteq Ports
    BY <2>1, ListedIs DEF ShapeInv
  <2> QED
    BY <1>3, <2>1, <2>2
<1>8. ASSUME NEW b \in Blocks, NEW c \in Configs, ConfigSet(b, c) PROVE CompleteInv'
  <2>1. UNCHANGED <<inited, next, prev, held, crowded, stray>> /\ Ports' = Ports
    BY <1>8, PortsOfConfigSet DEF ConfigSet
  <2> QED
    BY <1>3, <2>1
<1>9. ASSUME NEW b \in Blocks, ConfigRefused(b) PROVE CompleteInv'
  <2>1. UNCHANGED <<inited, next, prev, held, crowded, stray>> /\ Ports' = Ports
    BY <1>9 DEF ConfigRefused, Ports
  <2> QED
    BY <1>3, <2>1
<1>10. CASE UNCHANGED vars
  <2>1. UNCHANGED <<inited, next, prev, held, crowded, stray>> /\ Ports' = Ports
    BY <1>10 DEF vars, Ports
  <2> QED
    BY <1>3, <2>1
<1> QED
  BY <1>1, <1>2, <1>4, <1>5, <1>6, <1>7, <1>8, <1>9, <1>10, StepCases, Zenon

-----------------------------------------------------------------------------
(* Descriptors and devices.                                                *)

OwnInv ==
  \A p \in Ports : /\ file[port[p].fd] = port[p].name
                   /\ \A q \in Ports \ {p} : port[q].fd # port[p].fd

LEMMA PortTyped ==
  ASSUME TypesInv, NEW p \in Ports
  PROVE  port[p].name \in Names /\ port[p].fd \in Descriptors /\ port[p].cfg \in AllConfigs
<1>1. port[p] \in PortRecord
  BY DEF TypesInv, Ports
<1> QED
  BY <1>1 DEF PortRecord

(* Every port has a descriptor of its own, whatever became of the list.    *)
LEMMA OwnStep ==
  ASSUME BaseInv, OwnInv, [Next]_vars
  PROVE  OwnInv'
<1> USE DEF BaseInv
<1>1. CASE UNCHANGED <<port, file>>
  BY <1>1 DEF OwnInv, Ports
<1>2. CASE comport_module_uninit
  <2> DEFINE gone == Ports \cap {First, Second}
  <2>1. /\ Ports' = Ports \ gone
        /\ \A p \in Ports' : port'[p] = port[p]
        /\ file' = [d \in Descriptors |->
                      IF \E b \in gone : port[b].fd = d THEN Closed ELSE file[d]]
    BY <1>2, PortsOfUninit
  <2> HIDE DEF gone
  <2>2. \A p \in Ports' : file'[port[p].fd] = file[port[p].fd]
    <3> TAKE p \in Ports'
    <3>1. p \in Ports /\ port[p].fd \in Descriptors
      BY <2>1, PortTyped
    <3>2. ~ \E b \in gone : port[b].fd = port[p].fd
      BY <2>1, <3>1 DEF OwnInv, gone
    <3> QED
      BY <2>1, <3>1, <3>2
  <2> QED
    BY <2>1, <2>2 DEF OwnInv
<1>3. CASE \E name \in Names, d \in Descriptors :
             /\ file[d] = Closed /\ file' = [file EXCEPT ![d] = name] /\ port' = port
  <2>1. PICK name \in Names, d \in Descriptors :
             /\ file[d] = Closed /\ file' = [file EXCEPT ![d] = name] /\ port' = port
    BY <1>3
  <2>2. \A p \in Ports : file'[port[p].fd] = file[port[p].fd]
    BY <2>1, PortTyped, ComportAssumption DEF OwnInv, TypesInv
  <2> QED
    BY <2>1, <2>2 DEF OwnInv, Ports
<1>4. ASSUME NEW name \in Names, NEW d \in Descriptors, NEW b \in Blocks, Opened(name, d, b)
      PROVE  OwnInv'
  <2>0. /\ Ports' = Ports \cup {b} /\ b \notin Ports
        /\ port'[b] = [name |-> name, fd |-> d, cfg |-> DefaultConfig]
        /\ \A p \in Ports : port'[p] = port[p]
    BY <1>4, PortsOfOpened
  <2>1. port'[b].name = name /\ port'[b].fd = d
    BY <2>0
  <2>2. file[d] = Closed /\ file' = [file EXCEPT ![d] = name]
    BY <1>4 DEF Opened
  <2>3. \A p \in Ports : port[p].fd # d /\ file'[port[p].fd] = file[port[p].fd]
    BY <2>2, PortTyped, ComportAssumption DEF OwnInv, TypesInv
  <2>4. file'[d] = name
    BY <2>2 DEF TypesInv
  <2> QED
    BY <2>0, <2>1, <2>3, <2>4 DEF OwnInv
<1>5. ASSUME NEW b \in Blocks, comport_close(b) PROVE OwnInv'
  <2>1. Ports' = Ports \ {b} /\ b \in Ports /\ \A p \in Ports \ {b} : port'[p] = port[p]
    BY <1>5, PortsOfClose
  <2>2. file' = [file EXCEPT ![port[b].fd] = Closed]
    BY <1>5 DEF comport_close
  <2>3. \A p \in Ports \ {b} : file'[port[p].fd] = file[port[p].fd]
    BY <2>1, <2>2, PortTyped DEF OwnInv, TypesInv
  <2> QED
    BY <2>1, <2>3 DEF OwnInv
<1>6. ASSUME NEW b \in Blocks, NEW c \in Configs, ConfigSet(b, c) PROVE OwnInv'
  <2>1. /\ Ports' = Ports
        /\ \A p \in Ports : port'[p].fd = port[p].fd /\ port'[p].name = port[p].name
    BY <1>6, PortsOfConfigSet
  <2>2. file' = file
    BY <1>6 DEF ConfigSet
  <2> QED
    BY <2>1, <2>2 DEF OwnInv
<1>7. ASSUME NEW name \in Names, NEW d \in Descriptors, OpenFailed(name, d) PROVE OwnInv'
  <2>1. file[d] = Closed /\ file' = [file EXCEPT ![d] = name] /\ port' = port
    BY <1>7 DEF OpenFailed
  <2> QED
    BY <1>3, <2>1
<1> QED
  BY <1>1, <1>2, <1>4, <1>5, <1>6, <1>7, StepCases, Zenon
     DEF comport_module_init, OpenRefused, ConfigRefused, vars
(* What follows for the search of comport_open. *)
LEMMA AllListed ==
  ASSUME BaseInv, CompleteInv, inited, ~crowded
  PROVE  Listable /\ Listed = Ports /\ held = Ports
<1>1. Listable /\ Ports \subseteq {First, Second} /\ held = Ports
  BY DEF BaseInv, ShapeInv, CompleteInv
<1>2. Listed = {First, Second} \ {ListHead} /\ Listed \subseteq Ports
  BY <1>1, ListedIs
<1>3. ListHead \notin Ports
  BY PortsAreBlocks, Names_Nodes
<1> QED
  BY <1>1, <1>2, <1>3

LEMMA SearchFinds ==
  ASSUME BaseInv, CompleteInv, inited, ~crowded, NEW name, ~Busy(name),
         name \notin Exact \cup Longer
  PROVE  \A p \in Ports : port[p].name # name
<1>1. \A p \in Ports : ~SameName(p, name)
  BY AllListed DEF Busy
<1> QED
  BY <1>1 DEF SameName

LEMMA HolderStep ==
  ASSUME BaseInv, CompleteInv, OneHolderPerDevice, [Next]_vars
  PROVE  OneHolderPerDevice'
<1> USE DEF BaseInv
<1>1. CASE /\ Ports' \subseteq Ports /\ crowded' = crowded
           /\ \A p \in Ports' : port'[p].name = port[p].name
  BY <1>1 DEF OneHolderPerDevice
<1>2. CASE UNCHANGED <<port, crowded>>
  BY <1>1, <1>2 DEF Ports
<1>3. CASE comport_module_uninit
  <2>1. Ports' = Ports \ {First, Second} /\ \A p \in Ports' : port'[p] = port[p]
    BY <1>3, PortsOfUninit
  <2>2. crowded' = crowded
    BY <1>3 DEF comport_module_uninit
  <2> QED
    BY <1>1, <2>1, <2>2
<1>4. ASSUME NEW name \in Names, NEW d \in Descriptors, NEW b \in Blocks, Opened(name, d, b)
      PROVE  OneHolderPerDevice'
  <2> SUFFICES ASSUME ~crowded' PROVE OneHolderPerDevice'
    BY DEF OneHolderPerDevice
  <2>1. ~crowded /\ inited /\ ~Busy(name)
    BY <1>4 DEF Opened
  <2>2. name \notin Exact \cup Longer => \A p \in Ports : port[p].name # name
    BY <2>1, SearchFinds
  <2>3. /\ Ports' = Ports \cup {b}
        /\ port'[b] = [name |-> name, fd |-> d, cfg |-> DefaultConfig]
        /\ \A p \in Ports : port'[p] = port[p]
    BY <1>4, PortsOfOpened
  <2>4. port'[b].name = name
    BY <2>3
  <2> QED
    BY <2>1, <2>2, <2>3, <2>4 DEF OneHolderPerDevice
<1>5. ASSUME NEW b \in Blocks, comport_close(b) PROVE OneHolderPerDevice'
  <2>1. Ports' = Ports \ {b} /\ \A p \in Ports \ {b} : port'[p] = port[p]
    BY <1>5, PortsOfClose
  <2>2. crowded' = crowded
    BY <1>5 DEF comport_close
  <2> QED
    BY <1>1, <2>1, <2>2
<1>6. ASSUME NEW b \in Blocks, NEW c \in Configs, ConfigSet(b, c) PROVE OneHolderPerDevice'
  <2>1. Ports' = Ports /\ \A p \in Ports : port'[p].name = port[p].name
    BY <1>6, PortsOfConfigSet
  <2>2. crowded' = crowded
    BY <1>6 DEF ConfigSet
  <2> QED
    BY <1>1, <2>1, <2>2
<1> QED
  BY <1>2, <1>3, <1>4, <1>5, <1>6, StepCases, Zenon
     DEF comport_module_init, OpenRefused, OpenFailed, ConfigRefused, vars

-----------------------------------------------------------------------------
(* Descriptors that belong to no port.                                     *)

Unowned == {d \in Descriptors : file[d] # Closed} \ {port[b].fd : b \in Ports}

LeakInv == Cardinality(Unowned) = failedOpens

LEMMA UnownedFinite == IsFiniteSet(Unowned)
<1>1. Unowned \in SUBSET Descriptors /\ IsFiniteSet(Descriptors)
  BY ComportAssumption DEF Unowned
<1> QED
  BY <1>1, FS_Subset, Zenon

(* Every call but an open that fails leaves the same descriptors without a *)
(* port: what it closes or frees, it closes and frees together.            *)
LEMMA LeakStep ==
  ASSUME BaseInv, OwnInv, LeakInv, [Next]_vars
  PROVE  LeakInv'
<1> USE DEF BaseInv
<1>0. ASSUME Unowned' = Unowned, failedOpens' = failedOpens PROVE LeakInv'
  BY <1>0 DEF LeakInv
<1>1. CASE UNCHANGED <<file, port, failedOpens>>
  <2>1. Unowned' = Unowned
    BY <1>1 DEF Unowned, Ports
  <2> QED
    BY <1>0, <1>1, <2>1
<1>2. CASE comport_module_uninit
  <2> DEFINE gone == Ports \cap {First, Second}
  <2>1. /\ Ports' = Ports \ gone
        /\ \A p \in Ports \ gone : port'[p] = port[p]
        /\ file' = [d \in Descriptors |->
                      IF \E b \in gone : port[b].fd = d THEN Closed ELSE file[d]]
    BY <1>2, PortsOfUninit
  <2>2. gone \subseteq Ports
    OBVIOUS
  <2> HIDE DEF gone
  <2>3. {port'[p].fd : p \in Ports'} = {port[p].fd : p \in Ports \ gone}
    BY <2>1
  <2>4. \A d \in Descriptors : d \in Unowned' <=> d \in Unowned
    <3> TAKE d \in Descriptors
    <3>1. CASE \E b \in gone : port[b].fd = d
      <4>1. file'[d] = Closed
        BY <2>1, <3>1
      <4> QED
        BY <2>2, <3>1, <4>1 DEF Unowned
    <3>2. CASE ~ \E b \in gone : port[b].fd = d
      <4>1. file'[d] = file[d]
        BY <2>1, <3>2
      <4>2. d \in {port[p].fd : p \in Ports} <=> d \in {port[p].fd : p \in Ports \ gone}
        BY <3>2
      <4> QED
        BY <2>3, <4>1, <4>2 DEF Unowned
    <3> QED
      BY <3>1, <3>2
  <2>5. Unowned' = Unowned
    BY <2>4 DEF Unowned
  <2>6. failedOpens' = failedOpens
    BY <1>2 DEF comport_module_uninit, fails
  <2> QED
    BY <1>0, <2>5, <2>6
<1>3. ASSUME NEW name \in Names, NEW d \in Descriptors, NEW b \in Blocks, Opened(name, d, b)
      PROVE  LeakInv'
  <2>1. /\ Ports' = Ports \cup {b}
        /\ port'[b] = [name |-> name, fd |-> d, cfg |-> DefaultConfig]
        /\ \A p \in Ports : port'[p] = port[p]
    BY <1>3, PortsOfOpened
  <2>2. port'[b].fd = d
    BY <2>1
  <2>3. {port'[p].fd : p \in Ports'} = {port[p].fd : p \in Ports} \cup {d}
    BY <2>1, <2>2
  <2>4. file[d] = Closed /\ file' = [file EXCEPT ![d] = name] /\ failedOpens' = failedOpens
    BY <1>3 DEF Opened, fails
  <2>5. \A e \in Descriptors \ {d} : file'[e] = file[e]
    BY <2>4 DEF TypesInv
  <2>6. Unowned' = Unowned
    BY <2>3, <2>4, <2>5 DEF Unowned
  <2> QED
    BY <1>0, <2>4, <2>6
<1>4. ASSUME NEW name \in Names, NEW d \in Descriptors, OpenFailed(name, d)
      PROVE  LeakInv'
  <2>1. /\ file[d] = Closed /\ file' = [file EXCEPT ![d] = name]
        /\ port' = port /\ failedOpens' = failedOpens + 1
    BY <1>4 DEF OpenFailed
  <2>2. d \notin {port[p].fd : p \in Ports}
    BY <2>1, PortTyped, ComportAssumption DEF OwnInv
  <2>3. file'[d] = name /\ name # Closed /\ \A e \in Descriptors \ {d} : file'[e] = file[e]
    BY <2>1, ComportAssumption DEF TypesInv
  <2>4. {port'[p].fd : p \in Ports'} = {port[p].fd : p \in Ports}
    BY <2>1 DEF Ports
  <2>5. Unowned' = Unowned \cup {d} /\ d \notin Unowned
    BY <2>1, <2>2, <2>3, <2>4 DEF Unowned
  <2>6. Cardinality(Unowned \cup {d}) = Cardinality(Unowned) + 1
    BY <2>5, UnownedFinite, FS_AddElement, Zenon
  <2> QED
    BY <2>1, <2>5, <2>6 DEF LeakInv
<1>5. ASSUME NEW b \in Blocks, comport_close(b) PROVE LeakInv'
  <2>1. b \in Ports /\ Ports' = Ports \ {b} /\ \A p \in Ports \ {b} : port'[p] = port[p]
    BY <1>5, PortsOfClose
  <2>2. file' = [file EXCEPT ![port[b].fd] = Closed] /\ failedOpens' = failedOpens
    BY <1>5 DEF comport_close, fails
  <2>3. port[b].fd \in Descriptors
    BY <2>1, PortTyped
  <2>4. /\ file'[port[b].fd] = Closed
        /\ \A e \in Descriptors \ {port[b].fd} : file'[e] = file[e]
    BY <2>2, <2>3 DEF TypesInv
  <2>5. {port'[p].fd : p \in Ports'} = {port[p].fd : p \in Ports \ {b}}
    BY <2>1
  <2>6. {port[p].fd : p \in Ports} = {port[p].fd : p \in Ports \ {b}} \cup {port[b].fd}
    BY <2>1
  <2>7. Unowned' = Unowned
    BY <2>4, <2>5, <2>6 DEF Unowned
  <2> QED
    BY <1>0, <2>2, <2>7
<1>6. ASSUME NEW b \in Blocks, NEW c \in Configs, ConfigSet(b, c) PROVE LeakInv'
  <2>1. Ports' = Ports /\ \A p \in Ports : port'[p].fd = port[p].fd
    BY <1>6, PortsOfConfigSet
  <2>2. file' = file /\ failedOpens' = failedOpens
    BY <1>6 DEF ConfigSet, fails
  <2>3. Unowned' = Unowned
    BY <2>1, <2>2 DEF Unowned
  <2> QED
    BY <1>0, <2>2, <2>3
<1>7. ASSUME NEW b \in Blocks, ConfigRefused(b) PROVE LeakInv'
  BY <1>1, <1>7 DEF ConfigRefused
<1> QED
  BY <1>1, <1>2, <1>3, <1>4, <1>5, <1>6, <1>7, StepCases, Zenon
     DEF comport_module_init, OpenRefused, vars, fails
-----------------------------------------------------------------------------
(* The settings of a line.                                                 *)

Carries(l, c) ==
  /\ l.speed = c.baud
  /\ c.data \in 5..8 => l.csize = c.data
  /\ l.parenb = (c.parity # "none")
  /\ l.parenb => l.parodd = (c.parity = "odd")
  /\ c.stop = 1 => ~l.cstopb

(* What comport_set_dev_attr writes carries the configuration, whatever    *)
(* the line was set to before.                                             *)
LEMMA NewLineCarries ==
  ASSUME NEW l, NEW c \in AllConfigs
  PROVE  Carries(NewLine(l, c), c)
<1>1. /\ NewLine(l, c).speed = c.baud
      /\ NewLine(l, c).csize = IF c.data < 5 THEN 5 ELSE c.data
      /\ NewLine(l, c).parenb = (c.parity # "none")
      /\ NewLine(l, c).parodd = (\/ c.parity = "odd"
                                 \/ c.parity = "none" /\ (l.parodd \/ c.stop = 2))
      /\ NewLine(l, c).cstopb = (c.stop = 2 /\ l.cstopb)
  BY DEF NewLine
<1>2. c.data \in 5..8 => NewLine(l, c).csize = c.data
  BY <1>1
<1>3. NewLine(l, c).parenb => NewLine(l, c).parodd = (c.parity = "odd")
  BY <1>1
<1>4. c.stop = 1 => ~NewLine(l, c).cstopb
  <2>1. c.stop = 1 => ~(c.stop = 2)
    OBVIOUS
  <2> QED
    BY <1>1, <2>1, Zenon
<1> QED
  BY <1>1, <1>2, <1>3, <1>4, Zenon DEF Carries

LineInv ==
  ~crowded => \A b \in held : port[b].name \notin Exact \cup Longer =>
                                Carries(line[port[b].name], port[b].cfg)

LEMMA LineFollowsIs == LineInv <=> LineFollowsConfig
  BY DEF LineFollowsConfig, LineInv, Carries

LEMMA LineStep ==
  ASSUME BaseInv, CompleteInv, OneHolderPerDevice, LineInv, [Next]_vars
  PROVE  LineInv'
<1> USE DEF BaseInv
<1>0. held \subseteq Ports /\ (~crowded => held = Ports)
  BY DEF HeldInv, CompleteInv
<1>1. CASE UNCHANGED <<held, port, line, crowded>>
  BY <1>1 DEF LineInv
<1>2. CASE comport_module_uninit
  BY <1>2 DEF comport_module_uninit, LineInv
<1>3. ASSUME NEW name \in Names, NEW d \in Descriptors, NEW b \in Blocks, Opened(name, d, b)
      PROVE  LineInv'
  <2> SUFFICES ASSUME ~crowded', NEW p \in held', port'[p].name \notin Exact \cup Longer
               PROVE  Carries(line'[port'[p].name], port'[p].cfg)
    BY DEF LineInv
  <2>1. ~crowded /\ inited /\ ~Busy(name) /\ held' = held \cup {b}
        /\ line' = [line EXCEPT ![name] = NewLine(line[name], DefaultConfig)]
    BY <1>3 DEF Opened
  <2>2. /\ port'[b] = [name |-> name, fd |-> d, cfg |-> DefaultConfig]
        /\ \A q \in Ports : port'[q] = port[q]
    BY <1>3, PortsOfOpened
  <2>3. CASE p = b
    <3>1. port'[p].name = name /\ port'[p].cfg = DefaultConfig
      BY <2>2, <2>3
    <3>2. line'[name] = NewLine(line[name], DefaultConfig)
      BY <2>1 DEF TypesInv
    <3> QED
      BY <3>1, <3>2, NewLineCarries, DefaultIsConfig
  <2>4. CASE p # b
    <3>1. p \in held /\ p \in Ports /\ port'[p] = port[p]
      BY <1>0, <2>1, <2>2, <2>4
    <3>2. port[p].name # name
      BY <2>1, <3>1, SearchFinds
    <3>3. line'[port[p].name] = line[port[p].name]
      BY <2>1, <3>1, <3>2, PortTyped DEF TypesInv
    <3> QED
      BY <2>1, <3>1, <3>3 DEF LineInv
  <2> QED
    BY <2>3, <2>4
<1>4. ASSUME NEW b \in Blocks, comport_close(b) PROVE LineInv'
  <2>1. \A p \in Ports \ {b} : port'[p] = port[p]
    BY <1>4, PortsOfClose
  <2>2. held' = held \ {b} /\ line' = line /\ crowded' = crowded
    BY <1>4 DEF comport_close
  <2> QED
    BY <1>0, <2>1, <2>2 DEF LineInv
<1>5. ASSUME NEW b \in Ports, NEW k \in AllConfigs, ~crowded, ~crowded', held' = held,
             line' = [line EXCEPT ![port[b].name] = NewLine(line[port[b].name], k)],
             port'[b].name = port[b].name, port'[b].cfg = k,
             \A q \in Ports \ {b} : port'[q] = port[q]
      PROVE  LineInv'
  <2> SUFFICES ASSUME NEW p \in held', port'[p].name \notin Exact \cup Longer
               PROVE  Carries(line'[port'[p].name], port'[p].cfg)
    BY DEF LineInv
  <2>1. p \in held /\ p \in Ports
    BY <1>0, <1>5
  <2>2. CASE p = b
    <3>1. line'[port[b].name] = NewLine(line[port[b].name], k)
      BY <1>5, PortTyped DEF TypesInv
    <3> QED
      BY <1>5, <2>2, <3>1, NewLineCarries
  <2>3. CASE p # b
    <3>1. port'[p] = port[p]
      BY <1>5, <2>1, <2>3
    <3>2. port[p].name # port[b].name
      BY <1>5, <2>1, <2>3, <3>1 DEF OneHolderPerDevice
    <3>3. line'[port[p].name] = line[port[p].name]
      BY <1>5, <2>1, <3>2, PortTyped DEF TypesInv
    <3> QED
      BY <1>5, <2>1, <3>1, <3>3 DEF LineInv
  <2> QED
    BY <2>2, <2>3
<1>6. ASSUME NEW b \in Blocks, NEW c \in Configs, ConfigSet(b, c) PROVE LineInv'
  <2>1. /\ b \in Ports /\ port'[b].name = port[b].name /\ port'[b].cfg = c
        /\ \A p \in Ports \ {b} : port'[p] = port[p]
    BY <1>6, PortsOfConfigSet
  <2>2. /\ held' = held /\ crowded' = crowded
        /\ line' = [line EXCEPT ![port[b].name] = NewLine(line[port[b].name], c)]
    BY <1>6 DEF ConfigSet
  <2>3. c \in AllConfigs
    BY ComportAssumption
  <2>4. CASE ~crowded
    BY <1>5, <2>1, <2>2, <2>3, <2>4
  <2>5. CASE crowded
    BY <2>2, <2>5 DEF LineInv
  <2> QED
    BY <2>4, <2>5
<1>7. ASSUME NEW b \in Blocks, ConfigRefused(b) PROVE LineInv'
  <2>1. /\ b \in Ports /\ UNCHANGED <<port, held, crowded>>
        /\ \/ line' = line
           \/ line' = [line EXCEPT ![port[b].name] = NewLine(line[port[b].name], port[b].cfg)]
    BY <1>0, <1>7 DEF ConfigRefused
  <2>2. port[b].cfg \in AllConfigs
    BY <2>1, PortTyped
  <2>3. CASE line' = line
    BY <1>1, <2>1, <2>3
  <2>4. CASE /\ line' = [line EXCEPT ![port[b].name] = NewLine(line[port[b].name], port[b].cfg)]
             /\ ~crowded
    BY <1>5, <2>1, <2>2, <2>4
  <2>5. CASE crowded
    BY <2>1, <2>5 DEF LineInv
  <2> QED
    BY <2>1, <2>3, <2>4, <2>5
<1> QED
  BY <1>1, <1>2, <1>3, <1>4, <1>6, <1>7, StepCases, Zenon
     DEF comport_module_init, OpenRefused, OpenFailed, vars

-----------------------------------------------------------------------------
(* The results.                                                            *)

ComportInv == /\ BaseInv
              /\ CompleteInv
              /\ OwnInv
              /\ OneHolderPerDevice
              /\ LeakInv
              /\ LineInv

LEMMA ComportInit == Init => ComportInv
<1> SUFFICES ASSUME Init PROVE ComportInv
  OBVIOUS
<1>1. BaseInv
  BY InitBase DEF BaseInv
<1>2. Ports = {} /\ held = {} /\ ~inited /\ ~stray /\ failedOpens = 0
      /\ \A d \in Descriptors : file[d] = Closed
  BY DEF Init, Ports
<1>3. CompleteInv /\ OwnInv /\ OneHolderPerDevice /\ LineInv
  BY <1>2 DEF CompleteInv, OwnInv, OneHolderPerDevice, LineInv
<1>4. Unowned = {}
  BY <1>2 DEF Unowned
<1>5. Cardinality(Unowned) = 0
  BY <1>4, FS_EmptySet
<1>6. LeakInv
  BY <1>2, <1>5 DEF LeakInv
<1> QED
  BY <1>1, <1>3, <1>6 DEF ComportInv

LEMMA ComportStep == ComportInv /\ [Next]_vars => ComportInv'
<1> SUFFICES ASSUME ComportInv, [Next]_vars PROVE ComportInv'
  OBVIOUS
<1>1. /\ BaseInv /\ TypesInv /\ FlagsType /\ HeldInv /\ ShapeInv
      /\ CompleteInv /\ OwnInv /\ OneHolderPerDevice /\ LeakInv /\ LineInv
  BY DEF ComportInv, BaseInv
<1>2. BaseInv'
  BY <1>1, TypesStep, HeldStep, ShapeStep, Zenon DEF BaseInv
<1>3. CompleteInv' /\ OwnInv' /\ OneHolderPerDevice'
  BY <1>1, CompleteStep, OwnStep, HolderStep, Zenon
<1>4. LeakInv' /\ LineInv'
  BY <1>1, LeakStep, LineStep, Zenon
<1> QED
  BY <1>2, <1>3, <1>4, Zenon DEF ComportInv

THEOREM ComportInvariance == Spec => []ComportInv
<1>1. Init => ComportInv
  BY ComportInit
<1>2. ComportInv /\ [Next]_vars => ComportInv'
  BY ComportStep
<1> QED
  BY <1>1, <1>2, PTL DEF Spec

(* comport.c: whatever calls are made in whatever order, every variable    *)
(* keeps its type; a port always is a whole comport_data_t.                *)
THEOREM PortsKeepTheirType == Spec => []TypeOK
<1>1. ComportInv => TypeOK
  <2> SUFFICES ASSUME ComportInv PROVE TypeOK
    OBVIOUS
  <2>1. TypesInv /\ FlagsType /\ HeldInv
    BY DEF ComportInv, BaseInv
  <2>2. held \subseteq Blocks /\ DOMAIN port = Blocks
    BY <2>1, PortsAreBlocks DEF TypesInv, HeldInv
  <2>3. \A b \in Ports : /\ port[b].name \in Names
                         /\ port[b].fd \in Descriptors
                         /\ port[b].cfg \in AllConfigs
    BY <2>1, PortTyped
  <2> QED
    BY <2>1, <2>2, <2>3 DEF TypeOK, TypesInv, LinksType, FlagsType
<1> QED
  BY <1>1, ComportInvariance, PTL

(* comport_list_add_to_tail, comport_list_del: until a port is added to a  *)
(* list of two, the walk comes to exactly the open ports, and the links    *)
(* back are the inverse of the links forward.                              *)
THEOREM SmallListIsWhole == Spec => []SmallListIsThePorts
<1>1. ComportInv => SmallListIsThePorts
  <2> SUFFICES ASSUME ComportInv, inited, ~crowded PROVE ListIsThePorts
    BY DEF SmallListIsThePorts
  <2>1. Listable /\ Listed = Ports /\ held = Ports
    BY AllListed DEF ComportInv
  <2>2. /\ Ports \subseteq {First, Second}
        /\ prev[ListHead] = IF Second = ListHead THEN First ELSE Second
    BY DEF ComportInv, CompleteInv
  <2>3. /\ Second \in Ports \cup {ListHead} /\ First \in Ports \cup {ListHead}
        /\ First = ListHead => Second = ListHead
        /\ Second # ListHead => First \in Ports /\ Second # First /\ next[Second] = ListHead
        /\ Second # ListHead => prev[Second] = First
        /\ First # ListHead => prev[First] = ListHead
        /\ next[ListHead] = First /\ next[First] = Second /\ ListHead \notin Ports
    BY <2>1, WalkOfShape, PortsAreBlocks, Names_Nodes DEF Listable, First, Second
  <2>4. \A n \in {ListHead, First, Second} : prev[next[n]] = n /\ next[prev[n]] = n
    <3>1. CASE First = ListHead
      BY <2>2, <2>3, <3>1
    <3>2. CASE First # ListHead /\ Second = ListHead
      BY <2>2, <2>3, <3>2
    <3>3. CASE Second # ListHead
      BY <2>2, <2>3, <3>3
    <3> QED
      BY <3>1, <3>2, <3>3
  <2> QED
    BY <2>1, <2>2, <2>4 DEF ListIsThePorts
<1> QED
  BY <1>1, ComportInvariance, PTL

(* Until that happens, no call touches memory that was freed.              *)
THEOREM NothingFreedIsTouched == Spec => []NoStrayAccess
<1>1. ComportInv => NoStrayAccess
  BY DEF ComportInv, CompleteInv, NoStrayAccess
<1> QED
  BY <1>1, ComportInvariance, PTL

(* com_list_for_each_entry: also on a list that lost ports, the search of  *)
(* comport_open ends at the head and sees open ports only.                 *)
THEOREM SearchEnds == Spec => []WalkReturns
<1>1. ComportInv => WalkReturns
  BY ListedIs DEF ComportInv, BaseInv, ShapeInv, WalkReturns
<1> QED
  BY <1>1, ComportInvariance, PTL

(* comport_open: two ports of one device, of a name the search can tell,   *)
(* are never open at once while the list is whole.                         *)
THEOREM DevicesAreNotShared == Spec => []OneHolderPerDevice
<1>1. ComportInv => OneHolderPerDevice
  BY DEF ComportInv
<1> QED
  BY <1>1, ComportInvariance, PTL

(* comport_open, comport_close, comport_module_uninit: every open port has *)
(* a descriptor of its own that is open on its device, also when the list  *)
(* has lost the port.                                                      *)
THEOREM DescriptorsAreOwned == Spec => []OwnDescriptor
<1>1. ComportInv => OwnDescriptor
  BY DEF ComportInv, OwnInv, OwnDescriptor
<1> QED
  BY <1>1, ComportInvariance, PTL

(* comport_open: the descriptors that belong to no port are as many as the *)
(* opens whose attributes were refused, whatever calls were made and       *)
(* whether or not ports fell off the list; and until a port is added to a  *)
(* list of two, every port there is has a caller who can close it.         *)
THEOREM LeaksAreFailedOpens == Spec => []OnlyFailedOpensLeak
<1>1. ComportInv => OnlyFailedOpensLeak
  BY DEF ComportInv, CompleteInv, LeakInv, Unowned, OnlyFailedOpensLeak
<1> QED
  BY <1>1, ComportInvariance, PTL

(* comport_set_cfg: until a port is added to a list of two, the device of  *)
(* a port with a name shorter than m_name is set to the speed, data bits,  *)
(* parity and single stop bit the port's m_cfg says, also after the old    *)
(* configuration was put back or the line refused that as well.  Nothing   *)
(* is said of two stop bits, which comport.c:127 does not set.             *)
THEOREM LinesFollow == Spec => []LineFollowsConfig
<1>1. ComportInv => LineFollowsConfig
  BY LineFollowsIs DEF ComportInv
<1> QED
  BY <1>1, ComportInvariance, PTL
=============================================================================
