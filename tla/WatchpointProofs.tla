--------------------------- MODULE WatchpointProofs ---------------------------
(***************************************************************************)
(* Proofs about Watchpoint, for every size of the pool and every set of    *)
(* expressions and values.                                                 *)
(***************************************************************************)
EXTENDS Watchpoint, Integers, WellFoundedInduction, TLAPS

(* The two lists are the two parts of one sequence of all nodes: the first *)
(* m of o are in use, newest first, and the others are free.               *)
Order ==
  {o \in [Node -> Node] :
     /\ \A i, j \in Node : o[i] = o[j] => i = j
     /\ \A n \in Node : \E i \in Node : o[i] = n}

Linked(o, m) ==
  /\ head = IF m = 0 THEN NULL ELSE o[0]
  /\ free_ = IF m = NR_WP THEN NULL ELSE o[m]
  /\ \A i \in Node :
       wp[o[i]].next = IF i = m - 1 \/ i = NR_WP - 1 THEN NULL ELSE o[i + 1]
  /\ \A i \in 0 .. m - 1 : wp[o[i]].prev = IF i = 0 THEN NULL ELSE o[i - 1]

InOrder == \E m \in 0 .. NR_WP, o \in Order : Linked(o, m)

(* While the program may still run, every watchpoint shows the value its   *)
(* expression has now.                                                     *)
ShowNow ==
  state \in {"STOP", "RUNNING"} /\ ~bare =>
    \A w \in Watched : wp[w].expr # Bad /\ wp[w].val = env[wp[w].expr]

-----------------------------------------------------------------------------
(* Every non-empty set of natural numbers has a least element: the form in *)
(* which induction is used below.                                          *)
LEMMA Least ==
  ASSUME NEW T \in SUBSET Nat, T # {}
  PROVE  \E n \in T : \A m \in T : n <= m
<1>1. IsWellFoundedOn(OpToRel(<, Nat), Nat)
  BY NatLessThanWellFounded
<1>2. PICK n \in T : \A m \in T : ~(<<m, n>> \in OpToRel(<, Nat))
  BY <1>1, WFMin
<1>3. \A m \in T : ~(m < n)
  BY <1>2 DEF OpToRel
<1>4. QED BY <1>3

LEMMA Nodes ==
  /\ NR_WP \in Nat /\ NR_WP >= 1 /\ 0 \in Node
  /\ \A n \in Node : n \in Int /\ 0 <= n /\ n < NR_WP /\ n # NULL
BY WatchpointAssumption DEF Node

(* The nodes from p on, for a list that is o from place a up to place b.   *)
Part(o, a, b) == [k \in 0 .. NR_WP |-> IF a + k < b THEN o[a + k] ELSE NULL]

LEMMA NthIs ==
  ASSUME NEW m \in 0 .. NR_WP, NEW o \in Order, Linked(o, m),
         NEW a, NEW b, (a = 0 /\ b = m) \/ (a = m /\ b = NR_WP),
         NEW p, p = IF a < b THEN o[a] ELSE NULL
  PROVE  Nth(p) = Part(o, a, b)
<1> DEFINE Body(g) ==
      [k \in 0 .. NR_WP |-> IF k = 0 THEN p
                            ELSE IF g[k - 1] = NULL THEN NULL ELSE wp[g[k - 1]].next]
<1>1. Nth(p) = CHOOSE g : g = Body(g)
  BY DEF Nth
<1>2. a \in 0 .. NR_WP /\ b \in 0 .. NR_WP /\ NR_WP \in Nat
  BY Nodes
<1>3. \A k \in 0 .. NR_WP : a + k < b => a + k \in Node /\ o[a + k] \in Node
  <2> SUFFICES ASSUME NEW k \in 0 .. NR_WP, a + k < b
               PROVE  a + k \in Node /\ o[a + k] \in Node
    OBVIOUS
  <2>1. a + k \in Node
    BY <1>2 DEF Node
  <2>2. QED BY <2>1 DEF Order
<1>4. ASSUME NEW k \in 1 .. NR_WP, a + (k - 1) < b
      PROVE  wp[o[a + (k - 1)]].next = IF a + k < b THEN o[a + k] ELSE NULL
  <2>1. a + (k - 1) \in Node
    BY <1>2, <1>3, <1>4
  <2>2. a + (k - 1) = m - 1 \/ a + (k - 1) = NR_WP - 1 <=> ~(a + k < b)
    BY <1>2, <1>4, <2>1, Nodes
  <2>3. (a + (k - 1)) + 1 = a + k
    BY <1>2
  <2>4. QED BY <2>1, <2>2, <2>3 DEF Linked
<1> DEFINE q == Part(o, a, b)
<1>5. /\ \A k \in 0 .. NR_WP : q[k] = IF a + k < b THEN o[a + k] ELSE NULL
      /\ q = [k \in 0 .. NR_WP |-> q[k]]
      /\ q[0] = p
  BY <1>2 DEF Part
<1> HIDE DEF q
<1>6. q = Body(q)
  <2> SUFFICES ASSUME NEW k \in 0 .. NR_WP
               PROVE  q[k] = IF k = 0 THEN p
                             ELSE IF q[k - 1] = NULL THEN NULL ELSE wp[q[k - 1]].next
    BY <1>5
  <2>1. CASE k = 0
    BY <1>5, <2>1
  <2>2. CASE k # 0
    <3>1. k - 1 \in 0 .. NR_WP /\ k \in 1 .. NR_WP
      BY <1>2, <2>2
    <3>2. q[k - 1] = IF a + (k - 1) < b THEN o[a + (k - 1)] ELSE NULL
      BY <1>5, <3>1
    <3>3. CASE a + (k - 1) < b
      <4>1. o[a + (k - 1)] # NULL
        BY <1>3, <3>1, <3>3, Nodes
      <4>2. QED BY <1>4, <1>5, <2>2, <3>1, <3>2, <3>3, <4>1
    <3>4. CASE ~(a + (k - 1) < b)
      <4>1. ~(a + k < b)
        BY <1>2, <3>4
      <4>2. QED BY <1>5, <2>2, <3>2, <3>4, <4>1
    <3>5. QED BY <3>3, <3>4
  <2>3. QED BY <2>1, <2>2
<1>7. Nth(p) = Body(Nth(p))
  <2> HIDE DEF Body
  <2>1. \E g : g = Body(g)
    BY <1>6
  <2>2. QED BY <1>1, <2>1
<1>8. PICK g : g = Nth(p)
  OBVIOUS
<1>9. g = Body(g)
  <2> HIDE DEF Body
  <2>1. QED BY <1>7, <1>8
<1> DEFINE T == {k \in 0 .. NR_WP : g[k] # q[k]}
<1>10. T = {}
  <2> SUFFICES ASSUME T # {} PROVE FALSE
    OBVIOUS
  <2>1. T \in SUBSET Nat
    BY <1>2
  <2>2. PICK k \in T : \A j \in T : k <= j
    <3> HIDE DEF T
    <3>1. QED BY <2>1, Least
  <2>3. k \in 0 .. NR_WP /\ g[k] # q[k]
    BY <2>2
  <2>4. k # 0
    <3>1. Body(g)[0] = p
      BY <1>2
    <3>2. g[0] = Body(g)[0]
      <4> HIDE DEF Body
      <4>1. QED BY <1>9
    <3>3. QED BY <1>5, <2>3, <3>1, <3>2
  <2>5. k - 1 \in 0 .. NR_WP /\ k - 1 \notin T
    BY <1>2, <2>1, <2>2, <2>3, <2>4
  <2>6. g[k - 1] = q[k - 1]
    BY <2>5
  <2>7. g[k] = Body(g)[k] /\ q[k] = Body(q)[k]
    <3> HIDE DEF Body
    <3>1. QED BY <1>6, <1>9
  <2>8. Body(g)[k] = Body(q)[k]
    BY <2>3, <2>4, <2>6
  <2>9. QED BY <2>3, <2>7, <2>8
<1>11. g = q
  <2>1. g = [k \in 0 .. NR_WP |-> g[k]]
    BY <1>9
  <2>2. \A k \in 0 .. NR_WP : g[k] = q[k]
    BY <1>10
  <2>3. QED BY <1>5, <2>1, <2>2
<1>12. QED BY <1>8, <1>11 DEF q

-----------------------------------------------------------------------------
(* What the operators of Watchpoint give when the lists are in order.      *)
Reads(o, m) ==
  /\ Watched = {o[i] : i \in 0 .. m - 1}
  /\ ListFrom(free_) = {o[i] : i \in m .. NR_WP - 1}
  /\ Nth(head)[NR_WP] = NULL /\ Nth(free_)[NR_WP] = NULL
  /\ Evaluated = {o[i] : i \in {i \in 0 .. m - 1 : \A j \in 0 .. i : wp[o[j]].expr # Bad}}

LEMMA PartRange ==
  ASSUME NEW o \in Order, NEW a \in 0 .. NR_WP, NEW b \in 0 .. NR_WP, a <= b
  PROVE  /\ {Part(o, a, b)[k] : k \in 0 .. NR_WP} \ {NULL} = {o[i] : i \in a .. b - 1}
         /\ b - a <= NR_WP /\ Part(o, a, b)[NR_WP] = NULL
<1>1. NR_WP \in Nat /\ NR_WP >= 1
  BY Nodes
<1>2. \A i \in a .. b - 1 : o[i] # NULL
  <2> SUFFICES ASSUME NEW i \in a .. b - 1 PROVE o[i] # NULL
    OBVIOUS
  <2>1. i \in Node
    BY <1>1 DEF Node
  <2>2. QED BY <2>1, Nodes DEF Order
<1>3. ASSUME NEW x \in {o[i] : i \in a .. b - 1}
      PROVE  x \in {Part(o, a, b)[k] : k \in 0 .. NR_WP} \ {NULL}
  <2>1. PICK i \in a .. b - 1 : x = o[i]
    OBVIOUS
  <2>2. i - a \in 0 .. NR_WP /\ a + (i - a) = i /\ i < b
    BY <1>1
  <2>3. Part(o, a, b)[i - a] = x
    BY <2>1, <2>2 DEF Part
  <2>4. QED BY <1>2, <2>1, <2>2, <2>3
<1>4. ASSUME NEW x \in {Part(o, a, b)[k] : k \in 0 .. NR_WP} \ {NULL}
      PROVE  x \in {o[i] : i \in a .. b - 1}
  <2>1. PICK k \in 0 .. NR_WP : x = Part(o, a, b)[k]
    OBVIOUS
  <2>2. x = o[a + k] /\ a + k < b
    BY <1>4, <2>1 DEF Part
  <2>3. a + k \in a .. b - 1
    BY <1>1, <2>2
  <2>4. QED BY <2>2, <2>3
<1>5. Part(o, a, b)[NR_WP] = NULL
  <2>1. ~(a + NR_WP < b)
    BY <1>1
  <2>2. QED BY <1>1, <2>1 DEF Part
<1>6. QED BY <1>1, <1>3, <1>4, <1>5

LEMMA InOrderReads == \A m \in 0 .. NR_WP, o \in Order : Linked(o, m) => Reads(o, m)
<1> SUFFICES ASSUME NEW m \in 0 .. NR_WP, NEW o \in Order, Linked(o, m)
             PROVE  Reads(o, m)
  OBVIOUS
<1>1. NR_WP \in Nat /\ NR_WP >= 1
  BY Nodes
<1>2. Nth(head) = Part(o, 0, m)
  <2>1. head = IF 0 < m THEN o[0] ELSE NULL
    BY <1>1 DEF Linked
  <2>2. QED BY <1>1, <2>1, NthIs
<1>3. Nth(free_) = Part(o, m, NR_WP)
  <2>1. free_ = IF m < NR_WP THEN o[m] ELSE NULL
    BY <1>1 DEF Linked
  <2>2. QED BY <1>1, <2>1, NthIs
<1>4. /\ Watched = {o[i] : i \in 0 .. m - 1} /\ Nth(head)[NR_WP] = NULL
      /\ ListFrom(free_) = {o[i] : i \in m .. NR_WP - 1} /\ Nth(free_)[NR_WP] = NULL
  <2>1. Watched = {Part(o, 0, m)[k] : k \in 0 .. NR_WP} \ {NULL}
    BY <1>2 DEF Watched, ListFrom
  <2>2. ListFrom(free_) = {Part(o, m, NR_WP)[k] : k \in 0 .. NR_WP} \ {NULL}
    BY <1>3 DEF ListFrom
  <2>3. 0 \in 0 .. NR_WP /\ NR_WP \in 0 .. NR_WP /\ 0 <= m /\ m <= NR_WP
    BY <1>1
  <2>4. /\ {Part(o, 0, m)[k] : k \in 0 .. NR_WP} \ {NULL} = {o[i] : i \in 0 .. m - 1}
        /\ Part(o, 0, m)[NR_WP] = NULL
    BY <2>3, PartRange
  <2>5. /\ {Part(o, m, NR_WP)[k] : k \in 0 .. NR_WP} \ {NULL} = {o[i] : i \in m .. NR_WP - 1}
        /\ Part(o, m, NR_WP)[NR_WP] = NULL
    BY <2>3, PartRange
  <2>6. QED BY <1>2, <1>3, <2>1, <2>2, <2>4, <2>5
<1>5. \A k \in 0 .. NR_WP : Nth(head)[k] = IF k < m THEN o[k] ELSE NULL
  BY <1>1, <1>2 DEF Part
<1>6. \A k \in 0 .. m - 1 : k \in Node /\ o[k] # NULL
  <2> SUFFICES ASSUME NEW k \in 0 .. m - 1 PROVE k \in Node /\ o[k] # NULL
    OBVIOUS
  <2>1. k \in Node
    BY <1>1 DEF Node
  <2>2. QED BY <2>1, Nodes DEF Order
<1> DEFINE Fine(k) == \A j \in 0 .. k : Nth(head)[j] # NULL /\ wp[Nth(head)[j]].expr # Bad
<1>7. \A k \in 0 .. NR_WP :
        Fine(k) <=> k \in 0 .. m - 1 /\ \A j \in 0 .. k : wp[o[j]].expr # Bad
  <2> SUFFICES ASSUME NEW k \in 0 .. NR_WP
               PROVE  Fine(k) <=> k \in 0 .. m - 1 /\ \A j \in 0 .. k : wp[o[j]].expr # Bad
    OBVIOUS
  <2>1. \A j \in 0 .. k : j \in 0 .. NR_WP
    BY <1>1
  <2>2. CASE k < m
    <3>1. \A j \in 0 .. k : Nth(head)[j] = o[j] /\ o[j] # NULL
      BY <1>1, <1>5, <1>6, <2>1, <2>2
    <3>2. k \in 0 .. m - 1
      BY <1>1, <2>2
    <3>3. QED BY <3>1, <3>2
  <2>3. CASE ~(k < m)
    <3>1. Nth(head)[k] = NULL /\ k \in 0 .. k /\ k \notin 0 .. m - 1
      BY <1>1, <1>5, <2>3
    <3>2. QED BY <3>1
  <2>4. QED BY <2>2, <2>3
<1>8. Evaluated = {Nth(head)[k] : k \in {k \in 0 .. NR_WP : Fine(k)}}
  BY DEF Evaluated
<1> HIDE DEF Fine
<1>9. \A k \in 0 .. m - 1 : k \in 0 .. NR_WP /\ Nth(head)[k] = o[k]
  BY <1>1, <1>5
<1> DEFINE G == {i \in 0 .. m - 1 : \A j \in 0 .. i : wp[o[j]].expr # Bad}
<1>10. {k \in 0 .. NR_WP : Fine(k)} = G
  BY <1>7, <1>9
<1>11. \A k \in G : Nth(head)[k] = o[k]
  BY <1>9
<1>12. Evaluated = {o[i] : i \in G}
  <2> HIDE DEF G
  <2>1. QED BY <1>8, <1>10, <1>11
<1>13. QED BY <1>4, <1>12 DEF Reads

LEMMA InOrderReadsNext == (\A m \in 0 .. NR_WP, o \in Order : Linked(o, m) => Reads(o, m))'
BY InOrderReads, PTL

-----------------------------------------------------------------------------
(* Orders are closed under permuting the places.                           *)
Then(o, s) == [i \in Node |-> o[s[i]]]

LEMMA Permuted ==
  ASSUME NEW o \in Order, NEW s \in Order
  PROVE  Then(o, s) \in Order
<1>1. o \in [Node -> Node] /\ s \in [Node -> Node]
  BY DEF Order
<1>2. Then(o, s) \in [Node -> Node]
  BY <1>1 DEF Then
<1>3. \A i, j \in Node : Then(o, s)[i] = Then(o, s)[j] => i = j
  BY <1>1 DEF Then, Order
<1>4. ASSUME NEW n \in Node PROVE \E i \in Node : Then(o, s)[i] = n
  <2>1. PICK k \in Node : o[k] = n
    BY DEF Order
  <2>2. PICK i \in Node : s[i] = k
    BY DEF Order
  <2>3. QED BY <2>1, <2>2 DEF Then
<1>5. QED BY <1>2, <1>3, <1>4 DEF Order

(* new_wp moves place m to the front, free_wp place j behind place m - 1.  *)
ToFront(m) == [i \in Node |-> IF i = 0 THEN m ELSE IF i <= m THEN i - 1 ELSE i]
ToBack(j, m) ==
  [i \in Node |-> IF i < j \/ i >= m THEN i ELSE IF i = m - 1 THEN j ELSE i + 1]

LEMMA ToFrontOrder == ASSUME NEW m \in Node PROVE ToFront(m) \in Order
<1>1. NR_WP \in Nat /\ Node = 0 .. NR_WP - 1
  BY Nodes DEF Node
<1>2. ToFront(m) \in [Node -> Node]
  BY <1>1 DEF ToFront
<1>3. \A i, j \in Node : ToFront(m)[i] = ToFront(m)[j] => i = j
  BY <1>1 DEF ToFront
<1>4. ASSUME NEW n \in Node PROVE \E i \in Node : ToFront(m)[i] = n
  <2>1. CASE n = m
    BY <1>1, <2>1 DEF ToFront
  <2>2. CASE n < m
    <3>1. n + 1 \in Node /\ ToFront(m)[n + 1] = n
      BY <1>1, <2>2 DEF ToFront
    <3>2. QED BY <3>1
  <2>3. CASE n > m
    BY <1>1, <2>3 DEF ToFront
  <2>4. QED BY <1>1, <2>1, <2>2, <2>3
<1>5. QED BY <1>2, <1>3, <1>4 DEF Order

LEMMA ToBackOrder ==
  ASSUME NEW m \in 0 .. NR_WP, NEW j \in 0 .. m - 1
  PROVE  ToBack(j, m) \in Order
<1>1. NR_WP \in Nat /\ Node = 0 .. NR_WP - 1
  BY Nodes DEF Node
<1>2. ToBack(j, m) \in [Node -> Node]
  BY <1>1 DEF ToBack
<1>3. \A i, k \in Node : ToBack(j, m)[i] = ToBack(j, m)[k] => i = k
  BY <1>1 DEF ToBack
<1>4. ASSUME NEW n \in Node PROVE \E i \in Node : ToBack(j, m)[i] = n
  <2>1. CASE n < j \/ n >= m
    BY <1>1, <2>1 DEF ToBack
  <2>2. CASE n = j
    <3>1. m - 1 \in Node /\ ToBack(j, m)[m - 1] = n
      BY <1>1, <2>2 DEF ToBack
    <3>2. QED BY <3>1
  <2>3. CASE n > j /\ n < m
    <3>1. n - 1 \in Node /\ ToBack(j, m)[n - 1] = n
      BY <1>1, <2>3 DEF ToBack
    <3>2. QED BY <3>1
  <2>4. QED BY <1>1, <2>1, <2>2, <2>3
<1>5. QED BY <1>2, <1>3, <1>4 DEF Order

-----------------------------------------------------------------------------
(* A node taken from the free list becomes the newest one in use.          *)
LEMMA TakeLinked ==
  ASSUME NEW m \in 0 .. NR_WP, NEW o \in Order, Linked(o, m), free_ # NULL,
         head' = free_, free_' = wp[free_].next,
         \A n \in Node :
           /\ wp'[n].next = IF n = free_ THEN head ELSE wp[n].next
           /\ wp'[n].prev = IF n = free_ THEN NULL ELSE IF n = head THEN free_ ELSE wp[n].prev
  PROVE  /\ m \in Node /\ free_ = o[m]
         /\ Then(o, ToFront(m)) \in Order
         /\ Linked(Then(o, ToFront(m)), m + 1)'
<1>1. NR_WP \in Nat /\ Node = 0 .. NR_WP - 1
  BY Nodes DEF Node
<1>2. m # NR_WP /\ free_ = o[m]
  BY DEF Linked
<1>3. m \in Node
  BY <1>1, <1>2
<1> DEFINE q == Then(o, ToFront(m))
<1>4. q \in Order
  BY <1>3, Permuted, ToFrontOrder
<1>5. \A i \in Node : q[i] = IF i = 0 THEN o[m] ELSE IF i <= m THEN o[i - 1] ELSE o[i]
  BY <1>1, <1>3 DEF Then, ToFront
<1>6. \A i, j \in Node : o[i] = o[j] <=> i = j
  BY DEF Order
<1>7. \A i \in Node : o[i] \in Node /\ o[i] # NULL
  BY Nodes DEF Order
<1> HIDE DEF q
<1>8. head' = q[0]
  BY <1>1, <1>2, <1>5
<1>9. wp[o[m]].next = IF m = NR_WP - 1 THEN NULL ELSE o[m + 1]
  BY <1>1, <1>3 DEF Linked
<1>10. free_' = IF m + 1 = NR_WP THEN NULL ELSE q[m + 1]
  BY <1>1, <1>2, <1>3, <1>5, <1>9
<1>11. ASSUME NEW i \in Node
       PROVE  wp'[q[i]].next = IF i = (m + 1) - 1 \/ i = NR_WP - 1 THEN NULL ELSE q[i + 1]
  <2>1. CASE i = 0
    <3>1. wp'[q[i]].next = head
      BY <1>2, <1>3, <1>5, <1>7, <2>1
    <3>2. CASE m = 0
      BY <2>1, <3>1, <3>2 DEF Linked
    <3>3. CASE m # 0
      <4>1. q[1] = o[0] /\ NR_WP # 1 /\ 0 # m
        BY <1>1, <1>3, <1>5, <3>3
      <4>2. QED BY <1>1, <2>1, <3>1, <3>3, <4>1 DEF Linked
    <3>4. QED BY <3>2, <3>3
  <2>2. CASE i > 0 /\ i <= m
    <3>1. q[i] = o[i - 1] /\ i - 1 \in Node /\ i - 1 # m
      BY <1>1, <1>3, <1>5, <2>2
    <3>2. wp'[q[i]].next = wp[o[i - 1]].next
      <4>1. o[i - 1] \in Node /\ o[i - 1] # free_
        BY <1>2, <1>3, <1>6, <1>7, <3>1
      <4>2. QED BY <3>1, <4>1
    <3>3. wp[o[i - 1]].next = IF i - 1 = m - 1 THEN NULL ELSE o[(i - 1) + 1]
      BY <1>1, <1>3, <2>2, <3>1 DEF Linked
    <3>4. i < m => q[i + 1] = o[i] /\ i + 1 \in Node
      BY <1>1, <1>3, <1>5, <2>2
    <3>5. QED BY <1>1, <1>3, <2>2, <3>2, <3>3, <3>4
  <2>3. CASE i > m
    <3>1. q[i] = o[i] /\ i # m
      BY <1>1, <1>3, <1>5, <2>3
    <3>2. wp'[q[i]].next = wp[o[i]].next
      BY <1>2, <1>3, <1>6, <1>7, <3>1
    <3>3. wp[o[i]].next = IF i = NR_WP - 1 THEN NULL ELSE o[i + 1]
      BY <1>1, <1>3, <2>3 DEF Linked
    <3>4. i # NR_WP - 1 => q[i + 1] = o[i + 1]
      BY <1>1, <1>3, <1>5, <2>3
    <3>5. QED BY <1>1, <1>3, <2>3, <3>2, <3>3, <3>4
  <2>4. QED BY <1>1, <1>3, <2>1, <2>2, <2>3
<1>12. ASSUME NEW i \in 0 .. (m + 1) - 1
       PROVE  wp'[q[i]].prev = IF i = 0 THEN NULL ELSE q[i - 1]
  <2>1. CASE i = 0
    BY <1>1, <1>2, <1>3, <1>5, <1>7, <2>1
  <2>2. CASE i = 1
    <3>1. q[1] = o[0] /\ q[0] = o[m] /\ 0 # m /\ 0 \in Node /\ m > 0
      BY <1>1, <1>3, <1>5, <2>2
    <3>2. head = o[0] /\ o[0] # free_
      BY <1>2, <1>3, <1>6, <3>1 DEF Linked
    <3>3. QED BY <1>2, <1>7, <2>2, <3>1, <3>2
  <2>3. CASE i > 1
    <3>1. i \in Node /\ q[i] = o[i - 1] /\ i - 1 \in Node /\ i - 1 # m /\ i - 1 # 0 /\ 0 \in Node
      BY <1>1, <1>3, <1>5, <2>3
    <3>2. head = o[0] /\ o[i - 1] # head /\ o[i - 1] # free_
      BY <1>1, <1>2, <1>3, <1>6, <2>3, <3>1 DEF Linked
    <3>3. wp'[q[i]].prev = wp[o[i - 1]].prev
      BY <1>7, <3>1, <3>2
    <3>4. i - 1 \in 0 .. m - 1 /\ (i - 1) - 1 = i - 2
      BY <1>1, <1>3, <2>3
    <3>5. wp[o[i - 1]].prev = o[i - 2]
      BY <3>1, <3>4 DEF Linked
    <3>6. q[i - 1] = o[i - 2]
      <4>1. i - 1 <= m /\ (i - 1) - 1 = i - 2
        BY <1>1, <1>3, <2>3
      <4>2. QED BY <1>5, <3>1, <4>1
    <3>7. QED BY <2>3, <3>3, <3>5, <3>6
  <2>4. QED BY <1>1, <1>3, <2>1, <2>2, <2>3
<1>13. m + 1 # 0
  BY <1>1, <1>3
<1>14. QED BY <1>2, <1>3, <1>4, <1>8, <1>10, <1>11, <1>12, <1>13 DEF Linked, q

(* A node that free_wp can put back without a fault: there is a free one,  *)
(* and a node other than the newest has a successor in the list.           *)
LEMMA FreePlaces ==
  ASSUME NEW m \in 0 .. NR_WP, NEW o \in Order, Linked(o, m), TypeOK,
         NEW j \in 0 .. m - 1, NEW w, w = o[j], ~FreeFaults(w)
  PROVE  /\ m \in Node /\ free_ = o[m]
         /\ head = o[0] /\ (w = head <=> j = 0)
         /\ j # 0 => j + 1 < m
<1>1. NR_WP \in Nat /\ Node = 0 .. NR_WP - 1
  BY Nodes DEF Node
<1>2. \A i, k \in Node : o[i] = o[k] <=> i = k
  BY DEF Order
<1>3. m \in Node /\ free_ = o[m] /\ j \in Node /\ 0 \in Node
  <2>1. m # NR_WP
    BY DEF Linked, FreeFaults
  <2>2. QED BY <1>1, <2>1 DEF Linked
<1>4. head = o[0] /\ (w = head <=> j = 0)
  BY <1>1, <1>2, <1>3 DEF Linked
<1>5. /\ wp[w].next = IF j = m - 1 THEN NULL ELSE o[j + 1]
      /\ wp[w].prev = IF j = 0 THEN NULL ELSE o[j - 1]
  BY <1>1, <1>3 DEF Linked
<1>6. j # 0 => j + 1 < m
  BY <1>1, <1>3, <1>4, <1>5 DEF FreeFaults
<1>7. QED BY <1>3, <1>4, <1>6

(* A node put back becomes the first free one.  The list in use is linked  *)
(* past it, whether it was the newest or had neighbours on both sides.     *)
LEMMA FreeTable ==
  ASSUME NEW m \in 0 .. NR_WP, NEW o \in Order, Linked(o, m), TypeOK,
         NEW j \in 0 .. m - 1, NEW w, w = o[j], ~FreeFaults(w)
  PROVE  \A i \in Node :
            /\ free_wp(w)[o[i]].next = IF i = j THEN o[m]
                                       ELSE IF i = j - 1 THEN o[j + 1] ELSE wp[o[i]].next
            /\ free_wp(w)[o[i]].prev = IF i = j THEN NULL ELSE IF i = m THEN w
                                       ELSE IF i = j + 1 THEN IF j = 0 THEN NULL ELSE o[j - 1]
                                       ELSE wp[o[i]].prev
<1>1. NR_WP \in Nat /\ Node = 0 .. NR_WP - 1
  BY Nodes DEF Node
<1>2. \A i, k \in Node : o[i] = o[k] <=> i = k
  BY DEF Order
<1>3. \A i \in Node : o[i] \in Node /\ o[i] # NULL
  BY Nodes DEF Order
<1>4. m \in Node /\ free_ = o[m] /\ j \in Node /\ 0 \in Node
  <2>1. m \in Node /\ free_ = o[m]
    BY FreePlaces
  <2>2. QED BY <1>1, <2>1
<1>5. head = o[0] /\ (w = head <=> j = 0)
  BY FreePlaces
<1>6. /\ wp[w].next = IF j = m - 1 THEN NULL ELSE o[j + 1]
      /\ wp[w].prev = IF j = 0 THEN NULL ELSE o[j - 1]
  BY <1>1, <1>4 DEF Linked
<1>7. j # 0 => j + 1 < m
  BY FreePlaces
<1>8. \A n \in Node : /\ wp[n] \in [next : Node \cup {NULL}, prev : Node \cup {NULL},
                                    val : Value, expr : Text]
  BY DEF TypeOK
<1> SUFFICES ASSUME NEW i \in Node
    PROVE  /\ free_wp(w)[o[i]].next = IF i = j THEN o[m]
                                      ELSE IF i = j - 1 THEN o[j + 1] ELSE wp[o[i]].next
           /\ free_wp(w)[o[i]].prev = IF i = j THEN NULL ELSE IF i = m THEN w
                                      ELSE IF i = j + 1 THEN IF j = 0 THEN NULL ELSE o[j - 1]
                                      ELSE wp[o[i]].prev
  OBVIOUS
<1> DEFINE n == o[i]
<1>9. n \in Node /\ (n = w <=> i = j) /\ (n = free_ <=> i = m)
  BY <1>2, <1>3, <1>4
<1>10. n = wp[w].prev /\ w # head <=> j # 0 /\ i = j - 1
  <2>1. CASE j = 0
    BY <1>5, <2>1
  <2>2. CASE j # 0
    <3>1. j - 1 \in Node
      BY <1>1, <1>4, <2>2
    <3>2. QED BY <1>2, <1>5, <1>6, <2>2, <3>1
  <2>3. QED BY <2>1, <2>2
<1>11. n = wp[w].next <=> i = j + 1 /\ j + 1 < m
  <2>1. CASE j = m - 1
    BY <1>1, <1>3, <1>4, <1>6, <2>1
  <2>2. CASE j # m - 1
    <3>1. j + 1 \in Node /\ j + 1 < m
      BY <1>1, <1>4, <2>2
    <3>2. QED BY <1>2, <1>6, <2>2, <3>1
  <2>3. QED BY <2>1, <2>2
<1>12. free_wp(w)[n] =
         CASE n = w -> [wp[n] EXCEPT !.next = free_, !.prev = NULL]
           [] n = free_ -> [wp[n] EXCEPT !.prev = w]
           [] n = wp[w].prev /\ w # head -> [wp[n] EXCEPT !.next = wp[w].next]
           [] n = wp[w].next -> [wp[n] EXCEPT !.prev = IF w = head THEN NULL ELSE wp[w].prev]
           [] OTHER -> wp[n]
  BY <1>9 DEF free_wp
<1> DEFINE R == [next : Node \cup {NULL}, prev : Node \cup {NULL}, val : Value, expr : Text]
<1>13. wp[n] \in R
  BY <1>8, <1>9
<1> HIDE DEF n
<1>14. CASE i = j
  <2>1. free_wp(w)[n] = [wp[n] EXCEPT !.next = free_, !.prev = NULL]
    BY <1>1, <1>4, <1>9, <1>10, <1>11, <1>12, <1>14
  <2>2. QED BY <1>1, <1>4, <1>13, <1>14, <2>1 DEF n
<1>15. CASE i = m
  <2>1. free_wp(w)[n] = [wp[n] EXCEPT !.prev = w]
    BY <1>1, <1>4, <1>9, <1>10, <1>11, <1>12, <1>15
  <2>2. i # j /\ i # j - 1
    BY <1>1, <1>4, <1>15
  <2>3. QED BY <1>13, <1>15, <2>1, <2>2 DEF n
<1>16. CASE j # 0 /\ i = j - 1
  <2>1. free_wp(w)[n] = [wp[n] EXCEPT !.next = wp[w].next]
    BY <1>1, <1>4, <1>9, <1>10, <1>11, <1>12, <1>16
  <2>2. wp[w].next = o[j + 1]
    BY <1>1, <1>4, <1>6, <1>7, <1>16
  <2>3. i # j /\ i # m /\ i # j + 1
    BY <1>1, <1>4, <1>16
  <2>4. QED BY <1>13, <1>16, <2>1, <2>2, <2>3 DEF n
<1>17. CASE i = j + 1 /\ j + 1 < m
  <2>1. free_wp(w)[n] = [wp[n] EXCEPT !.prev = IF w = head THEN NULL ELSE wp[w].prev]
    BY <1>1, <1>4, <1>9, <1>10, <1>11, <1>12, <1>17
  <2>2. (IF w = head THEN NULL ELSE wp[w].prev) = IF j = 0 THEN NULL ELSE o[j - 1]
    BY <1>5, <1>6
  <2>3. i # j /\ i # m /\ i # j - 1
    BY <1>1, <1>4, <1>17
  <2>4. QED BY <1>13, <1>17, <2>1, <2>2, <2>3 DEF n
<1>18. CASE i # j /\ i # m /\ ~(j # 0 /\ i = j - 1) /\ ~(i = j + 1 /\ j + 1 < m)
  <2>1. free_wp(w)[n] = wp[n]
    BY <1>9, <1>10, <1>11, <1>12, <1>18
  <2>2. i # j - 1 /\ i # j + 1
    BY <1>1, <1>4, <1>18
  <2>3. QED BY <1>18, <2>1, <2>2 DEF n
<1>19. QED BY <1>14, <1>15, <1>16, <1>17, <1>18

LEMMA FreeLinked ==
  ASSUME NEW m \in 0 .. NR_WP, NEW o \in Order, Linked(o, m), TypeOK,
         NEW j \in 0 .. m - 1, NEW w, w = o[j], ~FreeFaults(w),
         wp' = free_wp(w), head' = IF w = head THEN wp[w].next ELSE head, free_' = w
  PROVE  /\ Then(o, ToBack(j, m)) \in Order
         /\ Linked(Then(o, ToBack(j, m)), m - 1)'
<1>1. NR_WP \in Nat /\ Node = 0 .. NR_WP - 1
  BY Nodes DEF Node
<1>2. m \in Node /\ free_ = o[m] /\ (w = head <=> j = 0) /\ j \in Node /\ (j # 0 => j + 1 < m)
  <2>1. m \in Node /\ free_ = o[m] /\ (w = head <=> j = 0) /\ (j # 0 => j + 1 < m)
    BY FreePlaces
  <2>2. QED BY <1>1, <2>1
<1>3. \A i \in Node :
        /\ wp'[o[i]].next = IF i = j THEN o[m]
                            ELSE IF i = j - 1 THEN o[j + 1] ELSE wp[o[i]].next
        /\ wp'[o[i]].prev = IF i = j THEN NULL ELSE IF i = m THEN w
                            ELSE IF i = j + 1 THEN IF j = 0 THEN NULL ELSE o[j - 1]
                            ELSE wp[o[i]].prev
  BY FreeTable
<1> DEFINE q == Then(o, ToBack(j, m))
<1>4. q \in Order
  BY Permuted, ToBackOrder
<1>5. \A i \in Node :
        q[i] = IF i < j \/ i >= m THEN o[i] ELSE IF i = m - 1 THEN o[j] ELSE o[i + 1]
  BY <1>1, <1>2 DEF Then, ToBack
<1> HIDE DEF q
<1>6. head' = IF m - 1 = 0 THEN NULL ELSE q[0]
  <2>1. CASE j = 0
    <3>1. head' = IF m = 1 THEN NULL ELSE o[1]
      BY <1>1, <1>2, <2>1 DEF Linked
    <3>2. m # 1 => q[0] = o[1]
      BY <1>1, <1>2, <1>5, <2>1
    <3>3. QED BY <1>1, <1>2, <3>1, <3>2
  <2>2. CASE j # 0
    <3>1. head' = o[0] /\ m - 1 # 0 /\ 0 < j
      BY <1>1, <1>2, <2>2 DEF Linked
    <3>2. QED BY <1>1, <1>5, <3>1
  <2>3. QED BY <2>1, <2>2
<1>7. free_' = IF m - 1 = NR_WP THEN NULL ELSE q[m - 1]
  <2>1. m - 1 \in Node /\ ~(m - 1 < j) /\ ~(m - 1 >= m)
    BY <1>1, <1>2
  <2>2. QED BY <1>1, <1>5, <2>1
<1>8. \A i \in Node : wp[o[i]].next = IF i = m - 1 \/ i = NR_WP - 1 THEN NULL ELSE o[i + 1]
  BY DEF Linked
<1>9. ASSUME NEW i \in Node
      PROVE  wp'[q[i]].next = IF i = (m - 1) - 1 \/ i = NR_WP - 1 THEN NULL ELSE q[i + 1]
  <2>1. CASE i < j - 1
    <3>1. /\ q[i] = o[i] /\ q[i + 1] = o[i + 1]
          /\ i # (m - 1) - 1 /\ i # NR_WP - 1 /\ i # m - 1 /\ i # j
      BY <1>1, <1>2, <1>5, <2>1
    <3>2. QED BY <1>1, <1>2, <1>3, <1>8, <2>1, <3>1
  <2>2. CASE i = j - 1
    <3>1. /\ q[i] = o[i] /\ q[i + 1] = o[j + 1]
          /\ i # (m - 1) - 1 /\ i # NR_WP - 1 /\ i # j
      BY <1>1, <1>2, <1>5, <2>2
    <3>2. QED BY <1>3, <2>2, <3>1
  <2>3. CASE j <= i /\ i < m - 1
    <3>1. /\ q[i] = o[i + 1] /\ i + 1 \in Node /\ i + 1 # j /\ i + 1 # j - 1
          /\ i # NR_WP - 1 /\ i + 1 # NR_WP - 1
      BY <1>1, <1>2, <1>5, <2>3
    <3>2. wp'[q[i]].next = IF i + 1 = m - 1 THEN NULL ELSE o[(i + 1) + 1]
      BY <1>3, <1>8, <3>1
    <3>3. i + 1 # m - 1 => q[i + 1] = o[(i + 1) + 1]
      BY <1>1, <1>2, <1>5, <2>3, <3>1
    <3>4. i + 1 = m - 1 <=> i = (m - 1) - 1
      BY <1>1, <1>2
    <3>5. QED BY <3>1, <3>2, <3>3, <3>4
  <2>4. CASE i = m - 1
    <3>1. q[i] = o[j] /\ q[i + 1] = o[m] /\ i # (m - 1) - 1 /\ i # NR_WP - 1
      BY <1>1, <1>2, <1>5, <2>4
    <3>2. QED BY <1>2, <1>3, <3>1
  <2>5. CASE i >= m
    <3>1. q[i] = o[i] /\ i # j /\ i # j - 1 /\ i # m - 1 /\ i # (m - 1) - 1
      BY <1>1, <1>2, <1>5, <2>5
    <3>2. i # NR_WP - 1 => q[i + 1] = o[i + 1]
      BY <1>1, <1>2, <1>5, <2>5
    <3>3. QED BY <1>3, <1>8, <3>1, <3>2
  <2>6. QED BY <1>1, <1>2, <2>1, <2>2, <2>3, <2>4, <2>5
<1>10. ASSUME NEW i \in 0 .. (m - 1) - 1
       PROVE  wp'[q[i]].prev = IF i = 0 THEN NULL ELSE q[i - 1]
  <2>0. i \in Node /\ i + 1 \in Node /\ i + 1 \in 0 .. m - 1 /\ i \in 0 .. m - 1
    BY <1>1, <1>2
  <2>1. CASE i < j
    <3>1. q[i] = o[i] /\ i # j /\ i # m /\ i # j + 1
      BY <1>1, <1>2, <1>5, <2>0, <2>1
    <3>2. wp'[q[i]].prev = IF i = 0 THEN NULL ELSE o[i - 1]
      BY <1>3, <2>0, <3>1 DEF Linked
    <3>3. i # 0 => q[i - 1] = o[i - 1]
      BY <1>1, <1>2, <1>5, <2>0, <2>1
    <3>4. QED BY <3>2, <3>3
  <2>2. CASE i = j
    <3>1. q[i] = o[i + 1] /\ i + 1 # j /\ i + 1 # m
      BY <1>1, <1>2, <1>5, <2>0, <2>2
    <3>2. wp'[q[i]].prev = IF j = 0 THEN NULL ELSE o[j - 1]
      BY <1>3, <2>0, <2>2, <3>1
    <3>3. i # 0 => q[i - 1] = o[i - 1]
      BY <1>1, <1>2, <1>5, <2>0, <2>2
    <3>4. QED BY <2>2, <3>2, <3>3
  <2>3. CASE i > j
    <3>1. q[i] = o[i + 1] /\ i + 1 # j /\ i + 1 # m /\ i + 1 # j + 1 /\ i + 1 # 0 /\ i # 0
      BY <1>1, <1>2, <1>5, <2>0, <2>3
    <3>2. wp'[q[i]].prev = o[(i + 1) - 1]
      BY <1>3, <2>0, <3>1 DEF Linked
    <3>3. q[i - 1] = o[(i + 1) - 1]
      <4>1. i - 1 \in Node /\ ~(i - 1 < j) /\ ~(i - 1 >= m) /\ i - 1 # m - 1
            /\ (i - 1) + 1 = i /\ (i + 1) - 1 = i
        BY <1>1, <1>2, <2>0, <2>3
      <4>2. QED BY <1>5, <4>1
    <3>4. QED BY <3>1, <3>2, <3>3
  <2>4. QED BY <1>1, <1>2, <2>0, <2>1, <2>2, <2>3
<1>11. QED BY <1>4, <1>6, <1>7, <1>9, <1>10 DEF Linked, q

(* The lists do not change where next does not, and prev only in front of  *)
(* the newest watchpoint and among the free nodes.                         *)
LEMMA KeptLinked ==
  ASSUME NEW m \in 0 .. NR_WP, NEW o \in Order, Linked(o, m),
         head' = head, free_' = free_,
         \A n \in Node : wp'[n].next = wp[n].next,
         \A i \in 0 .. m - 1 : wp'[o[i]].prev = wp[o[i]].prev
  PROVE  Linked(o, m)'
<1>1. \A i \in Node : o[i] \in Node
  BY DEF Order
<1>2. QED BY <1>1 DEF Linked

-----------------------------------------------------------------------------
(* What the commands do to the set of watchpoints in use.                  *)
LEMMA Take ==
  ASSUME InOrder, free_ # NULL, head' = free_, free_' = wp[free_].next,
         \A n \in Node :
           /\ wp'[n].next = IF n = free_ THEN head ELSE wp[n].next
           /\ wp'[n].prev = IF n = free_ THEN NULL ELSE IF n = head THEN free_ ELSE wp[n].prev
  PROVE  /\ InOrder'
         /\ free_ \in Node \ Watched /\ Watched' = Watched \cup {free_}
<1>1. PICK m \in 0 .. NR_WP, o \in Order : Linked(o, m)
  BY DEF InOrder
<1> DEFINE q == Then(o, ToFront(m))
<1>2. m \in Node /\ free_ = o[m] /\ q \in Order /\ Linked(q, m + 1)'
  BY <1>1, TakeLinked
<1>3. m + 1 \in 0 .. NR_WP
  BY <1>2, Nodes DEF Node
<1>4. InOrder'
  <2> HIDE DEF q
  <2>1. QED BY <1>2, <1>3 DEF InOrder, Order, Node
<1>5. Reads(o, m)
  BY <1>1, InOrderReads
<1>6. Reads(q, m + 1)'
  <2> HIDE DEF q
  <2>1. PICK p \in Order : p = q
    BY <1>2
  <2>2. PICK k \in 0 .. NR_WP : k = m + 1
    BY <1>3
  <2>3. Linked(p, k)'
    BY <1>2, <2>1, <2>2 DEF Linked
  <2>4. Reads(p, k)'
    BY <2>3, InOrderReadsNext
  <2>5. QED BY <2>1, <2>2, <2>4 DEF Reads
<1>7. Watched = {o[i] : i \in 0 .. m - 1} /\ Watched' = {q[i] : i \in 0 .. m}
  <2>1. (m + 1) - 1 = m
    BY <1>2, Nodes
  <2>2. QED BY <1>5, <1>6, <2>1 DEF Reads
<1>8. 0 .. m \subseteq Node /\ 0 .. m - 1 \subseteq Node /\ m \in Nat
  BY <1>2, Nodes DEF Node
<1>9. \A i \in 0 .. m : q[i] = IF i = 0 THEN o[m] ELSE o[i - 1]
  BY <1>8 DEF Then, ToFront
<1>10. free_ \in Node \ Watched
  <2>1. \A i \in 0 .. m - 1 : i # m
    BY <1>8
  <2>2. \A i \in 0 .. m - 1 : o[i] # o[m]
    BY <1>2, <1>8, <2>1 DEF Order
  <2>3. o[m] \in Node
    BY <1>2 DEF Order
  <2>4. QED BY <1>2, <1>7, <2>2, <2>3
<1>11. Watched' = Watched \cup {free_}
  <2> HIDE DEF q
  <2>1. ASSUME NEW x \in Watched' PROVE x \in Watched \cup {free_}
    <3>1. PICK i \in 0 .. m : x = q[i]
      BY <1>7
    <3>2. i # 0 => i - 1 \in 0 .. m - 1
      BY <1>8
    <3>3. QED BY <1>2, <1>7, <1>9, <3>1, <3>2
  <2>2. ASSUME NEW x \in Watched PROVE x \in Watched'
    <3>1. PICK i \in 0 .. m - 1 : x = o[i]
      BY <1>7
    <3>2. i + 1 \in 0 .. m /\ i + 1 # 0 /\ (i + 1) - 1 = i
      BY <1>8
    <3>3. q[i + 1] = x
      BY <1>9, <3>1, <3>2
    <3>4. QED BY <1>7, <3>2, <3>3
  <2>3. free_ \in Watched'
    <3>1. 0 \in 0 .. m
      BY <1>8
    <3>2. QED BY <1>2, <1>7, <1>9, <3>1
  <2>4. QED BY <2>1, <2>2, <2>3
<1>12. QED BY <1>4, <1>10, <1>11

LEMMA PutBack ==
  ASSUME TypeOK, InOrder, NEW w \in Watched, ~FreeFaults(w),
         wp' = free_wp(w), head' = IF w = head THEN wp[w].next ELSE head, free_' = w
  PROVE  InOrder' /\ Watched' = Watched \ {w}
<1>1. PICK m \in 0 .. NR_WP, o \in Order : Linked(o, m)
  BY DEF InOrder
<1>2. Watched = {o[i] : i \in 0 .. m - 1}
  BY <1>1, InOrderReads DEF Reads
<1>3. PICK j \in 0 .. m - 1 : w = o[j]
  BY <1>2
<1> DEFINE q == Then(o, ToBack(j, m))
<1>4. q \in Order /\ Linked(q, m - 1)'
  BY <1>1, <1>3, FreeLinked
<1>5. m \in Nat /\ m >= 1 /\ m - 1 \in 0 .. NR_WP
  BY Nodes
<1>6. InOrder'
  <2> HIDE DEF q
  <2>1. QED BY <1>4, <1>5 DEF InOrder, Order, Node
<1>7. Watched' = {q[i] : i \in 0 .. m - 2}
  <2> HIDE DEF q
  <2>1. PICK p \in Order : p = q
    BY <1>4
  <2>2. PICK k \in 0 .. NR_WP : k = m - 1
    BY <1>5
  <2>3. Linked(p, k)'
    BY <1>4, <2>1, <2>2 DEF Linked
  <2>4. Reads(p, k)'
    BY <2>3, InOrderReadsNext
  <2>5. k - 1 = m - 2
    BY <1>5, <2>2
  <2>6. QED BY <2>1, <2>4, <2>5 DEF Reads
<1>8. 0 .. m - 1 \subseteq Node
  BY <1>5, Nodes DEF Node
<1>9. \A i \in 0 .. m - 2 : q[i] = IF i < j THEN o[i] ELSE o[i + 1]
  <2> SUFFICES ASSUME NEW i \in 0 .. m - 2 PROVE q[i] = IF i < j THEN o[i] ELSE o[i + 1]
    OBVIOUS
  <2>1. i \in Node /\ ~(i >= m) /\ i # m - 1
    BY <1>5, <1>8
  <2>2. QED BY <2>1 DEF Then, ToBack
<1>10. \A i, k \in 0 .. m - 1 : o[i] = o[k] => i = k
  BY <1>8 DEF Order
<1> HIDE DEF q
<1>11. ASSUME NEW x \in Watched' PROVE x \in Watched \ {w}
  <2>1. PICK i \in 0 .. m - 2 : x = q[i]
    BY <1>7
  <2>2. /\ i \in 0 .. m - 1 /\ i + 1 \in 0 .. m - 1 /\ (i < j => i # j)
        /\ (~(i < j) => i + 1 # j)
    BY <1>5
  <2>3. QED BY <1>2, <1>3, <1>9, <1>10, <2>1, <2>2
<1>12. ASSUME NEW x \in Watched \ {w} PROVE x \in Watched'
  <2>1. PICK i \in 0 .. m - 1 : x = o[i]
    BY <1>2
  <2>2. i # j
    BY <1>3, <1>12, <2>1
  <2>3. CASE i < j
    <3>1. i \in 0 .. m - 2
      BY <1>5, <2>3
    <3>2. QED BY <1>7, <1>9, <2>1, <2>3, <3>1
  <2>4. CASE i > j
    <3>1. i - 1 \in 0 .. m - 2 /\ ~(i - 1 < j) /\ (i - 1) + 1 = i
      BY <1>5, <2>4
    <3>2. q[i - 1] = x
      BY <1>9, <2>1, <3>1
    <3>3. QED BY <1>7, <3>1, <3>2
  <2>5. QED BY <1>5, <2>2, <2>3, <2>4
<1>13. QED BY <1>6, <1>11, <1>12

LEMMA Keep ==
  ASSUME InOrder, head' = head, free_' = free_,
         \A n \in Node : wp'[n].next = wp[n].next,
         \A n \in Watched : wp'[n].prev = wp[n].prev
  PROVE  InOrder' /\ Watched' = Watched
<1>1. PICK m \in 0 .. NR_WP, o \in Order : Linked(o, m)
  BY DEF InOrder
<1>2. Watched = {o[i] : i \in 0 .. m - 1}
  BY <1>1, InOrderReads DEF Reads
<1>3. Linked(o, m)'
  BY <1>1, <1>2, KeptLinked
<1>4. Watched' = {o[i] : i \in 0 .. m - 1}
  BY <1>3, InOrderReadsNext DEF Reads
<1>5. InOrder'
  BY <1>3 DEF InOrder, Order, Node
<1>6. QED BY <1>2, <1>4, <1>5

-----------------------------------------------------------------------------
(* What the user sees of it: steps of WatchSet.                            *)
watch == [w \in Watched |-> [expr |-> wp[w].expr, val |-> wp[w].val]]

SameWatch(n) == wp'[n].expr = wp[n].expr /\ wp'[n].val = wp[n].val

LEMMA Adds ==
  ASSUME NEW n \in Node \ Watched, Watched' = Watched \cup {n}, wp'[n].expr \in Text,
         \A w \in Watched : SameWatch(w)
  PROVE  Set!Next
<1>1. DOMAIN watch = Watched /\ DOMAIN watch' = Watched \cup {n}
  BY DEF watch
<1>2. watch'[n].expr \in Text
  BY DEF watch
<1>3. \A w \in Watched : watch'[w] = watch[w]
  BY DEF watch, SameWatch
<1>4. Set!Add(n)
  BY <1>1, <1>2, <1>3 DEF Set!Add, watch
<1>5. QED BY <1>4 DEF Set!Next

LEMMA Deletes ==
  ASSUME NEW n \in Node, n \in Watched, Watched' = Watched \ {n},
         \A w \in Watched : SameWatch(w)
  PROVE  Set!Next
<1>1. watch' = [w \in Watched \ {n} |-> watch[w]]
  BY DEF watch, SameWatch
<1>2. Set!Delete(n)
  BY <1>1 DEF Set!Delete, watch
<1>3. QED BY <1>2 DEF Set!Next

LEMMA Updates ==
  ASSUME Watched' = Watched, \A w \in Watched : wp'[w].expr = wp[w].expr
  PROVE  Set!Next
BY DEF Set!Next, Set!Execute

-----------------------------------------------------------------------------
WatchInv == TypeOK /\ InOrder /\ ShowNow

WpType == [next : Node \cup {NULL}, prev : Node \cup {NULL}, val : Value, expr : Text]

LEMMA WatchTypes ==
  ASSUME TypeOK
  PROVE  /\ wp \in [Node -> WpType]
         /\ head \in Node \cup {NULL} /\ free_ \in Node \cup {NULL}
         /\ env \in [Expr -> Value] /\ Zero \in Value /\ Expr \subseteq Text
         /\ \A x \in Expr : x # Bad
         /\ Watched \subseteq Node \/ ~InOrder
         /\ NULL \notin Node
<1>1. InOrder => Watched \subseteq Node
  <2> SUFFICES ASSUME InOrder PROVE Watched \subseteq Node
    OBVIOUS
  <2>1. PICK m \in 0 .. NR_WP, o \in Order : Linked(o, m)
    BY DEF InOrder
  <2>2. Watched = {o[i] : i \in 0 .. m - 1}
    BY <2>1, InOrderReads DEF Reads
  <2>3. \A i \in 0 .. m - 1 : i \in Node
    BY Nodes DEF Node
  <2>4. QED BY <2>2, <2>3 DEF Order
<1>2. QED BY <1>1, WatchpointAssumption, Nodes DEF TypeOK, WpType, Text

LEMMA SetStep ==
  ASSUME WatchInv, NEW e \in Expr, cmd_w_Set(e)
  PROVE  WatchInv' /\ Set!Next
<1>1. TypeOK /\ InOrder /\ ShowNow /\ Prompt /\ free_ # NULL
      /\ head' = free_ /\ free_' = wp[free_].next
      /\ env' = env /\ state' = state /\ counted' = counted /\ bare' = bare
  BY DEF WatchInv, cmd_w_Set
<1>2. free_ \in Node /\ wp \in [Node -> WpType] /\ head \in Node \cup {NULL}
      /\ env[e] \in Value /\ e \in Text /\ e # Bad
  BY <1>1, WatchTypes
<1>3. wp' = [new_wp EXCEPT ![free_].val = env[e], ![free_].expr = e]
  BY DEF cmd_w_Set
<1>4. new_wp \in [Node -> WpType]
  BY <1>2 DEF new_wp, WpType
<1>5. wp' \in [Node -> WpType]
  BY <1>2, <1>3, <1>4 DEF WpType
<1>6. /\ \A n \in Node :
           /\ wp'[n].next = IF n = free_ THEN head ELSE wp[n].next
           /\ wp'[n].prev = IF n = free_ THEN NULL ELSE IF n = head THEN free_ ELSE wp[n].prev
      /\ \A n \in Node : n # free_ => wp'[n].val = wp[n].val /\ wp'[n].expr = wp[n].expr
      /\ wp'[free_].val = env[e] /\ wp'[free_].expr = e
  BY <1>2, <1>3, <1>4 DEF new_wp, WpType
<1>7. InOrder' /\ free_ \in Node \ Watched /\ Watched' = Watched \cup {free_}
  BY <1>1, <1>6, Take
<1>8. TypeOK'
  BY <1>1, <1>2, <1>5 DEF TypeOK, WpType
<1>9. \A w \in Watched : w \in Node /\ w # free_
  BY <1>1, <1>7, WatchTypes
<1>10. ShowNow'
  BY <1>1, <1>2, <1>6, <1>7, <1>9 DEF ShowNow
<1>11. Set!Next
  BY <1>2, <1>6, <1>7, <1>9, Adds DEF SameWatch
<1>12. QED BY <1>7, <1>8, <1>10, <1>11 DEF WatchInv

LEMMA BareStep ==
  ASSUME WatchInv, cmd_w_Bare
  PROVE  WatchInv' /\ Set!Next
<1>1. TypeOK /\ InOrder /\ free_ # NULL
      /\ head' = free_ /\ free_' = wp[free_].next
      /\ env' = env /\ state' = state /\ counted' = counted /\ bare' = TRUE
  BY DEF WatchInv, cmd_w_Bare
<1>2. free_ \in Node /\ wp \in [Node -> WpType] /\ head \in Node \cup {NULL}
  BY <1>1, WatchTypes
<1>3. wp' = new_wp
  BY DEF cmd_w_Bare
<1>4. wp' \in [Node -> WpType]
  BY <1>2, <1>3 DEF new_wp, WpType
<1>5. /\ \A n \in Node :
           /\ wp'[n].next = IF n = free_ THEN head ELSE wp[n].next
           /\ wp'[n].prev = IF n = free_ THEN NULL ELSE IF n = head THEN free_ ELSE wp[n].prev
      /\ \A n \in Node : wp'[n].val = wp[n].val /\ wp'[n].expr = wp[n].expr
  BY <1>2, <1>3 DEF new_wp, WpType
<1>6. InOrder' /\ free_ \in Node \ Watched /\ Watched' = Watched \cup {free_}
  BY <1>1, <1>5, Take
<1>7. TypeOK'
  BY <1>1, <1>2, <1>4 DEF TypeOK, WpType
<1>8. ShowNow'
  BY <1>1 DEF ShowNow
<1>9. wp'[free_].expr \in Text /\ \A w \in Watched : w \in Node
  BY <1>1, <1>2, <1>4, WatchTypes DEF WpType
<1>10. Set!Next
  BY <1>5, <1>6, <1>9, Adds DEF SameWatch
<1>11. QED BY <1>6, <1>7, <1>8, <1>10 DEF WatchInv

(* An expression that does not evaluate: the node taken is given back.     *)
LEMMA InvalidStep ==
  ASSUME WatchInv, cmd_w_Invalid
  PROVE  WatchInv' /\ Set!Next
<1>1. TypeOK /\ InOrder /\ ShowNow /\ free_ # NULL
      /\ head' = head /\ free_' = free_ /\ env' = env /\ counted' = counted /\ bare' = bare
  BY DEF WatchInv, cmd_w_Invalid
<1>2. free_ \in Node /\ wp \in [Node -> WpType] /\ NULL \notin Node /\ Zero \in Value
      /\ Watched \subseteq Node
  BY <1>1, WatchTypes
<1>3. PICK m \in 0 .. NR_WP, o \in Order : Linked(o, m)
  BY <1>1 DEF InOrder
<1>4. Watched = {o[i] : i \in 0 .. m - 1} /\ ListFrom(free_) = {o[i] : i \in m .. NR_WP - 1}
  BY <1>3, InOrderReads DEF Reads
<1>5. NR_WP \in Nat /\ Node = 0 .. NR_WP - 1
  BY Nodes DEF Node
<1>6. m \in Node /\ free_ = o[m]
  <2>1. m # NR_WP
    BY <1>1, <1>3 DEF Linked
  <2>2. QED BY <1>3, <1>5, <2>1 DEF Linked
<1>7. \A i, j \in Node : o[i] = o[j] => i = j
  BY DEF Order
<1>8. ASSUME NEW w \in Watched
      PROVE  w # free_ /\ w # wp[free_].next /\ (w = head => wp[w].prev = NULL)
  <2>1. PICK i \in 0 .. m - 1 : w = o[i]
    BY <1>4
  <2>2. i \in Node /\ i # m /\ i # m + 1
    BY <1>5, <1>6
  <2>3. w # free_
    BY <1>6, <1>7, <2>1, <2>2
  <2>4. w # wp[free_].next
    <3>1. wp[free_].next = IF m = m - 1 \/ m = NR_WP - 1 THEN NULL ELSE o[m + 1]
      BY <1>3, <1>6 DEF Linked
    <3>2. m # NR_WP - 1 => m + 1 \in Node
      BY <1>5, <1>6
    <3>3. QED BY <1>2, <1>5, <1>6, <1>7, <2>1, <2>2, <3>1, <3>2
  <2>5. w = head => wp[w].prev = NULL
    <3>1. m # 0 /\ 0 \in Node /\ 0 \in 0 .. m - 1
      BY <1>5, <2>2
    <3>2. head = o[0] /\ wp[o[0]].prev = NULL
      BY <1>3, <3>1 DEF Linked
    <3>3. QED BY <3>2
  <2>6. QED BY <2>3, <2>4, <2>5
<1>9. /\ wp' \in [Node -> WpType]
      /\ \A n \in Node : wp'[n].next = wp[n].next /\ wp'[n].expr = wp[n].expr
      /\ \A n \in Watched : wp'[n].prev = wp[n].prev /\ wp'[n].val = wp[n].val
      /\ state' \in {state, "SEGV_w"}
  <2>1. CASE wp[free_].next = NULL
    <3>1. wp' = wp /\ state' = "SEGV_w"
      BY <2>1 DEF cmd_w_Invalid
    <3>2. QED BY <1>2, <3>1
  <2>2. CASE wp[free_].next # NULL
    <3>1. state' = state
      BY <2>2 DEF cmd_w_Invalid
    <3>2. wp' = [n \in Node |->
                   CASE n = free_ -> [wp[n] EXCEPT !.prev = NULL, !.val = Zero]
                     [] n = head \/ n = wp[free_].next ->
                          [wp[n] EXCEPT !.prev = IF n = head THEN NULL ELSE free_]
                     [] OTHER -> wp[n]]
      BY <2>2 DEF cmd_w_Invalid
    <3>3. head # free_
      <4>1. CASE m = 0
        BY <1>1, <1>3, <4>1 DEF Linked
      <4>2. CASE m # 0
        <5>1. 0 \in 0 .. m - 1 /\ head = o[0]
          BY <1>3, <1>5, <1>6, <4>2 DEF Linked
        <5>2. head \in Watched
          BY <1>4, <5>1
        <5>3. QED BY <1>8, <5>2
      <4>3. QED BY <4>1, <4>2
    <3>4. wp[free_].next # free_
      <4>1. wp[free_].next = IF m = m - 1 \/ m = NR_WP - 1 THEN NULL ELSE o[m + 1]
        BY <1>3, <1>6 DEF Linked
      <4>2. m # NR_WP - 1 => m + 1 \in Node /\ m + 1 # m
        BY <1>5, <1>6
      <4>3. QED BY <1>5, <1>6, <1>7, <2>2, <4>1, <4>2
    <3>5. ASSUME NEW n \in Node
          PROVE  /\ wp'[n] \in WpType /\ wp'[n].next = wp[n].next /\ wp'[n].expr = wp[n].expr
                 /\ n # free_ => wp'[n].val = wp[n].val
                 /\ n # free_ /\ n # wp[free_].next /\ n # head => wp'[n].prev = wp[n].prev
                 /\ n # free_ /\ n = head => wp'[n].prev = NULL
      <4>1. wp[n] \in WpType
        BY <1>2
      <4>2. CASE n = free_
        <5>1. wp'[n] = [wp[n] EXCEPT !.prev = NULL, !.val = Zero]
          BY <3>2, <3>3, <3>4, <4>2
        <5>2. QED BY <1>2, <4>1, <4>2, <5>1 DEF WpType
      <4>3. CASE n # free_ /\ (n = head \/ n = wp[free_].next)
        <5>1. wp'[n] = [wp[n] EXCEPT !.prev = IF n = head THEN NULL ELSE free_]
          BY <3>2, <4>3
        <5>2. QED BY <1>2, <4>1, <4>3, <5>1 DEF WpType
      <4>4. CASE n # free_ /\ ~(n = head \/ n = wp[free_].next)
        <5>1. wp'[n] = wp[n]
          BY <3>2, <4>4
        <5>2. QED BY <4>1, <4>4, <5>1
      <4>5. QED BY <4>2, <4>3, <4>4
    <3>6. wp' \in [Node -> WpType]
      BY <3>2, <3>5
    <3>7. QED BY <1>2, <1>8, <3>1, <3>5, <3>6
  <2>3. QED BY <2>1, <2>2
<1>10. InOrder' /\ Watched' = Watched
  BY <1>1, <1>9, Keep
<1>11. TypeOK'
  BY <1>1, <1>9 DEF TypeOK, WpType, Dead
<1>12. \A w \in Watched : SameWatch(w)
  BY <1>2, <1>9 DEF SameWatch
<1>13. ShowNow'
  BY <1>1, <1>9, <1>10, <1>12 DEF ShowNow, SameWatch
<1>14. Set!Next
  BY <1>10, <1>12, Updates DEF SameWatch
<1>15. QED BY <1>10, <1>11, <1>13, <1>14 DEF WatchInv

LEMMA DeleteStep ==
  ASSUME WatchInv, NEW w \in Node, cmd_d(w)
  PROVE  WatchInv' /\ Set!Next
<1>1. TypeOK /\ InOrder /\ ShowNow /\ w \in Watched
      /\ env' = env /\ counted' = counted /\ bare' = bare
  BY DEF WatchInv, cmd_d
<1>2. /\ head \in Node \cup {NULL} /\ free_ \in Node \cup {NULL} /\ wp \in [Node -> WpType]
      /\ NULL \notin Node /\ Watched \subseteq Node
  BY <1>1, WatchTypes
<1>3. CASE FreeFaults(w)
  <2>1. wp' = wp /\ head' = head /\ free_' = free_ /\ state' = "SEGV_d"
    BY <1>3 DEF cmd_d
  <2>2. InOrder' /\ Watched' = Watched
    BY <1>1, <2>1, Keep
  <2>3. TypeOK'
    BY <1>1, <2>1 DEF TypeOK, Dead
  <2>4. ShowNow'
    BY <2>1 DEF ShowNow
  <2>5. Set!Next
    BY <2>1, <2>2, Updates
  <2>6. QED BY <2>2, <2>3, <2>4, <2>5 DEF WatchInv
<1>4. CASE ~FreeFaults(w)
  <2>1. /\ wp' = free_wp(w) /\ head' = IF w = head THEN wp[w].next ELSE head
        /\ free_' = w /\ state' = state
    BY <1>4 DEF cmd_d
  <2>2. InOrder' /\ Watched' = Watched \ {w}
    BY <1>1, <1>4, <2>1, PutBack
  <2>3. ASSUME NEW n \in Node
        PROVE  free_wp(w)[n] \in WpType /\ free_wp(w)[n].val = wp[n].val
               /\ free_wp(w)[n].expr = wp[n].expr
    <3>1. free_wp(w)[n] =
            CASE n = w -> [wp[n] EXCEPT !.next = free_, !.prev = NULL]
              [] n = free_ -> [wp[n] EXCEPT !.prev = w]
              [] n = wp[w].prev /\ w # head -> [wp[n] EXCEPT !.next = wp[w].next]
              [] n = wp[w].next -> [wp[n] EXCEPT !.prev = IF w = head THEN NULL ELSE wp[w].prev]
              [] OTHER -> wp[n]
      BY DEF free_wp
    <3>2. wp[n] \in WpType /\ wp[w].next \in Node \cup {NULL} /\ wp[w].prev \in Node \cup {NULL}
      BY <1>2 DEF WpType
    <3>3. \/ free_wp(w)[n] = [wp[n] EXCEPT !.next = free_, !.prev = NULL]
          \/ free_wp(w)[n] = [wp[n] EXCEPT !.prev = w]
          \/ free_wp(w)[n] = [wp[n] EXCEPT !.next = wp[w].next]
          \/ free_wp(w)[n] = [wp[n] EXCEPT !.prev = IF w = head THEN NULL ELSE wp[w].prev]
          \/ free_wp(w)[n] = wp[n]
      BY <3>1
    <3>4. QED BY <1>2, <3>2, <3>3 DEF WpType
  <2>4. free_wp(w) \in [Node -> WpType]
    BY <2>3 DEF free_wp
  <2>5. \A n \in Watched : SameWatch(n)
    BY <1>2, <2>1, <2>3 DEF SameWatch
  <2>6. wp[w].next \in Node \cup {NULL}
    BY <1>2 DEF WpType
  <2>7. TypeOK'
    BY <1>1, <2>1, <2>4, <2>6 DEF TypeOK, WpType
  <2>8. ShowNow'
    BY <1>1, <2>1, <2>2, <2>5 DEF ShowNow, SameWatch
  <2>9. Set!Next
    BY <1>1, <2>2, <2>5, Deletes
  <2>10. QED BY <2>2, <2>7, <2>8, <2>9 DEF WatchInv
<1>5. QED BY <1>3, <1>4

(* Commands that leave the pool alone: c, si, and w when no node is free.  *)
LEMMA IdleStep ==
  ASSUME WatchInv, cmd_w_NoneFree \/ (\E si \in BOOLEAN : cpu_exec(si))
  PROVE  WatchInv' /\ Set!Next
<1>1. /\ UNCHANGED <<head, free_, wp, env, bare>> /\ counted' \in BOOLEAN
      /\ state' = "ASSERT" \/ (state = "STOP" /\ state' = "RUNNING")
  BY DEF WatchInv, TypeOK, cmd_w_NoneFree, cpu_exec
<1>2. InOrder' /\ Watched' = Watched
  BY <1>1, Keep DEF WatchInv
<1>3. TypeOK'
  BY <1>1 DEF WatchInv, TypeOK, Dead
<1>4. ShowNow'
  BY <1>1, <1>2 DEF WatchInv, ShowNow
<1>5. Set!Next
  BY <1>1, <1>2, Updates
<1>6. QED BY <1>2, <1>3, <1>4, <1>5 DEF WatchInv

(* check_wp reads every watchpoint if the text of each evaluates.          *)
LEMMA AllEvaluated ==
  ASSUME TypeOK, InOrder
  PROVE  /\ Evaluated \subseteq Watched
         /\ \A w \in Evaluated : wp[w].expr \in Expr
         /\ (\A w \in Watched : wp[w].expr # Bad) => Evaluated = Watched
<1>1. PICK m \in 0 .. NR_WP, o \in Order : Linked(o, m)
  BY DEF InOrder
<1>2. /\ Watched = {o[i] : i \in 0 .. m - 1}
      /\ Evaluated = {o[i] : i \in {i \in 0 .. m - 1 : \A j \in 0 .. i : wp[o[j]].expr # Bad}}
  BY <1>1, InOrderReads DEF Reads
<1>3. Evaluated \subseteq Watched
  BY <1>2
<1>4. \A w \in Evaluated : wp[w].expr # Bad
  <2> SUFFICES ASSUME NEW i \in 0 .. m - 1, \A j \in 0 .. i : wp[o[j]].expr # Bad
               PROVE  wp[o[i]].expr # Bad
    BY <1>2
  <2>1. i \in 0 .. i
    BY Nodes
  <2>2. QED BY <2>1
<1>5. \A w \in Watched : wp[w].expr \in Text
  BY WatchTypes DEF WpType
<1>6. ASSUME \A w \in Watched : wp[w].expr # Bad PROVE Watched \subseteq Evaluated
  <2> SUFFICES ASSUME NEW i \in 0 .. m - 1 PROVE o[i] \in Evaluated
    BY <1>2
  <2>1. \A j \in 0 .. i : j \in 0 .. m - 1
    BY Nodes
  <2>2. \A j \in 0 .. i : wp[o[j]].expr # Bad
    BY <1>2, <1>6, <2>1
  <2>3. QED BY <1>2, <2>2
<1>7. QED BY <1>3, <1>4, <1>5, <1>6 DEF Text

LEMMA ExecuteStep ==
  ASSUME WatchInv, execute
  PROVE  WatchInv' /\ Set!Next
<1>1. /\ TypeOK /\ InOrder /\ ShowNow /\ state = "RUNNING" /\ env' \in [Expr -> Value]
      /\ head' = head /\ free_' = free_ /\ counted' = counted /\ bare' = bare
      /\ state' \in {"END", "STOP", "RUNNING"}
      /\ wp' = wp \/ wp' = Recorded(env')
      /\ state' # "END" => wp' = Recorded(env')
  BY DEF WatchInv, execute
<1>2. wp \in [Node -> WpType] /\ Watched \subseteq Node
  BY <1>1, WatchTypes
<1>3. \A w \in Evaluated : wp[w].expr \in Expr
  BY <1>1, AllEvaluated
<1>4. ASSUME NEW n \in Node
      PROVE  /\ Recorded(env')[n] = IF n \in Evaluated /\ env'[wp[n].expr] # wp[n].val
                                    THEN [wp[n] EXCEPT !.val = env'[wp[n].expr]] ELSE wp[n]
             /\ n \in Evaluated => env'[wp[n].expr] \in Value
  BY <1>1, <1>3 DEF Recorded, Changed
<1>5. /\ wp' \in [Node -> WpType]
      /\ \A n \in Node : /\ wp'[n].next = wp[n].next /\ wp'[n].prev = wp[n].prev
                         /\ wp'[n].expr = wp[n].expr
  <2>1. CASE wp' = wp
    BY <1>2, <2>1
  <2>2. CASE wp' = Recorded(env')
    <3>1. ASSUME NEW n \in Node
          PROVE  /\ wp'[n] \in WpType /\ wp'[n].next = wp[n].next /\ wp'[n].prev = wp[n].prev
                 /\ wp'[n].expr = wp[n].expr
      BY <1>2, <1>4, <2>2 DEF WpType
    <3>2. QED BY <2>2, <3>1 DEF Recorded
  <2>3. QED BY <1>1, <2>1, <2>2
<1>6. InOrder' /\ Watched' = Watched
  BY <1>1, <1>2, <1>5, Keep
<1>7. TypeOK'
  BY <1>1, <1>5 DEF TypeOK, WpType
<1>8. ShowNow'
  <2> SUFFICES ASSUME state' # "END", ~bare, NEW w \in Watched
               PROVE  wp'[w].expr # Bad /\ wp'[w].val = env'[wp'[w].expr]
    BY <1>1, <1>6 DEF ShowNow
  <2>1. \A v \in Watched : wp[v].expr # Bad
    BY <1>1 DEF ShowNow
  <2>2. w \in Evaluated /\ w \in Node
    BY <1>1, <1>2, <2>1, AllEvaluated
  <2>3. wp'[w] = IF env'[wp[w].expr] # wp[w].val
                 THEN [wp[w] EXCEPT !.val = env'[wp[w].expr]] ELSE wp[w]
    BY <1>1, <1>4, <2>2
  <2>4. wp[w] \in WpType
    BY <1>2, <2>2
  <2>5. wp'[w].val = env'[wp[w].expr] /\ wp'[w].expr = wp[w].expr
    BY <2>3, <2>4 DEF WpType
  <2>6. QED BY <2>1, <2>5
<1>9. Set!Next
  BY <1>2, <1>5, <1>6, Updates
<1>10. QED BY <1>6, <1>7, <1>8, <1>9 DEF WatchInv

-----------------------------------------------------------------------------
LEMMA WatchInit == Init => WatchInv
<1> SUFFICES ASSUME Init PROVE WatchInv
  OBVIOUS
<1>1. NR_WP \in Nat /\ NR_WP >= 1 /\ Node = 0 .. NR_WP - 1
  BY Nodes DEF Node
<1> DEFINE o == [i \in Node |-> i]
<1>2. o \in Order
  BY DEF Order
<1>3. Linked(o, 0)
  <2>1. head = NULL /\ free_ = o[0] /\ 0 # NR_WP
    BY <1>1 DEF Init
  <2>2. ASSUME NEW i \in Node
        PROVE  wp[o[i]].next = IF i = 0 - 1 \/ i = NR_WP - 1 THEN NULL ELSE o[i + 1]
    <3>1. o[i] = i /\ wp[i].next = IF i = NR_WP - 1 THEN NULL ELSE i + 1
      BY DEF Init, Pool
    <3>2. i # NR_WP - 1 => i + 1 \in Node /\ o[i + 1] = i + 1
      BY <1>1
    <3>3. i # 0 - 1
      BY <1>1
    <3>4. QED BY <3>1, <3>2, <3>3
  <2>3. \A i \in 0 .. 0 - 1 : FALSE
    OBVIOUS
  <2> HIDE DEF o
  <2>4. QED BY <2>1, <2>2, <2>3 DEF Linked
<1>4. InOrder
  <2> HIDE DEF o
  <2>1. 0 \in 0 .. NR_WP
    BY <1>1
  <2>2. QED BY <1>2, <1>3, <2>1 DEF InOrder
<1>5. Watched = {}
  <2>1. Reads(o, 0)
    <3> HIDE DEF o
    <3>1. 0 \in 0 .. NR_WP
      BY <1>1
    <3>2. QED BY <1>2, <1>3, <3>1, InOrderReads
  <2>2. QED BY <1>1, <2>1 DEF Reads
<1>6. TypeOK
  <2>1. head = NULL /\ free_ \in Node /\ Zero \in Value /\ Bad \in Text
    BY <1>1, WatchpointAssumption DEF Init, Text
  <2>2. ASSUME NEW n \in Node PROVE Pool[n] \in WpType
    <3>1. n # NR_WP - 1 => n + 1 \in Node
      BY <1>1
    <3>2. n # 0 => n - 1 \in Node
      BY <1>1
    <3>3. QED BY <2>1, <3>1, <3>2 DEF Pool, WpType
  <2>3. wp \in [Node -> WpType]
    BY <2>2 DEF Init, Pool
  <2>4. QED BY <2>1, <2>3 DEF Init, TypeOK, WpType
<1>7. QED BY <1>4, <1>5, <1>6 DEF WatchInv, ShowNow

LEMMA WatchStutter ==
  ASSUME WatchInv, UNCHANGED vars
  PROVE  WatchInv' /\ UNCHANGED watch
<1>1. UNCHANGED <<head, free_, wp, env, state, counted, bare>>
  BY DEF vars
<1>2. InOrder' /\ Watched' = Watched
  BY <1>1, Keep DEF WatchInv
<1>3. TypeOK' /\ ShowNow'
  BY <1>1, <1>2 DEF WatchInv, TypeOK, ShowNow
<1>4. QED BY <1>1, <1>2, <1>3 DEF WatchInv, watch

LEMMA WatchStep ==
  ASSUME WatchInv, Next
  PROVE  WatchInv' /\ Set!Next
BY SetStep, InvalidStep, BareStep, DeleteStep, IdleStep, ExecuteStep DEF Next

LEMMA WatchAlways == Spec => []WatchInv
<1>1. WatchInv /\ [Next]_vars => WatchInv'
  BY WatchStep, WatchStutter
<1>2. QED BY <1>1, WatchInit, PTL DEF Spec

(* The pointers of the pool stay within it.                                *)
THEOREM WatchTypesOK == Spec => []TypeOK
<1>1. WatchInv => TypeOK
  BY DEF WatchInv
<1>2. QED BY <1>1, WatchAlways, PTL

(* Whatever is added and deleted, in any order, every node is in exactly   *)
(* one of the two lists, both end, and prev is the inverse of next in the  *)
(* list in use.                                                            *)
THEOREM WatchListsIntact == Spec => []ListsIntact
<1>1. ASSUME WatchInv PROVE ListsIntact
  <2>1. PICK m \in 0 .. NR_WP, o \in Order : Linked(o, m)
    BY <1>1 DEF WatchInv, InOrder
  <2>2. /\ Watched = {o[i] : i \in 0 .. m - 1} /\ ListFrom(free_) = {o[i] : i \in m .. NR_WP - 1}
        /\ Nth(head)[NR_WP] = NULL /\ Nth(free_)[NR_WP] = NULL
    BY <2>1, InOrderReads DEF Reads
  <2>3. NR_WP \in Nat /\ Node = 0 .. NR_WP - 1
    BY Nodes DEF Node
  <2>4. \A i, j \in Node : o[i] = o[j] => i = j
    BY DEF Order
  <2>5. Watched \cap ListFrom(free_) = {}
    <3> SUFFICES ASSUME NEW i \in 0 .. m - 1, NEW j \in m .. NR_WP - 1 PROVE o[i] # o[j]
      BY <2>2
    <3>1. i \in Node /\ j \in Node /\ i # j
      BY <2>3
    <3>2. QED BY <2>4, <3>1
  <2>6. Watched \cup ListFrom(free_) = Node
    <3>1. Watched \cup ListFrom(free_) = {o[i] : i \in Node}
      <4>1. \A i \in Node : i \in 0 .. m - 1 \/ i \in m .. NR_WP - 1
        BY <2>3
      <4>2. \A i \in 0 .. m - 1 : i \in Node
        BY <2>3
      <4>3. \A i \in m .. NR_WP - 1 : i \in Node
        BY <2>3
      <4>4. QED BY <2>2, <4>1, <4>2, <4>3
    <3>2. {o[i] : i \in Node} = Node
      BY DEF Order
    <3>3. QED BY <3>1, <3>2
  <2>7. head # NULL => wp[head].prev = NULL
    <3>1. m # 0 => 0 \in 0 .. m - 1
      BY <2>3
    <3>2. QED BY <2>1, <3>1 DEF Linked
  <2>8. ASSUME NEW w \in Watched, wp[w].next # NULL PROVE wp[wp[w].next].prev = w
    <3>1. PICK i \in 0 .. m - 1 : w = o[i]
      BY <2>2
    <3>2. i \in Node
      BY <2>3
    <3>3. i # m - 1 /\ wp[w].next = o[i + 1]
      BY <2>1, <2>8, <3>1, <3>2 DEF Linked
    <3>4. i + 1 \in 0 .. m - 1 /\ i + 1 # 0 /\ (i + 1) - 1 = i
      BY <2>3, <3>3
    <3>5. wp[o[i + 1]].prev = o[i]
      BY <2>1, <3>4 DEF Linked
    <3>6. QED BY <3>1, <3>3, <3>5
  <2>9. QED BY <2>2, <2>5, <2>6, <2>7, <2>8 DEF ListsIntact, Watched
<1>2. WatchInv => ListsIntact
  BY <1>1
<1>3. QED BY <1>2, WatchAlways, PTL

(* To the user the linked lists are a set: a command adds one watchpoint   *)
(* or deletes one and leaves all others alone.                             *)
THEOREM WatchImplementsSet == Spec => ImplementsSet
<1>1. ASSUME Init PROVE Set!Init
  <2>1. InOrder /\ head = NULL
    BY <1>1, WatchInit DEF WatchInv, Init
  <2>2. PICK m \in 0 .. NR_WP, o \in Order : Linked(o, m)
    BY <2>1 DEF InOrder
  <2>3. m = 0
    <3>1. m # 0 => o[0] # NULL
      BY Nodes DEF Order
    <3>2. QED BY <2>1, <2>2, <3>1 DEF Linked
  <2>4. Watched = {}
    BY <2>2, <2>3, InOrderReads DEF Reads
  <2>5. QED BY <2>4 DEF Set!Init
<1>2. WatchInv /\ [Next]_vars => [Set!Next]_watch
  BY WatchStep, WatchStutter
<1>3. QED BY <1>1, <1>2, WatchAlways, PTL DEF Spec, ImplementsSet, Set!Spec, watch

(* When the value of a watched expression changes, the program pauses, and *)
(* for nothing else but the end of an si N, as long as w was never given   *)
(* without an expression.                                                  *)
THEOREM WatchPausesOnChange == Spec => PausesExactlyOnChange
<1>1. ASSUME WatchInv, execute, state' # "END", ~bare
      PROVE  /\ SomeWatchedChanges => state' = "STOP"
             /\ state' = "STOP" => SomeWatchedChanges \/ counted
  <2>1. TypeOK /\ InOrder /\ ShowNow /\ state = "RUNNING"
    BY <1>1 DEF WatchInv, execute
  <2>2. \A w \in Watched : wp[w].expr # Bad /\ wp[w].val = env[wp[w].expr]
    BY <1>1, <2>1 DEF ShowNow
  <2>3. Evaluated = Watched
    BY <2>1, <2>2, AllEvaluated
  <2>4. /\ Changed(env') # {} => state' = "STOP"
        /\ state' = "STOP" => Changed(env') # {} \/ counted
    BY <1>1, <2>3 DEF execute, check_wp
  <2>5. Changed(env') # {} <=> \E w \in Watched : env'[wp[w].expr] # wp[w].val
    BY <2>3 DEF Changed
  <2>6. QED BY <2>2, <2>4, <2>5 DEF SomeWatchedChanges
<1>2. WatchInv /\ [Next]_vars =>
        [execute /\ state' # "END" /\ ~bare
           => /\ SomeWatchedChanges => state' = "STOP"
              /\ state' = "STOP" => SomeWatchedChanges \/ counted]_vars
  BY <1>1
<1>3. QED BY <1>2, WatchAlways, PTL DEF Spec, PausesExactlyOnChange
=============================================================================
