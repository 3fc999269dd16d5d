---------------------------- MODULE RBTreeProofs ----------------------------
(***************************************************************************)
(* Proofs about RBTree, for trees of any size.                             *)
(*                                                                         *)
(* What is below a node, and how high it is, are functions on the nodes    *)
(* that an insertion, a rotation or a change of colours alters at two or   *)
(* three nodes only: the proof follows these functions, called s and h,    *)
(* from step to step.  At the end the recursive definitions of RBTree are  *)
(* shown to be these functions.                                            *)
(*                                                                         *)
(* A tree and its mirror image are the same but for the order of the keys, *)
(* and so the order R is a parameter: what is proved of RotateLeft holds   *)
(* of RotateRight, and of both halves of fix_up.                           *)
(***************************************************************************)
EXTENDS RBTree, FiniteSetTheorems, WellFoundedInduction, TLAPS

-----------------------------------------------------------------------------
(* What the proofs say of a tree.                                           *)

Order(R) ==
  /\ R \subseteq Keys \X Keys
  /\ \A a, b, c \in Keys : /\ <<a, a>> \notin R
                           /\ <<a, b>> \in R /\ <<b, c>> \in R => <<a, c>> \in R

Smaller == {q \in Keys \X Keys : q[1] < q[2]}
Reversed(R) == {q \in Keys \X Keys : <<q[2], q[1]>> \in R}

\* The nodes I and the sentinel are linked both ways.
Links(t, I) ==
  /\ t \in Trees
  /\ I \subseteq Keys
  /\ \A n \in Nodes \ I : t.left[n] = NULL /\ t.right[n] = NULL
  /\ \A n \in I : /\ t.left[n] \in I \cup {NIL}
                  /\ t.right[n] \in I \cup {NIL}
                  /\ t.left[n] # NIL => t.parent[t.left[n]] = n
                  /\ t.right[n] # NIL => t.parent[t.right[n]] = n
                  /\ \/ t.parent[n] = NIL /\ n = t.root
                     \/ t.parent[n] \in I /\ n = t.left[t.parent[n]]
                     \/ t.parent[n] \in I /\ n = t.right[t.parent[n]]
  /\ t.root # NIL => t.root \in I /\ t.parent[t.root] = NIL
  /\ t.parent[NIL] = NULL

\* s is what is below each node, and every node is below the root.
Subtrees(t, I, s) ==
  /\ s \in [I \cup {NIL} -> SUBSET I]
  /\ s[NIL] = {}
  /\ \A n \in I : s[n] = {n} \cup s[t.left[n]] \cup s[t.right[n]]
  /\ s[t.root] = I

\* What is left of a node comes before it, what is right of it after it.
Sides(t, I, s, R) ==
  \A n \in I : /\ \A m \in s[t.left[n]] : <<m, n>> \in R
               /\ \A m \in s[t.right[n]] : <<n, m>> \in R

Shape(t, I, s, R) == Links(t, I) /\ Subtrees(t, I, s) /\ Sides(t, I, s, R)

\* h is how many black nodes there are on every way down from each node.
Heights(t, I, h) ==
  /\ h \in [I \cup {NIL} -> Nat]
  /\ h[NIL] = 1
  /\ \A n \in I : /\ h[t.left[n]] = h[t.right[n]]
                  /\ h[n] = h[t.left[n]] + IF t.color[n] = "BLACK" THEN 1 ELSE 0

\* No red node but w is the root or has a red parent.
Colours(t, I, w) ==
  /\ w \in I \cup {NIL}
  /\ w # NIL => t.color[w] = "RED"
  /\ t.color[NIL] = "BLACK"
  /\ \A k \in I : t.color[k] = "RED" /\ k # w
                    => k # t.root /\ t.color[t.parent[k]] = "BLACK"

RedBlack(t, I, s, h, w, R) ==
  Shape(t, I, s, R) /\ Heights(t, I, h) /\ Colours(t, I, w)

-----------------------------------------------------------------------------
(* Subtrees.                                                                *)

\* The two sides of a node are apart, and the node is in neither.
LEMMA SidesApart ==
  ASSUME NEW t, NEW I, NEW s, NEW R, Order(R), Shape(t, I, s, R), NEW n \in I
  PROVE  /\ n \in s[n]
         /\ n \notin s[t.left[n]] /\ n \notin s[t.right[n]]
         /\ s[t.left[n]] \cap s[t.right[n]] = {}
         /\ s[t.left[n]] \subseteq s[n] /\ s[t.right[n]] \subseteq s[n]
         /\ s[n] \in SUBSET I
         /\ s[t.left[n]] \in SUBSET I /\ s[t.right[n]] \in SUBSET I
         /\ t.left[n] # NIL => t.left[n] \in s[t.left[n]]
         /\ t.right[n] # NIL => t.right[n] \in s[t.right[n]]
<1>1. /\ n \in Keys /\ I \subseteq Keys
      /\ t.left[n] \in I \cup {NIL} /\ t.right[n] \in I \cup {NIL}
  BY DEF Shape, Links
<1>2. /\ s[n] \in SUBSET I /\ s[t.left[n]] \in SUBSET I /\ s[t.right[n]] \in SUBSET I
      /\ s[n] = {n} \cup s[t.left[n]] \cup s[t.right[n]]
      /\ \A m \in I : m \in s[m]
  BY <1>1 DEF Shape, Subtrees
<1>3. /\ \A m \in s[t.left[n]] : <<m, n>> \in R
      /\ \A m \in s[t.right[n]] : <<n, m>> \in R
  BY DEF Shape, Sides
<1>4. n \notin s[t.left[n]] /\ n \notin s[t.right[n]]
  BY <1>1, <1>3 DEF Order
<1>5. ASSUME NEW m \in s[t.left[n]], m \in s[t.right[n]]
      PROVE  FALSE
  BY <1>1, <1>2, <1>3, <1>5 DEF Order
<1> QED
  BY <1>1, <1>2, <1>4, <1>5

\* A set of nodes that is not empty has one below which there is no other of
\* them: what holds of a node when it holds of its children holds of all.
LEMMA Lowest ==
  ASSUME NEW t, NEW I, NEW s, NEW R, Order(R), Shape(t, I, s, R),
         NEW B \in SUBSET I, B # {}
  PROVE  \E n \in B : t.left[n] \notin B /\ t.right[n] \notin B
<1> DEFINE T == {s[n] : n \in B}
<1>1. IsFiniteSet(I) /\ T \subseteq SUBSET I /\ T # {}
  <2>1. IsFiniteSet(Keys)
    BY FS_Interval, RBTreeAssumption DEF Keys
  <2>2. IsFiniteSet(I)
    BY <2>1, FS_Subset DEF Shape, Links
  <2> QED
    BY <2>2 DEF Shape, Subtrees
<1>2. IsWellFoundedOn(StrictSubsetOrdering(I), SUBSET I)
  BY <1>1, FS_StrictSubsetOrderingWellFounded, FS_FiniteSubsetsOfFinite, Zenon
<1>3. \E x \in T : \A y \in T : <<y, x>> \notin StrictSubsetOrdering(I)
  <2> HIDE DEF T
  <2> QED
    BY <1>1, <1>2, WFMin, Zenon
<1>4. PICK n \in B : \A y \in T : <<y, s[n]>> \notin StrictSubsetOrdering(I)
  BY <1>3
<1>5. ASSUME NEW m \in B, m \in s[t.left[n]] \/ m \in s[t.right[n]],
             s[m] \subseteq s[n], n \notin s[m]
      PROVE  FALSE
  <2>1. s[m] \in T /\ s[m] \in SUBSET I /\ s[n] \in SUBSET I /\ s[m] # s[n]
    BY <1>1, <1>5, SidesApart
  <2>2. <<s[m], s[n]>> \in StrictSubsetOrdering(I)
    BY <2>1, <1>5 DEF StrictSubsetOrdering
  <2> QED
    BY <2>1, <2>2, <1>4
<1>6. t.left[n] \in I \cup {NIL} /\ t.right[n] \in I \cup {NIL} /\ NIL \notin I
  BY DEF Shape, Links, Keys, NIL
<1> QED
  BY <1>4, <1>5, <1>6, SidesApart

\* A subtree holds the subtrees of its nodes.
LEMMA Nested ==
  ASSUME NEW t, NEW I, NEW s, NEW R, Order(R), Shape(t, I, s, R),
         NEW n \in I, NEW m \in s[n]
  PROVE  m \in I /\ s[m] \subseteq s[n]
<1> DEFINE B == {a \in I : \E c \in s[a] : ~(s[c] \subseteq s[a])}
<1>1. SUFFICES ASSUME B # {}
               PROVE  FALSE
  BY SidesApart
<1>2. PICK a \in B : t.left[a] \notin B /\ t.right[a] \notin B
  <2> HIDE DEF B
  <2>1. B \in SUBSET I
    BY DEF B
  <2> QED
    BY <1>1, <2>1, Lowest, Zenon
<1>3. PICK c \in s[a] : ~(s[c] \subseteq s[a])
  OBVIOUS
<1>4. /\ t.left[a] \in I \cup {NIL} /\ t.right[a] \in I \cup {NIL}
      /\ s[NIL] = {} /\ s[a] = {a} \cup s[t.left[a]] \cup s[t.right[a]]
  BY DEF Shape, Links, Subtrees
<1>5. c \in s[t.left[a]] \/ c \in s[t.right[a]]
  BY <1>3, <1>4
<1> QED
  BY <1>2, <1>3, <1>4, <1>5, SidesApart

-----------------------------------------------------------------------------
(* Rotations.                                                               *)

\* What a rotation does to the links.
LEMMA RotateLeftLinks ==
  ASSUME NEW t \in Trees, NEW x \in Keys, NEW y \in Keys, NEW b \in Nodes, NEW p \in Nodes,
         y = t.right[x], b = t.left[y], p = t.parent[x], x # y, p # x, p # y, b # x, b # y,
         NEW u, u = RotateLeft(t, x)
  PROVE  /\ u \in Trees
         /\ u.color = t.color
         /\ u.root = IF p = NIL THEN y ELSE t.root
         /\ u.left[y] = x /\ u.right[x] = b
         /\ u.parent[y] = p /\ u.parent[x] = y
         /\ b # NIL => u.parent[b] = x
         /\ \A n \in Nodes \ {p, y} : u.left[n] = t.left[n]
         /\ \A n \in Nodes \ {p, x} : u.right[n] = t.right[n]
         /\ \A n \in Nodes \ {x, y, b} : u.parent[n] = t.parent[n]
         /\ u.parent[NIL] = t.parent[NIL]
         /\ p # NIL => u.left[p] = IF t.left[p] = x THEN y ELSE t.left[p]
         /\ p # NIL => u.right[p] = IF t.right[p] = x THEN y ELSE t.right[p]
         /\ u.left[NIL] = t.left[NIL] /\ u.right[NIL] = t.right[NIL]
<1> DEFINE left == [Replaced(t.left, p, x, y) EXCEPT ![y] = x]
           right == [Replaced(t.right, p, x, y) EXCEPT ![x] = b]
           parent == [t.parent EXCEPT ![b] = IF b # NIL THEN x ELSE t.parent[b],
                                      ![y] = p, ![x] = y]
<1>1. u = [t EXCEPT !.root = IF p = NIL THEN y ELSE @, !.left = left, !.right = right,
                    !.parent = parent]
  BY DEF RotateLeft
<1>2. /\ t \in [root : Nodes, color : [Nodes -> {"RED", "BLACK"}],
                parent : [Nodes -> Nodes \cup {NULL}], left : [Nodes -> Nodes \cup {NULL}],
                right : [Nodes -> Nodes \cup {NULL}]]
      /\ Keys \subseteq Nodes /\ NIL \in Nodes /\ NIL \notin Keys
  BY DEF Trees, Nodes, Keys, NIL
<1>3. left \in [Nodes -> Nodes \cup {NULL}] /\ right \in [Nodes -> Nodes \cup {NULL}]
      /\ parent \in [Nodes -> Nodes \cup {NULL}]
  BY <1>2 DEF Replaced
<1> HIDE DEF left, right, parent
<1>4. /\ u.root = IF p = NIL THEN y ELSE t.root
      /\ u.color = t.color /\ u.left = left /\ u.right = right /\ u.parent = parent
      /\ u \in Trees
  BY <1>1, <1>2, <1>3 DEF Trees
<1>5. /\ left[y] = x
      /\ \A n \in Nodes \ {p, y} : left[n] = t.left[n]
      /\ p # NIL => left[p] = IF t.left[p] = x THEN y ELSE t.left[p]
      /\ left[NIL] = t.left[NIL]
  BY <1>2 DEF left, Replaced
<1>6. /\ right[x] = b
      /\ \A n \in Nodes \ {p, x} : right[n] = t.right[n]
      /\ p # NIL => right[p] = IF t.right[p] = x THEN y ELSE t.right[p]
      /\ right[NIL] = t.right[NIL]
  BY <1>2 DEF right, Replaced
<1>7. /\ parent[x] = y
      /\ parent[y] = p
      /\ b # NIL => parent[b] = x
      /\ \A n \in Nodes \ {x, y, b} : parent[n] = t.parent[n]
      /\ parent[NIL] = t.parent[NIL]
  BY <1>2 DEF parent
<1> QED
  BY <1>4, <1>5, <1>6, <1>7


\* The subtrees after the rotation of x, with y to its right.
Rotated(t, s, x) ==
  LET y == t.right[x]
  IN [s EXCEPT ![y] = s[x], ![x] = {x} \cup s[t.left[x]] \cup s[t.left[y]]]

\* What is around a node that is rotated: its parent p, its child y and the
\* subtree b that changes sides.
LEMMA Around ==
  ASSUME NEW t, NEW I, NEW s, NEW R, Order(R), Shape(t, I, s, R),
         NEW x \in I, NEW y \in I, y = t.right[x]
  PROVE  /\ t \in Trees /\ I \subseteq Keys /\ NIL \notin I
         /\ t.left[y] \in I \cup {NIL} /\ t.parent[x] \in I \cup {NIL}
         /\ t.parent[y] = x
         /\ x # y /\ t.parent[x] # x /\ t.parent[x] # y
         /\ t.left[y] # x /\ t.left[y] # y /\ t.right[y] # x /\ t.right[y] # y
         /\ t.left[x] # x /\ t.left[x] # y
         /\ t.left[y] # NIL => t.left[y] # t.right[y]
<1>1. /\ t \in Trees /\ I \subseteq Keys /\ NIL \notin I
      /\ t.left[y] \in I \cup {NIL} /\ t.parent[x] \in I \cup {NIL}
      /\ t.left[x] \in I \cup {NIL} /\ t.right[y] \in I \cup {NIL}
      /\ t.parent[y] = x /\ s[NIL] = {}
  BY DEF Shape, Links, Subtrees, NIL, Keys
<1>2. y \in s[y] /\ x \notin s[y] /\ s[y] \subseteq s[x] /\ x \in s[x]
      /\ s[t.left[x]] \cap s[y] = {} /\ x \notin s[t.left[x]]
  BY SidesApart
<1>3. t.parent[x] # x /\ t.parent[x] # y
  <2>1. ASSUME t.parent[x] \in I
        PROVE  x \in s[t.parent[x]] /\ (x = t.left[t.parent[x]] \/ x = t.right[t.parent[x]])
    BY <2>1, <1>1, SidesApart DEF Shape, Links
  <2> QED
    BY <2>1, <1>1, <1>2, SidesApart
<1>4. \A m \in I : m \in s[m]
  BY SidesApart
<1>5. /\ y \notin s[t.left[y]] /\ y \notin s[t.right[y]]
      /\ s[t.left[y]] \cap s[t.right[y]] = {}
      /\ s[t.left[y]] \subseteq s[y] /\ s[t.right[y]] \subseteq s[y]
  BY SidesApart
<1> QED
  BY <1>1, <1>2, <1>3, <1>4, <1>5

\* A rotation keeps the links, and what is below each node on its side.
LEMMA RotateLeftShape ==
  ASSUME NEW t, NEW I, NEW s, NEW R, Order(R), Shape(t, I, s, R),
         NEW x \in I, t.right[x] # NIL
  PROVE  Shape(RotateLeft(t, x), I, Rotated(t, s, x), R)
<1> DEFINE y == t.right[x]
           b == t.left[y]
           p == t.parent[x]
           u == RotateLeft(t, x)
           w == Rotated(t, s, x)
<1>1. y \in I /\ I \subseteq Keys /\ NIL \in Nodes /\ Keys \subseteq Nodes
  BY DEF Shape, Links, Nodes, Keys
<1>2. /\ t \in Trees /\ I \subseteq Keys /\ NIL \notin I
      /\ b \in I \cup {NIL} /\ p \in I \cup {NIL} /\ t.parent[y] = x
      /\ x # y /\ p # x /\ p # y /\ b # x /\ b # y /\ t.right[y] # x /\ t.right[y] # y
      /\ t.left[x] # x /\ t.left[x] # y /\ (b # NIL => b # t.right[y])
  BY <1>1, Around
<1>3. /\ u \in Trees
      /\ u.root = IF p = NIL THEN y ELSE t.root
      /\ u.left[y] = x /\ u.right[x] = b /\ u.parent[y] = p /\ u.parent[x] = y
      /\ b # NIL => u.parent[b] = x
      /\ \A n \in Nodes \ {p, y} : u.left[n] = t.left[n]
      /\ \A n \in Nodes \ {p, x} : u.right[n] = t.right[n]
      /\ \A n \in Nodes \ {x, y, b} : u.parent[n] = t.parent[n]
      /\ u.parent[NIL] = t.parent[NIL]
      /\ p # NIL => u.left[p] = IF t.left[p] = x THEN y ELSE t.left[p]
      /\ p # NIL => u.right[p] = IF t.right[p] = x THEN y ELSE t.right[p]
      /\ u.left[NIL] = t.left[NIL] /\ u.right[NIL] = t.right[NIL]
  BY <1>1, <1>2, RotateLeftLinks
<1> HIDE DEF u
<1>4. Links(u, I)
  <2>1. \A n \in Nodes \ I : u.left[n] = NULL /\ u.right[n] = NULL
    BY <1>1, <1>2, <1>3 DEF Shape, Links, Nodes
  <2>2. u.root # NIL => u.root \in I /\ u.parent[u.root] = NIL
    BY <1>1, <1>2, <1>3 DEF Shape, Links
  <2>3. ASSUME NEW n \in I
        PROVE  /\ u.left[n] \in I \cup {NIL}
               /\ u.right[n] \in I \cup {NIL}
               /\ u.left[n] # NIL => u.parent[u.left[n]] = n
               /\ u.right[n] # NIL => u.parent[u.right[n]] = n
    BY <1>1, <1>2, <1>3 DEF Shape, Links
  <2>4. ASSUME NEW n \in I
        PROVE  \/ u.parent[n] = NIL /\ n = u.root
               \/ u.parent[n] \in I /\ n = u.left[u.parent[n]]
               \/ u.parent[n] \in I /\ n = u.right[u.parent[n]]
    BY <1>1, <1>2, <1>3 DEF Shape, Links
  <2> QED
    BY <1>2, <1>3, <2>1, <2>2, <2>3, <2>4 DEF Shape, Links
<1>5. /\ w \in [I \cup {NIL} -> SUBSET I]
      /\ w[y] = s[x] /\ w[x] = {x} \cup s[t.left[x]] \cup s[b]
      /\ \A n \in (I \cup {NIL}) \ {x, y} : w[n] = s[n]
  BY <1>1, <1>2, SidesApart DEF Rotated, Shape, Subtrees
<1> HIDE DEF w
<1>6. /\ s[x] = {x} \cup s[t.left[x]] \cup s[y]
      /\ s[y] = {y} \cup s[b] \cup s[t.right[y]]
      /\ u.left[x] = t.left[x] /\ u.right[y] = t.right[y]
      /\ t.right[y] \in I \cup {NIL} /\ t.left[x] \in I \cup {NIL}
  BY <1>1, <1>2, <1>3 DEF Shape, Links, Subtrees
<1>7. w[u.left[x]] = s[t.left[x]] /\ w[u.right[x]] = s[b] /\ w[u.right[y]] = s[t.right[y]]
      /\ w[u.left[y]] = w[x]
  BY <1>2, <1>3, <1>5, <1>6
<1>8. ASSUME NEW n \in I \ {x, y}
      PROVE  w[n] = s[n] /\ w[u.left[n]] = s[t.left[n]] /\ w[u.right[n]] = s[t.right[n]]
  BY <1>1, <1>2, <1>3, <1>5 DEF Shape, Links
<1>9. Subtrees(u, I, w)
  <2>1. w[NIL] = {} /\ w[u.root] = I
    BY <1>1, <1>2, <1>3, <1>5 DEF Shape, Links, Subtrees
  <2>2. ASSUME NEW n \in I
        PROVE  w[n] = {n} \cup w[u.left[n]] \cup w[u.right[n]]
    BY <1>5, <1>6, <1>7, <1>8 DEF Shape, Subtrees
  <2> QED
    BY <1>5, <2>1, <2>2 DEF Subtrees
<1>10. Sides(u, I, w, R)
  <2>1. ASSUME NEW m \in s[b]
        PROVE  <<x, m>> \in R /\ <<m, y>> \in R
    BY <1>1, <1>6, <2>1 DEF Shape, Sides
  <2>2. /\ \A m \in s[t.left[x]] : <<m, x>> \in R
        /\ \A m \in s[t.right[y]] : <<y, m>> \in R
        /\ <<x, y>> \in R
    BY <1>1, <1>6 DEF Shape, Sides
  <2>3. ASSUME NEW m \in s[t.left[x]]
        PROVE  <<m, y>> \in R
    <3>1. m \in Keys /\ x \in Keys /\ y \in Keys
      BY <1>1, SidesApart
    <3> QED
      BY <2>2, <3>1 DEF Order
  <2>4. ASSUME NEW n \in I \ {x, y}
        PROVE  /\ \A m \in w[u.left[n]] : <<m, n>> \in R
               /\ \A m \in w[u.right[n]] : <<n, m>> \in R
    BY <1>8 DEF Shape, Sides
  <2> QED
    BY <1>5, <1>7, <2>1, <2>2, <2>3, <2>4 DEF Sides
<1> QED
  BY <1>4, <1>9, <1>10 DEF Shape, u, w


\* The mirror image of a tree is one for the other order.
LEMMA MirrorLinks ==
  ASSUME NEW t \in Trees
  PROVE  /\ Mirror(t) \in Trees
         /\ Mirror(t).left = t.right /\ Mirror(t).right = t.left
         /\ Mirror(t).root = t.root /\ Mirror(t).color = t.color
         /\ Mirror(t).parent = t.parent
         /\ Mirror(Mirror(t)) = t
BY DEF Trees, Mirror

LEMMA ReversedOrder ==
  ASSUME NEW R, Order(R)
  PROVE  Order(Reversed(R)) /\ Reversed(Reversed(R)) = R
<1>1. R \subseteq Keys \X Keys
  BY DEF Order
<1>2. Reversed(Reversed(R)) = R
  BY <1>1 DEF Reversed
<1>3. \A a, b \in Keys : <<a, b>> \in Reversed(R) <=> <<b, a>> \in R
  BY DEF Reversed
<1>4. Reversed(R) \subseteq Keys \X Keys
  BY DEF Reversed
<1> HIDE DEF Reversed
<1> QED
  BY <1>2, <1>3, <1>4 DEF Order

LEMMA MirrorShape ==
  ASSUME NEW t, NEW I, NEW s, NEW R, Order(R), Shape(t, I, s, R)
  PROVE  Shape(Mirror(t), I, s, Reversed(R))
<1>1. t \in Trees /\ I \subseteq Keys
  BY DEF Shape, Links
<1>2. Links(Mirror(t), I)
  BY <1>1, MirrorLinks DEF Shape, Links
<1>3. Subtrees(Mirror(t), I, s)
  BY <1>1, MirrorLinks DEF Shape, Subtrees
<1>4. Sides(Mirror(t), I, s, Reversed(R))
  <2>1. ASSUME NEW n \in I, NEW m \in s[t.left[n]]
        PROVE  <<n, m>> \in Reversed(R)
    <3>1. <<m, n>> \in R /\ m \in Keys /\ n \in Keys
      BY <1>1, SidesApart DEF Shape, Sides
    <3> QED
      BY <3>1 DEF Reversed
  <2>2. ASSUME NEW n \in I, NEW m \in s[t.right[n]]
        PROVE  <<m, n>> \in Reversed(R)
    <3>1. <<n, m>> \in R /\ m \in Keys /\ n \in Keys
      BY <1>1, SidesApart DEF Shape, Sides
    <3> QED
      BY <3>1 DEF Reversed
  <2> QED
    BY <1>1, <2>1, <2>2, MirrorLinks DEF Sides
<1> QED
  BY <1>2, <1>3, <1>4 DEF Shape

LEMMA MirrorRedBlack ==
  ASSUME NEW t, NEW I, NEW s, NEW h, NEW w, NEW R, Order(R), RedBlack(t, I, s, h, w, R)
  PROVE  RedBlack(Mirror(t), I, s, h, w, Reversed(R))
<1>1. t \in Trees
  BY DEF RedBlack, Shape, Links
<1>2. Heights(Mirror(t), I, h) /\ Colours(Mirror(t), I, w)
  BY <1>1, MirrorLinks DEF RedBlack, Heights, Colours
<1> QED
  BY <1>2, MirrorShape DEF RedBlack

-----------------------------------------------------------------------------
(* The two rotations of fix_up, as they are in its second half.             *)

\* Below a red node there are black ones, but for the node fix_up is at.
LEMMA RedParent ==
  ASSUME NEW t, NEW I, NEW s, NEW h, NEW w, NEW R, Order(R), RedBlack(t, I, s, h, w, R),
         NEW n \in I, t.color[n] = "RED"
  PROVE  /\ t.left[n] # w => t.color[t.left[n]] = "BLACK"
         /\ t.right[n] # w => t.color[t.right[n]] = "BLACK"
<1>1. /\ t.left[n] # NIL => t.left[n] \in I /\ t.parent[t.left[n]] = n
      /\ t.right[n] # NIL => t.right[n] \in I /\ t.parent[t.right[n]] = n
      /\ \A k \in Nodes : t.color[k] \in {"RED", "BLACK"}
      /\ I \subseteq Nodes
  BY DEF RedBlack, Shape, Links, Trees, Nodes
<1> QED
  BY <1>1 DEF RedBlack, Colours

\* A red node is rotated with its red child w, the one fix_up is at: it
\* becomes the child, and is red all the same.
LEMMA RotateRed ==
  ASSUME NEW t, NEW I, NEW s, NEW h, NEW w, NEW R, Order(R), RedBlack(t, I, s, h, w, R),
         NEW x \in I, w # NIL, w = t.right[x], t.color[x] = "RED"
  PROVE  /\ RedBlack(RotateLeft(t, x), I, Rotated(t, s, x), h, x, R)
         /\ RotateLeft(t, x).color = t.color
         /\ RotateLeft(t, x).left[w] = x
         /\ t.parent[x] \in I /\ t.parent[x] \notin {x, w}
         /\ \A n \in I \ {x, w} :
              /\ RotateLeft(t, x).left[n] = IF t.left[n] = x THEN w ELSE t.left[n]
              /\ RotateLeft(t, x).right[n] = IF t.right[n] = x THEN w ELSE t.right[n]
<1> DEFINE b == t.left[w]
           p == t.parent[x]
           u == RotateLeft(t, x)
<1>1. Shape(t, I, s, R) /\ w \in I /\ I \subseteq Nodes /\ Keys \subseteq Nodes /\ NIL \notin Keys
  BY DEF RedBlack, Shape, Links, Colours, Nodes, Keys, NIL
<1>2. /\ t \in Trees /\ I \subseteq Keys /\ NIL \notin I
      /\ b \in I \cup {NIL} /\ p \in I \cup {NIL} /\ t.parent[w] = x
      /\ x # w /\ p # x /\ p # w /\ b # x /\ b # w /\ t.right[w] # x /\ t.right[w] # w
      /\ t.left[x] # x /\ t.left[x] # w /\ (b # NIL => b # t.right[w])
  BY <1>1, Around
<1>3. p \in I /\ t.color[p] = "BLACK" /\ x # t.root
  BY <1>1, <1>2 DEF RedBlack, Shape, Links, Colours
<1>4. /\ u \in Trees
      /\ u.color = t.color
      /\ u.root = t.root
      /\ u.left[w] = x /\ u.right[x] = b /\ u.parent[w] = p /\ u.parent[x] = w
      /\ b # NIL => u.parent[b] = x
      /\ \A n \in Nodes \ {p, w} : u.left[n] = t.left[n]
      /\ \A n \in Nodes \ {p, x} : u.right[n] = t.right[n]
      /\ \A n \in Nodes \ {x, w, b} : u.parent[n] = t.parent[n]
      /\ u.left[p] = IF t.left[p] = x THEN w ELSE t.left[p]
      /\ u.right[p] = IF t.right[p] = x THEN w ELSE t.right[p]
  <2>1. b \in Nodes /\ p \in Nodes /\ w \in Keys /\ x \in Keys /\ p # NIL
    BY <1>1, <1>2, <1>3 DEF Nodes
  <2> QED
    BY <1>2, <2>1, RotateLeftLinks
<1>5. Shape(u, I, Rotated(t, s, x), R)
  BY <1>1, RotateLeftShape
<1> HIDE DEF u
<1>6. ASSUME NEW n \in I \ {x, w}
      PROVE  /\ u.left[n] = IF t.left[n] = x THEN w ELSE t.left[n]
             /\ u.right[n] = IF t.right[n] = x THEN w ELSE t.right[n]
  BY <1>1, <1>2, <1>3, <1>4 DEF Shape, Links
<1>7. Heights(u, I, h)
  <2>1. /\ h \in [I \cup {NIL} -> Nat] /\ h[NIL] = 1
        /\ h[x] = h[t.left[x]] /\ h[x] = h[w] /\ h[w] = h[b] /\ h[b] = h[t.right[w]]
    <3>1. t.color[x] = "RED" /\ t.color[w] = "RED"
      BY <1>1 DEF RedBlack, Colours
    <3>2. /\ h \in [I \cup {NIL} -> Nat] /\ h[NIL] = 1
          /\ h[x] = h[t.left[x]] + 0 /\ h[t.left[x]] = h[w]
          /\ h[w] = h[b] + 0 /\ h[b] = h[t.right[w]]
      BY <1>1, <3>1 DEF RedBlack, Heights
    <3>3. h[x] \in Nat /\ h[w] \in Nat /\ h[b] \in Nat /\ h[t.left[x]] \in Nat
      BY <1>1, <1>2, <3>2 DEF Shape, Links
    <3> QED
      BY <3>2, <3>3
  <2>2. ASSUME NEW n \in I
        PROVE  h[u.left[n]] = h[t.left[n]] /\ h[u.right[n]] = h[t.right[n]]
    <3>1. CASE n = x
      BY <1>1, <1>2, <1>3, <1>4, <2>1, <3>1
    <3>2. CASE n = w
      BY <1>1, <1>2, <1>3, <1>4, <2>1, <3>2
    <3>3. CASE n \notin {x, w}
      BY <1>6, <2>1, <3>3
    <3> QED
      BY <3>1, <3>2, <3>3
  <2> QED
    BY <1>4, <2>2 DEF RedBlack, Heights
<1>8. Colours(u, I, x)
  <2>1. ASSUME NEW k \in I, u.color[k] = "RED", k # x
        PROVE  k # u.root /\ u.color[u.parent[k]] = "BLACK"
    <3>1. CASE k = w
      BY <1>2, <1>3, <1>4, <3>1 DEF Shape, Links, RedBlack
    <3>2. CASE k # w
      <4>1. b # NIL => t.color[b] = "BLACK"
        BY <1>1, <1>2, RedParent DEF RedBlack, Colours
      <4>2. k # b
        BY <1>2, <1>4, <2>1, <4>1
      <4> QED
        BY <1>1, <1>4, <2>1, <3>2, <4>2 DEF RedBlack, Colours
    <3> QED
      BY <3>1, <3>2
  <2> QED
    BY <1>4, <2>1 DEF RedBlack, Colours
<1> QED
  BY <1>2, <1>3, <1>4, <1>5, <1>6, <1>7, <1>8 DEF RedBlack, u


\* The colours g and its child top have when g is rotated.
Recoloured(t, top, g) == [t EXCEPT !.color[top] = "BLACK", !.color[g] = "RED"]

\* Colours do not matter to the shape of a tree.
LEMMA ShapeOfLinks ==
  ASSUME NEW t, NEW I, NEW s, NEW R, Shape(t, I, s, R), NEW c \in Trees,
         c.root = t.root, c.left = t.left, c.right = t.right, c.parent = t.parent
  PROVE  Shape(c, I, s, R)
<1>1. Links(c, I)
  BY DEF Shape, Links
<1>2. Subtrees(c, I, s)
  BY DEF Shape, Subtrees
<1>3. Sides(c, I, s, R)
  BY DEF Shape, Sides
<1> QED
  BY <1>1, <1>2, <1>3 DEF Shape

\* A black node g is rotated with its red child top, which has the red child
\* w on the other side: top becomes black, with two red children.
LEMMA RotateBlack ==
  ASSUME NEW t, NEW I, NEW s, NEW h, NEW w, NEW R, Order(R), RedBlack(t, I, s, h, w, R),
         NEW g \in I, NEW top \in I, top = t.right[g], w # NIL, w = t.right[top],
         t.color[g] = "BLACK", t.color[top] = "RED", t.color[t.left[g]] = "BLACK",
         NEW c, c = Recoloured(t, top, g)
  PROVE  /\ RedBlack(RotateLeft(c, g), I, Rotated(c, s, g),
                     [h EXCEPT ![g] = h[top], ![top] = h[g]], w, R)
         /\ RotateLeft(c, g).color[RotateLeft(c, g).parent[w]] = "BLACK"
<1> DEFINE b == c.left[top]
           p == c.parent[g]
           u == RotateLeft(c, g)
           e == [h EXCEPT ![g] = h[top], ![top] = h[g]]
<1>1. /\ Shape(t, I, s, R) /\ w \in I
      /\ I \subseteq Nodes /\ Keys \subseteq Nodes /\ NIL \notin Keys /\ t \in Trees
      /\ top # g
  BY DEF RedBlack, Shape, Links, Colours, Nodes, Keys, NIL
<1>2. /\ c \in Trees
      /\ c.root = t.root /\ c.left = t.left /\ c.right = t.right /\ c.parent = t.parent
      /\ c.color[top] = "BLACK" /\ c.color[g] = "RED"
      /\ \A n \in Nodes \ {top, g} : c.color[n] = t.color[n]
  BY <1>1 DEF Recoloured, Trees
<1>3. Shape(c, I, s, R)
  BY <1>1, <1>2, ShapeOfLinks
<1>4. /\ I \subseteq Keys /\ NIL \notin I
      /\ b \in I \cup {NIL} /\ p \in I \cup {NIL} /\ c.parent[top] = g
      /\ p # g /\ p # top /\ b # g /\ b # top
      /\ c.right[top] # g /\ c.right[top] # top
      /\ c.left[g] # g /\ c.left[g] # top /\ (b # NIL => b # c.right[top])
  BY <1>2, <1>3, Around
<1>5. /\ u \in Trees
      /\ u.color = c.color
      /\ u.root = IF p = NIL THEN top ELSE c.root
      /\ u.left[top] = g /\ u.right[g] = b /\ u.parent[top] = p /\ u.parent[g] = top
      /\ b # NIL => u.parent[b] = g
      /\ \A n \in Nodes \ {p, top} : u.left[n] = c.left[n]
      /\ \A n \in Nodes \ {p, g} : u.right[n] = c.right[n]
      /\ \A n \in Nodes \ {g, top, b} : u.parent[n] = c.parent[n]
      /\ p # NIL => u.left[p] = IF c.left[p] = g THEN top ELSE c.left[p]
      /\ p # NIL => u.right[p] = IF c.right[p] = g THEN top ELSE c.right[p]
  <2>1. b \in Nodes /\ p \in Nodes /\ g \in Keys /\ top \in Keys
    BY <1>1, <1>4 DEF Nodes
  <2>2. top = c.right[g]
    BY <1>2
  <2> QED
    BY <1>1, <1>2, <1>4, <2>1, <2>2, RotateLeftLinks
<1>6. Shape(u, I, Rotated(c, s, g), R)
  BY <1>2, <1>3, <1>4, RotateLeftShape
<1> HIDE DEF u
<1>7. Heights(u, I, e)
  <2>1. /\ h \in [I \cup {NIL} -> Nat] /\ h[NIL] = 1
        /\ h[top] = h[b] /\ h[b] = h[w] /\ h[t.left[g]] = h[top] /\ h[g] = h[top] + 1
    <3>1. /\ h \in [I \cup {NIL} -> Nat] /\ h[NIL] = 1
          /\ h[top] = h[b] + 0 /\ h[b] = h[w]
          /\ h[g] = h[t.left[g]] + 1 /\ h[t.left[g]] = h[top]
      BY <1>1, <1>2 DEF RedBlack, Heights
    <3> QED
      BY <1>4, <3>1
  <2>2. /\ e \in [I \cup {NIL} -> Nat] /\ e[NIL] = 1
        /\ e[g] = h[top] /\ e[top] = h[g]
        /\ \A n \in (I \cup {NIL}) \ {g, top} : e[n] = h[n]
    BY <1>1, <1>4, <2>1
  <2> HIDE DEF e
  <2>3. ASSUME NEW n \in I
        PROVE  /\ e[u.left[n]] = e[u.right[n]]
               /\ e[n] = e[u.left[n]] + IF u.color[n] = "BLACK" THEN 1 ELSE 0
    <3>1. CASE n = g
      <4>1. u.left[g] = c.left[g] /\ u.right[g] = b /\ u.color[g] = "RED"
        BY <1>1, <1>2, <1>4, <1>5
      <4>2. e[c.left[g]] = h[top] /\ e[b] = h[top] /\ h[top] \in Nat
        BY <1>1, <1>2, <1>3, <1>4, <2>1, <2>2 DEF Shape, Links
      <4> QED
        BY <2>2, <3>1, <4>1, <4>2
    <3>2. CASE n = top
      <4>1. u.left[top] = g /\ u.right[top] = w /\ u.color[top] = "BLACK"
        BY <1>1, <1>2, <1>4, <1>5
      <4>2. e[w] = h[top] /\ h[top] \in Nat
        BY <1>1, <1>2, <1>4, <2>1, <2>2
      <4> QED
        BY <2>1, <2>2, <3>2, <4>1, <4>2
    <3>3. CASE n \notin {g, top}
      <4>1. /\ h[t.left[n]] = h[t.right[n]]
            /\ h[n] = h[t.left[n]] + IF t.color[n] = "BLACK" THEN 1 ELSE 0
        BY DEF RedBlack, Heights
      <4>2. u.color[n] = t.color[n] /\ e[n] = h[n]
        BY <1>1, <1>2, <1>5, <2>2, <3>3
      <4>3. e[u.left[n]] = h[t.left[n]] /\ e[u.right[n]] = h[t.right[n]]
        BY <1>1, <1>2, <1>3, <1>4, <1>5, <2>2, <3>3 DEF Shape, Links
      <4> QED
        BY <4>1, <4>2, <4>3
    <3> QED
      BY <3>1, <3>2, <3>3
  <2>4. u.color = c.color
    BY <1>5
  <2> QED
    BY <2>2, <2>3 DEF Heights
<1>8. Colours(u, I, w) /\ u.color[u.parent[w]] = "BLACK"
  <2>1. /\ t.color[w] = "RED" /\ w \notin {g, top, b}
        /\ t.parent[w] = top
    BY <1>1, <1>2, <1>3, <1>4, SidesApart DEF RedBlack, Colours, Shape, Links
  <2>2. b # NIL => t.color[b] = "BLACK"
    BY <1>1, <1>2, <2>1, RedParent
  <2>3. ASSUME NEW k \in I, u.color[k] = "RED", k # w
        PROVE  k # u.root /\ u.color[u.parent[k]] = "BLACK"
    <3>1. CASE k = g
      BY <1>1, <1>2, <1>3, <1>5, <3>1 DEF Shape, Links
    <3>2. CASE k # g
      <4>1. k # top /\ t.color[k] = "RED"
        BY <1>1, <1>2, <1>5, <2>3, <3>2
      <4>2. k # t.root /\ t.color[t.parent[k]] = "BLACK"
        BY <2>3, <4>1 DEF RedBlack, Colours
      <4>3. k # b /\ u.parent[k] = t.parent[k]
        BY <1>1, <1>2, <1>4, <1>5, <2>2, <3>2, <4>1
      <4>4. t.parent[k] # g
        BY <1>1, <1>2, <3>2, <4>1, <4>2 DEF Shape, Links
      <4> QED
        BY <1>1, <1>2, <1>5, <4>1, <4>2, <4>3, <4>4 DEF Shape, Links
    <3> QED
      BY <3>1, <3>2
  <2>4. u.color[NIL] = "BLACK" /\ u.color[w] = "RED" /\ u.parent[w] = top
    BY <1>1, <1>2, <1>4, <1>5, <2>1 DEF RedBlack, Colours, Nodes
  <2> QED
    BY <1>1, <1>2, <1>5, <2>3, <2>4 DEF Colours
<1> QED
  BY <1>6, <1>7, <1>8 DEF RedBlack, u, e


\* The same in the first half: the mirror image of the tree is rotated.
LEMMA RotateBlackRight ==
  ASSUME NEW t, NEW I, NEW s, NEW h, NEW w, NEW R, Order(R), RedBlack(t, I, s, h, w, R),
         NEW g \in I, NEW top \in I, top = t.left[g], w # NIL, w = t.left[top],
         t.color[g] = "BLACK", t.color[top] = "RED", t.color[t.right[g]] = "BLACK",
         NEW u, u = RotateRight(Recoloured(t, top, g), g)
  PROVE  /\ \E e, f : RedBlack(u, I, e, f, w, R)
         /\ u.color[u.parent[w]] = "BLACK"
<1> DEFINE c == Recoloured(t, top, g)
           b == Mirror(t)
           d == Mirror(c)
           y == RotateLeft(d, g)
           f == [h EXCEPT ![g] = h[top], ![top] = h[g]]
           o == Rotated(d, s, g)
<1>1. t \in Trees /\ top \in Nodes /\ g \in Nodes
  BY DEF RedBlack, Shape, Links, Nodes
<1>2. /\ RedBlack(b, I, s, h, w, Reversed(R)) /\ Order(Reversed(R))
      /\ b.right = t.left /\ b.left = t.right /\ b.color = t.color
  BY <1>1, MirrorRedBlack, MirrorLinks, ReversedOrder
<1>3. /\ top = b.right[g] /\ w = b.right[top]
      /\ b.color[g] = "BLACK" /\ b.color[top] = "RED" /\ b.color[b.left[g]] = "BLACK"
  BY <1>2
<1>4. d = Recoloured(b, top, g)
  BY <1>1 DEF Mirror, Recoloured, Trees
<1>5. RedBlack(y, I, o, f, w, Reversed(R)) /\ y.color[y.parent[w]] = "BLACK"
  <2> HIDE DEF b, d
  <2> QED
    BY <1>2, <1>3, <1>4, RotateBlack
<1>6. u = Mirror(y)
  BY DEF RotateRight
<1> HIDE DEF y, o, f
<1>7. y \in Trees
  BY <1>5 DEF RedBlack, Shape, Links
<1>8. RedBlack(Mirror(y), I, o, f, w, Reversed(Reversed(R)))
  BY <1>2, <1>5, MirrorRedBlack
<1>9. Reversed(Reversed(R)) = R
  BY ReversedOrder
<1> QED
  BY <1>5, <1>6, <1>7, <1>8, <1>9, MirrorLinks

-----------------------------------------------------------------------------
(* fix_up.                                                                  *)

\* In any tree m, with w below the left child q of g: what Straighten makes of
\* it is a tree for RotateBlackRight.
LEMMA Straightened ==
  ASSUME NEW m, NEW I, NEW s, NEW h, NEW w, NEW R, Order(R), RedBlack(m, I, s, h, w, R),
         NEW g \in I, NEW q \in I, q = m.left[g], w # NIL, w \in {m.left[q], m.right[q]},
         m.color[g] = "BLACK", m.color[q] = "RED", m.color[m.right[g]] = "BLACK",
         NEW a, a = IF w = m.right[q] THEN RotateLeft(m, q) ELSE m,
         NEW top, top = a.left[g],
         NEW v, v = IF w = top THEN q ELSE w
  PROVE  /\ \E e : RedBlack(a, I, e, h, v, R)
         /\ top \in I /\ v # NIL /\ v = a.left[top]
         /\ a.color[g] = "BLACK" /\ a.color[top] = "RED" /\ a.color[a.right[g]] = "BLACK"
<1>1. /\ Shape(m, I, s, R) /\ NIL \notin I /\ m \in Trees /\ w \in I /\ I \subseteq Nodes
      /\ m.color[w] = "RED"
  BY DEF RedBlack, Shape, Links, Colours, Nodes, Keys, NIL
<1>2. /\ m.right[g] # q /\ q # g /\ w # q /\ w # g /\ w # m.right[g]
      /\ m.left[q] # NIL => m.left[q] # m.right[q]
  <2>1. w \in s[w] /\ s[w] \subseteq s[q] /\ q \in s[q] /\ q \notin s[w]
    BY <1>1, SidesApart
  <2>2. /\ s[q] \cap s[m.right[g]] = {} /\ g \notin s[q] /\ g \in s[g]
        /\ m.right[g] # NIL => m.right[g] \in s[m.right[g]]
    BY <1>1, SidesApart
  <2>3. m.left[q] # NIL => m.left[q] # m.right[q]
    BY <1>1, SidesApart
  <2> QED
    BY <1>1, <2>1, <2>2, <2>3
<1>3. /\ \E e : RedBlack(a, I, e, h, v, R)
      /\ a.color = m.color /\ a.right[g] = m.right[g]
      /\ top \in {q, w} /\ v \in {q, w} /\ v = a.left[top]
  <2>1. CASE w = m.right[q]
    <3>1. a = RotateLeft(m, q)
      BY <2>1
    <3>2. /\ RedBlack(a, I, Rotated(m, s, q), h, q, R) /\ a.color = m.color
          /\ a.left[w] = q
          /\ a.left[g] = IF m.left[g] = q THEN w ELSE m.left[g]
          /\ a.right[g] = IF m.right[g] = q THEN w ELSE m.right[g]
      BY <1>1, <1>2, <2>1, <3>1, RotateRed
    <3> QED
      BY <1>2, <3>2
  <2>2. CASE w # m.right[q]
    <3>1. a = m /\ w = m.left[q] /\ top = q /\ v = w
      BY <1>2, <2>2
    <3> QED
      BY <3>1
  <2> QED
    BY <2>1, <2>2
<1> QED
  BY <1>1, <1>3


\* The inductive invariant: there are subtrees and heights of a red-black
\* tree, ordered by the keys.
TreeInv == \E s, h : RedBlack(tree, inserted, s, h, z, Smaller)

LEMMA SmallerOrder == Order(Smaller)
<1>1. Keys \subseteq Int
  BY RBTreeAssumption DEF Keys
<1> QED
  BY <1>1 DEF Order, Smaller

\* Where fix_up is while z violates the rule, and the tree it sees.
LEMMA Place ==
  ASSUME NEW s, NEW h, RedBlack(tree, inserted, s, h, z, Smaller), Violating
  PROVE  /\ z \in inserted /\ Parent \in inserted /\ Grandparent \in inserted
         /\ Parent # z /\ Parent # Grandparent /\ Grandparent # z
         /\ tree.color[Parent] = "RED" /\ tree.color[Grandparent] = "BLACK"
         /\ z \in {tree.left[Parent], tree.right[Parent]}
         /\ Parent \in {tree.left[Grandparent], tree.right[Grandparent]}
         /\ s[z] \subseteq s[Grandparent] /\ Grandparent \notin s[z]
         /\ Grandparent \in s[Grandparent]
<1>1. /\ Shape(tree, inserted, s, Smaller) /\ z \in inserted /\ z # NIL /\ NIL \notin inserted
      /\ tree.color[z] = "RED" /\ tree.color[NIL] = "BLACK" /\ tree.color[Parent] = "RED"
  BY DEF Violating, RedBlack, Colours, Shape, Links, Keys, NIL
<1>2. Parent \in inserted /\ z \in {tree.left[Parent], tree.right[Parent]}
  BY <1>1 DEF Parent, Shape, Links
<1>3. z \in s[z] /\ s[z] \subseteq s[Parent] /\ Parent \in s[Parent] /\ Parent \notin s[z]
  BY <1>1, <1>2, SidesApart, SmallerOrder
<1>4. Parent # tree.root /\ tree.color[Grandparent] = "BLACK"
  BY <1>1, <1>2, <1>3 DEF RedBlack, Colours, Grandparent
<1>5. /\ Grandparent \in inserted
      /\ Parent \in {tree.left[Grandparent], tree.right[Grandparent]}
  BY <1>1, <1>2, <1>4 DEF Grandparent, Shape, Links
<1>6. /\ s[Parent] \subseteq s[Grandparent] /\ Grandparent \notin s[Parent]
      /\ Grandparent \in s[Grandparent]
  BY <1>1, <1>2, <1>5, SidesApart, SmallerOrder
<1> QED
  BY <1>1, <1>2, <1>3, <1>4, <1>5, <1>6

\* The order of the keys in the tree as fix_up sees it.
SeenOrder == IF Parent = tree.left[Grandparent] THEN Smaller ELSE Reversed(Smaller)

LEMMA SeenTree ==
  ASSUME NEW s, NEW h, RedBlack(tree, inserted, s, h, z, Smaller), Violating
  PROVE  /\ RedBlack(Seen(tree), inserted, s, h, z, SeenOrder) /\ Order(SeenOrder)
         /\ Seen(tree).color = tree.color
         /\ Seen(tree).left[Grandparent] = Parent
         /\ z \in {Seen(tree).left[Parent], Seen(tree).right[Parent]}
<1>1. tree \in Trees
  BY DEF RedBlack, Shape, Links
<1>2. CASE Parent = tree.left[Grandparent]
  BY <1>2, Place, SmallerOrder DEF Seen, SeenOrder
<1>3. CASE Parent # tree.left[Grandparent]
  BY <1>1, <1>3, Place, SmallerOrder, MirrorRedBlack, MirrorLinks, ReversedOrder
     DEF Seen, SeenOrder
<1> QED
  BY <1>2, <1>3

\* Seen twice, a tree is itself.
LEMMA SeenAgain ==
  ASSUME NEW t, NEW s, NEW h, NEW v, RedBlack(t, inserted, s, h, v, SeenOrder)
  PROVE  /\ RedBlack(Seen(t), inserted, s, h, v, Smaller)
         /\ Seen(t).color = t.color /\ Seen(t).parent = t.parent
<1>1. t \in Trees
  BY DEF RedBlack, Shape, Links
<1>2. CASE Parent = tree.left[Grandparent]
  BY <1>2 DEF Seen, SeenOrder
<1>3. CASE Parent # tree.left[Grandparent]
  <2>1. RedBlack(t, inserted, s, h, v, Reversed(Smaller)) /\ Seen(t) = Mirror(t)
    BY <1>3 DEF Seen, SeenOrder
  <2> QED
    BY <1>1, <2>1, SmallerOrder, MirrorRedBlack, MirrorLinks, ReversedOrder
<1> QED
  BY <1>2, <1>3

LEMMA BlackUncleStep ==
  ASSUME TreeInv, BlackUncle
  PROVE  TreeInv' /\ ~Violating'
<1>1. PICK s, h : RedBlack(tree, inserted, s, h, z, Smaller)
  BY DEF TreeInv
<1>2. Violating /\ tree.color[Uncle] = "BLACK" /\ inserted' = inserted
  BY DEF BlackUncle
<1> DEFINE m == Seen(tree)
           a == Straighten(m)
           g == Grandparent
           top == a.left[g]
           v == IF z = top THEN Parent ELSE z
           c == Recoloured(a, top, g)
           u == RotateRight(c, g)
<1>3. tree' = Seen(u) /\ z' = v
  BY DEF BlackUncle, Recoloured
<1>4. /\ RedBlack(m, inserted, s, h, z, SeenOrder) /\ Order(SeenOrder)
      /\ m.color = tree.color /\ m.left[g] = Parent /\ z \in {m.left[Parent], m.right[Parent]}
  BY <1>1, <1>2, SeenTree
<1>5. /\ m.color[g] = "BLACK" /\ m.color[Parent] = "RED" /\ m.color[m.right[g]] = "BLACK"
      /\ g \in inserted /\ Parent \in inserted /\ z # NIL
  BY <1>1, <1>2, <1>4, Place DEF Uncle, Violating
<1>6. a = IF z = m.right[Parent] THEN RotateLeft(m, Parent) ELSE m
  BY DEF Straighten
<1>7. /\ \E e : RedBlack(a, inserted, e, h, v, SeenOrder)
      /\ top \in inserted /\ v # NIL /\ v = a.left[top]
      /\ a.color[g] = "BLACK" /\ a.color[top] = "RED" /\ a.color[a.right[g]] = "BLACK"
  <2> HIDE DEF m, a, g
  <2> QED
    BY <1>4, <1>5, <1>6, Straightened
<1>8. PICK e : RedBlack(a, inserted, e, h, v, SeenOrder)
  BY <1>7
<1>9. /\ \E o, f : RedBlack(u, inserted, o, f, v, SeenOrder)
      /\ u.color[u.parent[v]] = "BLACK"
  <2>1. top = a.left[g]
    OBVIOUS
  <2> HIDE DEF a, g, v, top
  <2> QED
    BY <1>4, <1>5, <1>7, <1>8, <2>1, RotateBlackRight
<1>10. PICK o, f : RedBlack(u, inserted, o, f, v, SeenOrder)
  BY <1>9
<1>11. /\ RedBlack(Seen(u), inserted, o, f, v, Smaller)
       /\ Seen(u).color[Seen(u).parent[v]] = "BLACK"
  <2> HIDE DEF u, v
  <2> QED
    BY <1>9, <1>10, SeenAgain
<1> HIDE DEF u, v
<1> QED
  BY <1>2, <1>3, <1>11 DEF TreeInv, Violating, Parent


\* A red uncle: fix_up moves up, to a node with more below it.
LEMMA RedUncleStep ==
  ASSUME NEW s, NEW h, RedBlack(tree, inserted, s, h, z, Smaller), RedUncle
  PROVE  /\ \E f : RedBlack(tree', inserted', s, f, z', Smaller)
         /\ s[z] \subseteq s[z'] /\ z' \in s[z'] /\ z' \notin s[z]
<1> DEFINE u == Uncle
           q == Parent
           g == Grandparent
           f == [h EXCEPT ![q] = h[q] + 1, ![u] = h[u] + 1]
           color == [tree.color EXCEPT ![q] = "BLACK", ![u] = "BLACK", ![g] = "RED"]
<1>1. /\ Violating /\ tree.color[u] = "RED" /\ inserted' = inserted /\ z' = g
      /\ tree' = [tree EXCEPT !.color[q] = "BLACK", !.color[u] = "BLACK",
                              !.color[g] = "RED"]
  BY DEF RedUncle
<1>2. /\ Shape(tree, inserted, s, Smaller) /\ Heights(tree, inserted, h) /\ tree \in Trees
      /\ inserted \subseteq Nodes /\ NIL \notin inserted /\ NIL \in Nodes
  BY DEF RedBlack, Shape, Links, Nodes, Keys, NIL
<1>3. /\ z \in inserted /\ q \in inserted /\ g \in inserted
      /\ q # z /\ q # g /\ g # z
      /\ tree.color[q] = "RED" /\ tree.color[g] = "BLACK"
      /\ q \in {tree.left[g], tree.right[g]}
      /\ s[z] \subseteq s[g] /\ g \notin s[z] /\ g \in s[g]
  BY <1>1, Place
<1>4. /\ u \in inserted /\ tree.parent[q] = g /\ tree.parent[u] = g
      /\ \/ q = tree.left[g] /\ u = tree.right[g]
         \/ q = tree.right[g] /\ u = tree.left[g]
  <2>1. \/ q = tree.left[g] /\ u = tree.right[g]
        \/ q = tree.right[g] /\ u = tree.left[g]
    BY <1>2, <1>3, MirrorLinks DEF Uncle, Seen
  <2>2. u # NIL
    BY <1>1 DEF RedBlack, Colours
  <2> HIDE DEF u, q, g
  <2> QED
    BY <1>2, <1>3, <2>1, <2>2 DEF Shape, Links
<1> HIDE DEF u, q, g
<1>5. q # u /\ u # g
  BY <1>2, <1>3, <1>4, SidesApart, SmallerOrder
<1>6. /\ tree' \in Trees
      /\ tree'.root = tree.root /\ tree'.left = tree.left /\ tree'.right = tree.right
      /\ tree'.parent = tree.parent
      /\ tree'.color = color
  <2>1. tree' = [tree EXCEPT !.color = color]
    BY <1>1, <1>2 DEF Trees
  <2>2. color \in [Nodes -> {"RED", "BLACK"}]
    BY <1>2 DEF Trees
  <2> HIDE DEF color
  <2> QED
    BY <1>2, <2>1, <2>2 DEF Trees
<1>7. /\ color[q] = "BLACK" /\ color[u] = "BLACK" /\ color[g] = "RED"
      /\ \A n \in Nodes \ {q, u, g} : color[n] = tree.color[n]
  BY <1>2, <1>3, <1>4, <1>5 DEF Trees
<1>8. /\ f \in [inserted \cup {NIL} -> Nat] /\ f[q] = h[q] + 1 /\ f[u] = h[u] + 1
      /\ \A n \in (inserted \cup {NIL}) \ {q, u} : f[n] = h[n]
  BY <1>2, <1>3, <1>4, <1>5 DEF Heights
<1> HIDE DEF color, f
<1>9. Shape(tree', inserted, s, Smaller)
  BY <1>2, <1>6, ShapeOfLinks
<1>10. Heights(tree', inserted, f)
  <2>1. ASSUME NEW n \in inserted
        PROVE  /\ f[tree.left[n]] = f[tree.right[n]]
               /\ f[n] = f[tree.left[n]] + IF color[n] = "BLACK" THEN 1 ELSE 0
    <3>1. /\ h[tree.left[n]] = h[tree.right[n]] /\ h[tree.left[n]] \in Nat
          /\ h[n] = h[tree.left[n]] + IF tree.color[n] = "BLACK" THEN 1 ELSE 0
      BY <1>2 DEF Heights, Shape, Links
    <3>2. CASE n = g
      <4>1. f[tree.left[n]] = h[tree.left[n]] + 1 /\ f[tree.right[n]] = h[tree.right[n]] + 1
        BY <1>4, <1>8, <3>2
      <4> QED
        BY <1>3, <1>7, <1>8, <1>5, <3>1, <3>2, <4>1
    <3>3. CASE n # g
      <4>1. tree.left[n] \notin {q, u} /\ tree.right[n] \notin {q, u}
        BY <1>2, <1>3, <1>4, <3>3 DEF Shape, Links
      <4>2. f[tree.left[n]] = h[tree.left[n]] /\ f[tree.right[n]] = h[tree.right[n]]
        BY <1>2, <1>8, <4>1 DEF Shape, Links
      <4>3. CASE n \in {q, u}
        BY <1>1, <1>3, <1>7, <1>8, <3>1, <4>2, <4>3
      <4>4. CASE n \notin {q, u}
        BY <1>2, <1>7, <1>8, <3>1, <3>3, <4>2, <4>4
      <4> QED
        BY <4>3, <4>4
    <3> QED
      BY <3>2, <3>3
  <2>2. f[NIL] = 1
    BY <1>2, <1>3, <1>4, <1>8 DEF Heights
  <2> QED
    BY <1>6, <1>8, <2>1, <2>2 DEF Heights
<1>11. Colours(tree', inserted, g)
  <2>1. color[NIL] = "BLACK"
    BY <1>2, <1>3, <1>4, <1>7 DEF RedBlack, Colours
  <2>2. ASSUME NEW k \in inserted, color[k] = "RED", k # g
        PROVE  k # tree.root /\ color[tree.parent[k]] = "BLACK"
    <3>1. tree.color[k] = "RED" /\ k \notin {q, u}
      BY <1>2, <1>7, <2>2
    <3>2. CASE k = z
      <4>1. tree.parent[z] = q /\ q \in inserted
        BY <1>3 DEF q, Parent
      <4> QED
        BY <1>2, <1>7, <3>2, <4>1 DEF Shape, Links
    <3>3. CASE k # z
      <4>1. k # tree.root /\ tree.color[tree.parent[k]] = "BLACK"
        BY <3>1, <3>3 DEF RedBlack, Colours
      <4>2. tree.parent[k] # g
        BY <1>4, <3>1, <4>1, <1>2 DEF Shape, Links
      <4>3. tree.parent[k] \in Nodes
        BY <1>2, <4>1 DEF Shape, Links
      <4> QED
        BY <1>7, <4>1, <4>2, <4>3
    <3> QED
      BY <3>2, <3>3
  <2> QED
    BY <1>3, <1>6, <1>7, <2>1, <2>2 DEF Colours
<1> QED
  BY <1>1, <1>3, <1>9, <1>10, <1>11 DEF RedBlack

\* The end of fix_up: the root is black, and so is the parent of z.
LEMMA EndFixUpStep ==
  ASSUME TreeInv, EndFixUp
  PROVE  TreeInv'
<1>1. PICK s, h : RedBlack(tree, inserted, s, h, z, Smaller)
  BY DEF TreeInv
<1> DEFINE r == tree.root
           f == [h EXCEPT ![r] = IF tree.color[r] = "RED" THEN h[r] + 1 ELSE h[r]]
           color == [tree.color EXCEPT ![r] = "BLACK"]
<1>2. /\ z # NIL /\ z' = NIL /\ inserted' = inserted
      /\ tree' = [tree EXCEPT !.color[r] = "BLACK"]
      /\ tree.color[tree.parent[z]] # "RED"
  BY DEF EndFixUp, Violating, Parent
<1>3. /\ Shape(tree, inserted, s, Smaller) /\ Heights(tree, inserted, h) /\ tree \in Trees
      /\ inserted \subseteq Nodes /\ NIL \notin inserted /\ NIL \in Nodes
      /\ z \in inserted
  BY <1>1, <1>2 DEF RedBlack, Shape, Links, Colours, Nodes, Keys, NIL
<1>4. r \in inserted
  BY <1>3 DEF Shape, Links, Subtrees
<1>5. /\ tree' \in Trees
      /\ tree'.root = r /\ tree'.left = tree.left /\ tree'.right = tree.right
      /\ tree'.parent = tree.parent
      /\ tree'.color = color
  BY <1>2, <1>3 DEF Trees
<1>6. color[r] = "BLACK" /\ \A n \in Nodes \ {r} : color[n] = tree.color[n]
  BY <1>3, <1>4 DEF Trees
<1>7. /\ f \in [inserted \cup {NIL} -> Nat]
      /\ f[r] = IF tree.color[r] = "RED" THEN h[r] + 1 ELSE h[r]
      /\ \A n \in (inserted \cup {NIL}) \ {r} : f[n] = h[n]
  BY <1>3, <1>4 DEF Heights
<1> HIDE DEF color, f, r
<1>8. Shape(tree', inserted, s, Smaller)
  BY <1>3, <1>5, ShapeOfLinks DEF r
<1>9. Heights(tree', inserted, f)
  <2>1. ASSUME NEW n \in inserted
        PROVE  /\ f[tree.left[n]] = f[tree.right[n]]
               /\ f[n] = f[tree.left[n]] + IF color[n] = "BLACK" THEN 1 ELSE 0
    <3>1. /\ h[tree.left[n]] = h[tree.right[n]] /\ h[tree.left[n]] \in Nat
          /\ h[n] = h[tree.left[n]] + IF tree.color[n] = "BLACK" THEN 1 ELSE 0
      BY <1>3 DEF Heights, Shape, Links
    <3>2. tree.left[n] # r /\ tree.right[n] # r
      BY <1>3, <1>4 DEF Shape, Links, r
    <3>3. f[tree.left[n]] = h[tree.left[n]] /\ f[tree.right[n]] = h[tree.right[n]]
      BY <1>3, <1>7, <3>2 DEF Shape, Links
    <3>4. n = r => tree.color[n] \in {"RED", "BLACK"}
      BY <1>3 DEF Trees
    <3>5. CASE n = r
      BY <1>6, <1>7, <3>1, <3>3, <3>4, <3>5
    <3>6. CASE n # r
      BY <1>3, <1>6, <1>7, <3>1, <3>3, <3>6
    <3> QED
      BY <3>5, <3>6
  <2>2. f[NIL] = 1
    BY <1>3, <1>4, <1>7 DEF Heights
  <2> QED
    BY <1>5, <1>7, <2>1, <2>2 DEF Heights
<1>10. Colours(tree', inserted, NIL)
  <2>1. color[NIL] = "BLACK"
    BY <1>1, <1>3, <1>4, <1>6 DEF RedBlack, Colours
  <2>2. ASSUME NEW k \in inserted, color[k] = "RED"
        PROVE  k # r /\ color[tree.parent[k]] = "BLACK"
    <3>1. k # r /\ tree.color[k] = "RED"
      BY <1>3, <1>6, <2>2
    <3>2. tree.parent[k] \in inserted
      BY <1>3, <3>1 DEF Shape, Links, r
    <3>3. tree.color[tree.parent[k]] = "BLACK"
      <4>1. tree.color[tree.parent[k]] \in {"RED", "BLACK"}
        BY <1>3, <3>2 DEF Trees
      <4> QED
        BY <1>1, <1>2, <3>1, <4>1 DEF RedBlack, Colours
    <3> QED
      BY <1>3, <1>6, <3>1, <3>2, <3>3
  <2> QED
    BY <1>5, <2>1, <2>2 DEF Colours
<1> QED
  BY <1>2, <1>8, <1>9, <1>10 DEF RedBlack, TreeInv

LEMMA TreeInitInv ==
  ASSUME TreeInit
  PROVE  TreeInv
<1> DEFINE s == [n \in {NIL} |-> {}]
           h == [n \in {NIL} |-> 1]
<1>1. /\ tree.root = NIL /\ inserted = {} /\ z = NIL
      /\ \A n \in Nodes : tree.color[n] = "BLACK" /\ tree.left[n] = NULL /\ tree.right[n] = NULL
      /\ tree.parent[NIL] = NULL /\ NIL \in Nodes
      /\ tree \in Trees
  BY DEF TreeInit, Trees, Nodes
<1>2. Links(tree, inserted) /\ Subtrees(tree, inserted, s) /\ Sides(tree, inserted, s, Smaller)
  BY <1>1 DEF Links, Subtrees, Sides
<1>3. Heights(tree, inserted, h) /\ Colours(tree, inserted, z)
  BY <1>1 DEF Heights, Colours
<1> QED
  BY <1>2, <1>3 DEF TreeInv, RedBlack, Shape


-----------------------------------------------------------------------------
(* Recursion over a tree.                                                   *)

\* op computes a value in V of a node and the values of its children.
Computes(op, I, V) == op \in [I \X V \X V -> V]

\* f is what op makes of the tree, from the value v of the sentinel.
IsFold(f, t, I, V, v, op) ==
  /\ f \in [I \cup {NIL} -> V]
  /\ f[NIL] = v
  /\ \A n \in I : f[n] = op[<<n, f[t.left[n]], f[t.right[n]]>>]

\* There is such a function.
LEMMA Recursion ==
  ASSUME NEW t, NEW I, NEW s, NEW R, Order(R), Shape(t, I, s, R),
         NEW V, NEW v \in V, NEW op, Computes(op, I, V)
  PROVE  \E f : IsFold(f, t, I, V, v, op)
<1> DEFINE Solves(n, f) ==
             /\ f \in [s[n] \cup {NIL} -> V]
             /\ f[NIL] = v
             /\ \A m \in s[n] : f[m] = op[<<m, f[t.left[m]], f[t.right[m]]>>]
           B == {n \in I : \A f : ~Solves(n, f)}
<1> USE DEF Computes
<1>1. /\ NIL \notin I /\ s \in [I \cup {NIL} -> SUBSET I] /\ s[NIL] = {} /\ s[t.root] = I
      /\ \A n \in I : /\ t.left[n] \in I \cup {NIL} /\ t.right[n] \in I \cup {NIL}
                      /\ s[n] = {n} \cup s[t.left[n]] \cup s[t.right[n]]
      /\ t.root \in I \cup {NIL}
  BY DEF Shape, Links, Subtrees, NIL, Keys
<1>2. \E f : Solves(NIL, f)
  <2>1. Solves(NIL, [m \in s[NIL] \cup {NIL} |-> v])
    BY <1>1
  <2> QED
    BY <2>1
<1>3. ASSUME NEW a \in B, t.left[a] \notin B, t.right[a] \notin B
      PROVE  FALSE
  <2> DEFINE l == t.left[a]
             r == t.right[a]
  <2>1. \E f : Solves(l, f)
    BY <1>1, <1>2, <1>3
  <2>2. \E f : Solves(r, f)
    BY <1>1, <1>2, <1>3
  <2>3. PICK g : Solves(l, g)
    BY <2>1
  <2>4. PICK h : Solves(r, h)
    BY <2>2
  <2> DEFINE f == [m \in s[a] \cup {NIL} |->
                     IF m = a THEN op[<<a, g[l], h[r]>>] ELSE IF m \in s[l] THEN g[m] ELSE h[m]]
  <2>5. /\ a \in s[a] /\ a \notin s[l] /\ a \notin s[r] /\ s[l] \cap s[r] = {}
        /\ l # NIL => l \in s[l]
        /\ r # NIL => r \in s[r]
        /\ s[a] = {a} \cup s[l] \cup s[r] /\ a # NIL /\ a \in I
        /\ l \in I \cup {NIL} /\ r \in I \cup {NIL} /\ NIL \notin s[l]
    BY <1>1, SidesApart
  <2> HIDE DEF l, r, B
  <2>6. /\ g \in [s[l] \cup {NIL} -> V] /\ g[NIL] = v
        /\ \A m \in s[l] : g[m] = op[<<m, g[t.left[m]], g[t.right[m]]>>]
        /\ h \in [s[r] \cup {NIL} -> V] /\ h[NIL] = v
        /\ \A m \in s[r] : h[m] = op[<<m, h[t.left[m]], h[t.right[m]]>>]
    BY <2>3, <2>4
  <2>7. g[l] \in V /\ h[r] \in V
    BY <2>5, <2>6
  <2>8. /\ f \in [s[a] \cup {NIL} -> V]
        /\ f[NIL] = v
        /\ f[a] = op[<<a, g[l], h[r]>>]
        /\ \A m \in s[l] : f[m] = g[m]
        /\ \A m \in s[r] : f[m] = h[m]
    BY <2>5, <2>6, <2>7
  <2> HIDE DEF f
  <2>9. f[l] = g[l] /\ f[r] = h[r]
    BY <2>5, <2>6, <2>8
  <2>10. ASSUME NEW m \in s[l]
         PROVE  f[t.left[m]] = g[t.left[m]] /\ f[t.right[m]] = g[t.right[m]]
    <3>1. l \in I /\ m \in I
      BY <1>1, <2>5, <2>10
    <3>2. /\ t.left[m] # NIL => t.left[m] \in s[l]
          /\ t.right[m] # NIL => t.right[m] \in s[l]
      BY <3>1, <2>10, Nested, SidesApart
    <3> QED
      BY <2>6, <2>8, <3>2
  <2>11. ASSUME NEW m \in s[r]
         PROVE  f[t.left[m]] = h[t.left[m]] /\ f[t.right[m]] = h[t.right[m]]
    <3>1. r \in I /\ m \in I
      BY <1>1, <2>5, <2>11
    <3>2. /\ t.left[m] # NIL => t.left[m] \in s[r]
          /\ t.right[m] # NIL => t.right[m] \in s[r]
      BY <3>1, <2>11, Nested, SidesApart
    <3> QED
      BY <2>6, <2>8, <3>2
  <2>12. ASSUME NEW m \in s[a]
         PROVE  f[m] = op[<<m, f[t.left[m]], f[t.right[m]]>>]
    <3>1. CASE m = a
      BY <2>8, <2>9, <3>1 DEF l, r
    <3>2. CASE m \in s[l]
      BY <2>6, <2>8, <2>10, <3>2
    <3>3. CASE m \in s[r]
      BY <2>6, <2>8, <2>11, <3>3
    <3> QED
      BY <2>5, <3>1, <3>2, <3>3
  <2>13. Solves(a, f)
    BY <2>8, <2>12
  <2> QED
    BY <2>13 DEF B
<1>4. B = {}
  <2> HIDE DEF B
  <2>1. B \in SUBSET I
    BY DEF B
  <2> QED
    BY <2>1, <1>3, Lowest
<1>5. PICK f : Solves(t.root, f)
  <2> HIDE DEF Solves
  <2>1. \A n \in I : \E f : Solves(n, f)
    BY <1>4
  <2> QED
    BY <1>1, <1>2, <2>1
<1> QED
  BY <1>1, <1>5 DEF IsFold

-----------------------------------------------------------------------------
(* The search.                                                              *)

\* The function Search is defined by.
LEMMA SearchFrom ==
  ASSUME NEW t, NEW I, NEW s, NEW R, Order(R), Shape(t, I, s, R), I = Allocated(t), NEW k
  PROVE  \E f \in [I -> I \cup {NIL}] :
           /\ \A n \in I :
                LET next == IF k < n THEN t.left[n] ELSE t.right[n]
                IN f[n] = IF n = k \/ next = NIL THEN n ELSE f[next]
           /\ Search(t, k) = f[t.root]
<1> DEFINE V == I \cup {NIL}
           next(n) == IF k < n THEN t.left[n] ELSE t.right[n]
           op == [q \in I \X V \X V |->
                    IF q[1] = k \/ next(q[1]) = NIL THEN q[1]
                    ELSE IF k < q[1] THEN q[2] ELSE q[3]]
           Equation(f) == f = [n \in Allocated(t) |->
                                 LET x == IF k < n THEN t.left[n] ELSE t.right[n]
                                 IN IF n = k \/ x = NIL THEN n ELSE f[x]]
<1>1. NIL \notin I /\ \A n \in I : t.left[n] \in V /\ t.right[n] \in V
  BY DEF Shape, Links, NIL, Keys
<1>2. Computes(op, I, V) /\ NIL \in V
  BY DEF Computes
<1>3. PICK g : IsFold(g, t, I, V, NIL, op)
  <2> HIDE DEF op, V
  <2> QED
    BY <1>2, Recursion
<1>4. ASSUME NEW n \in I
      PROVE  g[n] = IF n = k \/ next(n) = NIL THEN n ELSE g[next(n)]
  <2>1. <<n, g[t.left[n]], g[t.right[n]]>> \in I \X V \X V
    BY <1>1, <1>3 DEF IsFold
  <2> QED
    BY <1>3, <2>1 DEF IsFold
<1> HIDE DEF op
<1>5. \E f : Equation(f)
  <2> DEFINE e == [n \in I |-> g[n]]
  <2>1. Equation(e)
    BY <1>1, <1>4
  <2> QED
    BY <2>1
<1> DEFINE f == CHOOSE f : Equation(f)
<1>6. Equation(f)
  BY <1>5
<1>7. Search(t, k) = f[t.root]
  BY DEF Search
<1> HIDE DEF f
<1>8. \A n \in I : f[n] = IF n = k \/ next(n) = NIL THEN n ELSE f[next(n)]
  BY <1>6
<1>9. f \in [I -> I \cup {NIL}]
  <2> DEFINE B == {n \in I : f[n] \notin I}
  <2>1. ASSUME NEW n \in B, t.left[n] \notin B, t.right[n] \notin B
        PROVE  FALSE
    BY <1>1, <1>8, <2>1
  <2>2. B = {}
    <3> HIDE DEF B
    <3>1. B \in SUBSET I
      BY DEF B
    <3> QED
      BY <2>1, <3>1, Lowest
  <2> QED
    BY <1>6, <2>2
<1> QED
  BY <1>7, <1>8, <1>9


\* Where the search ends: at k if k is in the tree, and if it is not, at the
\* node below which there is room for k on the side where k belongs; k is on
\* the same side of every node on the way as that end.
LEMMA SearchEnds ==
  ASSUME NEW t, NEW I, NEW s, Shape(t, I, s, Smaller), I = Allocated(t), I # {},
         NEW k \in Keys, NEW e, e = Search(t, k)
  PROVE  /\ e \in I
         /\ k \in I <=> e = k
         /\ k < e => t.left[e] = NIL
         /\ e < k => t.right[e] = NIL
         /\ \A m \in I : /\ e \in s[t.left[m]] => k < m
                         /\ e \in s[t.right[m]] => m < k
<1> USE SmallerOrder
<1>1. /\ NIL \notin I /\ I \subseteq Keys /\ Keys \subseteq Int
      /\ s[NIL] = {} /\ s[t.root] = I /\ t.root \in I
      /\ \A n \in I : /\ t.left[n] \in I \cup {NIL} /\ t.right[n] \in I \cup {NIL}
                      /\ s[n] = {n} \cup s[t.left[n]] \cup s[t.right[n]]
  BY RBTreeAssumption DEF Shape, Links, Subtrees, NIL, Keys
<1>2. PICK f \in [I -> I \cup {NIL}] :
        /\ \A n \in I :
             LET next == IF k < n THEN t.left[n] ELSE t.right[n]
             IN f[n] = IF n = k \/ next = NIL THEN n ELSE f[next]
        /\ Search(t, k) = f[t.root]
  BY SearchFrom
<1> DEFINE Ends(n) ==
             /\ f[n] \in s[n]
             /\ k \in s[n] => f[n] = k
             /\ k < f[n] => t.left[f[n]] = NIL
             /\ f[n] < k => t.right[f[n]] = NIL
             /\ \A m \in s[n] : /\ f[n] \in s[t.left[m]] => k < m
                                /\ f[n] \in s[t.right[m]] => m < k
           B == {n \in I : ~Ends(n)}
<1>3. ASSUME NEW n \in I, NEW m \in s[t.left[n]]
      PROVE  m \in I /\ m < n /\ s[m] \subseteq s[t.left[n]]
  <2>1. t.left[n] \in I
    BY <1>1, <1>3
  <2>2. m \in I /\ s[m] \subseteq s[t.left[n]]
    BY <2>1, Nested
  <2> QED
    BY <2>2 DEF Shape, Sides, Smaller
<1>4. ASSUME NEW n \in I, NEW m \in s[t.right[n]]
      PROVE  m \in I /\ n < m /\ s[m] \subseteq s[t.right[n]]
  <2>1. t.right[n] \in I
    BY <1>1, <1>4
  <2>2. m \in I /\ s[m] \subseteq s[t.right[n]]
    BY <2>1, Nested
  <2> QED
    BY <2>2 DEF Shape, Sides, Smaller
<1>5. ASSUME NEW n \in I
      PROVE  /\ n \in s[n] /\ n \notin s[t.left[n]] /\ n \notin s[t.right[n]]
             /\ s[t.left[n]] \cap s[t.right[n]] = {}
             /\ s[t.left[n]] \subseteq s[n] /\ s[t.right[n]] \subseteq s[n]
  BY SidesApart
<1>6. ASSUME NEW n \in B, t.left[n] \notin B, t.right[n] \notin B
      PROVE  FALSE
  <2>1. n \in I /\ n \in Int /\ k \in Int
    BY <1>1
  <2> HIDE DEF B
  <2>2. CASE f[n] = n
    <3>1. \A m \in s[t.left[n]] : n \notin s[t.left[m]] /\ n \notin s[t.right[m]]
      BY <1>3, <1>5, <2>1
    <3>2. \A m \in s[t.right[n]] : n \notin s[t.left[m]] /\ n \notin s[t.right[m]]
      BY <1>4, <1>5, <2>1
    <3>3. \A m \in s[n] : n \notin s[t.left[m]] /\ n \notin s[t.right[m]]
      BY <1>1, <1>5, <2>1, <3>1, <3>2
    <3>4. n = k \/ (k < n /\ t.left[n] = NIL) \/ (n < k /\ t.right[n] = NIL)
      <4>1. t.left[n] # NIL => t.left[n] \in I /\ f[t.left[n]] # n
        BY <1>1, <1>5, <1>6, <2>1 DEF B
      <4>2. t.right[n] # NIL => t.right[n] \in I /\ f[t.right[n]] # n
        BY <1>1, <1>5, <1>6, <2>1 DEF B
      <4> QED
        BY <1>2, <2>1, <2>2, <4>1, <4>2
    <3>5. k \in s[n] => n = k
      BY <1>1, <1>3, <1>4, <2>1, <3>4
    <3> QED
      BY <1>5, <2>1, <2>2, <3>3, <3>4, <3>5 DEF B
  <2>3. CASE f[n] # n
    <3>1. CASE k < n
      <4>1. t.left[n] \in I /\ f[n] = f[t.left[n]] /\ Ends(t.left[n])
        BY <1>1, <1>2, <1>6, <2>1, <2>3, <3>1 DEF B
      <4>2. \A m \in s[t.right[n]] : f[n] \notin s[t.left[m]] /\ f[n] \notin s[t.right[m]]
        BY <1>4, <1>5, <2>1, <4>1
      <4>3. k \in s[n] => k \in s[t.left[n]]
        BY <1>1, <1>4, <2>1, <3>1
      <4>4. /\ f[n] \in s[n] /\ f[n] \notin s[t.right[n]]
            /\ \A m \in s[n] : m = n \/ m \in s[t.left[n]] \/ m \in s[t.right[n]]
        BY <1>1, <1>5, <2>1, <4>1
      <4> QED
        BY <2>1, <3>1, <4>1, <4>2, <4>3, <4>4 DEF B
    <3>2. CASE ~(k < n)
      <4>1. n < k /\ t.right[n] \in I /\ f[n] = f[t.right[n]] /\ Ends(t.right[n])
        BY <1>1, <1>2, <1>6, <2>1, <2>3, <3>2 DEF B
      <4>2. \A m \in s[t.left[n]] : f[n] \notin s[t.left[m]] /\ f[n] \notin s[t.right[m]]
        BY <1>3, <1>5, <2>1, <4>1
      <4>3. k \in s[n] => k \in s[t.right[n]]
        BY <1>1, <1>3, <2>1, <4>1
      <4>4. /\ f[n] \in s[n] /\ f[n] \notin s[t.left[n]]
            /\ \A m \in s[n] : m = n \/ m \in s[t.left[n]] \/ m \in s[t.right[n]]
        BY <1>1, <1>5, <2>1, <4>1
      <4> QED
        BY <2>1, <4>1, <4>2, <4>3, <4>4 DEF B
    <3> QED
      BY <3>1, <3>2
  <2> QED
    BY <2>2, <2>3
<1>7. Ends(t.root)
  <2> HIDE DEF Ends
  <2>1. B \in SUBSET I
    OBVIOUS
  <2>2. B = {}
    <3> HIDE DEF B
    <3> QED
      BY <2>1, <1>6, Lowest
  <2> QED
    BY <1>1, <2>2
<1> QED
  BY <1>1, <1>2, <1>7


-----------------------------------------------------------------------------
(* Insertion.                                                               *)

\* The nodes of a tree are those that are linked.
LEMMA LinkedAreAllocated ==
  ASSUME NEW t, NEW I, Links(t, I)
  PROVE  I = Allocated(t)
<1>1. \A n \in Nodes : n \in I <=> t.left[n] # NULL
  <2>1. NULL \notin I \cup {NIL}
    BY DEF Links, Keys, NIL, NULL
  <2> QED
    BY <2>1 DEF Links
<1> QED
  BY <1>1 DEF Links, Allocated, Nodes

\* What rbt_insert does to the links.
LEMMA WithNodeLinks ==
  ASSUME NEW t \in Trees, NEW k \in Keys, NEW p \in Nodes, p # k,
         NEW u, u = WithNode(t, k, p)
  PROVE  /\ u \in Trees
         /\ u.root = IF p = NIL THEN k ELSE t.root
         /\ u.color[k] = "RED" /\ u.parent[k] = p
         /\ u.left[k] = NIL /\ u.right[k] = NIL
         /\ \A n \in Nodes \ {k} : u.color[n] = t.color[n] /\ u.parent[n] = t.parent[n]
         /\ \A n \in Nodes \ {k, p} : u.left[n] = t.left[n] /\ u.right[n] = t.right[n]
         /\ u.left[p] = IF p # NIL /\ k < p THEN k ELSE t.left[p]
         /\ u.right[p] = IF p # NIL /\ k > p THEN k ELSE t.right[p]
<1> DEFINE left == [t.left EXCEPT ![k] = NIL, ![p] = IF p # NIL /\ k < p THEN k ELSE t.left[p]]
           right == [t.right EXCEPT ![k] = NIL, ![p] = IF p # NIL /\ k > p THEN k ELSE t.right[p]]
           color == [t.color EXCEPT ![k] = "RED"]
           parent == [t.parent EXCEPT ![k] = p]
<1>1. Keys \subseteq Nodes /\ NIL \in Nodes /\ NIL \notin Keys
  BY DEF Nodes, Keys, NIL
<1>2. u = [t EXCEPT !.root = IF p = NIL THEN k ELSE @, !.color = color,
                    !.parent = parent, !.left = left, !.right = right]
  BY DEF WithNode, Trees
<1>3. /\ left \in [Nodes -> Nodes \cup {NULL}] /\ right \in [Nodes -> Nodes \cup {NULL}]
      /\ color \in [Nodes -> {"RED", "BLACK"}] /\ parent \in [Nodes -> Nodes \cup {NULL}]
  BY <1>1 DEF Trees
<1>4. /\ color[k] = "RED" /\ parent[k] = p /\ left[k] = NIL /\ right[k] = NIL
      /\ \A n \in Nodes \ {k} : color[n] = t.color[n] /\ parent[n] = t.parent[n]
      /\ \A n \in Nodes \ {k, p} : left[n] = t.left[n] /\ right[n] = t.right[n]
      /\ left[p] = IF p # NIL /\ k < p THEN k ELSE t.left[p]
      /\ right[p] = IF p # NIL /\ k > p THEN k ELSE t.right[p]
  BY <1>1 DEF Trees
<1> HIDE DEF left, right, color, parent
<1>5. /\ u \in Trees
      /\ u.root = IF p = NIL THEN k ELSE t.root
      /\ u.color = color /\ u.parent = parent /\ u.left = left /\ u.right = right
  BY <1>1, <1>2, <1>3 DEF Trees
<1> QED
  BY <1>4, <1>5

\* There is room for k under p, on the side where k belongs: k is on the same
\* side of every node as p, or the tree is empty.
RoomFor(k, p, t, I, s) ==
  \/ p = NIL /\ t.root = NIL
  \/ /\ t.root # NIL
     /\ p \in I
     /\ k < p => t.left[p] = NIL
     /\ p < k => t.right[p] = NIL
     /\ \A m \in I : /\ p \in s[t.left[m]] => k < m
                     /\ p \in s[t.right[m]] => m < k

\* The search finds it.
LEMMA SearchFindsRoom ==
  ASSUME NEW t, NEW I, NEW s, Shape(t, I, s, Smaller), NEW k \in Keys
  PROVE  /\ t.root = NIL => RoomFor(k, NIL, t, I, s) /\ k \notin I
         /\ t.root # NIL => /\ RoomFor(k, Search(t, k), t, I, s)
                            /\ k \in I <=> Search(t, k) = k
<1>1. CASE t.root = NIL
  BY <1>1 DEF RoomFor, Shape, Subtrees
<1>2. CASE t.root # NIL
  <2>1. I = Allocated(t) /\ I # {}
    BY <1>2, LinkedAreAllocated DEF Shape, Links
  <2> QED
    BY <1>2, <2>1, SearchEnds DEF RoomFor
<1> QED
  BY <1>1, <1>2

\* A new node k where there is room for it.
LEMMA WithNodeTree ==
  ASSUME NEW t, NEW I, NEW s, NEW h, RedBlack(t, I, s, h, NIL, Smaller),
         NEW k \in Keys, k \notin I,
         NEW p, RoomFor(k, p, t, I, s),
         NEW u, u = WithNode(t, k, p)
  PROVE  \E e, f : RedBlack(u, I \cup {k}, e, f, k, Smaller)
<1> USE SmallerOrder
<1> DEFINE J == I \cup {k}
           e == [n \in J \cup {NIL} |->
                   IF n = k THEN {k} ELSE IF p \in s[n] THEN s[n] \cup {k} ELSE s[n]]
           f == [n \in J \cup {NIL} |-> IF n = k THEN 1 ELSE h[n]]
<1>keys.
      /\ I \subseteq Keys /\ Keys \subseteq Int /\ Keys \subseteq Nodes
      /\ NIL \in Nodes /\ NIL \notin Keys /\ k \in Keys /\ k \notin I
  BY RBTreeAssumption DEF RedBlack, Shape, Links, Nodes, NIL, Keys
<1>1. /\ s \in [I \cup {NIL} -> SUBSET I] /\ s[NIL] = {} /\ s[t.root] = I
      /\ \A n \in I : s[n] = {n} \cup s[t.left[n]] \cup s[t.right[n]]
  BY DEF RedBlack, Shape, Subtrees
<1>tree. Shape(t, I, s, Smaller) /\ t \in Trees
  BY DEF RedBlack, Shape, Links
<1>links.
      /\ \A n \in Nodes \ I : t.left[n] = NULL /\ t.right[n] = NULL
      /\ t.root # NIL => t.root \in I /\ t.parent[t.root] = NIL
      /\ t.parent[NIL] = NULL
  BY <1>tree DEF Shape, Links
<1>child.
      \A n \in I : /\ t.left[n] \in I \cup {NIL}
                   /\ t.right[n] \in I \cup {NIL}
                   /\ t.left[n] # NIL => t.parent[t.left[n]] = n
                   /\ t.right[n] # NIL => t.parent[t.right[n]] = n
  BY <1>tree DEF Shape, Links
<1>parent.
      \A n \in I : \/ t.parent[n] = NIL /\ n = t.root
                   \/ t.parent[n] \in I /\ n = t.left[t.parent[n]]
                   \/ t.parent[n] \in I /\ n = t.right[t.parent[n]]
  BY <1>tree DEF Shape, Links
<1>2. /\ p = NIL => I = {} /\ t.root = NIL
      /\ p # NIL => p \in I /\ t.root # NIL
  BY <1>keys, <1>1 DEF RoomFor
<1>room.
      /\ p # NIL /\ k < p => t.left[p] = NIL
      /\ p # NIL /\ p < k => t.right[p] = NIL
  BY DEF RoomFor
<1>side.
      \A m \in I : /\ p \in s[t.left[m]] => k < m
                   /\ p \in s[t.right[m]] => m < k
  BY <1>1, <1>2 DEF RoomFor
<1>3. p \in Nodes /\ p # k /\ (p # NIL => k < p \/ p < k)
  <2>1. p # NIL => p \in I
    BY <1>2
  <2>2. p \in Nodes /\ p # k /\ (p # NIL => p \in Int) /\ k \in Int
    BY <1>keys, <2>1
  <2> QED
    BY <2>2
<1>4. /\ u \in Trees
      /\ u.root = IF p = NIL THEN k ELSE t.root
      /\ u.color[k] = "RED" /\ u.parent[k] = p
      /\ u.left[k] = NIL /\ u.right[k] = NIL
      /\ \A n \in Nodes \ {k} : u.color[n] = t.color[n] /\ u.parent[n] = t.parent[n]
      /\ \A n \in Nodes \ {k, p} : u.left[n] = t.left[n] /\ u.right[n] = t.right[n]
      /\ u.left[p] = IF p # NIL /\ k < p THEN k ELSE t.left[p]
      /\ u.right[p] = IF p # NIL /\ k > p THEN k ELSE t.right[p]
  BY <1>keys, <1>3, <1>tree, WithNodeLinks
<1>5. ASSUME NEW n \in I
      PROVE  /\ u.left[n] = IF n = p /\ k < p THEN k ELSE t.left[n]
             /\ u.right[n] = IF n = p /\ k > p THEN k ELSE t.right[n]
             /\ u.parent[n] = t.parent[n] /\ u.color[n] = t.color[n]
             /\ n # k /\ n # NIL /\ n \in Nodes
  BY <1>keys, <1>4
<1>nil. /\ u.left[NIL] = NULL /\ u.right[NIL] = NULL /\ u.parent[NIL] = NULL
        /\ u.color[NIL] = "BLACK"
  <2>1. t.left[NIL] = NULL /\ t.right[NIL] = NULL /\ t.color[NIL] = "BLACK"
    BY <1>keys, <1>links DEF RedBlack, Colours
  <2>2. NIL # k /\ NIL \in Nodes
    BY <1>keys
  <2> QED
    BY <1>4, <1>links, <2>1, <2>2
<1>6. Links(u, J)
  <2>1. \A n \in Nodes \ J : u.left[n] = NULL /\ u.right[n] = NULL
    BY <1>2, <1>4, <1>links, <1>nil
  <2>2. ASSUME NEW n \in J
        PROVE  /\ u.left[n] \in J \cup {NIL} /\ u.right[n] \in J \cup {NIL}
               /\ u.left[n] # NIL => u.parent[u.left[n]] = n
               /\ u.right[n] # NIL => u.parent[u.right[n]] = n
    <3>1. CASE n = k
      BY <1>4, <3>1
    <3>2. CASE n # k
      <4>1. /\ n \in I /\ t.left[n] \in I \cup {NIL} /\ t.right[n] \in I \cup {NIL}
            /\ t.left[n] # NIL => t.parent[t.left[n]] = n
            /\ t.right[n] # NIL => t.parent[t.right[n]] = n
        BY <1>child, <3>2
      <4>2. /\ t.left[n] # NIL => u.parent[t.left[n]] = n
            /\ t.right[n] # NIL => u.parent[t.right[n]] = n
        BY <1>5, <4>1
      <4>3. /\ (u.left[n] = k /\ n = p) \/ u.left[n] = t.left[n]
            /\ (u.right[n] = k /\ n = p) \/ u.right[n] = t.right[n]
        BY <1>5, <4>1
      <4> QED
        BY <1>4, <4>1, <4>2, <4>3
    <3> QED
      BY <3>1, <3>2
  <2>3. ASSUME NEW n \in J
        PROVE  \/ u.parent[n] = NIL /\ n = u.root
               \/ u.parent[n] \in J /\ n = u.left[u.parent[n]]
               \/ u.parent[n] \in J /\ n = u.right[u.parent[n]]
    <3>1. CASE n = k
      <4>1. CASE p = NIL
        BY <1>4, <3>1, <4>1
      <4>2. CASE p # NIL
        <5>1. p \in I /\ p \in Int /\ k \in Int
          BY <1>2, <1>keys, <4>2
        <5> QED
          BY <1>3, <1>4, <3>1, <4>2, <5>1
      <4> QED
        BY <4>1, <4>2
    <3>2. CASE n # k
      <4>1. n \in I /\ u.parent[n] = t.parent[n] /\ p # NIL /\ u.root = t.root
        BY <1>2, <1>4, <1>5, <3>2
      <4>2. CASE t.parent[n] = NIL /\ n = t.root
        BY <4>1, <4>2
      <4>3. CASE t.parent[n] \in I /\ n = t.left[t.parent[n]]
        BY <1>5, <1>room, <4>1, <4>3
      <4>4. CASE t.parent[n] \in I /\ n = t.right[t.parent[n]]
        BY <1>5, <1>room, <4>1, <4>4
      <4> QED
        BY <1>parent, <4>1, <4>2, <4>3, <4>4
    <3> QED
      BY <3>1, <3>2
  <2>4. u.root # NIL => u.root \in J /\ u.parent[u.root] = NIL
    BY <1>2, <1>4, <1>5, <1>links
  <2>5. J \subseteq Keys
    BY <1>keys
  <2> QED
    BY <1>4, <1>nil, <2>1, <2>2, <2>3, <2>4, <2>5 DEF Links
<1>7. /\ e \in [J \cup {NIL} -> SUBSET J]
      /\ e[k] = {k} /\ e[NIL] = {}
      /\ \A n \in I : e[n] = IF p \in s[n] THEN s[n] \cup {k} ELSE s[n]
  BY <1>keys, <1>1
<1> HIDE DEF e
<1>8. ASSUME NEW n \in I
      PROVE  /\ e[u.left[n]] = s[t.left[n]] \cup
                  (IF p \in s[t.left[n]] \/ (n = p /\ k < n) THEN {k} ELSE {})
             /\ e[u.right[n]] = s[t.right[n]] \cup
                  (IF p \in s[t.right[n]] \/ (n = p /\ n < k) THEN {k} ELSE {})
  <2>1. p \in I /\ p # NIL /\ n \in Int /\ k \in Int
    BY <1>2, <1>keys
  <2>2. n = p => p \notin s[t.left[n]] /\ p \notin s[t.right[n]]
    BY <1>tree, SidesApart
  <2>3. ASSUME NEW m \in I \cup {NIL}
        PROVE  e[m] = s[m] \cup (IF p \in s[m] THEN {k} ELSE {})
    BY <1>1, <1>7, <2>1
  <2>4. e[t.left[n]] = s[t.left[n]] \cup (IF p \in s[t.left[n]] THEN {k} ELSE {})
    BY <1>child, <2>3
  <2>5. e[t.right[n]] = s[t.right[n]] \cup (IF p \in s[t.right[n]] THEN {k} ELSE {})
    BY <1>child, <2>3
  <2>6. CASE n = p
    <3>1. /\ k < n => u.left[n] = k /\ u.right[n] = t.right[n] /\ s[t.left[n]] = {}
          /\ n < k => u.right[n] = k /\ u.left[n] = t.left[n] /\ s[t.right[n]] = {}
      BY <1>1, <1>5, <1>room, <2>1, <2>6
    <3>2. ~(k < n /\ n < k) /\ (k < n \/ n < k)
      BY <1>3, <2>1, <2>6
    <3> QED
      BY <1>7, <2>2, <2>4, <2>5, <2>6, <3>1, <3>2
  <2>7. CASE n # p
    <3>1. u.left[n] = t.left[n] /\ u.right[n] = t.right[n]
      BY <1>5, <2>7
    <3> QED
      BY <2>4, <2>5, <2>7, <3>1
  <2> QED
    BY <2>6, <2>7
<1>9. Subtrees(u, J, e)
  <2>1. e[u.root] = J
    <3>1. CASE p = NIL
      BY <1>2, <1>4, <1>7, <3>1
    <3>2. CASE p # NIL
      <4>1. p \in I /\ u.root = t.root /\ t.root \in I
        BY <1>2, <1>4, <1>links, <3>2
      <4> QED
        BY <1>1, <1>7, <4>1
    <3> QED
      BY <3>1, <3>2
  <2>2. ASSUME NEW n \in I
        PROVE  e[n] = {n} \cup e[u.left[n]] \cup e[u.right[n]]
    <3>1. n = p => k < n \/ n < k
      BY <1>3, <1>5
    <3>2. s[n] = {n} \cup s[t.left[n]] \cup s[t.right[n]]
      BY <1>1
    <3>3. p \in s[n] <=> n = p \/ p \in s[t.left[n]] \/ p \in s[t.right[n]]
      BY <3>2
    <3> QED
      BY <1>7, <1>8, <3>1, <3>2, <3>3
  <2>3. e[k] = {k} \cup e[u.left[k]] \cup e[u.right[k]]
    BY <1>4, <1>7
  <2> QED
    BY <1>7, <2>1, <2>2, <2>3 DEF Subtrees
<1>10. Sides(u, J, e, Smaller)
  <2>1. ASSUME NEW n \in I
        PROVE  /\ \A m \in e[u.left[n]] : <<m, n>> \in Smaller
               /\ \A m \in e[u.right[n]] : <<n, m>> \in Smaller
    <3>1. /\ \A m \in s[t.left[n]] : <<m, n>> \in Smaller
          /\ \A m \in s[t.right[n]] : <<n, m>> \in Smaller
      BY <1>tree DEF Shape, Sides
    <3>2. /\ p \in s[t.left[n]] \/ (n = p /\ k < n) => <<k, n>> \in Smaller
          /\ p \in s[t.right[n]] \/ (n = p /\ n < k) => <<n, k>> \in Smaller
      BY <1>keys, <1>side DEF Smaller
    <3> QED
      BY <1>8, <3>1, <3>2
  <2>2. e[u.left[k]] = {} /\ e[u.right[k]] = {}
    BY <1>4, <1>7
  <2> QED
    BY <2>1, <2>2 DEF Sides
<1>11. Heights(u, J, f)
  <2>1. /\ h \in [I \cup {NIL} -> Nat] /\ h[NIL] = 1
        /\ \A n \in I : /\ h[t.left[n]] = h[t.right[n]]
                        /\ h[n] = h[t.left[n]] + IF t.color[n] = "BLACK" THEN 1 ELSE 0
    BY DEF RedBlack, Heights
  <2>2. /\ f \in [J \cup {NIL} -> Nat] /\ f[k] = 1 /\ f[NIL] = 1
        /\ \A n \in I : f[n] = h[n]
    BY <1>keys, <2>1
  <2> HIDE DEF f
  <2>3. ASSUME NEW n \in I
        PROVE  /\ f[u.left[n]] = h[t.left[n]] /\ f[u.right[n]] = h[t.right[n]]
               /\ u.color[n] = t.color[n]
    <3>1. t.left[n] \in I \cup {NIL} /\ t.right[n] \in I \cup {NIL}
      BY <1>child
    <3>2. /\ (u.left[n] = k /\ t.left[n] = NIL) \/ u.left[n] = t.left[n]
          /\ (u.right[n] = k /\ t.right[n] = NIL) \/ u.right[n] = t.right[n]
      BY <1>5, <1>room
    <3> QED
      BY <1>5, <2>1, <2>2, <3>1, <3>2
  <2>4. /\ f[u.left[k]] = 1 /\ f[u.right[k]] = 1 /\ u.color[k] = "RED"
    BY <1>4, <2>2
  <2>5. ASSUME NEW n \in I
        PROVE  /\ f[u.left[n]] = f[u.right[n]]
               /\ f[n] = f[u.left[n]] + IF u.color[n] = "BLACK" THEN 1 ELSE 0
    BY <2>1, <2>2, <2>3
  <2> QED
    BY <2>2, <2>4, <2>5 DEF Heights
<1>12. Colours(u, J, k)
  <2>1. ASSUME NEW n \in J, u.color[n] = "RED", n # k
        PROVE  n # u.root /\ u.color[u.parent[n]] = "BLACK"
    <3>1. n \in I /\ t.color[n] = "RED" /\ u.parent[n] = t.parent[n] /\ u.root = t.root
      BY <1>2, <1>4, <1>5, <2>1
    <3>2. n # t.root /\ t.color[t.parent[n]] = "BLACK"
      BY <1>5, <3>1 DEF RedBlack, Colours
    <3>3. t.parent[n] \in I
      BY <1>parent, <3>1, <3>2
    <3> QED
      BY <1>5, <3>1, <3>2, <3>3
  <2> QED
    BY <1>4, <1>nil, <2>1 DEF Colours
<1>13. Shape(u, J, e, Smaller)
  BY <1>6, <1>9, <1>10 DEF Shape
<1> HIDE DEF f
<1> QED
  BY <1>11, <1>12, <1>13 DEF RedBlack


LEMMA InsertNodeStep ==
  ASSUME TreeInv, NEW k \in Keys, InsertNode(k)
  PROVE  TreeInv'
<1>1. PICK s, h : RedBlack(tree, inserted, s, h, z, Smaller)
  BY DEF TreeInv
<1> DEFINE p == IF tree.root = NIL THEN NIL ELSE Search(tree, k)
<1>2. /\ z = NIL /\ z' = k /\ inserted' = inserted \cup {k}
      /\ p # k /\ tree' = WithNode(tree, k, p)
  BY DEF InsertNode
<1>3. RedBlack(tree, inserted, s, h, NIL, Smaller)
  BY <1>1, <1>2
<1>4. k \notin inserted /\ RoomFor(k, p, tree, inserted, s)
  BY <1>2, <1>3, SearchFindsRoom DEF RedBlack
<1> HIDE DEF p
<1>5. \E e, f : RedBlack(WithNode(tree, k, p), inserted \cup {k}, e, f, k, Smaller)
  BY <1>3, <1>4, WithNodeTree
<1> QED
  BY <1>2, <1>5 DEF TreeInv

-----------------------------------------------------------------------------
(* The invariant.                                                           *)

LEMMA TreeStep ==
  ASSUME TreeInv, [TreeNext]_treeVars
  PROVE  TreeInv'
<1>1. ASSUME NEW k \in Keys, InsertInList(k)
      PROVE  TreeInv'
  BY <1>1 DEF InsertInList, treeVars, TreeInv
<1>2. ASSUME NEW k \in Keys, InsertNode(k)
      PROVE  TreeInv'
  BY <1>2, InsertNodeStep
<1>3. ASSUME RedUncle
      PROVE  TreeInv'
  BY <1>3, RedUncleStep DEF TreeInv
<1>4. ASSUME BlackUncle
      PROVE  TreeInv'
  BY <1>4, BlackUncleStep
<1>5. ASSUME EndFixUp
      PROVE  TreeInv'
  BY <1>5, EndFixUpStep
<1>6. ASSUME UNCHANGED treeVars
      PROVE  TreeInv'
  BY <1>6 DEF treeVars, TreeInv
<1> QED
  BY <1>1, <1>2, <1>3, <1>4, <1>5, <1>6 DEF TreeNext, FixUp

\* There are always subtrees and heights of a red-black tree.
LEMMA TreeInvariant == TreeSafeSpec => []TreeInv
<1>1. TreeInit => TreeInv
  BY TreeInitInv
<1>2. TreeInv /\ [TreeNext]_treeVars => TreeInv'
  BY TreeStep
<1> QED
  BY <1>1, <1>2, PTL DEF TreeSafeSpec

-----------------------------------------------------------------------------
(* The recursive definitions are these subtrees and heights.                *)

LEMMA BelowIsSubtrees ==
  ASSUME NEW t, NEW I, NEW s, Shape(t, I, s, Smaller)
  PROVE  Below(t) = s
<1> USE SmallerOrder
<1> DEFINE Equation(f) == f = [n \in Allocated(t) \cup {NIL} |->
                                 IF n = NIL THEN {}
                                 ELSE {n} \cup f[t.left[n]] \cup f[t.right[n]]]
<1>1. /\ I = Allocated(t) /\ NIL \notin I
      /\ s \in [I \cup {NIL} -> SUBSET I] /\ s[NIL] = {}
      /\ \A n \in I : s[n] = {n} \cup s[t.left[n]] \cup s[t.right[n]]
  <2>1. I = Allocated(t)
    BY LinkedAreAllocated DEF Shape
  <2> QED
    BY <2>1 DEF Shape, Links, Subtrees, Keys, NIL
<1>2. \E f : Equation(f)
  <2>1. Equation(s)
    BY <1>1
  <2> QED
    BY <2>1
<1> DEFINE f == CHOOSE f : Equation(f)
<1>3. Equation(f)
  BY <1>2
<1>4. Below(t) = f
  BY DEF Below
<1> HIDE DEF f
<1>5. /\ f = [n \in I \cup {NIL} |-> f[n]]
      /\ f[NIL] = {}
      /\ \A n \in I : f[n] = {n} \cup f[t.left[n]] \cup f[t.right[n]]
  BY <1>1, <1>3
<1> DEFINE B == {n \in I : f[n] # s[n]}
<1>6. ASSUME NEW n \in B, t.left[n] \notin B, t.right[n] \notin B
      PROVE  FALSE
  <2>1. t.left[n] \in I \cup {NIL} /\ t.right[n] \in I \cup {NIL} /\ n \in I
    BY DEF Shape, Links
  <2>2. f[t.left[n]] = s[t.left[n]] /\ f[t.right[n]] = s[t.right[n]]
    BY <1>1, <1>5, <1>6, <2>1
  <2> QED
    BY <1>1, <1>5, <2>1, <2>2
<1>7. B = {}
  <2>1. B \in SUBSET I
    OBVIOUS
  <2> HIDE DEF B
  <2> QED
    BY <1>6, <2>1, Lowest
<1>8. \A n \in I \cup {NIL} : f[n] = s[n]
  BY <1>1, <1>5, <1>7
<1>9. s = [n \in I \cup {NIL} |-> s[n]]
  BY <1>1
<1>10. f = [n \in I \cup {NIL} |-> s[n]]
  BY <1>5, <1>8
<1> QED
  BY <1>4, <1>9, <1>10

LEMMA BlackHeightsAreHeights ==
  ASSUME NEW t, NEW I, NEW s, NEW h, Shape(t, I, s, Smaller), Heights(t, I, h)
  PROVE  BlackHeights(t) = h
<1> USE SmallerOrder
<1> DEFINE Black(n) == IF t.color[n] = "BLACK" THEN 1 ELSE 0
           Equation(f) == f = [n \in Allocated(t) \cup {NIL} |->
                                 IF n = NIL THEN 1
                                 ELSE f[t.left[n]] + IF t.color[n] = "BLACK" THEN 1 ELSE 0]
<1>1. /\ I = Allocated(t) /\ NIL \notin I
      /\ h \in [I \cup {NIL} -> Nat] /\ h[NIL] = 1
      /\ \A n \in I : h[n] = h[t.left[n]] + IF t.color[n] = "BLACK" THEN 1 ELSE 0
  <2>1. I = Allocated(t)
    BY LinkedAreAllocated DEF Shape
  <2> QED
    BY <2>1 DEF Shape, Links, Heights, Keys, NIL
<1>2. \E f : Equation(f)
  <2>1. Equation(h)
    BY <1>1
  <2> QED
    BY <2>1
<1> DEFINE f == CHOOSE f : Equation(f)
<1>3. Equation(f)
  BY <1>2
<1>4. BlackHeights(t) = f
  BY DEF BlackHeights
<1> HIDE DEF f
<1>5. /\ f = [n \in I \cup {NIL} |-> f[n]]
      /\ f[NIL] = 1
      /\ \A n \in I : f[n] = f[t.left[n]] + IF t.color[n] = "BLACK" THEN 1 ELSE 0
  BY <1>1, <1>3
<1> DEFINE B == {n \in I : f[n] # h[n]}
<1>6. ASSUME NEW n \in B, t.left[n] \notin B, t.right[n] \notin B
      PROVE  FALSE
  <2>1. t.left[n] \in I \cup {NIL} /\ n \in I
    BY DEF Shape, Links
  <2>2. f[t.left[n]] = h[t.left[n]]
    BY <1>1, <1>5, <1>6, <2>1
  <2> QED
    BY <1>1, <1>5, <2>1, <2>2
<1>7. B = {}
  <2>1. B \in SUBSET I
    OBVIOUS
  <2> HIDE DEF B
  <2> QED
    BY <1>6, <2>1, Lowest
<1>8. \A n \in I \cup {NIL} : f[n] = h[n]
  BY <1>1, <1>5, <1>7
<1> QED
  BY <1>1, <1>4, <1>5, <1>8

\* Whatever is inserted, and wherever fix_up is, the tree is a search tree,
\* balanced but for the node fix_up is at, and linked both ways; the sentinel
\* is untouched.
THEOREM TreeWellFormed == TreeSafeSpec => []WellFormed
<1>1. TreeInv => WellFormed
  <2> SUFFICES ASSUME NEW s, NEW h, RedBlack(tree, inserted, s, h, z, Smaller)
               PROVE  WellFormed
    BY DEF TreeInv
  <2>1. /\ Shape(tree, inserted, s, Smaller) /\ Heights(tree, inserted, h)
        /\ Colours(tree, inserted, z)
    BY DEF RedBlack
  <2>2. Below(tree) = s /\ BlackHeights(tree) = h
    BY <2>1, BelowIsSubtrees, BlackHeightsAreHeights
  <2>3. TreeTypeOK
    <3>1. inserted = Allocated(tree)
      BY <2>1, LinkedAreAllocated DEF Shape
    <3>2. /\ tree \in Trees
          /\ \A k \in inserted :
               {tree.parent[k], tree.left[k], tree.right[k]} \subseteq inserted \cup {NIL}
          /\ {tree.root, z} \subseteq inserted \cup {NIL}
      BY <2>1 DEF Shape, Links, Colours
    <3> QED
      BY <3>1, <3>2 DEF TreeTypeOK
  <2>4. Ordered
    <3>1. s[tree.root] = inserted
      BY <2>1 DEF Shape, Subtrees
    <3>2. ASSUME NEW n \in inserted
          PROVE  /\ \A m \in s[tree.left[n]] : m < n
                 /\ \A m \in s[tree.right[n]] : n < m
      BY <2>1 DEF Shape, Sides, Smaller
    <3> QED
      BY <2>2, <3>1, <3>2 DEF Ordered
  <2>5. Balanced
    BY <2>1, <2>2 DEF Balanced, Heights, Colours
  <2>6. Linked
    <3>1. tree.color[NIL] = "BLACK"
      BY <2>1 DEF Colours
    <3>2. tree.parent[NIL] = NULL /\ tree.left[NIL] = NULL /\ tree.right[NIL] = NULL
      BY <2>1 DEF Shape, Links, Nodes, NIL, Keys
    <3>3. ASSUME NEW k \in inserted
          PROVE  LET p == tree.parent[k] IN
                   IF p = NIL THEN k = tree.root ELSE k \in {tree.left[p], tree.right[p]}
      BY <2>1 DEF Shape, Links, NIL, Keys
    <3> QED
      BY <3>1, <3>2, <3>3 DEF Linked
  <2> QED
    BY <2>3, <2>4, <2>5, <2>6 DEF WellFormed
<1> QED
  BY <1>1, TreeInvariant, PTL


-----------------------------------------------------------------------------
(* The range visit.                                                         *)

Elements(v) == {v[i] : i \in 1..Len(v)}

Sorted(v) == \A i, j \in 1..Len(v) : i < j => v[i] < v[j]

\* Sequences one after the other are sorted if they are, and all of the first
\* is smaller than all of the second.
LEMMA SortedConcatenation ==
  ASSUME NEW v \in Seq(Keys), NEW w \in Seq(Keys), Sorted(v), Sorted(w),
         \A a \in Elements(v), b \in Elements(w) : a < b
  PROVE  v \o w \in Seq(Keys) /\ Sorted(v \o w) /\ Elements(v \o w) = Elements(v) \cup Elements(w)
<1> DEFINE c == v \o w
<1>1. /\ Len(v) \in Nat /\ Len(w) \in Nat /\ c \in Seq(Keys) /\ Len(c) = Len(v) + Len(w)
      /\ \A i \in 1..Len(c) : c[i] = IF i <= Len(v) THEN v[i] ELSE w[i - Len(v)]
  OBVIOUS
<1>2. /\ \A i \in 1..Len(v) : v[i] \in Elements(v)
      /\ \A i \in 1..Len(w) : w[i] \in Elements(w)
  BY DEF Elements
<1> HIDE DEF c
<1>3. ASSUME NEW i \in 1..Len(c), NEW j \in 1..Len(c), i < j
      PROVE  c[i] < c[j]
  <2>1. CASE j <= Len(v)
    BY <1>1, <1>3, <2>1 DEF Sorted
  <2>2. CASE i > Len(v)
    <3>1. i - Len(v) \in 1..Len(w) /\ j - Len(v) \in 1..Len(w) /\ i - Len(v) < j - Len(v)
      BY <1>1, <1>3, <2>2
    <3>2. c[i] = w[i - Len(v)] /\ c[j] = w[j - Len(v)]
      BY <1>1, <1>3, <2>2
    <3> QED
      BY <3>1, <3>2 DEF Sorted
  <2>3. CASE i <= Len(v) /\ j > Len(v)
    <3>1. i \in 1..Len(v) /\ j - Len(v) \in 1..Len(w)
      BY <1>1, <1>3, <2>3
    <3>2. c[i] = v[i] /\ c[j] = w[j - Len(v)]
      BY <1>1, <2>3
    <3> QED
      BY <1>2, <3>1, <3>2
  <2> QED
    BY <1>1, <1>3, <2>1, <2>2, <2>3
<1>4. Elements(c) = Elements(v) \cup Elements(w)
  <2>1. ASSUME NEW x \in Elements(c)
        PROVE  x \in Elements(v) \cup Elements(w)
    <3>1. PICK i \in 1..Len(c) : x = c[i]
      BY DEF Elements
    <3>2. CASE i <= Len(v)
      <4>1. i \in 1..Len(v) /\ x = v[i]
        BY <1>1, <3>1, <3>2
      <4> QED
        BY <1>2, <4>1
    <3>3. CASE i > Len(v)
      <4>1. i - Len(v) \in 1..Len(w) /\ x = w[i - Len(v)]
        BY <1>1, <3>1, <3>3
      <4> QED
        BY <1>2, <4>1
    <3> QED
      BY <1>1, <3>2, <3>3
  <2>2. ASSUME NEW x \in Elements(v)
        PROVE  x \in Elements(c)
    <3>1. PICK i \in 1..Len(v) : x = v[i]
      BY DEF Elements
    <3>2. i \in 1..Len(c) /\ c[i] = x
      BY <1>1, <3>1
    <3> QED
      BY <3>2 DEF Elements
  <2>3. ASSUME NEW x \in Elements(w)
        PROVE  x \in Elements(c)
    <3>1. PICK i \in 1..Len(w) : x = w[i]
      BY DEF Elements
    <3>2. i + Len(v) \in 1..Len(c) /\ ~(i + Len(v) <= Len(v)) /\ (i + Len(v)) - Len(v) = i
      BY <1>1
    <3>3. c[i + Len(v)] = x
      BY <1>1, <3>1, <3>2
    <3> QED
      BY <3>2, <3>3 DEF Elements
  <2> QED
    BY <2>1, <2>2, <2>3
<1> QED
  BY <1>1, <1>3, <1>4 DEF c, Sorted

\* f gives what a visit of the subtree of each node of I finds.
IsVisit(f, t, I, low, high) ==
  /\ f \in [I \cup {NIL} -> Seq(Keys)]
  /\ f[NIL] = <<>>
  /\ \A n \in I :
       f[n] = (IF n > low THEN f[t.left[n]] ELSE <<>>)
              \o (IF low <= n /\ n <= high THEN <<n>> ELSE <<>>)
              \o (IF n < high THEN f[t.right[n]] ELSE <<>>)

\* The function Visit is defined by.
LEMMA VisitFrom ==
  ASSUME NEW t, NEW I, NEW s, Shape(t, I, s, Smaller), NEW low, NEW high
  PROVE  \E f : IsVisit(f, t, I, low, high) /\ Visit(t, low, high) = f[t.root]
<1> USE SmallerOrder
<1> DEFINE V == Seq(Keys)
           Here(n) == IF low <= n /\ n <= high THEN <<n>> ELSE <<>>
           op == [q \in I \X V \X V |->
                    (IF q[1] > low THEN q[2] ELSE <<>>) \o Here(q[1])
                    \o (IF q[1] < high THEN q[3] ELSE <<>>)]
           Equation(f) == f = [n \in Allocated(t) \cup {NIL} |->
                                 IF n = NIL THEN <<>>
                                 ELSE (IF n > low THEN f[t.left[n]] ELSE <<>>)
                                      \o (IF low <= n /\ n <= high THEN <<n>> ELSE <<>>)
                                      \o (IF n < high THEN f[t.right[n]] ELSE <<>>)]
<1>1. /\ NIL \notin I /\ I \subseteq Keys
      /\ \A n \in I : t.left[n] \in I \cup {NIL} /\ t.right[n] \in I \cup {NIL}
  BY DEF Shape, Links, NIL, Keys
<1>2. I = Allocated(t)
  BY LinkedAreAllocated DEF Shape
<1>3. Computes(op, I, V) /\ <<>> \in V
  <2>1. \A n \in I : Here(n) \in V
    BY <1>1
  <2>2. ASSUME NEW q \in I \X V \X V
        PROVE  (IF q[1] > low THEN q[2] ELSE <<>>) \o Here(q[1])
               \o (IF q[1] < high THEN q[3] ELSE <<>>) \in V
    <3>1. q[1] \in I /\ q[2] \in V /\ q[3] \in V
      OBVIOUS
    <3>2. Here(q[1]) \in V
      BY <2>1, <3>1
    <3> HIDE DEF Here
    <3> QED
      BY <3>1, <3>2
  <2> HIDE DEF Here
  <2> QED
    BY <2>2 DEF Computes
<1>4. PICK g : IsFold(g, t, I, V, <<>>, op)
  <2> HIDE DEF op, V
  <2> QED
    BY <1>3, Recursion
<1>5. ASSUME NEW n \in I
      PROVE  g[n] = (IF n > low THEN g[t.left[n]] ELSE <<>>)
                    \o (IF low <= n /\ n <= high THEN <<n>> ELSE <<>>)
                    \o (IF n < high THEN g[t.right[n]] ELSE <<>>)
  <2>1. <<n, g[t.left[n]], g[t.right[n]]>> \in I \X V \X V
    BY <1>1, <1>4 DEF IsFold
  <2> QED
    BY <1>4, <2>1 DEF IsFold
<1> HIDE DEF op
<1>6. \E f : Equation(f)
  <2>1. Equation(g)
    BY <1>1, <1>2, <1>4, <1>5 DEF IsFold
  <2> QED
    BY <2>1
<1> DEFINE f == CHOOSE f : Equation(f)
<1>7. Equation(f)
  BY <1>6
<1>8. Visit(t, low, high) = f[t.root]
  BY DEF Visit
<1> HIDE DEF f
<1>9. /\ f = [n \in I \cup {NIL} |-> f[n]]
      /\ f[NIL] = <<>>
      /\ \A n \in I : f[n] = (IF n > low THEN f[t.left[n]] ELSE <<>>)
                             \o (IF low <= n /\ n <= high THEN <<n>> ELSE <<>>)
                             \o (IF n < high THEN f[t.right[n]] ELSE <<>>)
  BY <1>1, <1>2, <1>7
<1>10. \A n \in I : f[n] \in V
  <2> DEFINE B == {n \in I : f[n] \notin V}
  <2>1. ASSUME NEW n \in B, t.left[n] \notin B, t.right[n] \notin B
        PROVE  FALSE
    <3> HIDE DEF V
    <3>1. f[t.left[n]] \in V /\ f[t.right[n]] \in V /\ n \in I /\ n \in Keys
      BY <1>1, <1>3, <1>9, <2>1
    <3>2. f[n] \in V
      <4> DEFINE u == IF n > low THEN f[t.left[n]] ELSE <<>>
                 w == IF n < high THEN f[t.right[n]] ELSE <<>>
      <4>1. u \in V /\ w \in V /\ Here(n) \in V
        <5>1. <<n>> \in V
          BY <3>1 DEF V
        <5> QED
          BY <1>3, <3>1, <5>1
      <4>2. f[n] = u \o Here(n) \o w
        BY <1>9, <3>1
      <4> HIDE DEF u, w, Here
      <4> QED
        BY <4>1, <4>2 DEF V
    <3> QED
      BY <2>1, <3>2
  <2>2. B \in SUBSET I
    OBVIOUS
  <2>3. B = {}
    <3> HIDE DEF B
    <3> QED
      BY <2>1, <2>2, Lowest
  <2> QED
    BY <2>3
<1>11. f \in [I \cup {NIL} -> Seq(Keys)]
  <2>1. <<>> \in Seq(Keys)
    BY <1>3
  <2>2. \A n \in I \cup {NIL} : f[n] \in Seq(Keys)
    BY <1>9, <1>10, <2>1
  <2>3. f = [n \in I \cup {NIL} |-> f[n]]
    BY <1>9
  <2> HIDE DEF V
  <2> QED
    BY <2>2, <2>3
<1>12. IsVisit(f, t, I, low, high)
  BY <1>9, <1>11 DEF IsVisit
<1> QED
  BY <1>8, <1>12


LEMMA VisitInRange ==
  ASSUME NEW t, NEW I, NEW s, Shape(t, I, s, Smaller), NEW low \in Keys, NEW high \in Keys,
         NEW v, v = Visit(t, low, high)
  PROVE  v \in Seq(Keys) /\ Sorted(v) /\ Elements(v) = I \cap (low..high)
<1>pick. PICK f : IsVisit(f, t, I, low, high) /\ Visit(t, low, high) = f[t.root]
  BY VisitFrom
<1>1. /\ f \in [I \cup {NIL} -> Seq(Keys)]
      /\ f[NIL] = <<>>
      /\ \A n \in I :
           f[n] = (IF n > low THEN f[t.left[n]] ELSE <<>>)
                  \o (IF low <= n /\ n <= high THEN <<n>> ELSE <<>>)
                  \o (IF n < high THEN f[t.right[n]] ELSE <<>>)
      /\ Visit(t, low, high) = f[t.root]
  BY <1>pick DEF IsVisit
<1>2. /\ NIL \notin I /\ I \subseteq Keys /\ Keys \subseteq Int
      /\ low \in Int /\ high \in Int
      /\ \A n \in I : t.left[n] \in I \cup {NIL} /\ t.right[n] \in I \cup {NIL}
      /\ t.root \in I \cup {NIL}
  BY RBTreeAssumption DEF Shape, Links, NIL, Keys
<1>3. /\ s \in [I \cup {NIL} -> SUBSET I] /\ s[NIL] = {} /\ s[t.root] = I
      /\ \A n \in I : s[n] = {n} \cup s[t.left[n]] \cup s[t.right[n]]
  BY DEF Shape, Subtrees
<1>4. \A n \in I : /\ \A m \in s[t.left[n]] : m < n
                   /\ \A m \in s[t.right[n]] : n < m
  BY DEF Shape, Sides, Smaller
<1> DEFINE Within(S) == S \cap (low..high)
           InOrder(v_, S) == v_ \in Seq(Keys) /\ Sorted(v_) /\ Elements(v_) = S
<1>5. InOrder(<<>>, {})
  BY DEF Sorted, Elements
<1>6. ASSUME NEW n \in I
      PROVE  InOrder(<<n>>, {n})
  BY <1>2 DEF Sorted, Elements
<1>7. ASSUME NEW a, NEW b, NEW A, NEW B, InOrder(a, A), InOrder(b, B),
             \A x \in A, y \in B : x < y
      PROVE  InOrder(a \o b, A \cup B)
  BY <1>7, SortedConcatenation
<1> HIDE DEF InOrder
<1> DEFINE Good(n) == InOrder(f[n], Within(s[n]))
           B == {n \in I : ~Good(n)}
<1>8. ASSUME NEW n \in B, t.left[n] \notin B, t.right[n] \notin B
      PROVE  FALSE
  <2> DEFINE l == t.left[n]
             r == t.right[n]
             u == IF n > low THEN f[l] ELSE <<>>
             m == IF low <= n /\ n <= high THEN <<n>> ELSE <<>>
             w == IF n < high THEN f[r] ELSE <<>>
             M == Within({n})
  <2>1. n \in I /\ n \in Int /\ ~Good(n) /\ l \in I \cup {NIL} /\ r \in I \cup {NIL}
        /\ s[l] \subseteq Int /\ s[r] \subseteq Int
    BY <1>2, <1>3
  <2>2. Good(NIL)
    BY <1>1, <1>3, <1>5
  <2>3. Good(l) /\ Good(r)
    BY <1>8, <2>1, <2>2
  <2>4. InOrder(u, Within(s[l]))
    <3>1. CASE n > low
      BY <2>3, <3>1
    <3>2. CASE ~(n > low)
      <4>1. Within(s[l]) = {}
        <5>1. \A x \in s[l] : x \in Int /\ x < n
          BY <1>4, <2>1
        <5> QED
          BY <1>2, <2>1, <3>2, <5>1
      <4> QED
        BY <1>5, <3>2, <4>1
    <3> QED
      BY <3>1, <3>2
  <2>5. InOrder(w, Within(s[r]))
    <3>1. CASE n < high
      BY <2>3, <3>1
    <3>2. CASE ~(n < high)
      <4>1. Within(s[r]) = {}
        <5>1. \A x \in s[r] : x \in Int /\ n < x
          BY <1>4, <2>1
        <5> QED
          BY <1>2, <2>1, <3>2, <5>1
      <4> QED
        BY <1>5, <3>2, <4>1
    <3> QED
      BY <3>1, <3>2
  <2>6. InOrder(m, M)
    <3>1. CASE low <= n /\ n <= high
      <4>1. M = {n}
        BY <1>2, <2>1, <3>1
      <4> QED
        BY <1>6, <2>1, <3>1, <4>1
    <3>2. CASE ~(low <= n /\ n <= high)
      <4>1. M = {}
        BY <1>2, <2>1, <3>2
      <4> QED
        BY <1>5, <3>2, <4>1
    <3> QED
      BY <3>1, <3>2
  <2>7. \A x \in Within(s[l]), y \in M : x < y
    BY <1>4, <2>1
  <2>8. \A x \in Within(s[l]) \cup M, y \in Within(s[r]) : x < y
    <3>1. \A x \in s[l] : x \in Int /\ x < n
      BY <1>4, <2>1
    <3>2. \A y \in s[r] : y \in Int /\ n < y
      BY <1>4, <2>1
    <3>3. ASSUME NEW x \in Within(s[l]) \cup M, NEW y \in Within(s[r])
          PROVE  x < y
      <4>1. y \in Int /\ n < y
        BY <3>2
      <4>2. x \in Int /\ (x = n \/ x < n)
        BY <2>1, <3>1
      <4> QED
        BY <2>1, <4>1, <4>2
    <3> QED
      BY <3>3
  <2>9. f[n] = u \o m \o w
    BY <1>1, <2>1
  <2>10. Within(s[n]) = (Within(s[l]) \cup M) \cup Within(s[r])
    BY <1>3, <2>1
  <2> HIDE DEF u, m, w, M, Within
  <2>11. InOrder(u \o m, Within(s[l]) \cup M)
    BY <1>7, <2>4, <2>6, <2>7
  <2>12. InOrder(u \o m \o w, (Within(s[l]) \cup M) \cup Within(s[r]))
    BY <1>7, <2>5, <2>8, <2>11
  <2> QED
    BY <2>1, <2>9, <2>10, <2>12
<1>9. B = {}
  <2>1. B \in SUBSET I
    OBVIOUS
  <2> HIDE DEF B
  <2> QED
    BY <1>8, <2>1, SmallerOrder, Lowest
<1>10. Good(t.root)
  <2>1. CASE t.root \in I
    BY <1>9, <2>1
  <2>2. CASE t.root = NIL
    <3>1. Within(s[NIL]) = {} /\ f[NIL] = <<>>
      BY <1>1, <1>3
    <3> QED
      BY <1>5, <2>2, <3>1
  <2> QED
    BY <1>2, <2>1, <2>2
<1> QED
  BY <1>1, <1>3, <1>10 DEF InOrder

\* The visit of process_fills finds the orders between two prices, all of them
\* and in the order of the prices, in every tree and also between two
\* iterations of fix_up.
THEOREM VisitFindsRange == TreeSafeSpec => []VisitsRange
<1>1. TreeInv => VisitsRange
  <2> SUFFICES ASSUME NEW s, NEW h, RedBlack(tree, inserted, s, h, z, Smaller),
                      NEW low \in Keys, NEW high \in low..MaxPrice,
                      NEW v, v = Visit(tree, low, high)
               PROVE  /\ {v[i] : i \in 1..Len(v)} = inserted \cap (low..high)
                      /\ \A i \in 2..Len(v) : v[i - 1] < v[i]
    BY DEF TreeInv, VisitsRange
  <2>1. high \in Keys
    BY RBTreeAssumption DEF Keys
  <2>2. v \in Seq(Keys) /\ Sorted(v) /\ Elements(v) = inserted \cap (low..high)
    BY <2>1, VisitInRange DEF RedBlack
  <2>3. ASSUME NEW i \in 2..Len(v)
        PROVE  v[i - 1] < v[i]
    <3>1. i - 1 \in 1..Len(v) /\ i \in 1..Len(v) /\ i - 1 < i
      BY <2>2
    <3> QED
      BY <2>2, <3>1 DEF Sorted
  <2> QED
    BY <2>2, <2>3 DEF Elements
<1> QED
  BY <1>1, TreeInvariant, PTL

-----------------------------------------------------------------------------
(* The search, and the progress of fix_up.                                  *)

\* rbt_insert takes an order to the list of its price exactly if the price has
\* a node: no price ever gets a second one, and none shares another's.
THEOREM SearchFindsInserted ==
  TreeSafeSpec => [](tree.root # NIL =>
                       \A k \in Keys : k \in inserted <=> Search(tree, k) = k)
<1>1. TreeInv => (tree.root # NIL => \A k \in Keys : k \in inserted <=> Search(tree, k) = k)
  BY SearchFindsRoom DEF TreeInv, RedBlack
<1> QED
  BY <1>1, TreeInvariant, PTL

\* Every iteration of fix_up makes progress: a rotation is the last one, and a
\* change of colours takes fix_up to a node with strictly more nodes below it.
THEOREM FixUpProgress ==
  TreeSafeSpec =>
    [][/\ BlackUncle => ~Violating'
       /\ RedUncle => /\ Below(tree)[z] \subseteq Below(tree)[z']
                      /\ z' \in Below(tree)[z'] \ Below(tree)[z]]_treeVars
<1>1. TreeInv /\ [TreeNext]_treeVars =>
        [/\ BlackUncle => ~Violating'
         /\ RedUncle => /\ Below(tree)[z] \subseteq Below(tree)[z']
                        /\ z' \in Below(tree)[z'] \ Below(tree)[z]]_treeVars
  <2> SUFFICES ASSUME TreeInv
               PROVE  /\ BlackUncle => ~Violating'
                      /\ RedUncle => /\ Below(tree)[z] \subseteq Below(tree)[z']
                                     /\ z' \in Below(tree)[z'] \ Below(tree)[z]
    OBVIOUS
  <2>1. PICK s, h : RedBlack(tree, inserted, s, h, z, Smaller)
    BY DEF TreeInv
  <2>2. Below(tree) = s
    BY <2>1, BelowIsSubtrees DEF RedBlack
  <2>3. RedUncle => s[z] \subseteq s[z'] /\ z' \in s[z'] /\ z' \notin s[z]
    BY <2>1, RedUncleStep
  <2> QED
    BY <2>2, <2>3, BlackUncleStep
<1> QED
  BY <1>1, TreeInvariant, PTL DEF TreeSafeSpec

=============================================================================
