------------------------------- MODULE RBTree -------------------------------
(***************************************************************************)
(* The red-black tree of an order book (rb_tree.c): rbt_insert with its    *)
(* rotations, and the range visit by which process_fills finds the orders  *)
(* between two prices.                                                     *)
(*                                                                         *)
(* A node is known by its key, a price.  Its links are functions from      *)
(* nodes to nodes, as the code's are pointers.  NIL is the sentinel all    *)
(* trees of the process share: a node like the others, whose own links are *)
(* NULL.  What is in the list of a node is in OrderBook.  Nothing is ever  *)
(* deleted from a tree.                                                    *)
(*                                                                         *)
(* One thread uses the trees.  Each iteration of fix_up is a step of its   *)
(* own, so that a tree can be looked at between two of them.               *)
(***************************************************************************)
EXTENDS Integers, Sequences

CONSTANT MaxPrice  \* keys are 1..MaxPrice

ASSUME RBTreeAssumption == MaxPrice \in Nat \ {0}

VARIABLES
  tree,      \* root, and the color, parent, left and right of every node
  inserted,  \* history: the prices of the orders inserted
  z          \* the node fix_up is at, NIL when it is not running

treeVars == <<tree, inserted, z>>

NIL  == 0
NULL == -1
Keys  == 1..MaxPrice
Nodes == Keys \cup {NIL}

-----------------------------------------------------------------------------

\* rbt_init: the tree is empty, its root is the sentinel.
TreeInit ==
  /\ tree = [root   |-> NIL,
             color  |-> [n \in Nodes |-> "BLACK"],
             parent |-> [n \in Nodes |-> NULL],
             left   |-> [n \in Nodes |-> NULL],
             right  |-> [n \in Nodes |-> NULL]]
  /\ inserted = {}
  /\ z = NIL

\* The links to children on one side, with y in the place of x under p.
Replaced(child, p, x, y) == [child EXCEPT ![p] = IF p # NIL /\ @ = x THEN y ELSE @]

\* Mutant: the subtree that changes sides keeps its parent.
RotateLeft_ForgetsParent(t, x) ==
  LET y == t.right[x]
      b == t.left[y]
      p == t.parent[x]
  IN [t EXCEPT !.root   = IF p = NIL THEN y ELSE @,
               !.left   = [Replaced(t.left, p, x, y) EXCEPT ![y] = x],
               !.right  = [Replaced(t.right, p, x, y) EXCEPT ![x] = b],
               !.parent = [t.parent EXCEPT ![y] = p, ![x] = y]]

\* rotate_left: x becomes the left child of its right child y, which takes
\* its place under p; the left subtree b of y goes to x.
RotateLeft(t, x) ==
  LET y == t.right[x]
      b == t.left[y]
      p == t.parent[x]
  IN [t EXCEPT !.root   = IF p = NIL THEN y ELSE @,
               !.left   = [Replaced(t.left, p, x, y) EXCEPT ![y] = x],
               !.right  = [Replaced(t.right, p, x, y) EXCEPT ![x] = b],
               !.parent = [t.parent EXCEPT ![b] = IF b # NIL THEN x ELSE t.parent[b],
                                           ![y] = p, ![x] = y]]

\* The tree with left and right exchanged.
Mirror(t) == [t EXCEPT !.left = t.right, !.right = t.left]

\* rotate_right.
RotateRight(t, x) == Mirror(RotateLeft(Mirror(t), x))

-----------------------------------------------------------------------------

\* The nodes of the tree.  Their links are never NULL, the sentinel's are.
Allocated(t) == {n \in Nodes : t.left[n] # NULL}

\* Where the search for key k ends in a tree that is not empty: at k, or at
\* the node k belongs under.
Search(t, k) ==
  LET from[n \in Allocated(t)] ==
        LET next == IF k < n THEN t.left[n] ELSE t.right[n]
        IN IF n = k \/ next = NIL THEN n ELSE from[next]
  IN from[t.root]

\* rbt_new_node for key k, linked under p.
WithNode(t, k, p) ==
  [t EXCEPT !.root      = IF p = NIL THEN k ELSE @,
            !.color[k]  = "RED",
            !.parent[k] = p,
            !.left      = [t.left EXCEPT
                             ![k] = NIL,
                             ![p] = IF p # NIL /\ k < p THEN k ELSE t.left[p]],
            !.right     = [t.right EXCEPT
                             ![k] = NIL,
                             ![p] = IF p # NIL /\ k > p THEN k ELSE t.right[p]]]

\* rbt_insert: an order at a price that has a node goes to its list.
InsertInList(k) ==
  /\ z = NIL
  /\ tree.root # NIL
  /\ Search(tree, k) = k
  /\ UNCHANGED treeVars

\* rbt_insert: an order at a new price gets a node, and fix_up starts there.
InsertNode(k) ==
  /\ z = NIL
  /\ LET p == IF tree.root = NIL THEN NIL ELSE Search(tree, k) IN
       /\ p # k
       /\ tree' = WithNode(tree, k, p)
  /\ inserted' = inserted \cup {k}
  /\ z' = k

-----------------------------------------------------------------------------
(* fix_up.  The second half of its loop is the first half in the mirror.    *)

Parent == tree.parent[z]
Grandparent == tree.parent[Parent]

\* The loop goes on: z is red, and so is its parent.
Violating == z # NIL /\ tree.color[Parent] = "RED"

\* The tree, seen such that the parent of z is a left child; applied twice it
\* is the tree again.
Seen(t) == IF Parent = tree.left[Grandparent] THEN t ELSE Mirror(t)

Uncle == Seen(tree).right[Grandparent]

\* The uncle is red: the grandparent takes the red of both, and may now be
\* in the place z was in.
RedUncle ==
  /\ Violating
  /\ tree.color[Uncle] = "RED"
  /\ tree' = [tree EXCEPT !.color[Parent] = "BLACK",
                          !.color[Uncle] = "BLACK",
                          !.color[Grandparent] = "RED"]
  /\ z' = Grandparent
  /\ UNCHANGED inserted

\* Mutant: an inner grandchild is rotated like an outer one.
Straighten_Never(t) == t

\* The tree t with z as the outer child of the grandparent's left child.
Straighten(t) == IF z = t.right[Parent] THEN RotateLeft(t, Parent) ELSE t

\* The uncle is black: the grandparent is rotated down and its place taken
\* by a black node with two red children.  If z was the inner grandchild, its
\* parent has become its child, and that is where fix_up is.
BlackUncle ==
  /\ Violating
  /\ tree.color[Uncle] = "BLACK"
  /\ LET s   == Straighten(Seen(tree))
         top == s.left[Grandparent]
         c   == [s EXCEPT !.color[top] = "BLACK", !.color[Grandparent] = "RED"]
     IN /\ tree' = Seen(RotateRight(c, Grandparent))
        /\ z' = IF z = top THEN Parent ELSE z
  /\ UNCHANGED inserted

\* The loop ends; the root is black.
EndFixUp ==
  /\ z # NIL
  /\ ~Violating
  /\ tree' = [tree EXCEPT !.color[tree.root] = "BLACK"]
  /\ z' = NIL
  /\ UNCHANGED inserted

-----------------------------------------------------------------------------

FixUp == RedUncle \/ BlackUncle \/ EndFixUp

TreeNext ==
  \/ \E k \in Keys : InsertInList(k) \/ InsertNode(k)
  \/ FixUp

TreeSafeSpec == TreeInit /\ [][TreeNext]_treeVars

\* The thread that has called rbt_insert runs on.
TreeSpec == TreeSafeSpec /\ WF_treeVars(FixUp)

\* Mutant: the visit looks for smaller keys only above the upper bound.
Visit_WrongBound(t, low, high) ==
  LET from[n \in Allocated(t) \cup {NIL}] ==
        IF n = NIL THEN <<>>
        ELSE (IF n > high THEN from[t.left[n]] ELSE <<>>)
             \o (IF low <= n /\ n <= high THEN <<n>> ELSE <<>>)
             \o (IF n < high THEN from[t.right[n]] ELSE <<>>)
  IN from[t.root]

\* rbt_visit_nodes_in_range: the nodes it calls the visitor with.
Visit(t, low, high) ==
  LET from[n \in Allocated(t) \cup {NIL}] ==
        IF n = NIL THEN <<>>
        ELSE (IF n > low THEN from[t.left[n]] ELSE <<>>)
             \o (IF low <= n /\ n <= high THEN <<n>> ELSE <<>>)
             \o (IF n < high THEN from[t.right[n]] ELSE <<>>)
  IN from[t.root]

-----------------------------------------------------------------------------

Trees ==
  [root : Nodes, color : [Nodes -> {"RED", "BLACK"}], parent : [Nodes -> Nodes \cup {NULL}],
   left : [Nodes -> Nodes \cup {NULL}], right : [Nodes -> Nodes \cup {NULL}]]

TreeTypeOK ==
  /\ tree \in Trees
  /\ inserted = Allocated(tree)
  /\ \A k \in inserted :
       {tree.parent[k], tree.left[k], tree.right[k]} \subseteq inserted \cup {NIL}
  /\ {tree.root, z} \subseteq inserted \cup {NIL}

\* The nodes of the subtree every node is the root of.
Below(t) ==
  LET of[n \in Allocated(t) \cup {NIL}] ==
        IF n = NIL THEN {} ELSE {n} \cup of[t.left[n]] \cup of[t.right[n]]
  IN of

\* All that was inserted is below the root, smaller keys to the left.
Ordered ==
  LET below == Below(tree) IN
    /\ below[tree.root] = inserted
    /\ \A n \in inserted : /\ \A m \in below[tree.left[n]] : m < n
                           /\ \A m \in below[tree.right[n]] : n < m

\* The black nodes on the leftmost way from every node down to the sentinel.
BlackHeights(t) ==
  LET of[n \in Allocated(t) \cup {NIL}] ==
        IF n = NIL THEN 1
        ELSE of[t.left[n]] + IF t.color[n] = "BLACK" THEN 1 ELSE 0
  IN of

\* No path of the tree is more than twice as long as another: all have the
\* same number of black nodes, and no red node has a red child, but for the
\* one fix_up is at.
Balanced ==
  /\ LET height == BlackHeights(tree) IN
       \A n \in inserted : height[tree.left[n]] = height[tree.right[n]]
  /\ \A k \in inserted :
       tree.color[k] = "RED" /\ k # z
         => k # tree.root /\ tree.color[tree.parent[k]] = "BLACK"

\* Every node is the child of its parent, and the sentinel, which other trees
\* share, is as rbt_init made it.
Linked ==
  /\ \A k \in inserted :
       LET p == tree.parent[k] IN
         IF p = NIL THEN k = tree.root ELSE k \in {tree.left[p], tree.right[p]}
  /\ tree.color[NIL] = "BLACK"
  /\ {tree.parent[NIL], tree.left[NIL], tree.right[NIL]} = {NULL}

\* A red-black tree: every subtree is on its side of its parent and as high
\* in black nodes as the one beside it, no red node but the one fix_up is at
\* has a red parent, and the links lead both ways, after every iteration of
\* fix_up.
WellFormed == TreeTypeOK /\ Ordered /\ Balanced /\ Linked

\* A visit finds every price of the range that has orders, and no other, from
\* the lowest to the highest, also while fix_up is at work: no rotation loses
\* a subtree or puts it on the wrong side.
VisitsRange ==
  \A low \in Keys : \A high \in low..MaxPrice :
    LET v == Visit(tree, low, high) IN
      /\ {v[i] : i \in 1..Len(v)} = inserted \cap (low..high)
      /\ \A i \in 2..Len(v) : v[i - 1] < v[i]

\* fix_up ends.
FixUpEnds == z # NIL ~> z = NIL

=============================================================================
