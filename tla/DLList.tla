------------------------------- MODULE DLList -------------------------------
(***************************************************************************)
(* The doubly linked list of orders at one price (data_structures/         *)
(* dl_list.c), with its dummy first node.                                  *)
(*                                                                         *)
(* Nodes are addresses; prev, next and data are functions of the nodes     *)
(* that are allocated, as the code's pointers are fields of them.          *)
(* Addresses are not used again.  The lists of several prices share the    *)
(* heap.                                                                   *)
(***************************************************************************)
EXTENDS Integers, Sequences

CONSTANTS
  Lists,     \* the lists
  Data,      \* what a node may point to
  MaxNodes   \* bound: nodes ever inserted

DLListAssumption == MaxNodes \in Nat

VARIABLES
  prev, next, data,  \* the fields of every node that is allocated
  tail,              \* dl_list->tail of each list
  nodes,             \* how many nodes were ever inserted
  content            \* history: the nodes each list is meant to have, in order

vars == <<prev, next, data, tail, nodes, content>>

NULL == <<"null">>

\* dl_list->head: the dummy node, never freed.
HeadOf(l) == <<"head", l>>
Heads == {HeadOf(l) : l \in Lists}
Allocated == DOMAIN next

-----------------------------------------------------------------------------

\* dl_list_init, for every list.
Init ==
  /\ prev = [n \in Heads |-> NULL]
  /\ next = [n \in Heads |-> NULL]
  /\ data = [n \in Heads |-> NULL]
  /\ tail = [l \in Lists |-> HeadOf(l)]
  /\ nodes = 0
  /\ content = [l \in Lists |-> <<>>]

\* The address dl_list_new_node returns, and f with a value for it.
NewNode == <<"node", nodes + 1>>
With(f, value) ==
  [n \in DOMAIN f \cup {NewNode} |-> IF n = NewNode THEN value ELSE f[n]]

\* Mutant: the new node does not know its neighbour.
Insert_NoPrev(l, d) ==
  /\ nodes < MaxNodes
  /\ prev' = With(prev, NULL)
  /\ next' = [With(next, NULL) EXCEPT ![tail[l]] = NewNode]
  /\ data' = With(data, d)
  /\ tail' = [tail EXCEPT ![l] = NewNode]
  /\ nodes' = nodes + 1
  /\ content' = [content EXCEPT ![l] = Append(@, NewNode)]

\* dl_list_insert: a new node at the end of l.
Insert(l, d) ==
  /\ nodes < MaxNodes
  /\ prev' = With(prev, tail[l])
  /\ next' = [With(next, NULL) EXCEPT ![tail[l]] = NewNode]
  /\ data' = With(data, d)
  /\ tail' = [tail EXCEPT ![l] = NewNode]
  /\ nodes' = nodes + 1
  /\ content' = [content EXCEPT ![l] = Append(@, NewNode)]

\* f without the node that is freed.
Without(f, node) == [n \in DOMAIN f \ {node} |-> f[n]]

\* Mutant: removing the last node leaves the tail where it was.
Unlink_TailStays(l, node) ==
  /\ next' = Without([next EXCEPT ![prev[node]] = next[node]], node)
  /\ prev' = Without(IF node = tail[l] THEN prev
                     ELSE [prev EXCEPT ![next[node]] = prev[node]], node)
  /\ UNCHANGED tail

\* The pointers dl_list_remove sets before it frees the node.  The last node
\* has no neighbour behind it, and the tail moves back instead.
Unlink(l, node) ==
  /\ next' = Without([next EXCEPT ![prev[node]] = next[node]], node)
  /\ IF node = tail[l]
       THEN /\ tail' = [tail EXCEPT ![l] = prev[node]]
            /\ prev' = Without(prev, node)
       ELSE /\ prev' = Without([prev EXCEPT ![next[node]] = prev[node]], node)
            /\ UNCHANGED tail

\* A sequence without its i-th element.
Drop(s, i) == [j \in 1..(Len(s) - 1) |-> IF j < i THEN s[j] ELSE s[j + 1]]

\* dl_list_remove of the i-th node of l.
Remove(l, i) ==
  /\ Unlink(l, content[l][i])
  /\ data' = Without(data, content[l][i])
  /\ content' = [content EXCEPT ![l] = Drop(@, i)]
  /\ UNCHANGED nodes

Next ==
  \E l \in Lists : \/ \E d \in Data : Insert(l, d)
                   \/ \E i \in DOMAIN content[l] : Remove(l, i)

Spec == Init /\ [][Next]_vars

-----------------------------------------------------------------------------

TypeOK ==
  /\ Allocated \subseteq Heads \cup {<<"node", i>> : i \in 1..nodes}
  /\ DOMAIN prev = Allocated /\ DOMAIN data = Allocated
  /\ \A n \in Allocated : {prev[n], next[n]} \subseteq Allocated \cup {NULL}
  /\ tail \in [Lists -> Allocated]
  /\ nodes \in 0..MaxNodes
  /\ content \in [Lists -> Seq(Allocated \ Heads)]

\* The node at place i of l, as they should be linked: the dummy is at 0.
Node(l, i) == IF i = 0 THEN HeadOf(l) ELSE content[l][i]

\* What is allocated is in a list, and what is in a list was not freed.
NothingDangles ==
  Allocated = UNION {{Node(l, i) : i \in 0..Len(content[l])} : l \in Lists}

\* The links of l pass through its nodes, forwards and backwards.
Linked(l) ==
  LET len == Len(content[l]) IN
    /\ tail[l] = Node(l, len)
    /\ prev[HeadOf(l)] = NULL /\ next[tail[l]] = NULL
    /\ \A i \in 1..len : /\ prev[Node(l, i)] = Node(l, i - 1)
                         /\ next[Node(l, i - 1)] = Node(l, i)

\* Forwards and backwards the links of a list pass through exactly the nodes
\* that were inserted and not removed, in the order they were inserted, and
\* end at its head and its tail; no pointer is left to a node that was freed.
LinksInOrder == NothingDangles /\ \A l \in Lists : Linked(l)

-----------------------------------------------------------------------------
(* Why this holds.                                                          *)

\* No node is in two places, of one list or of two.
NodesApart ==
  \A l, m \in Lists : \A i \in 0..Len(content[l]), j \in 0..Len(content[m]) :
    Node(l, i) = Node(m, j) => l = m /\ i = j

\* The inductive invariant.
ListInv == TypeOK /\ LinksInOrder /\ NodesApart

=============================================================================
