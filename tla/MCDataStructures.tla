-------------------------- MODULE MCDataStructures --------------------------
(***************************************************************************)
(* Small instances of the data structures of an order book for TLC: the    *)
(* hash table with the lists, and the red-black tree.  The two share no    *)
(* state, so a behaviour uses one or the other.                            *)
(***************************************************************************)
EXTENDS OrderTable, RBTree, TLC

\* Four orders at two prices.  With three buckets o2 and o3 share one, as they
\* do with six; o1 and o4 share one with three only.
MCOrders  == {"o1", "o2", "o3", "o4"}
MCPriceOf == [o \in MCOrders |-> IF o = "o2" THEN 2 ELSE 1]
MCHash    == "o1" :> 0 @@ "o2" :> 4 @@ "o3" :> 10 @@ "o4" :> 15

ASSUME OrderTableAssumption

MCInit == TreeInit /\ Init

MCNext ==
  \/ loads = 0 /\ TreeNext /\ UNCHANGED vars
  \/ inserted = {} /\ Next /\ UNCHANGED treeVars

MCSafeSpec == MCInit /\ [][MCNext]_<<treeVars, vars>>

MCSpec == MCSafeSpec /\ WF_<<treeVars, vars>>(FixUp /\ UNCHANGED vars)

-----------------------------------------------------------------------------

\* Whatever was put and not removed is found.
AlwaysFound == Table!AlwaysFound

=============================================================================
