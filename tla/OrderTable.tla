----------------------------- MODULE OrderTable -----------------------------
(***************************************************************************)
(* The orders the service holds in memory, as the hash table and the lists *)
(* hold them together: load_orders_helper (trade_service.c) puts a row in  *)
(* the table and the entry of the table at the end of the list of its      *)
(* price, and a callback makes the entry refer to the node.                *)
(*                                                                         *)
(* Every row read is a new one, also when its order is known: what is      *)
(* stored is known by the number of the load.  Finding the list of a price *)
(* is RBTree's part.  Only the tests remove anything, from either          *)
(* structure and without the other; what they may then not rely on is      *)
(* seen in the properties.                                                 *)
(*                                                                         *)
(* dl_list_insert writes through the node malloc returned without looking  *)
(* at it; when there is no memory for a node the process ends, and nothing *)
(* is left to be modelled.                                                 *)
(***************************************************************************)
EXTENDS Integers, Sequences, FiniteSets

CONSTANTS
  Orders,           \* order ids with their prefixes
  PriceOf,          \* the price of each order
  Hash,             \* hash_function of each order id, before the remainder
  InitialCapacity,  \* HT_ORDER_CAPACITY (25013)
  MemoryFails,      \* TRUE if the table may fail to get memory
  MaxLoads,         \* bound: rows loaded
  MaxRemovals       \* bound: removals from either structure

VARIABLES
  capacity, size, buckets, entries, allocated, dict, grown, disturbed,
  prev, next, data, tail, nodes, content,
  ref,      \* the ref field of the entries
  loads,    \* how many rows were loaded
  removals  \* how many removals there were

tableVars == <<capacity, size, buckets, entries, allocated, dict, grown, disturbed>>
listVars  == <<prev, next, data, tail, nodes, content>>
vars == <<tableVars, listVars, ref, loads, removals>>

Prices == {PriceOf[o] : o \in Orders}

Table == INSTANCE HashTable
         WITH Keys <- Orders, Values <- 1..MaxLoads, MaxEntries <- MaxLoads
List  == INSTANCE DLList
         WITH Lists <- Prices, Data <- 1..MaxLoads, MaxNodes <- MaxLoads

OrderTableAssumption ==
  /\ Table!HashTableAssumption
  /\ PriceOf \in [Orders -> Nat]
  /\ MaxRemovals \in Nat

-----------------------------------------------------------------------------

Init ==
  /\ Table!Init
  /\ List!Init
  /\ ref = <<>>
  /\ loads = 0
  /\ removals = 0

\* The row read by this load.
Row == loads + 1

\* Mutant: the callback leaves a ref that is set already.
InsertEntry_KeepsRef(o, entry) ==
  /\ List!Insert(PriceOf[o], entry)
  /\ ref' = [e \in DOMAIN ref \cup {entry} |->
               IF e \in DOMAIN ref THEN ref[e] ELSE List!NewNode]

\* rbt_insert in the list of the order's price, with ht_node_to_dll_node.
InsertEntry(o, entry) ==
  /\ List!Insert(PriceOf[o], entry)
  /\ ref' = [e \in DOMAIN ref \cup {entry} |->
               IF e = entry THEN List!NewNode ELSE ref[e]]

\* Mutant: the callback is forgotten for an order the table knows.
LoadKnown_NoCallback(o) ==
  /\ loads < MaxLoads
  /\ Table!PutReplaces(o, Row)
  /\ List!Insert(PriceOf[o], Table!Known(o))
  /\ loads' = Row
  /\ UNCHANGED <<ref, removals>>

\* The table knows the order: its entry has the new row, and is listed once
\* more.
LoadKnown(o) ==
  /\ loads < MaxLoads
  /\ Table!PutReplaces(o, Row)
  /\ InsertEntry(o, Table!Known(o))
  /\ loads' = Row
  /\ UNCHANGED removals

\* The table makes an entry for the order.
LoadNew(o) ==
  /\ loads < MaxLoads
  /\ Table!PutInserts(o, Row)
  /\ InsertEntry(o, Table!NewEntry)
  /\ loads' = Row
  /\ UNCHANGED removals

\* ht_put returns NULL: the row is freed and the next one read.
LoadDrops(o) ==
  /\ loads < MaxLoads
  /\ Table!PutCannotGrow(o) \/ Table!PutCannotCreate(o)
  /\ loads' = Row
  /\ UNCHANGED <<listVars, ref, removals>>

LoadRow(o) == LoadKnown(o) \/ LoadNew(o) \/ LoadDrops(o)

\* ht_remove, as the tests call it.
Forget(o) ==
  /\ removals < MaxRemovals
  /\ Table!Remove(o)
  /\ ref' = [e \in DOMAIN entries' |-> ref[e]]
  /\ removals' = removals + 1
  /\ UNCHANGED <<listVars, loads>>

\* dl_list_remove, as the tests call it.
Delist(p, i) ==
  /\ removals < MaxRemovals
  /\ List!Remove(p, i)
  /\ removals' = removals + 1
  /\ UNCHANGED <<tableVars, ref, loads>>

Next ==
  \/ \E o \in Orders : LoadRow(o) \/ Forget(o)
  \/ \E p \in Prices : \E i \in DOMAIN content[p] : Delist(p, i)

Spec == Init /\ [][Next]_vars

-----------------------------------------------------------------------------

TypeOK ==
  /\ Table!TypeOK
  /\ List!TypeOK
  /\ DOMAIN ref = DOMAIN entries
  /\ loads \in 0..MaxLoads
  /\ removals \in 0..MaxRemovals

\* A lookup leads into the book: the entry of an order refers to a node that
\* is there and leads back to it, the last one of that entry, in the list of
\* the order's price -- unless that node was removed from its list.
RefsLeadBack ==
  \A e \in DOMAIN entries :
    LET l == content[PriceOf[entries[e].key]]
        at == {i \in DOMAIN l : data[l[i]] = e}
    IN /\ ref[e] \in DOMAIN data => \E i \in at : ref[e] = l[i] /\ \A j \in at : j <= i
       /\ removals = 0 => ref[e] \in DOMAIN data

\* A walk of a list, as order_visitor makes it, finds at every node an entry
\* of that price -- unless it was removed from the table, which leaves the
\* node with the address of an entry that was freed.  Until the table grows
\* the entry has the row of its order that was read last, however often the
\* order is listed.
NodesHoldEntries ==
  \A p \in Prices : \A i \in DOMAIN content[p] :
    LET e   == data[content[p][i]]
        row == entries[e]
    IN IF e \in DOMAIN entries
         THEN PriceOf[row.key] = p /\ (~grown => row.value = dict[row.key])
         ELSE removals > 0

\* What the table promises, and what the lists promise, holds of their use.
LoadBounded  == Table!LoadBounded
NothingLost  == Table!NothingLost
NeverStale   == Table!NeverStale
LinksInOrder == List!LinksInOrder

-----------------------------------------------------------------------------
(* The price levels as a fill and a cancellation find them, as long as       *)
(* nothing is removed.                                                      *)

\* The entries of order o, more than one if the table has lost one of them,
\* and the one that was made last.
EntriesOf(o) == {e \in DOMAIN entries : entries[e].key = o}
Newest(o) == CHOOSE e \in EntriesOf(o) : \A f \in EntriesOf(o) : f <= e

\* The entry a lookup of o finds.
Lookup(o) == Table!Walk(buckets[Table!Home(o, capacity)], o)

\* The orders of price p, by the nodes of its list.
LevelOf(p) == [i \in 1..Len(content[p]) |-> entries[data[content[p][i]]].key]

\* The place of the node the newest entry of o refers to.
PlaceOf(o) ==
  CHOOSE i \in DOMAIN content[PriceOf[o]] : content[PriceOf[o]][i] = ref[Newest(o)]

Book == INSTANCE PriceLevels
        WITH Levels <- Prices,
             levels <- [p \in Prices |-> LevelOf(p)],
             refs <- [o \in {entries[e].key : e \in DOMAIN entries} |-> PlaceOf(o)]

\* As long as nothing is removed nothing else happens to the levels and the
\* places than that orders are loaded, though the table may grow, lose sight
\* of an order, make a second entry for it and run out of memory.
BookSteps ==
  Book!Init /\ [][removals' = 0 => Book!Next \/ UNCHANGED Book!vars]_vars

\* What a lookup finds leads to the place a reference should lead to; it may
\* find nothing once the table has grown.
LookupFindsNewest ==
  removals = 0 => \A o \in Orders : Lookup(o) # Table!NULL => Lookup(o) = Newest(o)

-----------------------------------------------------------------------------
(* Why these hold.                                                          *)

\* An address a node points to, or an entry refers to, was given out before:
\* what is made later is at another one.
AddressesGivenOut ==
  /\ \A p \in Prices : \A i \in DOMAIN content[p] : data[content[p][i]] \in 1..allocated
  /\ \A e \in DOMAIN entries : ref[e] \in {<<"node", n>> : n \in 1..nodes}

\* The inductive invariant.
StorageInv ==
  /\ TypeOK
  /\ Table!TableInv
  /\ List!ListInv
  /\ AddressesGivenOut
  /\ RefsLeadBack
  /\ NodesHoldEntries

=============================================================================
