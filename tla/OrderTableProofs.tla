-------------------------- MODULE OrderTableProofs --------------------------
(***************************************************************************)
(* Proofs about OrderTable, for any orders, prices, hash function,         *)
(* capacity and number of loads and removals: it implements HashTable and  *)
(* DLList, whose invariant is proved here, at any place of a list; what is *)
(* proved of these holds of it, and table, lists and nodes lead to one     *)
(* another.                                                                *)
(***************************************************************************)
EXTENDS OrderTable, TLAPS

TableP == INSTANCE HashTableProofs
          WITH Keys <- Orders, Values <- 1..MaxLoads, MaxEntries <- MaxLoads

-----------------------------------------------------------------------------
(* The proofs about HashTable are about what OrderTable uses.               *)

\* The table after growing, and what ht_put finds in it.
LEMMA SameTable ==
  /\ Table!Room = TableP!Room /\ Table!Table = TableP!Table
  /\ Table!Crowded <=> TableP!Crowded
  /\ Table!Grow <=> TableP!Grow
  /\ Table!NULL = TableP!NULL /\ Table!NewEntry = TableP!NewEntry
  /\ Table!vars = TableP!vars
BY DEF Table!Room, TableP!Room, Table!Table, TableP!Table, Table!Crowded, TableP!Crowded,
       Table!Grow, TableP!Grow, Table!NULL, TableP!NULL, Table!NewEntry, TableP!NewEntry,
       Table!Resized, TableP!Resized, Table!MovedTo, TableP!MovedTo, Table!NewCapacity,
       TableP!NewCapacity, Table!Home, TableP!Home, Table!vars, TableP!vars,
       Table!chainVars, TableP!chainVars

LEMMA SameLookup ==
  ASSUME NEW k
  PROVE  /\ \A chain : Table!Position(chain, k) = TableP!Position(chain, k)
         /\ \A cap : Table!Home(k, cap) = TableP!Home(k, cap)
         /\ Table!Known(k) = TableP!Known(k)
<1>1. \A chain : Table!Position(chain, k) = TableP!Position(chain, k)
  BY DEF Table!Position, TableP!Position
<1>2. \A cap : Table!Home(k, cap) = TableP!Home(k, cap)
  BY DEF Table!Home, TableP!Home
<1>3. \A chain : Table!Walk(chain, k) = TableP!Walk(chain, k)
  BY <1>1 DEF Table!Walk, TableP!Walk, Table!NULL, TableP!NULL
<1> QED
  BY <1>1, <1>2, <1>3, SameTable DEF Table!Known, TableP!Known

LEMMA SamePut ==
  ASSUME NEW k, NEW v
  PROVE  /\ Table!PutCannotGrow(k) <=> TableP!PutCannotGrow(k)
         /\ Table!PutCannotCreate(k) <=> TableP!PutCannotCreate(k)
         /\ Table!PutReplaces(k, v) <=> TableP!PutReplaces(k, v)
         /\ Table!PutInserts(k, v) <=> TableP!PutInserts(k, v)
<1>1. Table!PutCannotGrow(k) <=> TableP!PutCannotGrow(k)
  BY SameTable DEF Table!PutCannotGrow, TableP!PutCannotGrow, Table!vars, TableP!vars,
                   Table!chainVars, TableP!chainVars
<1>2. Table!PutCannotCreate(k) <=> TableP!PutCannotCreate(k)
  BY SameTable, SameLookup DEF Table!PutCannotCreate, TableP!PutCannotCreate
<1>3. Table!PutReplaces(k, v) <=> TableP!PutReplaces(k, v)
  BY SameTable, SameLookup DEF Table!PutReplaces, TableP!PutReplaces
<1>4. Table!PutInserts(k, v) <=> TableP!PutInserts(k, v)
  BY SameTable, SameLookup DEF Table!PutInserts, TableP!PutInserts,
                               Table!WithEntry, TableP!WithEntry
<1> QED
  BY <1>1, <1>2, <1>3, <1>4

LEMMA SameRemove ==
  ASSUME NEW k
  PROVE  Table!Remove(k) <=> TableP!Remove(k)
BY DEF Table!Remove, TableP!Remove, Table!Unlinked, TableP!Unlinked, Table!NULL, TableP!NULL,
       Table!Home, TableP!Home, Table!Position, TableP!Position

LEMMA SameTableSteps ==
  /\ Table!Init <=> TableP!Init
  /\ Table!Next <=> TableP!Next
  /\ Table!HashTableAssumption <=> TableP!HashTableAssumption
<1>1. Table!Init <=> TableP!Init
  BY SameTable DEF Table!Init, TableP!Init
<1>2. ASSUME NEW k, NEW v
      PROVE  Table!Put(k, v) <=> TableP!Put(k, v)
  BY SamePut DEF Table!Put, TableP!Put
<1>3. Table!Next <=> TableP!Next
  BY <1>2, SameRemove DEF Table!Next, TableP!Next
<1> QED
  BY <1>1, <1>3 DEF Table!HashTableAssumption, TableP!HashTableAssumption

LEMMA SameTableInvariants ==
  /\ Table!TableInv <=> TableP!TableInv
  /\ Table!LoadBounded <=> TableP!LoadBounded
  /\ Table!NothingLost <=> TableP!NothingLost
  /\ Table!NeverStale <=> TableP!NeverStale
<1>1. \A cap, bs : /\ Table!Chains(cap, bs) <=> TableP!Chains(cap, bs)
                   /\ Table!Sound(cap, bs) <=> TableP!Sound(cap, bs)
                   /\ Table!Exact(cap, bs) <=> TableP!Exact(cap, bs)
  BY DEF Table!Chains, TableP!Chains, Table!Sound, TableP!Sound, Table!Exact, TableP!Exact,
         Table!Once, TableP!Once, Table!KeyAt, TableP!KeyAt, Table!Home, TableP!Home,
         Table!NULL, TableP!NULL
<1>2. Table!EntriesInv <=> TableP!EntriesInv
  BY DEF Table!EntriesInv, TableP!EntriesInv, Table!Cardinality, TableP!Cardinality
<1>3. Table!TableInv <=> TableP!TableInv
  BY <1>1, <1>2 DEF Table!TableInv, TableP!TableInv
<1>4. Table!LoadBounded <=> TableP!LoadBounded
  BY DEF Table!LoadBounded, TableP!LoadBounded, Table!Cardinality, TableP!Cardinality
<1>5. Table!NothingLost <=> TableP!NothingLost
  BY DEF Table!NothingLost, TableP!NothingLost, Table!Places, TableP!Places, Table!At, TableP!At
<1>6. Table!NeverStale <=> TableP!NeverStale
  <2>1. \A k : Table!Get(k) = TableP!Get(k)
    BY SameLookup DEF Table!Get, TableP!Get, Table!Walk, TableP!Walk, Table!NULL, TableP!NULL
  <2> QED
    BY <2>1 DEF Table!NeverStale, TableP!NeverStale, Table!NULL, TableP!NULL
<1> QED
  BY <1>3, <1>4, <1>5, <1>6

-----------------------------------------------------------------------------
(* It implements the hash table.                                            *)

LEMMA Assumptions ==
  ASSUME OrderTableAssumption
  PROVE  /\ TableP!HashTableAssumption /\ List!DLListAssumption
         /\ MaxLoads \in Nat /\ MaxRemovals \in Nat
         /\ \A o \in Orders : PriceOf[o] \in Prices
<1>1. TableP!HashTableAssumption /\ MaxLoads \in Nat
  BY SameTableSteps DEF OrderTableAssumption, Table!HashTableAssumption
<1> QED
  BY <1>1 DEF OrderTableAssumption, List!DLListAssumption, Prices

Counts == loads \in 0..MaxLoads /\ removals \in 0..MaxRemovals

\* Neither counter passes its bound.
LEMMA CountStep ==
  ASSUME OrderTableAssumption, Counts, [Next]_vars
  PROVE  Counts'
<1>1. MaxLoads \in Nat /\ MaxRemovals \in Nat
  BY Assumptions
<1>2. ASSUME NEW o \in Orders, LoadRow(o)
      PROVE  Counts'
  BY <1>1, <1>2 DEF Counts, LoadRow, LoadKnown, LoadNew, LoadDrops, Row
<1>3. ASSUME NEW o \in Orders, Forget(o)
      PROVE  Counts'
  BY <1>1, <1>3 DEF Counts, Forget
<1>4. ASSUME NEW p \in Prices, NEW i \in DOMAIN content[p], Delist(p, i)
      PROVE  Counts'
  BY <1>1, <1>4 DEF Counts, Delist
<1>5. CASE UNCHANGED vars
  BY <1>5 DEF Counts, vars
<1> QED
  BY <1>2, <1>3, <1>4, <1>5 DEF Next

\* A row that is loaded is stored under a number the table may hold.
LEMMA TableStep ==
  ASSUME OrderTableAssumption, Counts, [Next]_vars
  PROVE  [Table!Next]_(Table!vars)
<1>1. ASSUME NEW o \in Orders, LoadRow(o)
      PROVE  Table!Next
  <2>1. Row \in 1..MaxLoads
    BY <1>1, Assumptions DEF Counts, LoadRow, LoadKnown, LoadNew, LoadDrops, Row
  <2>2. Table!Put(o, Row)
    BY <1>1 DEF LoadRow, LoadKnown, LoadNew, LoadDrops, Table!Put
  <2> QED
    BY <2>1, <2>2 DEF Table!Next
<1>2. ASSUME NEW o \in Orders, Forget(o)
      PROVE  Table!Next
  <2>1. Table!Remove(o)
    BY <1>2 DEF Forget
  <2> QED
    BY <2>1 DEF Table!Next
<1>3. ASSUME NEW p \in Prices, NEW i \in DOMAIN content[p], Delist(p, i)
      PROVE  UNCHANGED Table!vars
  BY <1>3 DEF Delist, tableVars, Table!vars, Table!chainVars
<1>4. CASE UNCHANGED vars
  BY <1>4 DEF vars, tableVars, Table!vars, Table!chainVars
<1> QED
  BY <1>1, <1>2, <1>3, <1>4 DEF Next

LEMMA CountInvariant ==
  ASSUME OrderTableAssumption
  PROVE  Spec => []Counts
<1>1. Init => Counts
  BY Assumptions DEF Init, Counts
<1>2. Counts /\ [Next]_vars => Counts'
  BY CountStep
<1> QED
  BY <1>1, <1>2, PTL DEF Spec

\* Loading rows and removing orders does to the hash table what its
\* specification allows, and nothing else.
THEOREM ImplementsTable ==
  ASSUME OrderTableAssumption
  PROVE  Spec => Table!Spec
<1>1. Init => Table!Init
  BY DEF Init
<1>2. Counts /\ [Next]_vars => [Table!Next]_(Table!vars)
  BY TableStep
<1> QED
  BY <1>1, <1>2, CountInvariant, PTL DEF Spec, Table!Spec

\* What is proved of HashTable holds here.
LEMMA TableSpec ==
  ASSUME OrderTableAssumption
  PROVE  Spec => TableP!Spec
<1>1. [Table!Next]_(Table!vars) <=> [TableP!Next]_(TableP!vars)
  BY SameTableSteps DEF Table!vars, TableP!vars, Table!chainVars, TableP!chainVars
<1>2. Table!Init <=> TableP!Init
  BY SameTableSteps
<1> QED
  BY <1>1, <1>2, ImplementsTable, PTL DEF Table!Spec, TableP!Spec

LEMMA TableInvariant ==
  ASSUME OrderTableAssumption
  PROVE  Spec => []Table!TableInv
<1>1. TableP!HashTableAssumption
  BY Assumptions
<1>2. Table!TableInv <=> TableP!TableInv
  BY SameTableInvariants
<1> QED
  BY <1>1, <1>2, TableSpec, TableP!TableInvariant, PTL

\* The table the orders are kept in is at most three quarters full.
THEOREM NeverOverfull ==
  ASSUME OrderTableAssumption
  PROVE  Spec => []LoadBounded
<1>1. TableP!HashTableAssumption
  BY Assumptions
<1>2. LoadBounded <=> TableP!LoadBounded
  BY SameTableInvariants DEF LoadBounded
<1> QED
  BY <1>1, <1>2, TableSpec, TableP!NeverOverfull, PTL

\* Growing loses no order and links none twice, as long as none was removed
\* from the table after it had grown.
THEOREM EntriesKept ==
  ASSUME OrderTableAssumption
  PROVE  Spec => []NothingLost
<1>1. TableP!HashTableAssumption
  BY Assumptions
<1>2. NothingLost <=> TableP!NothingLost
  BY SameTableInvariants DEF NothingLost
<1> QED
  BY <1>1, <1>2, TableSpec, TableP!EntriesKept, PTL

\* A lookup never returns a row that has been replaced, under the same
\* condition.
THEOREM NothingStale ==
  ASSUME OrderTableAssumption
  PROVE  Spec => []NeverStale
<1>1. TableP!HashTableAssumption
  BY Assumptions
<1>2. NeverStale <=> TableP!NeverStale
  BY SameTableInvariants DEF NeverStale
<1> QED
  BY <1>1, <1>2, TableSpec, TableP!NothingStale, PTL

-----------------------------------------------------------------------------
(* Nodes and places.                                                        *)

\* What the invariant says of the places of a list.
LEMMA Places ==
  ASSUME List!ListInv, NEW l \in Prices
  PROVE  /\ content[l] \in Seq(List!Allocated \ List!Heads)
         /\ Len(content[l]) \in Nat
         /\ \A i \in 1..Len(content[l]) : List!Node(l, i) = content[l][i] /\ List!Node(l, i) \notin List!Heads
         /\ \A i \in 0..Len(content[l]) : List!Node(l, i) \in List!Allocated
<1>1. content[l] \in Seq(List!Allocated \ List!Heads)
  BY DEF List!ListInv, List!TypeOK
<1>2. Len(content[l]) \in Nat
  BY <1>1
<1>3. ASSUME NEW i \in 1..Len(content[l])
      PROVE  List!Node(l, i) = content[l][i] /\ List!Node(l, i) \in List!Allocated \ List!Heads
  BY <1>1, <1>2 DEF List!Node
<1>4. List!Node(l, 0) \in List!Allocated
  <2>1. List!Node(l, 0) \in {List!Node(l, i) : i \in 0..Len(content[l])}
    BY <1>2
  <2> QED
    BY <2>1 DEF List!ListInv, List!LinksInOrder, List!NothingDangles
<1>5. ASSUME NEW i \in 0..Len(content[l])
      PROVE  List!Node(l, i) \in List!Allocated
  <2>1. i = 0 \/ i \in 1..Len(content[l])
    BY <1>2
  <2> QED
    BY <1>3, <1>4, <2>1
<1> QED
  BY <1>1, <1>2, <1>3, <1>5

\* Every node that is allocated has a place.
LEMMA HasPlace ==
  ASSUME List!ListInv, NEW n \in List!Allocated
  PROVE  \E l \in Prices : \E i \in 0..Len(content[l]) : n = List!Node(l, i)
BY DEF List!ListInv, List!LinksInOrder, List!NothingDangles

\* Heads are allocated, and a node that is none is numbered.
LEMMA HeadsAllocated ==
  ASSUME List!ListInv
  PROVE  List!Heads \subseteq List!Allocated
<1>1. ASSUME NEW l \in Prices
      PROVE  List!HeadOf(l) \in List!Allocated
  <2>1. Len(content[l]) \in Nat /\ List!Node(l, 0) = List!HeadOf(l)
    BY Places DEF List!Node
  <2>2. 0 \in 0..Len(content[l])
    BY <2>1
  <2> QED
    BY <2>1, <2>2, Places
<1> QED
  BY <1>1 DEF List!Heads

\* The address of a new node is not in use.
LEMMA NewIsNew ==
  ASSUME List!ListInv
  PROVE  List!NewNode \notin List!Allocated /\ List!NewNode \notin List!Heads
<1>1. nodes \in Nat
  BY DEF List!ListInv, List!TypeOK
<1>2. List!NewNode \notin List!Heads
  BY DEF List!NewNode, List!Heads, List!HeadOf
<1>3. List!NewNode \notin {<<"node", i>> : i \in 1..nodes}
  <2>1. ASSUME NEW i \in 1..nodes PROVE <<"node", i>> # List!NewNode
    <3>1. i # nodes + 1
      BY <1>1
    <3> QED
      BY <3>1 DEF List!NewNode
  <2> QED
    BY <2>1
<1> QED
  BY <1>2, <1>3 DEF List!ListInv, List!TypeOK

\* A list with one more node, and a list with one less.
LEMMA AppendedPlaces ==
  ASSUME NEW S, NEW s \in Seq(S), NEW x
  PROVE  /\ Len(Append(s, x)) = Len(s) + 1
         /\ \A i \in 1..Len(s) : Append(s, x)[i] = s[i]
         /\ Append(s, x)[Len(s) + 1] = x
OBVIOUS

LEMMA DroppedPlaces ==
  ASSUME NEW S, NEW s \in Seq(S), NEW i \in 1..Len(s)
  PROVE  /\ List!Drop(s, i) \in Seq(S)
         /\ Len(List!Drop(s, i)) = Len(s) - 1
         /\ \A j \in 1..(Len(s) - 1) : List!Drop(s, i)[j] = IF j < i THEN s[j] ELSE s[j + 1]
<1>1. Len(s) \in Nat /\ Len(s) - 1 \in Nat
  OBVIOUS
<1>2. ASSUME NEW j \in 1..(Len(s) - 1)
      PROVE  (IF j < i THEN s[j] ELSE s[j + 1]) \in S
  <2>1. j \in 1..Len(s) /\ j + 1 \in 1..Len(s)
    BY <1>1
  <2> QED
    BY <2>1
<1>3. List!Drop(s, i) \in Seq(S)
  BY <1>1, <1>2 DEF List!Drop
<1> QED
  BY <1>1, <1>3 DEF List!Drop

\* A sequence over some set is one over any set its elements are in.
LEMMA SeqOver ==
  ASSUME NEW S, NEW T, NEW s \in Seq(S), \A i \in 1..Len(s) : s[i] \in T
  PROVE  s \in Seq(T)
<1>1. Len(s) \in Nat /\ s = [i \in 1..Len(s) |-> s[i]]
  OBVIOUS
<1> QED
  BY <1>1

-----------------------------------------------------------------------------
(* dl_list_insert.                                                          *)

\* What it does to the places of the lists and to the pointers.
LEMMA ListInsertEffect ==
  ASSUME List!ListInv, NEW l \in Prices, NEW d \in 1..MaxLoads, List!Insert(l, d)
  PROVE  /\ List!Allocated' = List!Allocated \cup {List!NewNode}
         /\ DOMAIN prev' = List!Allocated' /\ DOMAIN data' = List!Allocated'
         /\ \A n \in List!Allocated : prev'[n] = prev[n] /\ data'[n] = data[n]
         /\ \A n \in List!Allocated : n # tail[l] => next'[n] = next[n]
         /\ next'[tail[l]] = List!NewNode /\ next'[List!NewNode] = List!NULL
         /\ prev'[List!NewNode] = tail[l] /\ data'[List!NewNode] = d
         /\ tail' = [tail EXCEPT ![l] = List!NewNode]
         /\ \A m \in Prices : m # l => content'[m] = content[m]
         /\ content'[l] \in Seq(List!Allocated' \ List!Heads)
         /\ Len(content'[l]) = Len(content[l]) + 1
         /\ \A i \in 1..Len(content[l]) : content'[l][i] = content[l][i]
         /\ content'[l][Len(content[l]) + 1] = List!NewNode
<1>1. List!NewNode \notin List!Allocated /\ List!NewNode \notin List!Heads
  BY NewIsNew
<1>2. tail[l] \in List!Allocated /\ tail \in [Prices -> List!Allocated]
      /\ DOMAIN prev = List!Allocated /\ DOMAIN data = List!Allocated
  BY DEF List!ListInv, List!TypeOK
<1>3. /\ DOMAIN next' = List!Allocated \cup {List!NewNode}
      /\ \A n \in List!Allocated : n # tail[l] => next'[n] = next[n]
      /\ next'[tail[l]] = List!NewNode /\ next'[List!NewNode] = List!NULL
  BY <1>1, <1>2 DEF List!Insert, List!With, List!Allocated
<1>4. /\ DOMAIN prev' = List!Allocated \cup {List!NewNode}
      /\ DOMAIN data' = List!Allocated \cup {List!NewNode}
      /\ \A n \in List!Allocated : prev'[n] = prev[n] /\ data'[n] = data[n]
      /\ prev'[List!NewNode] = tail[l] /\ data'[List!NewNode] = d
  BY <1>1, <1>2 DEF List!Insert, List!With
<1>5. /\ content \in [Prices -> Seq(List!Allocated \ List!Heads)]
      /\ content[l] \in Seq(List!Allocated \ List!Heads)
  BY DEF List!ListInv, List!TypeOK
<1>6. /\ content'[l] = Append(content[l], List!NewNode)
      /\ \A m \in Prices : m # l => content'[m] = content[m]
  BY <1>5 DEF List!Insert
<1>7. content[l] \in Seq((List!Allocated \cup {List!NewNode}) \ List!Heads)
  <2>1. \A i \in 1..Len(content[l]) : content[l][i] \in (List!Allocated \cup {List!NewNode}) \ List!Heads
    BY <1>5
  <2> QED
    BY <1>5, <2>1, SeqOver
<1>8. Append(content[l], List!NewNode) \in Seq((List!Allocated \cup {List!NewNode}) \ List!Heads)
  BY <1>1, <1>7
<1>9. /\ Len(content'[l]) = Len(content[l]) + 1
      /\ \A i \in 1..Len(content[l]) : content'[l][i] = content[l][i]
      /\ content'[l][Len(content[l]) + 1] = List!NewNode
  BY <1>5, <1>6, AppendedPlaces
<1>10. List!Allocated' = List!Allocated \cup {List!NewNode}
  BY <1>3 DEF List!Allocated
<1>11. tail' = [tail EXCEPT ![l] = List!NewNode]
  BY DEF List!Insert
<1> QED
  BY <1>3, <1>4, <1>6, <1>8, <1>9, <1>10, <1>11

LEMMA ListInsertStep ==
  ASSUME List!DLListAssumption, List!ListInv, NEW l \in Prices, NEW d \in 1..MaxLoads, List!Insert(l, d)
  PROVE  List!ListInv'
<1>0. PICK len : len = Len(content[l])
  OBVIOUS
<1>1. len \in Nat
  BY <1>0, Places
<1>2. List!NewNode \notin List!Allocated /\ List!NewNode \notin List!Heads
  BY NewIsNew
\* The pointers after the step, and the places.
<1>11. /\ List!Allocated' = List!Allocated \cup {List!NewNode}
       /\ \A n \in List!Allocated : prev'[n] = prev[n] /\ (n # tail[l] => next'[n] = next[n])
       /\ next'[tail[l]] = List!NewNode /\ next'[List!NewNode] = List!NULL
       /\ prev'[List!NewNode] = tail[l] /\ tail' = [tail EXCEPT ![l] = List!NewNode]
  <2>1. List!Allocated' = List!Allocated \cup {List!NewNode} /\ tail' = [tail EXCEPT ![l] = List!NewNode]
    BY ListInsertEffect
  <2>2. next'[tail[l]] = List!NewNode /\ next'[List!NewNode] = List!NULL /\ prev'[List!NewNode] = tail[l]
    BY ListInsertEffect
  <2>3. ASSUME NEW n \in List!Allocated PROVE prev'[n] = prev[n]
    BY ListInsertEffect
  <2>4. ASSUME NEW n \in List!Allocated, n # tail[l] PROVE next'[n] = next[n]
    BY <2>4, ListInsertEffect
  <2> QED
    BY <2>1, <2>2, <2>3, <2>4
<1>12. /\ Len(content'[l]) = len + 1
       /\ \A i \in 1..len : content'[l][i] = content[l][i]
       /\ content'[l][len + 1] = List!NewNode
  BY <1>0, ListInsertEffect
<1>3. ASSUME NEW m \in Prices, m # l
      PROVE  /\ Len(content'[m]) = Len(content[m])
             /\ \A i \in 0..Len(content[m]) : List!Node(m, i)' = List!Node(m, i)
  BY <1>3, ListInsertEffect DEF List!Node
<1>4. /\ Len(content'[l]) = len + 1
      /\ \A i \in 0..len : List!Node(l, i)' = List!Node(l, i)
      /\ List!Node(l, len + 1)' = List!NewNode
  <2>1. List!Node(l, 0)' = List!Node(l, 0)
    BY DEF List!Node
  <2>2. ASSUME NEW i \in 1..len
        PROVE  List!Node(l, i)' = List!Node(l, i)
    BY <1>1, <1>12 DEF List!Node
  <2>3. \A i \in 0..len : i = 0 \/ i \in 1..len
    BY <1>1
  <2>4. List!Node(l, len + 1)' = List!NewNode
    <3>1. len + 1 # 0 /\ content'[l][len + 1] = List!NewNode
      BY <1>1, <1>12
    <3> QED
      BY <3>1 DEF List!Node
  <2> QED
    BY <2>1, <2>2, <2>3, <2>4, <1>12
<1>5. ASSUME NEW m \in Prices, NEW i \in 0..Len(content'[m])
      PROVE  \/ /\ i \in 0..Len(content[m])
                /\ List!Node(m, i)' = List!Node(m, i) /\ List!Node(m, i) \in List!Allocated
             \/ m = l /\ i = len + 1 /\ List!Node(m, i)' = List!NewNode
  <2>1. i \in 0..Len(content[m]) \/ (m = l /\ i = len + 1)
    BY <1>0, <1>1, <1>3, <1>4
  <2>2. ASSUME i \in 0..Len(content[m])
        PROVE  List!Node(m, i)' = List!Node(m, i) /\ List!Node(m, i) \in List!Allocated
    <3>1. List!Node(m, i) \in List!Allocated
      BY <2>2, Places
    <3>2. CASE m = l
      BY <1>0, <1>4, <2>2, <3>1, <3>2
    <3>3. CASE m # l
      BY <1>3, <2>2, <3>1, <3>3
    <3> QED
      BY <3>2, <3>3
  <2> QED
    BY <1>4, <2>1, <2>2
<1>6. List!NodesApart'
  <2>1. ASSUME NEW m \in Prices, NEW k \in Prices,
               NEW i \in 0..Len(content'[m]), NEW j \in 0..Len(content'[k]),
               List!Node(m, i)' = List!Node(k, j)'
        PROVE  m = k /\ i = j
    BY <1>2, <1>5, <2>1 DEF List!ListInv, List!NodesApart
  <2> QED
    BY <2>1 DEF List!NodesApart
<1>7. List!NothingDangles'
  <2>1. ASSUME NEW m \in Prices, NEW i \in 0..Len(content'[m])
        PROVE  List!Node(m, i)' \in List!Allocated'
    BY <1>5, <2>1, <1>11
  <2>2. ASSUME NEW n \in List!Allocated'
        PROVE  \E m \in Prices : \E i \in 0..Len(content'[m]) : n = List!Node(m, i)'
    <3>1. CASE n = List!NewNode
      <4>1. len + 1 \in 0..Len(content'[l])
        BY <1>1, <1>4
      <4> QED
        BY <1>4, <3>1, <4>1
    <3>2. CASE n \in List!Allocated
      <4>1. PICK m \in Prices : \E i \in 0..Len(content[m]) : n = List!Node(m, i)
        BY <3>2, HasPlace
      <4>2. PICK i \in 0..Len(content[m]) : n = List!Node(m, i)
        BY <4>1
      <4>3. i \in 0..Len(content'[m]) /\ List!Node(m, i)' = List!Node(m, i)
        <5>1. CASE m = l
          BY <1>0, <1>1, <1>4, <5>1
        <5>2. CASE m # l
          BY <1>3, <5>2
        <5> QED
          BY <5>1, <5>2
      <4> QED
        BY <4>2, <4>3
    <3> QED
      BY <3>1, <3>2, <1>11
  <2> QED
    BY <2>1, <2>2 DEF List!NothingDangles
<1>8. ASSUME NEW m \in Prices
      PROVE  List!Linked(m)'
  <2>0. PICK n : n = Len(content[m])
    OBVIOUS
  <2>1. n \in Nat /\ \A i \in 0..n : List!Node(m, i) \in List!Allocated
    BY <2>0, Places
  <2>2. /\ tail[m] = List!Node(m, n)
        /\ prev[List!HeadOf(m)] = List!NULL /\ next[tail[m]] = List!NULL
        /\ \A i \in 1..n : /\ prev[List!Node(m, i)] = List!Node(m, i - 1)
                           /\ next[List!Node(m, i - 1)] = List!Node(m, i)
    BY <2>0 DEF List!ListInv, List!LinksInOrder, List!Linked
  <2>3. List!HeadOf(m) \in List!Allocated
    BY HeadsAllocated DEF List!Heads
  <2>4. tail[l] = List!Node(l, len)
    BY <1>0 DEF List!ListInv, List!LinksInOrder, List!Linked
  <2>5. ASSUME NEW i \in 0..n, List!Node(m, i) = tail[l]
        PROVE  m = l /\ i = len
    <3>1. len \in 0..len
      BY <1>1
    <3> QED
      BY <1>0, <2>0, <2>4, <2>5, <3>1 DEF List!ListInv, List!NodesApart
  <2>6. ASSUME NEW i \in 1..n
        PROVE  /\ prev'[List!Node(m, i)] = List!Node(m, i - 1)
               /\ next'[List!Node(m, i - 1)] = List!Node(m, i)
    <3>1. i \in 0..n /\ i - 1 \in 0..n
      BY <2>1
    <3>2. List!Node(m, i - 1) # tail[l]
      <4>1. ASSUME List!Node(m, i - 1) = tail[l]
            PROVE  FALSE
        <5>1. m = l /\ i - 1 = len
          BY <2>5, <3>1, <4>1
        <5> QED
          BY <1>0, <2>0, <2>1, <5>1
      <4> QED
        BY <4>1
    <3>3. List!Node(m, i) \in List!Allocated /\ List!Node(m, i - 1) \in List!Allocated
      BY <2>1, <3>1
    <3>4. prev'[List!Node(m, i)] = prev[List!Node(m, i)]
      BY <3>3, <1>11
    <3>5. next'[List!Node(m, i - 1)] = next[List!Node(m, i - 1)]
      BY <3>2, <3>3, <1>11
    <3> QED
      BY <2>2, <3>4, <3>5
  <2>7. CASE m = l
    <3>0. n = len
      BY <1>0, <2>0, <2>7
    <3>1. tail'[m] = List!Node(m, n + 1)'
      BY <1>4, <1>11, <2>7, <3>0 DEF List!ListInv, List!TypeOK
    <3>2. prev'[List!HeadOf(m)] = List!NULL /\ next'[tail'[m]] = List!NULL
      <4>1. prev'[List!HeadOf(m)] = prev[List!HeadOf(m)]
        BY <2>3, <1>11
      <4>2. tail'[m] = List!NewNode /\ next'[List!NewNode] = List!NULL
        BY <1>11, <2>7, <3>1 DEF List!ListInv, List!TypeOK
      <4> QED
        BY <2>2, <4>1, <4>2
    <3>3. ASSUME NEW i \in 1..(n + 1)
          PROVE  /\ prev'[List!Node(m, i)'] = List!Node(m, i - 1)'
                 /\ next'[List!Node(m, i - 1)'] = List!Node(m, i)'
      <4>1. CASE i = n + 1
        <5>1. n \in 0..n /\ i - 1 = n
          BY <2>1, <4>1
        <5>2. List!Node(l, len)' = tail[l] /\ List!Node(l, len + 1)' = List!NewNode
          BY <1>1, <1>4, <2>4, <3>0
        <5>3. List!Node(m, i - 1)' = tail[l] /\ List!Node(m, i)' = List!NewNode
          BY <2>7, <3>0, <4>1, <5>1, <5>2
        <5> QED
          BY <5>3, <1>11
      <4>2. CASE i # n + 1
        <5>1. i \in 1..n /\ i \in 0..n /\ i - 1 \in 0..n
          BY <2>1, <4>2
        <5>2. List!Node(m, i)' = List!Node(m, i) /\ List!Node(m, i - 1)' = List!Node(m, i - 1)
          BY <1>4, <2>7, <3>0, <5>1
        <5> QED
          BY <2>6, <5>1, <5>2
      <4> QED
        BY <4>1, <4>2
    <3>4. n + 1 = Len(content'[m])
      BY <1>4, <2>7, <3>0
    <3> QED
      BY <3>1, <3>2, <3>3, <3>4 DEF List!Linked, List!HeadOf
  <2>8. CASE m # l
    <3>1. tail'[m] = tail[m] /\ tail[m] # tail[l]
      <4>1. n \in 0..n
        BY <2>1
      <4> QED
        BY <2>2, <2>5, <2>8, <4>1, <1>11 DEF List!ListInv, List!TypeOK
    <3>2. tail[m] \in List!Allocated
      BY <2>1, <2>2
    <3>3. prev'[List!HeadOf(m)] = List!NULL /\ next'[tail'[m]] = List!NULL
      <4>1. prev'[List!HeadOf(m)] = prev[List!HeadOf(m)]
        BY <2>3, <1>11
      <4>2. next'[tail[m]] = next[tail[m]]
        BY <3>1, <3>2, <1>11
      <4> QED
        BY <2>2, <3>1, <4>1, <4>2
    <3>4. /\ Len(content'[m]) = n
          /\ \A i \in 0..n : List!Node(m, i)' = List!Node(m, i)
      BY <1>3, <2>0, <2>8
    <3>5. tail'[m] = List!Node(m, n)'
      BY <2>1, <2>2, <3>1, <3>4
    <3>6. ASSUME NEW i \in 1..n
          PROVE  /\ prev'[List!Node(m, i)'] = List!Node(m, i - 1)'
                 /\ next'[List!Node(m, i - 1)'] = List!Node(m, i)'
      <4>1. i \in 0..n /\ i - 1 \in 0..n
        BY <2>1
      <4>2. List!Node(m, i)' = List!Node(m, i) /\ List!Node(m, i - 1)' = List!Node(m, i - 1)
        BY <3>4, <4>1
      <4> QED
        BY <2>6, <4>2
    <3>7. n = Len(content'[m])
      BY <3>4
    <3> QED
      BY <3>3, <3>5, <3>6, <3>7 DEF List!Linked, List!HeadOf
  <2> QED
    BY <2>7, <2>8
<1>9. List!TypeOK'
  <2>1. List!Allocated' \subseteq List!Heads \cup {<<"node", i>> : i \in 1..nodes'}
    <3>1. nodes \in Nat /\ nodes' = nodes + 1
      BY DEF List!ListInv, List!TypeOK, List!Insert
    <3>2. \A i \in 1..nodes : i \in 1..nodes'
      BY <3>1
    <3>3. nodes + 1 \in 1..nodes' /\ List!NewNode = <<"node", nodes + 1>>
      BY <3>1 DEF List!NewNode
    <3>4. List!NewNode \in {<<"node", i>> : i \in 1..nodes'}
      BY <3>3
    <3>5. List!Allocated \subseteq List!Heads \cup {<<"node", i>> : i \in 1..nodes'}
      BY <3>2 DEF List!ListInv, List!TypeOK
    <3> QED
      BY <3>4, <3>5, ListInsertEffect
  <2>2. \A n \in List!Allocated' : {prev'[n], next'[n]} \subseteq List!Allocated' \cup {List!NULL}
    <3>1. /\ tail[l] \in List!Allocated
          /\ \A n \in List!Allocated : {prev[n], next[n]} \subseteq List!Allocated \cup {List!NULL}
      BY DEF List!ListInv, List!TypeOK
    <3>2. ASSUME NEW n \in List!Allocated
          PROVE  prev'[n] = prev[n] /\ next'[n] \in {List!NewNode, next[n]}
      BY <1>11
    <3> QED
      BY <1>11, <3>1, <3>2
  <2>3. tail' \in [Prices -> List!Allocated']
    <3>1. tail \in [Prices -> List!Allocated]
      BY DEF List!ListInv, List!TypeOK
    <3> QED
      BY <3>1, ListInsertEffect
  <2>4. nodes' \in 0..MaxLoads
    BY DEF List!ListInv, List!TypeOK, List!Insert, List!DLListAssumption
  <2>5. content' \in [Prices -> Seq(List!Allocated' \ List!Heads)]
    <3>1. content' \in [Prices -> Seq(List!Allocated \ List!Heads) \cup {content'[l]}]
      BY DEF List!ListInv, List!TypeOK, List!Insert
    <3>2. ASSUME NEW m \in Prices, m # l
          PROVE  content'[m] \in Seq(List!Allocated' \ List!Heads)
      <4>1. content'[m] \in Seq(List!Allocated \ List!Heads)
        BY <3>2, Places, ListInsertEffect
      <4>2. \A i \in 1..Len(content'[m]) : content'[m][i] \in List!Allocated' \ List!Heads
        BY <4>1, ListInsertEffect
      <4> QED
        BY <4>1, <4>2, SeqOver
    <3>3. DOMAIN content' = Prices /\ content' = [m \in Prices |-> content'[m]]
      BY <3>1
    <3>4. \A m \in Prices : content'[m] \in Seq(List!Allocated' \ List!Heads)
      BY <3>2, ListInsertEffect
    <3> QED
      BY <3>3, <3>4
  <2> QED
    BY <2>1, <2>2, <2>3, <2>4, <2>5, ListInsertEffect DEF List!TypeOK, List!Heads, List!HeadOf
<1> QED
  BY <1>6, <1>7, <1>8, <1>9 DEF List!ListInv, List!LinksInOrder

-----------------------------------------------------------------------------
(* dl_list_remove.                                                          *)

\* What it does to the places of the lists and to the pointers.
LEMMA ListRemoveEffect ==
  ASSUME List!ListInv, NEW l \in Prices, NEW i \in DOMAIN content[l], List!Remove(l, i),
         NEW node, node = content[l][i]
  PROVE  /\ i \in 1..Len(content[l])
         /\ node \in List!Allocated /\ node \notin List!Heads
         /\ List!Allocated' = List!Allocated \ {node}
         /\ DOMAIN prev' = List!Allocated' /\ DOMAIN data' = List!Allocated'
         /\ \A n \in List!Allocated' : data'[n] = data[n]
         /\ \A n \in List!Allocated' : next'[n] = IF n = prev[node] THEN next[node] ELSE next[n]
         /\ node = tail[l] => \A n \in List!Allocated' : prev'[n] = prev[n]
         /\ node # tail[l] => \A n \in List!Allocated' :
                               prev'[n] = IF n = next[node] THEN prev[node] ELSE prev[n]
         /\ node = tail[l] => tail' = [tail EXCEPT ![l] = prev[node]]
         /\ node # tail[l] => tail' = tail
         /\ \A m \in Prices : m # l => content'[m] = content[m]
         /\ Len(content'[l]) = Len(content[l]) - 1
         /\ \A j \in 1..(Len(content[l]) - 1) :
              content'[l][j] = IF j < i THEN content[l][j] ELSE content[l][j + 1]
<1>1. /\ content \in [Prices -> Seq(List!Allocated \ List!Heads)]
      /\ content[l] \in Seq(List!Allocated \ List!Heads)
  BY DEF List!ListInv, List!TypeOK
<1>2. i \in 1..Len(content[l])
  BY <1>1
<1>3. node \in List!Allocated /\ node \notin List!Heads
  BY <1>1, <1>2
<1>4. DOMAIN prev = List!Allocated /\ DOMAIN data = List!Allocated /\ DOMAIN next = List!Allocated
  BY DEF List!ListInv, List!TypeOK, List!Allocated
<1>5. DOMAIN next' = List!Allocated \ {node}
      /\ \A n \in List!Allocated \ {node} : next'[n] = IF n = prev[node] THEN next[node] ELSE next[n]
  BY <1>4 DEF List!Remove, List!Unlink, List!Without
<1>6. List!Allocated' = List!Allocated \ {node}
  BY <1>5 DEF List!Allocated
<1>9. DOMAIN prev' = List!Allocated \ {node}
  BY <1>4 DEF List!Remove, List!Unlink, List!Without
<1>10. /\ node = tail[l] => /\ \A n \in List!Allocated \ {node} : prev'[n] = prev[n]
                            /\ tail' = [tail EXCEPT ![l] = prev[node]]
       /\ node # tail[l] => /\ \A n \in List!Allocated \ {node} :
                                 prev'[n] = IF n = next[node] THEN prev[node] ELSE prev[n]
                            /\ tail' = tail
  <2>1. ASSUME node = tail[l]
        PROVE  /\ \A n \in List!Allocated \ {node} : prev'[n] = prev[n]
               /\ tail' = [tail EXCEPT ![l] = prev[node]]
    BY <1>4, <2>1 DEF List!Remove, List!Unlink, List!Without
  <2>2. ASSUME node # tail[l]
        PROVE  /\ \A n \in List!Allocated \ {node} :
                    prev'[n] = IF n = next[node] THEN prev[node] ELSE prev[n]
               /\ tail' = tail
    BY <1>4, <2>2 DEF List!Remove, List!Unlink, List!Without
  <2> QED
    BY <2>1, <2>2
<1>11. DOMAIN data' = List!Allocated \ {node} /\ \A n \in List!Allocated \ {node} : data'[n] = data[n]
  BY <1>4 DEF List!Remove, List!Without
<1>12. content'[l] = List!Drop(content[l], i) /\ \A m \in Prices : m # l => content'[m] = content[m]
  BY <1>1 DEF List!Remove
<1>13. /\ Len(content'[l]) = Len(content[l]) - 1
       /\ \A j \in 1..(Len(content[l]) - 1) :
            content'[l][j] = IF j < i THEN content[l][j] ELSE content[l][j + 1]
  BY <1>1, <1>2, <1>12, DroppedPlaces
<1> QED
  BY <1>2, <1>3, <1>5, <1>6, <1>9, <1>10, <1>11, <1>12, <1>13

LEMMA ListRemoveStep ==
  ASSUME List!DLListAssumption, List!ListInv, NEW l \in Prices, NEW i \in DOMAIN content[l], List!Remove(l, i)
  PROVE  List!ListInv'
<1>1. PICK node : node = content[l][i]
  OBVIOUS
<1>2. PICK len : len = Len(content[l])
  OBVIOUS
<1>3. len \in Nat /\ i \in 1..len /\ i \in 0..len /\ i - 1 \in 0..len /\ node = List!Node(l, i)
  <2>1. len \in Nat /\ i \in 1..len
    BY <1>1, <1>2, ListRemoveEffect, Places
  <2> QED
    BY <1>1, <2>1 DEF List!Node
<1>4. /\ tail[l] = List!Node(l, len)
      /\ prev[List!HeadOf(l)] = List!NULL /\ next[tail[l]] = List!NULL
      /\ \A j \in 1..len : /\ prev[List!Node(l, j)] = List!Node(l, j - 1)
                           /\ next[List!Node(l, j - 1)] = List!Node(l, j)
  BY <1>2 DEF List!ListInv, List!LinksInOrder, List!Linked
<1>5. ASSUME NEW m \in Prices, NEW k \in 0..Len(content[m]), NEW j \in 0..len,
             List!Node(m, k) = List!Node(l, j)
      PROVE  m = l /\ k = j
  BY <1>2, <1>5 DEF List!ListInv, List!NodesApart
<1>6. /\ prev[node] = List!Node(l, i - 1)
      /\ i = len => node = tail[l] /\ next[node] = List!NULL
      /\ i < len => node # tail[l] /\ next[node] = List!Node(l, i + 1) /\ i + 1 \in 0..len
  <2>1. prev[node] = List!Node(l, i - 1)
    BY <1>3, <1>4
  <2>2. ASSUME i < len PROVE next[node] = List!Node(l, i + 1) /\ i + 1 \in 0..len /\ node # tail[l]
    <3>1. i + 1 \in 1..len /\ (i + 1) - 1 = i /\ len \in 0..len
      BY <1>3, <2>2
    <3>2. next[node] = List!Node(l, i + 1)
      BY <1>3, <1>4, <3>1
    <3>3. ASSUME List!Node(l, i) = List!Node(l, len) PROVE FALSE
      BY <1>2, <1>3, <1>5, <2>2, <3>1, <3>3
    <3> QED
      BY <1>3, <1>4, <3>1, <3>2, <3>3
  <2> QED
    BY <1>3, <1>4, <2>1, <2>2
\* The pointers after the step.
<1>6a. /\ node = tail[l] => tail' = [tail EXCEPT ![l] = prev[node]]
       /\ node # tail[l] => tail' = tail
  BY <1>1 DEF List!Remove, List!Unlink
<1>7. ASSUME NEW m \in Prices, NEW k \in 0..Len(content[m]), ~(m = l /\ k = i)
      PROVE  /\ List!Node(m, k) \in List!Allocated'
             /\ (m = l /\ k = i - 1) => next'[List!Node(m, k)] = next[node]
             /\ ~(m = l /\ k = i - 1) => next'[List!Node(m, k)] = next[List!Node(m, k)]
             /\ (m = l /\ k = i + 1) => prev'[List!Node(m, k)] = List!Node(l, i - 1)
             /\ ~(m = l /\ k = i + 1) => prev'[List!Node(m, k)] = prev[List!Node(m, k)]
  <2>1. PICK n : n = List!Node(m, k)
    OBVIOUS
  <2>2. n \in List!Allocated /\ n # node
    BY <1>3, <1>5, <1>7, <2>1, Places
  <2>3. n \in List!Allocated'
    BY <1>1, <2>2, ListRemoveEffect
  <2>4. next'[n] = IF n = prev[node] THEN next[node] ELSE next[n]
    BY <1>1, <2>3, ListRemoveEffect
  <2>5. n = prev[node] <=> (m = l /\ k = i - 1)
    BY <1>3, <1>5, <1>6, <2>1
  <2>6. CASE i = len
    <3>1. prev'[n] = prev[n]
      BY <1>1, <1>6, <2>3, <2>6, ListRemoveEffect
    <3>2. ~(m = l /\ k = i + 1)
      BY <1>2, <1>3, <2>6
    <3> QED
      BY <2>1, <2>3, <2>4, <2>5, <3>1, <3>2
  <2>7. CASE i < len
    <3>1. prev'[n] = IF n = next[node] THEN prev[node] ELSE prev[n]
      BY <1>1, <1>6, <2>3, <2>7, ListRemoveEffect
    <3>2. n = next[node] <=> (m = l /\ k = i + 1)
      BY <1>5, <1>6, <2>1, <2>7
    <3> QED
      BY <1>6, <2>1, <2>3, <2>4, <2>5, <3>1, <3>2
  <2> QED
    BY <1>3, <2>6, <2>7
\* The places: those behind the i-th move up by one.
<1> DEFINE Old(m, j) == IF m = l /\ j >= i THEN j + 1 ELSE j
<1>8. /\ Len(content'[l]) = len - 1
      /\ \A m \in Prices : m # l => Len(content'[m]) = Len(content[m])
  BY <1>1, <1>2, ListRemoveEffect
<1>9. ASSUME NEW m \in Prices, NEW j \in 0..Len(content'[m])
      PROVE  /\ Old(m, j) \in 0..Len(content[m]) /\ ~(m = l /\ Old(m, j) = i)
             /\ List!Node(m, j)' = List!Node(m, Old(m, j))
  <2>1. CASE m # l
    <3>1. content'[m] = content[m]
      BY <1>1, <2>1, ListRemoveEffect
    <3> QED
      BY <1>8, <2>1, <3>1 DEF List!Node, List!HeadOf
  <2>2. CASE m = l
    <3>1. j \in 0..(len - 1) /\ Old(m, j) \in 0..len /\ Old(m, j) # i
          /\ (Old(m, j) = 0 <=> j = 0)
      BY <1>3, <1>8, <2>2
    <3>2. CASE j = 0
      BY <1>2, <2>2, <3>1, <3>2 DEF List!Node, List!HeadOf
    <3>3. CASE j # 0
      <4>1. j \in 1..(len - 1)
        BY <1>3, <3>1, <3>3
      <4>2. content'[l][j] = IF j < i THEN content[l][j] ELSE content[l][j + 1]
        <5>1. \A q \in 1..(Len(content[l]) - 1) :
                content'[l][q] = IF q < i THEN content[l][q] ELSE content[l][q + 1]
          BY <1>1, ListRemoveEffect, ZenonT(40)
        <5> QED
          BY <1>2, <4>1, <5>1
      <4>3. content'[l][j] = content[l][Old(m, j)]
        BY <1>3, <2>2, <4>1, <4>2
      <4>4. List!Node(m, j)' = content'[l][j]
        BY <2>2, <3>3 DEF List!Node
      <4>5. List!Node(m, Old(m, j)) = content[l][Old(m, j)]
        BY <2>2, <3>1, <3>3 DEF List!Node
      <4> QED
        BY <1>2, <2>2, <3>1, <4>3, <4>4, <4>5
    <3> QED
      BY <3>2, <3>3
  <2> QED
    BY <2>1, <2>2
<1>10. ASSUME NEW m \in Prices, NEW k \in 0..Len(content[m]), ~(m = l /\ k = i)
       PROVE  \E j \in 0..Len(content'[m]) : Old(m, j) = k
  <2>1. CASE m = l /\ k > i
    <3>1. k - 1 \in 0..Len(content'[m]) /\ Old(m, k - 1) = k
      BY <1>2, <1>3, <1>8, <2>1
    <3> QED
      BY <3>1
  <2>2. CASE ~(m = l /\ k > i)
    <3>1. k \in 0..Len(content'[m]) /\ Old(m, k) = k
      BY <1>2, <1>3, <1>8, <1>10, <2>2
    <3> QED
      BY <3>1
  <2> QED
    BY <2>1, <2>2
<1>11. List!NodesApart'
  <2>1. ASSUME NEW m \in Prices, NEW k \in Prices,
               NEW j \in 0..Len(content'[m]), NEW q \in 0..Len(content'[k]),
               List!Node(m, j)' = List!Node(k, q)'
        PROVE  m = k /\ j = q
    <3>1. List!Node(m, Old(m, j)) = List!Node(k, Old(k, q))
      BY <1>9, <2>1
    <3>2. m = k /\ Old(m, j) = Old(k, q)
      BY <1>9, <3>1 DEF List!ListInv, List!NodesApart
    <3>3. j \in Int /\ q \in Int /\ i \in Int
      BY <1>3
    <3>4. ASSUME NEW a \in Int, NEW b \in Int, Old(m, a) = Old(m, b)
          PROVE  a = b
      BY <3>3, <3>4
    <3> QED
      BY <3>2, <3>3, <3>4
  <2> QED
    BY <2>1 DEF List!NodesApart
<1>12. List!NothingDangles'
  <2>1. ASSUME NEW m \in Prices, NEW j \in 0..Len(content'[m])
        PROVE  List!Node(m, j)' \in List!Allocated'
    BY <1>7, <1>9
  <2>2. ASSUME NEW n \in List!Allocated'
        PROVE  \E m \in Prices : \E j \in 0..Len(content'[m]) : n = List!Node(m, j)'
    <3>1. n \in List!Allocated /\ n # node
      BY <1>1, ListRemoveEffect
    <3>2. PICK m \in Prices : \E k \in 0..Len(content[m]) : n = List!Node(m, k)
      BY <3>1, HasPlace
    <3>3. PICK k \in 0..Len(content[m]) : n = List!Node(m, k)
      BY <3>2
    <3>4. PICK j \in 0..Len(content'[m]) : Old(m, j) = k
      BY <1>3, <1>10, <3>1, <3>3
    <3> QED
      BY <1>9, <3>3, <3>4
  <2> QED
    BY <2>1, <2>2 DEF List!NothingDangles
<1>13. ASSUME NEW m \in Prices
       PROVE  List!Linked(m)'
  <2>1. PICK n : n = Len(content'[m])
    OBVIOUS
  <2>2. n \in Nat /\ (m = l => n = len - 1) /\ (m # l => n = Len(content[m]))
    BY <1>2, <1>3, <1>8, <2>1, Places
  <2>3. List!Node(m, 0)' = List!HeadOf(m) /\ List!Node(m, 0) = List!HeadOf(m)
    BY DEF List!Node, List!HeadOf
  <2>4. 0 \in 0..Len(content[m])
    BY Places
  <2>5. /\ tail[m] = List!Node(m, Len(content[m]))
        /\ prev[List!HeadOf(m)] = List!NULL /\ next[tail[m]] = List!NULL
        /\ \A k \in 1..Len(content[m]) : /\ prev[List!Node(m, k)] = List!Node(m, k - 1)
                                         /\ next[List!Node(m, k - 1)] = List!Node(m, k)
    BY DEF List!ListInv, List!LinksInOrder, List!Linked
  <2>6. ~(m = l /\ 0 = i) /\ ~(m = l /\ 0 = i + 1)
    BY <1>3
  <2>7. prev'[List!HeadOf(m)] = List!NULL
    BY <1>7, <2>3, <2>4, <2>5, <2>6
  <2>8. CASE m # l
    <3>1. \A j \in 0..n : List!Node(m, j)' = List!Node(m, j) /\ j \in 0..Len(content[m])
      BY <1>9, <2>1, <2>2, <2>8
    <3>2. n \in 0..n /\ tail'[m] = tail[m]
      <4>1. CASE node = tail[l]
        <5>1. tail' = [tail EXCEPT ![l] = prev[node]]
          BY <1>6a, <4>1
        <5> QED
          BY <2>2, <2>8, <5>1 DEF List!ListInv, List!TypeOK
      <4>2. CASE node # tail[l]
        <5>1. tail' = tail
          BY <1>6a, <4>2
        <5> QED
          BY <2>2, <5>1
      <4> QED
        BY <4>1, <4>2
    <3>3. tail'[m] = List!Node(m, n)' /\ tail[m] = List!Node(m, n)
      BY <2>2, <2>5, <2>8, <3>1, <3>2
    <3>4. next'[List!Node(m, n)] = next[List!Node(m, n)]
      BY <1>7, <2>2, <2>8, <3>2
    <3>5. ASSUME NEW j \in 1..n
          PROVE  /\ prev'[List!Node(m, j)'] = List!Node(m, j - 1)'
                 /\ next'[List!Node(m, j - 1)'] = List!Node(m, j)'
      <4>1. j \in 0..n /\ j - 1 \in 0..n
        BY <2>2
      <4>2. /\ List!Node(m, j)' = List!Node(m, j) /\ List!Node(m, j - 1)' = List!Node(m, j - 1)
            /\ j \in 0..Len(content[m]) /\ j - 1 \in 0..Len(content[m])
            /\ j \in 1..Len(content[m])
        BY <2>2, <2>8, <3>1, <4>1
      <4>3. prev'[List!Node(m, j)] = prev[List!Node(m, j)]
        BY <1>7, <2>8, <4>2
      <4>4. next'[List!Node(m, j - 1)] = next[List!Node(m, j - 1)]
        BY <1>7, <2>8, <4>2
      <4> QED
        BY <2>5, <4>2, <4>3, <4>4
    <3>6. next'[tail'[m]] = List!NULL
      BY <2>5, <3>2, <3>3, <3>4
    <3> QED
      BY <2>1, <2>7, <3>3, <3>5, <3>6 DEF List!Linked, List!HeadOf
  <2>9. CASE m = l
    <3>1. n = len - 1 /\ len = Len(content[m]) /\ n \in 0..n
      BY <1>2, <2>2, <2>9
    <3>2. \A j \in 0..n : List!Node(m, j)' = List!Node(m, Old(m, j))
      BY <1>9, <2>1
    <3>3. \A j \in 0..n : Old(m, j) = IF j >= i THEN j + 1 ELSE j
      BY <2>9
    <3>4. tail'[m] = List!Node(m, n)' /\ next'[tail'[m]] = List!NULL
      <4>1. CASE i = len
        <5>1. node = tail[l] /\ next[node] = List!NULL /\ prev[node] = List!Node(l, i - 1)
          BY <1>6, <4>1
        <5>2. tail'[m] = List!Node(l, i - 1)
          <6>1. tail' = [tail EXCEPT ![l] = prev[node]] /\ tail \in [Prices -> List!Allocated]
            BY <1>6a, <5>1 DEF List!ListInv, List!TypeOK
          <6> QED
            BY <2>9, <5>1, <6>1
        <5>3. n = i - 1 /\ Old(m, n) = i - 1 /\ i - 1 # i
          BY <1>3, <3>1, <3>3, <4>1
        <5>4. List!Node(m, n)' = List!Node(l, i - 1)
          BY <2>9, <3>1, <3>2, <5>3
        <5>5. next'[List!Node(l, i - 1)] = next[node]
          BY <1>2, <1>3, <1>7, <5>3
        <5> QED
          BY <5>1, <5>2, <5>4, <5>5
      <4>2. CASE i < len
        <5>1. node # tail[l]
          BY <1>6, <4>2
        <5>2. tail'[m] = List!Node(l, len)
          BY <1>1, <1>4, <2>9, <5>1, ListRemoveEffect
        <5>3. n >= i /\ Old(m, n) = len /\ len # i - 1 /\ len # i /\ len \in 0..len
          BY <1>3, <3>1, <3>3, <4>2
        <5>4. List!Node(m, n)' = List!Node(l, len)
          BY <2>9, <3>1, <3>2, <5>3
        <5>5. next'[List!Node(l, len)] = next[List!Node(l, len)]
          BY <1>2, <1>7, <5>3
        <5> QED
          BY <1>4, <5>2, <5>4, <5>5
      <4> QED
        BY <1>3, <4>1, <4>2
    <3>5. ASSUME NEW j \in 1..n
          PROVE  /\ prev'[List!Node(m, j)'] = List!Node(m, j - 1)'
                 /\ next'[List!Node(m, j - 1)'] = List!Node(m, j)'
      <4>1. /\ j \in 0..n /\ j - 1 \in 0..n /\ j \in 1..len /\ j + 1 \in 1..len
            /\ j \in 0..len /\ j + 1 \in 0..len /\ j - 1 \in 0..len /\ (j + 1) - 1 = j
        BY <1>3, <2>2, <3>1
      <4>2. CASE j < i
        <5>1. List!Node(m, j)' = List!Node(l, j) /\ List!Node(m, j - 1)' = List!Node(l, j - 1)
          <6>1. Old(m, j) = j /\ Old(m, j - 1) = j - 1
            BY <1>3, <3>3, <4>1, <4>2
          <6> QED
            BY <2>9, <3>2, <4>1, <6>1
        <5>2. j # i /\ j # i + 1 /\ j - 1 # i - 1 /\ j - 1 # i
          BY <1>3, <4>2
        <5>3. /\ prev'[List!Node(l, j)] = prev[List!Node(l, j)]
              /\ next'[List!Node(l, j - 1)] = next[List!Node(l, j - 1)]
          BY <1>2, <1>7, <4>1, <5>2
        <5> QED
          BY <1>4, <4>1, <5>1, <5>3
      <4>3. CASE j = i
        <5>1. List!Node(m, j)' = List!Node(l, i + 1) /\ List!Node(m, j - 1)' = List!Node(l, i - 1)
          <6>1. Old(m, j) = i + 1 /\ Old(m, j - 1) = i - 1
            BY <1>3, <3>3, <4>1, <4>3
          <6> QED
            BY <2>9, <3>2, <4>1, <6>1
        <5>2. i + 1 # i /\ i - 1 # i /\ i < len /\ i + 1 # i - 1
          BY <1>3, <3>1, <4>3
        <5>3. prev'[List!Node(l, i + 1)] = List!Node(l, i - 1)
          BY <1>2, <1>7, <4>1, <4>3, <5>2
        <5>4. next'[List!Node(l, i - 1)] = next[node]
          BY <1>2, <1>7, <4>1, <4>3, <5>2
        <5> QED
          BY <1>6, <5>1, <5>2, <5>3, <5>4
      <4>4. CASE j > i
        <5>1. List!Node(m, j)' = List!Node(l, j + 1) /\ List!Node(m, j - 1)' = List!Node(l, j)
          <6>1. Old(m, j) = j + 1 /\ Old(m, j - 1) = j
            BY <1>3, <3>3, <4>1, <4>4
          <6> QED
            BY <2>9, <3>2, <4>1, <6>1
        <5>2. j + 1 # i /\ j + 1 # i + 1 /\ j # i /\ j # i - 1
          BY <1>3, <4>4
        <5>3. /\ prev'[List!Node(l, j + 1)] = prev[List!Node(l, j + 1)]
              /\ next'[List!Node(l, j)] = next[List!Node(l, j)]
          BY <1>2, <1>7, <4>1, <5>2
        <5>4. prev[List!Node(l, j + 1)] = List!Node(l, j) /\ next[List!Node(l, j)] = List!Node(l, j + 1)
          BY <1>4, <4>1
        <5> QED
          BY <5>1, <5>3, <5>4
      <4> QED
        BY <1>3, <4>1, <4>2, <4>3, <4>4
    <3> QED
      BY <2>1, <2>7, <3>4, <3>5 DEF List!Linked, List!HeadOf
  <2> QED
    BY <2>8, <2>9
<1> HIDE DEF Old
<1>14. List!TypeOK'
  <2>1. /\ List!Allocated' = List!Allocated \ {node} /\ node \notin List!Heads
        /\ DOMAIN prev' = List!Allocated' /\ DOMAIN data' = List!Allocated'
    BY <1>1, ListRemoveEffect
  <2>2. nodes' = nodes
    BY DEF List!Remove
  <2>3. ASSUME NEW n \in List!Allocated'
        PROVE  {prev'[n], next'[n]} \subseteq List!Allocated' \cup {List!NULL}
    <3>1. PICK m \in Prices : \E j \in 0..Len(content'[m]) : n = List!Node(m, j)'
      BY <1>12 DEF List!NothingDangles
    <3>2. PICK j \in 0..Len(content'[m]) : n = List!Node(m, j)'
      BY <3>1
    <3>3. PICK k : k = Len(content'[m])
      OBVIOUS
    <3>4. \A q \in 0..k : List!Node(m, q)' \in List!Allocated'
      BY <1>12, <3>3 DEF List!NothingDangles
    <3>5. /\ tail'[m] = List!Node(m, k)'
          /\ prev'[List!HeadOf(m)] = List!NULL /\ next'[tail'[m]] = List!NULL
          /\ \A q \in 1..k : /\ prev'[List!Node(m, q)'] = List!Node(m, q - 1)'
                             /\ next'[List!Node(m, q - 1)'] = List!Node(m, q)'
      BY <1>13, <3>3 DEF List!Linked, List!HeadOf
    <3>6. k \in Nat
      BY <1>2, <1>3, <1>8, <3>3, Places
    <3>7. prev'[n] \in List!Allocated' \cup {List!NULL}
      <4>1. CASE j = 0
        BY <3>2, <3>5, <4>1 DEF List!Node, List!HeadOf
      <4>2. CASE j # 0
        <5>1. j \in 1..k /\ j - 1 \in 0..k
          BY <3>3, <3>6, <4>2
        <5> QED
          BY <3>2, <3>4, <3>5, <5>1
      <4> QED
        BY <4>1, <4>2
    <3>8. next'[n] \in List!Allocated' \cup {List!NULL}
      <4>1. CASE j = k
        BY <3>2, <3>5, <4>1
      <4>2. CASE j # k
        <5>1. j + 1 \in 1..k /\ j + 1 \in 0..k /\ (j + 1) - 1 = j
          BY <3>3, <3>6, <4>2
        <5> QED
          BY <3>2, <3>4, <3>5, <5>1
      <4> QED
        BY <4>1, <4>2
    <3> QED
      BY <3>7, <3>8
  <2>4. tail' \in [Prices -> List!Allocated']
    <3>1. DOMAIN tail' = Prices /\ tail' = [m \in Prices |-> tail'[m]]
      <4>1. tail \in [Prices -> List!Allocated]
        BY DEF List!ListInv, List!TypeOK
      <4> QED
        BY <1>1, <4>1, ListRemoveEffect
    <3>2. ASSUME NEW m \in Prices
          PROVE  tail'[m] \in List!Allocated'
      <4>1. PICK k : k = Len(content'[m])
        OBVIOUS
      <4>2. k \in 0..k
        BY <1>2, <1>3, <1>8, <4>1, Places
      <4>3. tail'[m] = List!Node(m, k)'
        BY <1>13, <4>1 DEF List!Linked
      <4> QED
        BY <1>12, <4>1, <4>2, <4>3 DEF List!NothingDangles
    <3> QED
      BY <3>1, <3>2
  <2>5. content' \in [Prices -> Seq(List!Allocated' \ List!Heads)]
    <3>1. content \in [Prices -> Seq(List!Allocated \ List!Heads)]
      BY DEF List!ListInv, List!TypeOK
    <3>2. DOMAIN content' = Prices /\ content' = [m \in Prices |-> content'[m]]
      BY <3>1 DEF List!Remove
    <3>3. content'[l] \in Seq(List!Allocated \ List!Heads)
      BY <1>2, <1>3, <3>1, DroppedPlaces DEF List!Remove
    <3>4. ASSUME NEW m \in Prices
          PROVE  content'[m] \in Seq(List!Allocated \ List!Heads)
      <4>1. CASE m = l
        BY <3>3, <4>1
      <4>2. CASE m # l
        BY <1>1, <3>1, <4>2, ListRemoveEffect
      <4> QED
        BY <4>1, <4>2
    <3>5. ASSUME NEW m \in Prices
          PROVE  content'[m] \in Seq(List!Allocated' \ List!Heads)
      <4>1. ASSUME NEW j \in 1..Len(content'[m])
            PROVE  content'[m][j] \in List!Allocated' \ List!Heads
        <5>1. content'[m][j] \in List!Allocated \ List!Heads
          BY <3>4
        <5>2. j # 0 /\ j \in 0..Len(content'[m])
          BY <3>4
        <5>3. List!Node(m, j)' = content'[m][j]
          BY <5>2 DEF List!Node
        <5>4. List!Node(m, j)' \in List!Allocated'
          BY <1>12, <5>2 DEF List!NothingDangles
        <5> QED
          BY <5>1, <5>3, <5>4
      <4> QED
        BY <3>4, <4>1, SeqOver
    <3> QED
      BY <3>2, <3>5
  <2> QED
    BY <2>1, <2>2, <2>3, <2>4, <2>5 DEF List!ListInv, List!TypeOK, List!Heads, List!HeadOf
<1> QED
  BY <1>11, <1>12, <1>13, <1>14 DEF List!ListInv, List!LinksInOrder

-----------------------------------------------------------------------------
(* The invariant of the lists.                                              *)

LEMMA ListInit ==
  ASSUME List!DLListAssumption, List!Init
  PROVE  List!ListInv
<1>1. /\ \A l \in Prices : content[l] = <<>> /\ Len(content[l]) = 0 /\ tail[l] = List!HeadOf(l)
      /\ List!Allocated = List!Heads
      /\ \A l \in Prices : List!HeadOf(l) \in List!Heads
      /\ \A n \in List!Heads : prev[n] = List!NULL /\ next[n] = List!NULL
  BY DEF List!Init, List!Allocated, List!Heads
<1>2. \A l \in Prices : \A i \in 0..Len(content[l]) : i = 0 /\ List!Node(l, i) = List!HeadOf(l)
  BY <1>1 DEF List!Node
<1>3. ASSUME NEW l \in Prices
      PROVE  List!Node(l, 0) = List!HeadOf(l) /\ 0 \in 0..Len(content[l])
  <2>1. List!Node(l, 0) = List!HeadOf(l)
    BY DEF List!Node
  <2>2. Len(content[l]) = 0
    BY <1>1
  <2> QED
    BY <2>1, <2>2
<1>4. List!NodesApart
  BY <1>2 DEF List!NodesApart, List!HeadOf
<1>5. List!NothingDangles
  <2>1. \A n \in List!Heads : \E l \in Prices : n = List!HeadOf(l)
    BY DEF List!Heads
  <2> QED
    BY <1>1, <1>2, <1>3, <2>1 DEF List!NothingDangles
<1>6. ASSUME NEW l \in Prices
      PROVE  List!Linked(l)
  <2>1. Len(content[l]) = 0 /\ tail[l] = List!HeadOf(l) /\ List!Node(l, 0) = List!HeadOf(l)
    BY <1>1, <1>3
  <2>2. prev[List!HeadOf(l)] = List!NULL /\ next[List!HeadOf(l)] = List!NULL
    BY <1>1
  <2> QED
    BY <2>1, <2>2 DEF List!Linked
<1>7. List!TypeOK
  <2>1. \A l \in Prices : content[l] \in Seq(List!Allocated \ List!Heads)
    <3>1. <<>> \in Seq(List!Allocated \ List!Heads)
      OBVIOUS
    <3> QED
      BY <1>1, <3>1
  <2>2. content \in [Prices -> Seq(List!Allocated \ List!Heads)]
    BY <2>1 DEF List!Init
  <2>3. tail \in [Prices -> List!Allocated]
    BY <1>1 DEF List!Init
  <2> QED
    BY <1>1, <2>2, <2>3 DEF List!TypeOK, List!Init, List!DLListAssumption
<1> QED
  BY <1>4, <1>5, <1>6, <1>7 DEF List!ListInv, List!LinksInOrder

LEMMA ListNext ==
  ASSUME List!DLListAssumption, List!ListInv, [List!Next]_(List!vars)
  PROVE  List!ListInv'
<1>1. CASE UNCHANGED List!vars
  <2>1. UNCHANGED <<prev, next, data, tail, nodes, content>>
    BY <1>1 DEF List!vars
  <2>2. List!TypeOK'
    BY <2>1 DEF List!ListInv, List!TypeOK, List!Allocated, List!Heads, List!HeadOf
  <2>3. List!LinksInOrder'
    <3>1. List!NothingDangles'
      BY <2>1 DEF List!ListInv, List!LinksInOrder, List!NothingDangles, List!Node, List!Allocated, List!HeadOf
    <3>2. ASSUME NEW l \in Prices PROVE List!Linked(l)'
      BY <2>1 DEF List!ListInv, List!LinksInOrder, List!Linked, List!Node, List!HeadOf
    <3> QED
      BY <3>1, <3>2 DEF List!LinksInOrder
  <2>4. List!NodesApart'
    BY <2>1 DEF List!ListInv, List!NodesApart, List!Node, List!HeadOf
  <2> QED
    BY <2>2, <2>3, <2>4 DEF List!ListInv
<1> QED
  BY <1>1, ListInsertStep, ListRemoveStep DEF List!Next

-----------------------------------------------------------------------------
(* It implements the lists.                                                 *)

\* Until the table grows an entry has the row that was put last.
CurrentRows == ~grown => \A e \in DOMAIN entries : entries[e].value = dict[entries[e].key]

\* What the invariant of the table says of the entries.
EntriesOK ==
  /\ \A e \in DOMAIN entries : entries[e].key \in Orders
  /\ allocated \in 0..MaxLoads
  /\ DOMAIN entries \subseteq 1..allocated
  /\ CurrentRows
  /\ Table!TypeOK

LEMMA TableEntries ==
  ASSUME OrderTableAssumption, Table!TableInv
  PROVE  EntriesOK
<1>1. /\ entries \in [DOMAIN entries -> [key : Orders, value : Nat \ {0}]]
      /\ allocated \in 0..MaxLoads /\ DOMAIN entries \subseteq 1..allocated
      /\ dict \in [Orders -> Nat] /\ grown \in BOOLEAN /\ disturbed \in BOOLEAN
      /\ disturbed => grown
  BY DEF Table!TableInv, Table!EntriesInv
<1>2. /\ capacity \in Nat \ {0}
      /\ buckets \in [0..(capacity - 1) -> Seq(DOMAIN entries)]
  BY DEF Table!TableInv, Table!Chains
<1>3. CurrentRows
  <2>1. ASSUME ~grown, NEW e \in DOMAIN entries
        PROVE  entries[e].value = dict[entries[e].key]
    <3>1. Table!Sound(capacity, buckets) /\ Table!Exact(capacity, buckets)
      BY <1>1, <2>1 DEF Table!TableInv
    <3>2. PICK b \in 0..(capacity - 1) : \E i \in 1..Len(buckets[b]) : buckets[b][i] = e
      BY <3>1 DEF Table!Sound
    <3>3. PICK i \in 1..Len(buckets[b]) : buckets[b][i] = e
      BY <3>2
    <3>4. Table!Home(Table!KeyAt(buckets, b, i), capacity) = b
      BY <3>1, <3>3 DEF Table!Exact
    <3> QED
      BY <3>1, <3>3, <3>4 DEF Table!Sound, Table!KeyAt
  <2> QED
    BY <2>1 DEF CurrentRows
<1>4. size \in Nat
  <2>1. TableP!EntriesInv
    BY SameTableInvariants DEF TableP!TableInv
  <2> QED
    BY <2>1, TableP!SizeNat
<1>5. Table!TypeOK
  BY <1>1, <1>2, <1>4 DEF Table!TypeOK
<1> QED
  BY <1>1, <1>3, <1>5 DEF EntriesOK

\* The entry ht_put finds is that of the order.
LEMMA KnownEntry ==
  ASSUME OrderTableAssumption, Table!TableInv, NEW o \in Orders, Table!Known(o) # Table!NULL
  PROVE  Table!Known(o) \in DOMAIN entries /\ entries[Table!Known(o)].key = o
<1>1. TableP!HashTableAssumption /\ TableP!TableInv
  BY Assumptions, SameTableInvariants
<1>2. TableP!Known(o) # TableP!NULL
  BY SameTable, SameLookup
<1>3. TableP!Known(o) \in DOMAIN entries /\ entries[TableP!Known(o)].key = o
  BY <1>1, <1>2, TableP!KnownFound DEF TableP!KeyAt
<1> QED
  BY <1>3, SameLookup

\* What an order that is loaded does to the entries: the one that is listed
\* is the order's, and all the others are as they were.
LEMMA LoadEffect ==
  ASSUME OrderTableAssumption, Table!TableInv, EntriesOK', NEW o \in Orders,
         NEW entry, (LoadKnown(o) /\ entry = Table!Known(o)) \/ (LoadNew(o) /\ entry = Table!NewEntry)
  PROVE  /\ InsertEntry(o, entry)
         /\ entry \in DOMAIN entries \/ entry = allocated + 1
         /\ entry \in 1..allocated' /\ entry \in 1..MaxLoads
         /\ DOMAIN entries' = DOMAIN entries \cup {entry}
         /\ entries'[entry].key = o
         /\ \A e \in DOMAIN entries : entries'[e].key = entries[e].key
         /\ allocated <= allocated'
         /\ removals' = removals
<1>1. EntriesOK
  BY TableEntries
<1>2. CASE LoadKnown(o) /\ entry = Table!Known(o)
  <2>1. /\ Table!Known(o) # Table!NULL /\ allocated' = allocated
        /\ entries' = [entries EXCEPT ![entry].value = Row]
    BY <1>2 DEF LoadKnown, Table!PutReplaces
  <2>2. entry \in DOMAIN entries /\ entries[entry].key = o
    BY <1>2, <2>1, KnownEntry
  <2>3. /\ DOMAIN entries' = DOMAIN entries
        /\ \A e \in DOMAIN entries : entries'[e].key = entries[e].key
    <3>1. entries \in [DOMAIN entries -> [key : Orders, value : Nat \ {0}]]
      BY DEF Table!TableInv, Table!EntriesInv
    <3> QED
      BY <2>1, <2>2, <3>1
  <2>4. InsertEntry(o, entry) /\ removals' = removals
    BY <1>2 DEF LoadKnown
  <2>5. allocated \in 0..MaxLoads /\ entry \in 1..allocated /\ MaxLoads \in Nat
    BY <1>1, <2>2, Assumptions DEF EntriesOK
  <2>6. DOMAIN entries' = DOMAIN entries \cup {entry} /\ entries'[entry].key = o
    BY <2>2, <2>3
  <2> QED
    BY <2>1, <2>2, <2>3, <2>4, <2>5, <2>6
<1>3. CASE LoadNew(o) /\ entry = Table!NewEntry
  <2>1. entry = allocated + 1 /\ allocated' = entry /\ entries' = Table!WithEntry(o, Row)
    BY <1>3 DEF LoadNew, Table!PutInserts, Table!NewEntry
  <2>2. entry \notin DOMAIN entries /\ allocated \in Nat
    BY <1>1, <2>1 DEF EntriesOK
  <2>3. /\ DOMAIN entries' = DOMAIN entries \cup {entry}
        /\ entries'[entry].key = o
        /\ \A e \in DOMAIN entries : entries'[e].key = entries[e].key
    BY <1>3, <2>1, <2>2 DEF Table!WithEntry
  <2>4. InsertEntry(o, entry) /\ removals' = removals
    BY <1>3 DEF LoadNew
  <2> QED
    BY <2>1, <2>2, <2>3, <2>4 DEF EntriesOK
<1> QED
  BY <1>2, <1>3

LEMMA ListStep ==
  ASSUME OrderTableAssumption, Table!TableInv, EntriesOK', [Next]_vars
  PROVE  [List!Next]_(List!vars)
<1>1. ASSUME NEW o \in Orders, LoadKnown(o) \/ LoadNew(o)
      PROVE  List!Next
  <2>1. PICK entry : \/ LoadKnown(o) /\ entry = Table!Known(o)
                     \/ LoadNew(o) /\ entry = Table!NewEntry
    BY <1>1
  <2>2. InsertEntry(o, entry) /\ entry \in 1..MaxLoads
    BY <2>1, LoadEffect
  <2> QED
    BY <2>2, Assumptions DEF InsertEntry, List!Next
<1>2. ASSUME NEW p \in Prices, NEW i \in DOMAIN content[p], Delist(p, i)
      PROVE  List!Next
  BY <1>2 DEF Delist, List!Next
<1>3. ASSUME NEW o \in Orders, LoadDrops(o) \/ Forget(o)
      PROVE  UNCHANGED List!vars
  BY <1>3 DEF LoadDrops, Forget, listVars, List!vars
<1>4. CASE UNCHANGED vars
  BY <1>4 DEF vars, listVars, List!vars
<1> QED
  BY <1>1, <1>2, <1>3, <1>4 DEF Next, LoadRow

LEMMA EntriesInvariant ==
  ASSUME OrderTableAssumption
  PROVE  Spec => []EntriesOK
<1>1. Table!TableInv => EntriesOK
  BY TableEntries
<1> QED
  BY <1>1, TableInvariant, PTL

\* It does to the lists what their specification allows, and nothing else.
THEOREM ImplementsLists ==
  ASSUME OrderTableAssumption
  PROVE  Spec => List!Spec
<1>1. Init => List!Init
  BY DEF Init
<1>2. Table!TableInv /\ EntriesOK' /\ [Next]_vars => [List!Next]_(List!vars)
  BY ListStep
<1> QED
  BY <1>1, <1>2, TableInvariant, EntriesInvariant, PTL DEF Spec, List!Spec

\* The inductive invariant of the lists.
THEOREM ListInvariant ==
  ASSUME OrderTableAssumption
  PROVE  Spec => []List!ListInv
<1>1. List!Init => List!ListInv
  BY Assumptions, ListInit
<1>2. List!ListInv /\ [List!Next]_(List!vars) => List!ListInv'
  BY Assumptions, ListNext
<1> QED
  BY <1>1, <1>2, ImplementsLists, PTL DEF List!Spec

\* The links of every price's list pass through exactly the nodes that were
\* inserted and not removed, in order and both ways.
THEOREM LinkedInOrder ==
  ASSUME OrderTableAssumption
  PROVE  Spec => []LinksInOrder
<1>1. List!ListInv => LinksInOrder
  BY DEF LinksInOrder, List!ListInv
<1> QED
  BY <1>1, ListInvariant, PTL

-----------------------------------------------------------------------------
(* Table, lists and nodes lead to one another.                              *)

\* What the invariant of the lists says of their nodes.
ListsOK ==
  /\ nodes \in Nat
  /\ \A p \in Prices : /\ Len(content[p]) \in Nat
                       /\ DOMAIN content[p] = 1..Len(content[p])
                       /\ \A i \in DOMAIN content[p] : content[p][i] \in DOMAIN data

LEMMA ListNodes ==
  ASSUME List!ListInv
  PROVE  ListsOK
<1>1. /\ nodes \in Nat /\ DOMAIN data = List!Allocated
      /\ content \in [Prices -> Seq(List!Allocated \ List!Heads)]
  BY DEF List!ListInv, List!TypeOK
<1>2. ASSUME NEW p \in Prices
      PROVE  /\ Len(content[p]) \in Nat
             /\ DOMAIN content[p] = 1..Len(content[p])
             /\ \A i \in DOMAIN content[p] : content[p][i] \in DOMAIN data
  BY <1>1
<1> QED
  BY <1>1, <1>2 DEF ListsOK

\* What dl_list_insert does to the nodes and the places of the lists.
LEMMA InsertEffect ==
  ASSUME List!ListInv, NEW p \in Prices, NEW d \in 1..MaxLoads, List!Insert(p, d),
         NEW new, new = List!NewNode
  PROVE  /\ new \notin DOMAIN data /\ DOMAIN data' = DOMAIN data \cup {new}
         /\ new = <<"node", nodes + 1>> /\ nodes' = nodes + 1
         /\ \A n \in DOMAIN data : data'[n] = data[n]
         /\ data'[new] = d
         /\ \A q \in Prices : q # p => content'[q] = content[q]
         /\ Len(content'[p]) = Len(content[p]) + 1
         /\ \A i \in 1..Len(content[p]) : content'[p][i] = content[p][i]
         /\ content'[p][Len(content[p]) + 1] = new
<1>1. List!ListInv /\ List!Insert(p, d) /\ new = List!NewNode
  OBVIOUS
<1>2. DOMAIN data = List!Allocated
  BY <1>1 DEF List!ListInv, List!TypeOK
<1>3. new \notin DOMAIN data
  BY <1>1, <1>2, NewIsNew
<1>4. DOMAIN data' = DOMAIN data \cup {new}
  BY <1>1, <1>2 DEF List!Insert, List!With
<1>5. /\ \A n \in DOMAIN data : data'[n] = data[n]
      /\ data'[new] = d
  BY <1>1, <1>3 DEF List!Insert, List!With
<1>6. new = <<"node", nodes + 1>> /\ nodes' = nodes + 1
  BY <1>1 DEF List!NewNode, List!Insert
<1>7. /\ Len(content'[p]) = Len(content[p]) + 1
      /\ content'[p][Len(content[p]) + 1] = new
  BY <1>1, ListInsertEffect
<1>8. ASSUME NEW i \in 1..Len(content[p])
      PROVE  content'[p][i] = content[p][i]
  BY <1>1, ListInsertEffect
<1>9. ASSUME NEW q \in Prices, q # p
      PROVE  content'[q] = content[q]
  BY <1>1, <1>9, ListInsertEffect
<1> QED
  BY <1>3, <1>4, <1>5, <1>6, <1>7, <1>8, <1>9

\* What dl_list_remove does to them.
LEMMA RemoveEffect ==
  ASSUME List!ListInv, NEW p \in Prices, NEW i \in DOMAIN content[p], List!Remove(p, i),
         NEW node, node = content[p][i]
  PROVE  /\ i \in 1..Len(content[p])
         /\ DOMAIN data' = DOMAIN data \ {node} /\ nodes' = nodes
         /\ \A n \in DOMAIN data' : data'[n] = data[n]
         /\ \A q \in Prices : q # p => content'[q] = content[q]
         /\ Len(content'[p]) = Len(content[p]) - 1
         /\ \A j \in 1..(Len(content[p]) - 1) :
              content'[p][j] = IF j < i THEN content[p][j] ELSE content[p][j + 1]
<1>1. List!ListInv /\ List!Remove(p, i)
  OBVIOUS
<1>2. DOMAIN data' = DOMAIN data \ {node} /\ nodes' = nodes
  BY <1>1 DEF List!Remove, List!Without
<1>3. \A n \in DOMAIN data' : data'[n] = data[n]
  BY <1>1 DEF List!Remove, List!Without
<1>4. i \in 1..Len(content[p]) /\ Len(content'[p]) = Len(content[p]) - 1
  BY <1>1, ListRemoveEffect
<1>5. ASSUME NEW q \in Prices, q # p
      PROVE  content'[q] = content[q]
  BY <1>1, <1>5, ListRemoveEffect
<1>6. ASSUME NEW j \in 1..(Len(content[p]) - 1)
      PROVE  content'[p][j] = IF j < i THEN content[p][j] ELSE content[p][j + 1]
  BY <1>1, ListRemoveEffect
<1> QED
  BY <1>2, <1>3, <1>4, <1>5, <1>6

\* If the node entry e refers to is there, it is the last of e in the list
\* of price p.
LeadsBack(e, p) ==
  ref[e] \in DOMAIN data =>
    \E i \in DOMAIN content[p] :
      /\ data[content[p][i]] = e /\ ref[e] = content[p][i]
      /\ \A j \in DOMAIN content[p] : data[content[p][j]] = e => j <= i

\* What node n of the list of price p points to.
HoldsEntry(n, p) ==
  /\ data[n] \in 1..allocated
  /\ data[n] \in DOMAIN entries => PriceOf[entries[data[n]].key] = p
  /\ data[n] \notin DOMAIN entries => removals > 0

\* The last three parts of StorageInv, taken apart.
LinkInv ==
  /\ DOMAIN ref = DOMAIN entries
  /\ \A e \in DOMAIN entries : ref[e] \in {<<"node", n>> : n \in 1..nodes}
  /\ removals = 0 => \A e \in DOMAIN entries : ref[e] \in DOMAIN data
  /\ \A e \in DOMAIN entries : LeadsBack(e, PriceOf[entries[e].key])
  /\ \A p \in Prices : \A i \in DOMAIN content[p] : HoldsEntry(content[p][i], p)

\* A row that is loaded: the node that is new is the last of its entry.
LEMMA LoadStep ==
  ASSUME OrderTableAssumption, Table!TableInv, List!ListInv, LinkInv, EntriesOK', ListsOK',
         NEW o \in Orders, LoadKnown(o) \/ LoadNew(o)
  PROVE  LinkInv'
<1>1. PICK entry : \/ LoadKnown(o) /\ entry = Table!Known(o)
                   \/ LoadNew(o) /\ entry = Table!NewEntry
  OBVIOUS
<1>2. PICK p : p = PriceOf[o]
  OBVIOUS
<1>3. PICK new : new = List!NewNode
  OBVIOUS
<1>4. PICK len : len = Len(content[p])
  OBVIOUS
<1>5. /\ p \in Prices /\ len \in Nat /\ EntriesOK /\ ListsOK
  BY <1>2, <1>4, Assumptions, TableEntries, ListNodes DEF ListsOK
<1>6. /\ entry \in DOMAIN entries \/ entry = allocated + 1
      /\ entry \in 1..allocated' /\ entry \in 1..MaxLoads
      /\ DOMAIN entries' = DOMAIN entries \cup {entry}
      /\ entries'[entry].key = o
      /\ \A e \in DOMAIN entries : entries'[e].key = entries[e].key
      /\ allocated <= allocated' /\ removals' = removals
      /\ InsertEntry(o, entry)
  BY <1>1, LoadEffect
<1>7. List!Insert(p, entry)
  BY <1>2, <1>6 DEF InsertEntry
<1>8. /\ new \notin DOMAIN data /\ DOMAIN data' = DOMAIN data \cup {new}
      /\ new = <<"node", nodes + 1>> /\ nodes' = nodes + 1
      /\ \A n \in DOMAIN data : data'[n] = data[n]
      /\ data'[new] = entry
  <2>1. /\ new \notin DOMAIN data /\ DOMAIN data' = DOMAIN data \cup {new}
        /\ new = <<"node", nodes + 1>> /\ nodes' = nodes + 1
    BY <1>3, <1>5, <1>6, <1>7, InsertEffect
  <2>2. ASSUME NEW n \in DOMAIN data
        PROVE  data'[n] = data[n]
    BY <1>3, <1>5, <1>6, <1>7, InsertEffect
  <2>3. data'[new] = entry
    BY <1>3, <1>7, <2>1 DEF List!Insert, List!With
  <2> QED
    BY <2>1, <2>2, <2>3
<1>9. /\ \A q \in Prices : q # p => content'[q] = content[q]
      /\ Len(content'[p]) = len + 1
      /\ \A i \in 1..len : content'[p][i] = content[p][i]
      /\ content'[p][len + 1] = new
  BY <1>3, <1>4, <1>5, <1>6, <1>7, InsertEffect
<1>10. /\ DOMAIN ref' = DOMAIN ref \cup {entry} /\ ref'[entry] = new
       /\ \A e \in DOMAIN ref : e # entry => ref'[e] = ref[e]
  BY <1>3, <1>6 DEF InsertEntry
<1>11. DOMAIN content'[p] = 1..(len + 1) /\ DOMAIN content[p] = 1..len
       /\ len + 1 \in DOMAIN content'[p]
  BY <1>4, <1>5, <1>9 DEF ListsOK
<1>12. ASSUME NEW q \in Prices, NEW i \in DOMAIN content'[q]
       PROVE  \/ /\ i \in DOMAIN content[q] /\ content'[q][i] = content[q][i]
                 /\ content[q][i] \in DOMAIN data
              \/ q = p /\ i = len + 1 /\ content'[q][i] = new
  <2>1. CASE q # p
    BY <1>5, <1>9, <2>1 DEF ListsOK
  <2>2. CASE q = p
    <3>1. i \in 1..len \/ i = len + 1
      BY <1>5, <1>11, <2>2
    <3> QED
      BY <1>5, <1>9, <1>11, <2>2, <3>1 DEF ListsOK
  <2> QED
    BY <2>1, <2>2
<1>13. ASSUME NEW q \in Prices, NEW i \in DOMAIN content[q]
       PROVE  i \in DOMAIN content'[q] /\ content'[q][i] = content[q][i] /\ content[q][i] \in DOMAIN data
  <2>1. CASE q # p
    BY <1>5, <1>9, <2>1 DEF ListsOK
  <2>2. CASE q = p
    BY <1>5, <1>9, <1>11, <2>2 DEF ListsOK
  <2> QED
    BY <2>1, <2>2
<1>14. \A e \in DOMAIN entries' : ref'[e] \in {<<"node", n>> : n \in 1..nodes'}
  <2>1. nodes \in Nat /\ nodes + 1 \in 1..nodes' /\ \A n \in 1..nodes : n \in 1..nodes'
    BY <1>5, <1>8 DEF ListsOK
  <2>2. new \in {<<"node", n>> : n \in 1..nodes'}
    BY <1>8, <2>1
  <2>3. ASSUME NEW e \in DOMAIN entries
        PROVE  ref[e] \in {<<"node", n>> : n \in 1..nodes'}
    BY <2>1 DEF LinkInv
  <2> QED
    BY <1>6, <1>10, <2>2, <2>3 DEF LinkInv
<1>15. ASSUME NEW e \in DOMAIN entries
       PROVE  ref[e] # new
  <2>1. PICK n \in 1..nodes : ref[e] = <<"node", n>>
    BY DEF LinkInv
  <2>2. n # nodes + 1
    BY <1>5 DEF ListsOK
  <2> QED
    BY <1>8, <2>1, <2>2
<1>16. ASSUME removals' = 0, NEW e \in DOMAIN entries'
       PROVE  ref'[e] \in DOMAIN data'
  BY <1>6, <1>8, <1>10, <1>16 DEF LinkInv
<1>17. ASSUME NEW e \in DOMAIN entries', NEW q, q = PriceOf[entries'[e].key]
       PROVE  LeadsBack(e, q)'
  <2>1. q \in Prices
    BY <1>17, Assumptions DEF EntriesOK
  <2>2. CASE e = entry
    <3>1. q = p
      BY <1>2, <1>6, <1>17, <2>2
    <3>2. \A j \in DOMAIN content'[p] : j <= len + 1
      BY <1>5, <1>11
    <3> QED
      BY <1>8, <1>9, <1>10, <1>11, <2>2, <3>1, <3>2 DEF LeadsBack
  <2>3. CASE e # entry
    <3>1. e \in DOMAIN entries /\ q = PriceOf[entries[e].key] /\ ref'[e] = ref[e]
      BY <1>6, <1>10, <1>17, <2>3 DEF LinkInv
    <3>2. SUFFICES ASSUME ref[e] \in DOMAIN data'
                   PROVE  \E i \in DOMAIN content'[q] :
                            /\ data'[content'[q][i]] = e /\ ref'[e] = content'[q][i]
                            /\ \A j \in DOMAIN content'[q] : data'[content'[q][j]] = e => j <= i
      BY <3>1 DEF LeadsBack
    <3>3. ref[e] \in DOMAIN data
      BY <1>8, <1>15, <3>1, <3>2
    <3>4. PICK i \in DOMAIN content[q] :
            /\ data[content[q][i]] = e /\ ref[e] = content[q][i]
            /\ \A j \in DOMAIN content[q] : data[content[q][j]] = e => j <= i
      BY <3>1, <3>3 DEF LinkInv, LeadsBack
    <3>5. i \in DOMAIN content'[q] /\ content'[q][i] = content[q][i] /\ data'[content'[q][i]] = e
      BY <1>8, <1>13, <2>1, <3>4
    <3>6. ASSUME NEW j \in DOMAIN content'[q], data'[content'[q][j]] = e
          PROVE  j <= i
      <4>1. CASE q = p /\ j = len + 1 /\ content'[q][j] = new
        BY <1>8, <2>3, <3>6, <4>1
      <4>2. CASE j \in DOMAIN content[q] /\ content'[q][j] = content[q][j] /\ content[q][j] \in DOMAIN data
        <5>1. data[content[q][j]] = e
          BY <1>8, <3>6, <4>2
        <5> QED
          BY <3>4, <4>2, <5>1
      <4> QED
        BY <1>12, <2>1, <4>1, <4>2
    <3> QED
      BY <3>1, <3>4, <3>5, <3>6
  <2> QED
    BY <2>2, <2>3
<1>18. ASSUME NEW q \in Prices, NEW i \in DOMAIN content'[q]
       PROVE  HoldsEntry(content[q][i], q)'
  <2>1. CASE q = p /\ i = len + 1 /\ content'[q][i] = new
    <3>1. data'[content'[q][i]] = entry /\ PriceOf[entries'[entry].key] = q
      BY <1>2, <1>6, <1>8, <2>1
    <3> QED
      BY <1>6, <3>1 DEF HoldsEntry
  <2>2. CASE i \in DOMAIN content[q] /\ content'[q][i] = content[q][i] /\ content[q][i] \in DOMAIN data
    <3>1. PICK e : e = data[content[q][i]]
      OBVIOUS
    <3>2. /\ e \in 1..allocated
          /\ e \in DOMAIN entries => PriceOf[entries[e].key] = q
          /\ e \notin DOMAIN entries => removals > 0
      BY <2>2, <3>1 DEF LinkInv, HoldsEntry
    <3>3. data'[content'[q][i]] = e
      BY <1>8, <2>2, <3>1
    <3>4. allocated \in Nat /\ allocated' \in Nat
      BY <1>5 DEF EntriesOK
    <3>5. e \in 1..allocated' /\ e # allocated + 1
      BY <1>6, <3>2, <3>4
    <3>6. e \in DOMAIN entries' <=> e \in DOMAIN entries
      BY <1>6, <3>5
    <3> QED
      BY <1>6, <3>2, <3>3, <3>5, <3>6 DEF HoldsEntry
  <2> QED
    BY <1>12, <2>1, <2>2
<1>19. DOMAIN ref' = DOMAIN entries'
  BY <1>6, <1>10 DEF LinkInv
<1> QED
  BY <1>14, <1>16, <1>17, <1>18, <1>19 DEF LinkInv

\* A node that is removed: of the nodes that stay, the last one of an entry
\* stays the last.
LEMMA DelistStep ==
  ASSUME OrderTableAssumption, Table!TableInv, List!ListInv, LinkInv, Counts, ListsOK',
         NEW p \in Prices, NEW i \in DOMAIN content[p], Delist(p, i)
  PROVE  LinkInv'
<1>1. PICK node : node = content[p][i]
  OBVIOUS
<1>2. PICK len : len = Len(content[p])
  OBVIOUS
<1>3. /\ len \in Nat /\ DOMAIN content[p] = 1..len /\ EntriesOK /\ ListsOK
  BY <1>2, TableEntries, ListNodes DEF ListsOK
<1>4. List!Remove(p, i) /\ UNCHANGED <<entries, allocated, ref>> /\ removals' > 0
  BY DEF Delist, Counts, tableVars
<1>5. /\ i \in 1..len
      /\ DOMAIN data' = DOMAIN data \ {node} /\ nodes' = nodes
      /\ \A n \in DOMAIN data' : data'[n] = data[n]
      /\ Len(content'[p]) = len - 1
  <2>1. ASSUME NEW n \in DOMAIN data'
        PROVE  data'[n] = data[n]
    BY <1>1, <1>4, RemoveEffect
  <2> QED
    BY <1>1, <1>2, <1>4, <2>1, RemoveEffect
<1>6. ASSUME NEW q \in Prices, q # p
      PROVE  content'[q] = content[q]
  BY <1>1, <1>4, <1>6, RemoveEffect
<1>7. ASSUME NEW j \in 1..(len - 1)
      PROVE  content'[p][j] = IF j < i THEN content[p][j] ELSE content[p][j + 1]
  <2>1. content'[p] = List!Drop(content[p], i)
    BY <1>4 DEF List!Remove, List!ListInv, List!TypeOK
  <2> QED
    BY <1>2, <2>1 DEF List!Drop
<1>8. DOMAIN content'[p] = 1..(len - 1)
  BY <1>5 DEF ListsOK
\* Where the nodes that stay were before.
<1> DEFINE Old(q, j) == IF q = p /\ j >= i THEN j + 1 ELSE j
<1>9. ASSUME NEW q \in Prices, NEW j \in DOMAIN content'[q]
      PROVE  Old(q, j) \in DOMAIN content[q] /\ content'[q][j] = content[q][Old(q, j)]
  <2>1. CASE q # p
    BY <1>6, <2>1
  <2>2. CASE q = p
    <3>1. j \in 1..(len - 1) /\ Old(q, j) \in 1..len
      BY <1>3, <1>5, <1>8, <2>2
    <3> QED
      BY <1>3, <1>5, <1>7, <2>2, <3>1
  <2> QED
    BY <2>1, <2>2
<1>10. ASSUME NEW q \in Prices, NEW k \in DOMAIN content[q], content[q][k] # node
       PROVE  \E j \in DOMAIN content'[q] : Old(q, j) = k
  <2>1. CASE q # p
    BY <1>6, <2>1
  <2>2. CASE q = p
    <3>1. k \in 1..len /\ k # i
      BY <1>1, <1>3, <1>10, <2>2
    <3>2. CASE k < i
      <4>1. k \in DOMAIN content'[q] /\ Old(q, k) = k
        BY <1>3, <1>5, <1>8, <2>2, <3>1, <3>2
      <4> QED
        BY <4>1
    <3>3. CASE k > i
      <4>1. k - 1 \in DOMAIN content'[q] /\ Old(q, k - 1) = k
        BY <1>3, <1>5, <1>8, <2>2, <3>1, <3>3
      <4> QED
        BY <4>1
    <3> QED
      BY <1>5, <3>1, <3>2, <3>3
  <2> QED
    BY <2>1, <2>2
<1>11. ASSUME NEW q \in Prices, NEW j \in DOMAIN content'[q], NEW k \in DOMAIN content'[q],
              Old(q, j) <= Old(q, k)
       PROVE  j <= k
  <2>1. j \in Int /\ k \in Int /\ i \in Int
    BY <1>5 DEF ListsOK
  <2> QED
    BY <1>11, <2>1
<1>12. ASSUME NEW q \in Prices, NEW j \in DOMAIN content'[q]
       PROVE  data'[content'[q][j]] = data[content[q][Old(q, j)]]
  <2>1. content'[q][j] \in DOMAIN data'
    BY DEF ListsOK
  <2> QED
    BY <1>5, <1>9, <2>1
<1> HIDE DEF Old
<1>13. ASSUME NEW e \in DOMAIN entries', NEW q, q = PriceOf[entries'[e].key]
       PROVE  LeadsBack(e, q)'
  <2>1. e \in DOMAIN entries /\ q = PriceOf[entries[e].key] /\ ref'[e] = ref[e] /\ q \in Prices
    BY <1>3, <1>4, <1>13, Assumptions DEF EntriesOK
  <2>2. SUFFICES ASSUME ref[e] \in DOMAIN data'
                 PROVE  \E j \in DOMAIN content'[q] :
                          /\ data'[content'[q][j]] = e /\ ref'[e] = content'[q][j]
                          /\ \A k \in DOMAIN content'[q] : data'[content'[q][k]] = e => k <= j
    BY <2>1 DEF LeadsBack
  <2>3. ref[e] \in DOMAIN data /\ ref[e] # node
    BY <1>5, <2>2
  <2>4. PICK k \in DOMAIN content[q] :
          /\ data[content[q][k]] = e /\ ref[e] = content[q][k]
          /\ \A j \in DOMAIN content[q] : data[content[q][j]] = e => j <= k
    BY <2>1, <2>3 DEF LinkInv, LeadsBack
  <2>5. PICK j \in DOMAIN content'[q] : Old(q, j) = k
    BY <1>10, <2>1, <2>3, <2>4
  <2>6. data'[content'[q][j]] = e /\ ref'[e] = content'[q][j]
    BY <1>9, <1>12, <2>1, <2>4, <2>5
  <2>7. ASSUME NEW n \in DOMAIN content'[q], data'[content'[q][n]] = e
        PROVE  n <= j
    <3>1. Old(q, n) \in DOMAIN content[q] /\ data[content[q][Old(q, n)]] = e
      BY <1>9, <1>12, <2>1, <2>7
    <3>2. Old(q, n) <= k
      BY <2>4, <3>1
    <3> QED
      BY <1>11, <2>1, <2>5, <3>2
  <2> QED
    BY <2>6, <2>7
<1>14. ASSUME NEW q \in Prices, NEW j \in DOMAIN content'[q]
       PROVE  HoldsEntry(content[q][j], q)'
  <2>1. HoldsEntry(content[q][Old(q, j)], q)
    BY <1>9 DEF LinkInv
  <2>2. PICK e : e = data[content[q][Old(q, j)]]
    OBVIOUS
  <2>3. data'[content'[q][j]] = e
    BY <1>12, <2>2
  <2> QED
    BY <1>4, <2>1, <2>2, <2>3 DEF HoldsEntry
<1>15. DOMAIN ref' = DOMAIN entries'
       /\ \A e \in DOMAIN entries' : ref'[e] \in {<<"node", n>> : n \in 1..nodes'}
  BY <1>4, <1>5 DEF LinkInv
<1>16. removals' # 0
  BY <1>4
<1> QED
  BY <1>13, <1>14, <1>15, <1>16 DEF LinkInv

\* An order that is removed from the table: its nodes stay.
LEMMA ForgetStep ==
  ASSUME OrderTableAssumption, Table!TableInv, LinkInv, Counts,
         NEW o \in Orders, Forget(o)
  PROVE  LinkInv'
<1>1. PICK b : b = Table!Home(o, capacity)
  OBVIOUS
<1>2. PICK gone : gone = buckets[b][Table!Position(buckets[b], o)]
  OBVIOUS
<1>3. /\ entries' = [x \in DOMAIN entries \ {gone} |-> entries[x]]
      /\ allocated' = allocated
  BY <1>1, <1>2 DEF Forget, Table!Remove
<1>4. /\ ref' = [e \in DOMAIN entries' |-> ref[e]]
      /\ UNCHANGED <<data, content, nodes>> /\ removals' > 0
  BY DEF Forget, Counts, listVars
<1>5. \A e \in DOMAIN entries' : e \in DOMAIN entries /\ entries'[e] = entries[e] /\ ref'[e] = ref[e]
  BY <1>3, <1>4
<1>6. ASSUME NEW e \in DOMAIN entries', NEW q, q = PriceOf[entries'[e].key]
      PROVE  LeadsBack(e, q)'
  <2>1. LeadsBack(e, q) /\ ref'[e] = ref[e]
    BY <1>5, <1>6 DEF LinkInv
  <2> QED
    BY <1>4, <2>1 DEF LeadsBack
<1>7. ASSUME NEW q \in Prices, NEW j \in DOMAIN content'[q]
      PROVE  HoldsEntry(content[q][j], q)'
  <2>1. j \in DOMAIN content[q] /\ content'[q][j] = content[q][j]
    BY <1>4
  <2>2. HoldsEntry(content[q][j], q)
    BY <2>1 DEF LinkInv
  <2>3. PICK e : e = data[content[q][j]]
    OBVIOUS
  <2>4. data'[content'[q][j]] = e
    BY <1>4, <2>1, <2>3
  <2> QED
    BY <1>3, <1>4, <1>5, <2>2, <2>3, <2>4 DEF HoldsEntry
<1>8. DOMAIN ref' = DOMAIN entries'
      /\ \A e \in DOMAIN entries' : ref'[e] \in {<<"node", n>> : n \in 1..nodes'}
  BY <1>4, <1>5 DEF LinkInv
<1>9. removals' # 0
  BY <1>4
<1> QED
  BY <1>6, <1>7, <1>8, <1>9 DEF LinkInv

LEMMA LinkStep ==
  ASSUME OrderTableAssumption, Table!TableInv, List!ListInv, Counts, LinkInv,
         EntriesOK', ListsOK', [Next]_vars
  PROVE  LinkInv'
<1>1. ASSUME UNCHANGED <<entries, allocated, ref, data, content, nodes, removals>>
      PROVE  LinkInv'
  BY <1>1 DEF LinkInv, LeadsBack, HoldsEntry
<1>2. ASSUME NEW o \in Orders, LoadDrops(o)
      PROVE  LinkInv'
  BY <1>1, <1>2 DEF LoadDrops, Table!PutCannotGrow, Table!PutCannotCreate, Table!vars, listVars
<1>3. CASE UNCHANGED vars
  BY <1>1, <1>3 DEF vars, tableVars, listVars
<1> QED
  BY <1>2, <1>3, LoadStep, DelistStep, ForgetStep DEF Next, LoadRow

LEMMA LinkInit ==
  ASSUME OrderTableAssumption, Init
  PROVE  LinkInv
<1>1. DOMAIN entries = {} /\ DOMAIN ref = {}
  BY DEF Init, Table!Init
<1>2. \A p \in Prices : DOMAIN content[p] = {}
  BY DEF Init, List!Init
<1> QED
  BY <1>1, <1>2 DEF LinkInv

LEMMA LinkInvariant ==
  ASSUME OrderTableAssumption
  PROVE  Spec => []LinkInv
<1>1. Init => LinkInv
  BY LinkInit
<1>2. Table!TableInv /\ List!ListInv /\ Counts /\ LinkInv /\ EntriesOK' /\ ListsOK' /\ [Next]_vars
        => LinkInv'
  BY LinkStep
<1>3. List!ListInv => ListsOK
  BY ListNodes
<1> QED
  BY <1>1, <1>2, <1>3, TableInvariant, EntriesInvariant, CountInvariant, ListInvariant, PTL
     DEF Spec

LEMMA StorageParts ==
  ASSUME Table!TableInv, List!ListInv, EntriesOK, Counts, LinkInv
  PROVE  StorageInv
<1>1. List!TypeOK
  BY DEF List!ListInv
<1>2. TypeOK
  BY <1>1 DEF TypeOK, EntriesOK, Counts, LinkInv
<1>3. AddressesGivenOut
  BY DEF AddressesGivenOut, LinkInv, HoldsEntry
<1>4. RefsLeadBack
  <2>1. ASSUME NEW e \in DOMAIN entries, NEW p, p = PriceOf[entries[e].key]
        PROVE  LET at == {i \in DOMAIN content[p] : data[content[p][i]] = e}
               IN /\ ref[e] \in DOMAIN data =>
                       \E i \in at : ref[e] = content[p][i] /\ \A j \in at : j <= i
                  /\ removals = 0 => ref[e] \in DOMAIN data
    <3>1. LeadsBack(e, p)
      BY <2>1 DEF LinkInv
    <3> QED
      BY <3>1 DEF LeadsBack, LinkInv
  <2> QED
    BY <2>1 DEF RefsLeadBack
<1>5. NodesHoldEntries
  <2>1. ASSUME NEW p \in Prices, NEW i \in DOMAIN content[p], NEW e, e = data[content[p][i]]
        PROVE  IF e \in DOMAIN entries
                 THEN PriceOf[entries[e].key] = p /\ (~grown => entries[e].value = dict[entries[e].key])
                 ELSE removals > 0
    <3>1. HoldsEntry(content[p][i], p) /\ CurrentRows
      BY DEF LinkInv, EntriesOK
    <3> QED
      BY <2>1, <3>1 DEF HoldsEntry, CurrentRows
  <2> QED
    BY <2>1 DEF NodesHoldEntries
<1> QED
  BY <1>2, <1>3, <1>4, <1>5 DEF StorageInv

\* The inductive invariant.
THEOREM StorageInvariant ==
  ASSUME OrderTableAssumption
  PROVE  Spec => []StorageInv
<1>1. Table!TableInv /\ List!ListInv /\ EntriesOK /\ Counts /\ LinkInv => StorageInv
  BY StorageParts
<1> QED
  BY <1>1, TableInvariant, EntriesInvariant, CountInvariant, ListInvariant, LinkInvariant, PTL

\* However often an order is loaded, grown the table or not, the entry that
\* is found refers to the last node of the order in the list of its price.
THEOREM RefsAreLast ==
  ASSUME OrderTableAssumption
  PROVE  Spec => []RefsLeadBack
<1>1. StorageInv => RefsLeadBack
  BY DEF StorageInv
<1> QED
  BY <1>1, StorageInvariant, PTL

\* A walk of a list finds orders of its price, and until the table grows the
\* rows read last.
THEOREM NodesAreOfPrice ==
  ASSUME OrderTableAssumption
  PROVE  Spec => []NodesHoldEntries
<1>1. StorageInv => NodesHoldEntries
  BY DEF StorageInv
<1> QED
  BY <1>1, StorageInvariant, PTL

-----------------------------------------------------------------------------
(* The price levels.                                                        *)

\* What CHOOSE finds, where there is one to find.
LEMMA ChosenNewest ==
  ASSUME NEW T, T \subseteq Nat, NEW m \in T, \A f \in T : f <= m
  PROVE  (CHOOSE e \in T : \A f \in T : f <= e) = m
<1>1. \A e \in T : (\A f \in T : f <= e) => e = m
  OBVIOUS
<1> QED
  BY <1>1

LEMMA OneMore ==
  ASSUME NEW S, NEW T, NEW len \in Nat, NEW s \in [1..len -> S], NEW t \in [1..(len + 1) -> T],
         \A i \in 1..len : t[i] = s[i]
  PROVE  t = Append(s, t[len + 1])
<1>1. s \in Seq(S) /\ Len(s) = len
  OBVIOUS
<1>2. Append(s, t[len + 1]) = [i \in 1..(len + 1) |-> IF i = len + 1 THEN t[len + 1] ELSE s[i]]
  BY <1>1
<1>3. \A i \in 1..(len + 1) : t[i] = IF i = len + 1 THEN t[len + 1] ELSE s[i]
  OBVIOUS
<1> QED
  BY <1>2, <1>3

LEMMA ChosenPlace ==
  ASSUME NEW s, NEW n, NEW i \in DOMAIN s, s[i] = n, \A j \in DOMAIN s : s[j] = n => j = i
  PROVE  (CHOOSE j \in DOMAIN s : s[j] = n) = i
  OBVIOUS

\* Until something is removed: a row is in one entry only, and the entry of
\* an order that was made last has the row that was read last.
NewestInv ==
  removals = 0 =>
    /\ ~disturbed
    /\ \A e \in DOMAIN entries : entries[e].value \in 1..loads
    /\ \A e, f \in DOMAIN entries : entries[e].value = entries[f].value => e = f
    /\ \A e \in DOMAIN entries :
         (\A f \in EntriesOf(entries[e].key) : f <= e)
           => entries[e].value = dict[entries[e].key]

\* What ht_put and a lookup find is the newest entry of the order.
LEMMA FoundNewest ==
  ASSUME OrderTableAssumption, Table!TableInv, NewestInv, removals = 0,
         NEW o \in Orders, NEW e, e \in {Table!Known(o), Lookup(o)}, e # Table!NULL
  PROVE  /\ e \in EntriesOf(o)
         /\ \A f \in EntriesOf(o) : f <= e
<1>1. TableP!HashTableAssumption /\ TableP!TableInv /\ ~disturbed
  BY Assumptions, SameTableInvariants DEF NewestInv
<1>2. /\ Table!Known(o) = TableP!Known(o)
      /\ Lookup(o) = TableP!Walk(buckets[TableP!Home(o, capacity)], o)
      /\ e # TableP!NULL
  BY SameTable, SameLookup DEF Lookup, Table!Walk, TableP!Walk
<1>3. e \in DOMAIN entries /\ entries[e].key = o /\ entries[e].value = dict[o]
  BY <1>1, <1>2, TableP!FoundCurrent
<1>4. /\ allocated \in Nat /\ DOMAIN entries \subseteq 1..allocated
  BY <1>1, Assumptions DEF TableP!TableInv, TableP!EntriesInv
<1>5. EntriesOf(o) \in SUBSET (0..allocated) /\ e \in EntriesOf(o)
  BY <1>3, <1>4 DEF EntriesOf
<1>6. PICK m \in EntriesOf(o) : \A f \in EntriesOf(o) : f <= m
  BY <1>4, <1>5, TableP!LastElement
<1>7. m \in DOMAIN entries /\ entries[m].key = o
  BY DEF EntriesOf
<1>8. entries[m].value = dict[o]
  BY <1>6, <1>7 DEF NewestInv
<1>9. e = m
  BY <1>3, <1>7, <1>8 DEF NewestInv
<1> QED
  BY <1>5, <1>6, <1>9

\* The entry of an order that is loaded has the row, is the newest, and all
\* others are as they were.
LEMMA LoadNewest ==
  ASSUME OrderTableAssumption, Table!TableInv, EntriesOK', NewestInv, removals = 0,
         NEW o \in Orders,
         NEW entry, (LoadKnown(o) /\ entry = Table!Known(o)) \/ (LoadNew(o) /\ entry = Table!NewEntry)
  PROVE  /\ entries'[entry].value = Row /\ dict' = [dict EXCEPT ![o] = Row]
         /\ \A e \in DOMAIN entries : e # entry => entries'[e] = entries[e]
         /\ EntriesOf(o)' = EntriesOf(o) \cup {entry}
         /\ \A f \in EntriesOf(o) : f <= entry
         /\ \A q \in Orders \ {o} : EntriesOf(q)' = EntriesOf(q)
         /\ UNCHANGED disturbed /\ loads' = Row
<1>1. EntriesOK
  BY TableEntries
<1>2. /\ DOMAIN entries' = DOMAIN entries \cup {entry}
      /\ entries'[entry].key = o
      /\ \A e \in DOMAIN entries : entries'[e].key = entries[e].key
      /\ entry \in DOMAIN entries \/ entry = allocated + 1
  BY LoadEffect
<1>3. /\ entries'[entry].value = Row /\ dict' = [dict EXCEPT ![o] = Row]
      /\ \A e \in DOMAIN entries : e # entry => entries'[e] = entries[e]
      /\ \A f \in EntriesOf(o) : f <= entry
      /\ UNCHANGED disturbed /\ loads' = Row
      /\ entry \in DOMAIN entries => entries[entry].key = o
  <2>1. CASE LoadKnown(o) /\ entry = Table!Known(o)
    <3>1. /\ Table!Known(o) # Table!NULL
          /\ entries' = [entries EXCEPT ![entry].value = Row]
          /\ dict' = [dict EXCEPT ![o] = Row]
          /\ UNCHANGED disturbed /\ loads' = Row
      BY <2>1 DEF LoadKnown, Table!PutReplaces
    <3>2. entry \in EntriesOf(o) /\ \A f \in EntriesOf(o) : f <= entry
      BY <2>1, <3>1, FoundNewest
    <3>3. entries \in [DOMAIN entries -> [key : Orders, value : Nat \ {0}]]
      BY DEF Table!TableInv, Table!EntriesInv
    <3> QED
      BY <3>1, <3>2, <3>3 DEF EntriesOf
  <2>2. CASE LoadNew(o) /\ entry = Table!NewEntry
    <3>1. /\ entry = allocated + 1 /\ entries' = Table!WithEntry(o, Row)
          /\ dict' = [dict EXCEPT ![o] = Row]
          /\ UNCHANGED disturbed /\ loads' = Row
      BY <2>2 DEF LoadNew, Table!PutInserts, Table!NewEntry
    <3>2. entry = Table!NewEntry
      BY <2>2
    <3>3. allocated \in Nat /\ \A e \in DOMAIN entries : e \in Nat /\ e < entry
      BY <1>1, <3>1 DEF EntriesOK
    <3>4. /\ entries'[entry].value = Row
          /\ \A e \in DOMAIN entries : e # entry => entries'[e] = entries[e]
      BY <3>1, <3>2 DEF Table!WithEntry
    <3> QED
      BY <3>1, <3>3, <3>4 DEF EntriesOf
  <2> QED
    BY <2>1, <2>2
<1>4. EntriesOf(o)' = EntriesOf(o) \cup {entry}
  BY <1>2, <1>3 DEF EntriesOf
<1>5. ASSUME NEW q \in Orders \ {o}
      PROVE  EntriesOf(q)' = EntriesOf(q)
  BY <1>2, <1>3 DEF EntriesOf
<1> QED
  BY <1>3, <1>4, <1>5

LEMMA NewestStep ==
  ASSUME OrderTableAssumption, Table!TableInv, EntriesOK', Counts, NewestInv, [Next]_vars
  PROVE  NewestInv'
<1> SUFFICES ASSUME removals' = 0
             PROVE  NewestInv'
  BY DEF NewestInv
<1>1. EntriesOK /\ loads \in Nat
  BY TableEntries DEF Counts
<1>2. ASSUME NEW o \in Orders, LoadKnown(o) \/ LoadNew(o)
      PROVE  NewestInv'
  <2>1. PICK entry : \/ LoadKnown(o) /\ entry = Table!Known(o)
                     \/ LoadNew(o) /\ entry = Table!NewEntry
    BY <1>2
  <2>2. /\ DOMAIN entries' = DOMAIN entries \cup {entry}
        /\ entries'[entry].key = o
        /\ \A e \in DOMAIN entries : entries'[e].key = entries[e].key
        /\ removals = 0
    BY <2>1, LoadEffect
  <2>3. /\ entries'[entry].value = Row /\ dict' = [dict EXCEPT ![o] = Row]
        /\ \A e \in DOMAIN entries : e # entry => entries'[e] = entries[e]
        /\ EntriesOf(o)' = EntriesOf(o) \cup {entry}
        /\ \A f \in EntriesOf(o) : f <= entry
        /\ \A q \in Orders \ {o} : EntriesOf(q)' = EntriesOf(q)
        /\ UNCHANGED disturbed /\ loads' = Row
    BY <2>1, <2>2, LoadNewest
  <2>4. dict \in [Orders -> Nat] /\ \A e \in DOMAIN entries : entries[e].key \in Orders
    BY <1>1 DEF Table!TableInv, Table!EntriesInv, EntriesOK
  <2>5. \A e \in DOMAIN entries' : entries'[e].value \in 1..loads'
    BY <1>1, <2>2, <2>3 DEF NewestInv, Row
  <2>6. ASSUME NEW e \in DOMAIN entries', NEW f \in DOMAIN entries',
               entries'[e].value = entries'[f].value
        PROVE  e = f
    BY <1>1, <2>2, <2>3, <2>6 DEF NewestInv, Row
  <2>7. ASSUME NEW e \in DOMAIN entries', NEW q, q = entries'[e].key,
               \A f \in EntriesOf(q)' : f <= e
        PROVE  entries'[e].value = dict'[q]
    <3>1. CASE e = entry
      BY <2>2, <2>3, <2>4, <2>7, <3>1
    <3>2. CASE e # entry /\ q = o
      <4>1. e \in EntriesOf(o) /\ entry \in EntriesOf(o)'
        BY <2>2, <2>3, <2>7, <3>2 DEF EntriesOf
      <4>2. e <= entry /\ entry <= e
        BY <2>3, <2>7, <3>2, <4>1
      <4>3. e \in Nat /\ entry \in Nat
        <5>1. EntriesOK'
          OBVIOUS
        <5> QED
          BY <2>2, <5>1 DEF EntriesOK
      <4> QED
        BY <3>2, <4>2, <4>3
    <3>3. CASE e # entry /\ q # o
      <4>1. e \in DOMAIN entries /\ entries'[e] = entries[e]
            /\ q = entries[e].key /\ q \in Orders \ {o}
        BY <2>2, <2>3, <2>4, <2>7, <3>3
      <4>2. \A f \in EntriesOf(q) : f <= e
        BY <2>3, <2>7, <4>1
      <4>3. entries[e].value = dict[q]
        BY <2>2, <4>1, <4>2 DEF NewestInv
      <4> QED
        BY <2>3, <2>4, <4>1, <4>3
    <3> QED
      BY <3>1, <3>2, <3>3
  <2> QED
    BY <2>2, <2>3, <2>5, <2>6, <2>7 DEF NewestInv
<1>3. ASSUME UNCHANGED <<entries, dict, disturbed, removals>>, loads' \in {loads, loads + 1}
      PROVE  NewestInv'
  <2>1. \A q : EntriesOf(q)' = EntriesOf(q)
    BY <1>3 DEF EntriesOf
  <2> QED
    BY <1>1, <1>3, <2>1 DEF NewestInv
<1>4. ASSUME NEW o \in Orders, LoadDrops(o)
      PROVE  NewestInv'
  BY <1>3, <1>4 DEF LoadDrops, Row, Table!PutCannotGrow, Table!PutCannotCreate, Table!vars
<1>5. CASE UNCHANGED vars
  BY <1>3, <1>5 DEF vars, tableVars
<1>6. ASSUME NEW o \in Orders, Forget(o)
      PROVE  FALSE
  BY <1>6 DEF Forget, Counts
<1>7. ASSUME NEW p \in Prices, NEW i \in DOMAIN content[p], Delist(p, i)
      PROVE  FALSE
  BY <1>7 DEF Delist, Counts
<1> QED
  BY <1>2, <1>4, <1>5, <1>6, <1>7 DEF Next, LoadRow

LEMMA NewestInit ==
  ASSUME OrderTableAssumption, Init
  PROVE  NewestInv
<1>1. DOMAIN entries = {} /\ disturbed = FALSE
  BY DEF Init, Table!Init
<1> QED
  BY <1>1 DEF NewestInv

LEMMA NewestInvariant ==
  ASSUME OrderTableAssumption
  PROVE  Spec => []NewestInv
<1>1. Init => NewestInv
  BY NewestInit
<1>2. Table!TableInv /\ EntriesOK' /\ Counts /\ NewestInv /\ [Next]_vars => NewestInv'
  BY NewestStep
<1> QED
  BY <1>1, <1>2, TableInvariant, EntriesInvariant, CountInvariant, PTL DEF Spec

\* What a lookup finds is never an entry an order had before (ht_get).
THEOREM NewestFound ==
  ASSUME OrderTableAssumption
  PROVE  Spec => []LookupFindsNewest
<1>1. ASSUME Table!TableInv, NewestInv, removals = 0, NEW o \in Orders, Lookup(o) # Table!NULL
      PROVE  Lookup(o) = Newest(o)
  <2>1. /\ Lookup(o) \in EntriesOf(o)
        /\ \A f \in EntriesOf(o) : f <= Lookup(o)
    BY <1>1, FoundNewest
  <2>2. EntriesOf(o) \subseteq Nat
    BY <1>1, TableEntries DEF EntriesOK, EntriesOf
  <2> QED
    BY <2>1, <2>2, ChosenNewest DEF Newest
<1>2. Table!TableInv /\ NewestInv => LookupFindsNewest
  BY <1>1 DEF LookupFindsNewest
<1> QED
  BY <1>2, TableInvariant, NewestInvariant, PTL

\* No node is at two places of a list.
NodesOnce ==
  \A p \in Prices : \A i, j \in DOMAIN content[p] : content[p][i] = content[p][j] => i = j

LEMMA ListOnce ==
  ASSUME List!ListInv
  PROVE  NodesOnce
<1>1. ASSUME NEW p \in Prices, NEW i \in DOMAIN content[p], NEW j \in DOMAIN content[p],
             content[p][i] = content[p][j]
      PROVE  i = j
  <2>1. /\ i \in 1..Len(content[p]) /\ j \in 1..Len(content[p])
        /\ Len(content[p]) \in Nat
    BY ListNodes DEF ListsOK
  <2>2. /\ i \in 0..Len(content[p]) /\ j \in 0..Len(content[p])
        /\ List!Node(p, i) = List!Node(p, j)
    BY <1>1, <2>1 DEF List!Node
  <2> QED
    BY <2>2 DEF List!ListInv, List!NodesApart
<1> QED
  BY <1>1 DEF NodesOnce

\* What an order that is loaded does to the nodes of the list of its price p,
\* which has len, as far as its level and its place depend on it.
Appended(o, entry, p, len) ==
  /\ p \in Prices /\ len \in Nat
  /\ DOMAIN content'[p] = 1..(len + 1)
  /\ \A q \in Prices : q # p => content'[q] = content[q]
  /\ data'[content'[p][len + 1]] = entry /\ ref'[entry] = content'[p][len + 1]
  /\ \A e \in DOMAIN entries : e # entry => ref'[e] = ref[e]
  /\ entries'[entry].key = o

\* The nodes that were there stay what they are.
NodesStay ==
  \A q \in Prices : \A i \in DOMAIN content[q] :
    /\ i \in DOMAIN content'[q] /\ content'[q][i] = content[q][i]
    /\ PriceOf[entries[data[content[q][i]]].key] = q
    /\ entries'[data'[content'[q][i]]].key = entries[data[content[q][i]]].key

LEMMA LoadNodes ==
  ASSUME OrderTableAssumption, Table!TableInv, List!ListInv, LinkInv, NewestInv, removals = 0,
         EntriesOK', ListsOK',
         NEW o \in Orders,
         NEW entry, (LoadKnown(o) /\ entry = Table!Known(o)) \/ (LoadNew(o) /\ entry = Table!NewEntry),
         NEW p, p = PriceOf[o], NEW len, len = Len(content[p])
  PROVE  Appended(o, entry, p, len) /\ NodesStay
<1>1. /\ p \in Prices /\ len \in Nat /\ EntriesOK /\ ListsOK
  BY Assumptions, TableEntries, ListNodes DEF ListsOK
<1>2. /\ entry \in 1..MaxLoads
      /\ DOMAIN entries' = DOMAIN entries \cup {entry}
      /\ entries'[entry].key = o
      /\ \A e \in DOMAIN entries : entries'[e].key = entries[e].key
      /\ InsertEntry(o, entry)
  BY LoadEffect
<1>3. PICK new : new = List!NewNode
  OBVIOUS
<1>4. List!Insert(p, entry)
  BY <1>2 DEF InsertEntry
<1>5. /\ new \notin DOMAIN data
      /\ \A n \in DOMAIN data : data'[n] = data[n]
      /\ data'[new] = entry
      /\ \A q \in Prices : q # p => content'[q] = content[q]
      /\ Len(content'[p]) = len + 1
      /\ \A i \in 1..len : content'[p][i] = content[p][i]
      /\ content'[p][len + 1] = new
  <2>1. ASSUME NEW n \in DOMAIN data
        PROVE  data'[n] = data[n]
    BY <1>1, <1>2, <1>3, <1>4, InsertEffect
  <2>2. new \notin DOMAIN data
    BY <1>1, <1>2, <1>3, <1>4, InsertEffect
  <2>3. data'[new] = entry
    BY <1>3, <1>4, <2>2 DEF List!Insert, List!With
  <2>4. \A q \in Prices : q # p => content'[q] = content[q]
    BY <1>1, <1>2, <1>3, <1>4, InsertEffect
  <2>5. /\ Len(content'[p]) = len + 1
        /\ content'[p][len + 1] = new
    BY <1>1, <1>2, <1>3, <1>4, InsertEffect
  <2>6. ASSUME NEW i \in 1..len
        PROVE  content'[p][i] = content[p][i]
    BY <1>1, <1>2, <1>3, <1>4, InsertEffect
  <2> QED
    BY <2>1, <2>2, <2>3, <2>4, <2>5, <2>6
<1>6. DOMAIN content[p] = 1..len /\ DOMAIN content'[p] = 1..(len + 1)
  BY <1>1, <1>5 DEF ListsOK
<1>7. /\ ref'[entry] = new
      /\ \A e \in DOMAIN entries : e # entry => ref'[e] = ref[e]
  BY <1>2, <1>3 DEF InsertEntry, LinkInv
<1>8. ASSUME NEW q \in Prices, NEW i \in DOMAIN content[q]
      PROVE  /\ i \in DOMAIN content'[q] /\ content'[q][i] = content[q][i]
             /\ PriceOf[entries[data[content[q][i]]].key] = q
             /\ entries'[data'[content'[q][i]]].key = entries[data[content[q][i]]].key
  <2>1. i \in DOMAIN content'[q] /\ content'[q][i] = content[q][i]
    BY <1>1, <1>5, <1>6
  <2>2. data'[content'[q][i]] = data[content[q][i]]
    BY <1>1, <1>5, <2>1 DEF ListsOK
  <2>3. HoldsEntry(content[q][i], q)
    BY DEF LinkInv
  <2>4. PICK e : e = data[content[q][i]]
    OBVIOUS
  <2>5. e \in DOMAIN entries /\ PriceOf[entries[e].key] = q
    BY <2>3, <2>4 DEF HoldsEntry
  <2> QED
    BY <1>2, <2>1, <2>2, <2>4, <2>5
<1>9. NodesStay
  BY <1>8 DEF NodesStay
<1> QED
  BY <1>1, <1>2, <1>5, <1>6, <1>7, <1>9 DEF Appended

\* The order goes to the end of its level, and the other levels stay.
LEMMA LoadLevels ==
  ASSUME OrderTableAssumption, Table!TableInv, List!ListInv, LinkInv, NewestInv, removals = 0,
         EntriesOK', ListsOK',
         NEW o \in Orders, LoadKnown(o) \/ LoadNew(o),
         NEW p, p = PriceOf[o]
  PROVE  /\ \A q \in Prices : LevelOf(q)' = IF q = p THEN Append(LevelOf(q), o) ELSE LevelOf(q)
         /\ \A q \in Prices : \A i \in DOMAIN LevelOf(q) : q # p => LevelOf(q)[i] # o
<1>1. PICK entry : \/ LoadKnown(o) /\ entry = Table!Known(o)
                   \/ LoadNew(o) /\ entry = Table!NewEntry
  OBVIOUS
<1>2. PICK len : len = Len(content[p])
  OBVIOUS
<1>3. Appended(o, entry, p, len)
  BY <1>1, <1>2, LoadNodes
<1>4. NodesStay
  BY <1>1, <1>2, LoadNodes
<1>5. /\ \A q \in Prices : DOMAIN content[q] = 1..Len(content[q]) /\ Len(content[q]) \in Nat
      /\ DOMAIN content'[p] = 1..Len(content'[p]) /\ Len(content'[p]) \in Nat
  BY <1>3, ListNodes DEF ListsOK, Appended
<1>6. Len(content'[p]) = len + 1
  BY <1>3, <1>5 DEF Appended
<1>7. ASSUME NEW q \in Prices, q # p
      PROVE  LevelOf(q)' = LevelOf(q)
  BY <1>3, <1>4, <1>5, <1>7 DEF LevelOf, Appended, NodesStay
<1>8. LevelOf(p)' = Append(LevelOf(p), o)
  <2>1. PICK s : s = LevelOf(p)
    OBVIOUS
  <2>2. PICK t : t = LevelOf(p)'
    OBVIOUS
  <2>3. /\ entries'[data'[content'[p][len + 1]]].key = o
        /\ p \in Prices /\ len \in Nat
    BY <1>3 DEF Appended
  <2>4. \A i \in 1..len :
          entries'[data'[content'[p][i]]].key = entries[data[content[p][i]]].key
    BY <1>2, <1>4, <1>5, <2>3 DEF NodesStay
  <2>5. /\ t = [i \in 1..(len + 1) |-> entries'[data'[content'[p][i]]].key]
        /\ s = [i \in 1..len |-> entries[data[content[p][i]]].key]
    BY <1>2, <1>6, <2>1, <2>2 DEF LevelOf
  <2>6. \E S, T : s \in [1..len -> S] /\ t \in [1..(len + 1) -> T]
    <3>1. /\ s \in [1..len -> {entries[data[content[p][i]]].key : i \in 1..len}]
          /\ t \in [1..(len + 1) -> {entries'[data'[content'[p][i]]].key : i \in 1..(len + 1)}]
      BY <2>5
    <3> QED
      BY <3>1
  <2>7. t[len + 1] = o /\ \A i \in 1..len : t[i] = s[i]
    BY <2>3, <2>4, <2>5
  <2>8. t = Append(s, t[len + 1])
    <3>1. PICK S, T : s \in [1..len -> S] /\ t \in [1..(len + 1) -> T]
      BY <2>6
    <3> QED
      BY ONLY <2>3, <2>7, <3>1, OneMore
  <2> QED
    BY <2>1, <2>2, <2>7, <2>8
<1>9. ASSUME NEW q \in Prices, NEW i \in DOMAIN LevelOf(q), q # p
      PROVE  LevelOf(q)[i] # o
  <2>1. i \in DOMAIN content[q] /\ LevelOf(q)[i] = entries[data[content[q][i]]].key
    BY <1>5 DEF LevelOf
  <2> QED
    BY <1>4, <1>9, <2>1 DEF NodesStay
<1> QED
  BY <1>7, <1>8, <1>9

\* The place of the order moves to that end, and the others stay.
LEMMA LoadPlaces ==
  ASSUME OrderTableAssumption, Table!TableInv, List!ListInv, LinkInv, NewestInv, removals = 0,
         EntriesOK', ListsOK', NodesOnce',
         NEW o \in Orders, LoadKnown(o) \/ LoadNew(o),
         NEW q \in Orders, EntriesOf(q)' # {}
  PROVE  PlaceOf(q)' = IF q = o THEN Len(content[PriceOf[o]]) + 1 ELSE PlaceOf(q)
<1>1. PICK entry : \/ LoadKnown(o) /\ entry = Table!Known(o)
                   \/ LoadNew(o) /\ entry = Table!NewEntry
  OBVIOUS
<1>2. PICK p : p = PriceOf[o]
  OBVIOUS
<1>3. PICK len : len = Len(content[p])
  OBVIOUS
<1>4. Appended(o, entry, p, len)
  BY <1>1, <1>2, <1>3, LoadNodes
<1>5. NodesStay
  BY <1>1, <1>2, <1>3, LoadNodes
<1>6. /\ EntriesOf(o)' = EntriesOf(o) \cup {entry}
      /\ \A f \in EntriesOf(o) : f <= entry
      /\ \A r \in Orders \ {o} : EntriesOf(r)' = EntriesOf(r)
  BY <1>1, LoadNewest
<1>7. EntriesOf(q) \subseteq Nat /\ EntriesOf(q)' \subseteq Nat
  <2>1. EntriesOK /\ EntriesOK'
    BY TableEntries
  <2> QED
    BY <2>1 DEF EntriesOK, EntriesOf
<1>8. CASE q = o
  <2>1. \A f \in EntriesOf(o)' : f <= entry
    BY <1>6, <1>7, <1>8
  <2>2. Newest(o)' = entry
    BY <1>6, <1>7, <1>8, <2>1, ChosenNewest DEF Newest
  <2>3. len + 1 \in DOMAIN content'[p] /\ content'[p][len + 1] = ref'[entry]
    BY <1>4 DEF Appended
  <2>4. \A i \in DOMAIN content'[p] : content'[p][i] = ref'[entry] => i = len + 1
    BY <1>4, <2>3 DEF NodesOnce, Appended
  <2>5. PlaceOf(o)' = len + 1
    BY <1>2, <2>2, <2>3, <2>4, ChosenPlace DEF PlaceOf
  <2> QED
    BY <1>2, <1>3, <1>8, <2>5
<1>9. CASE q # o
  <2>1. PICK r : r = PriceOf[q]
    OBVIOUS
  <2>2. EntriesOf(q)' = EntriesOf(q) /\ r \in Prices
    BY <1>6, <1>9, <2>1, Assumptions
  <2>3. PICK m \in EntriesOf(q) : \A f \in EntriesOf(q) : f <= m
    <3>1. allocated \in Nat /\ EntriesOf(q) \in SUBSET (0..allocated)
      BY TableEntries, Assumptions DEF EntriesOK, EntriesOf
    <3> QED
      BY <2>2, <3>1, TableP!LastElement
  <2>4. Newest(q) = m /\ Newest(q)' = m
    BY <1>7, <2>2, <2>3, ChosenNewest DEF Newest
  <2>5. m \in DOMAIN entries /\ entries[m].key = q /\ m # entry
    <3>1. m \in EntriesOf(q)'
      BY <2>2
    <3> QED
      BY <1>4, <1>9, <3>1 DEF EntriesOf, Appended
  <2>6. PICK i \in DOMAIN content[r] : ref[m] = content[r][i]
    <3>1. LeadsBack(m, r) /\ ref[m] \in DOMAIN data
      BY <2>1, <2>5 DEF LinkInv
    <3> QED
      BY <3>1 DEF LeadsBack
  <2>7. /\ i \in DOMAIN content'[r] /\ content'[r][i] = content[r][i] /\ ref'[m] = ref[m]
    BY <1>4, <1>5, <2>2, <2>5 DEF Appended, NodesStay
  <2>8. \A j \in DOMAIN content[r] : content[r][j] = ref[m] => j = i
    BY <2>2, <2>6, ListOnce DEF NodesOnce
  <2>9. \A j \in DOMAIN content'[r] : content'[r][j] = ref'[m] => j = i
    BY <2>2, <2>6, <2>7 DEF NodesOnce
  <2>10. PlaceOf(q) = i
    BY <2>1, <2>4, <2>6, <2>8, ChosenPlace DEF PlaceOf
  <2>11. PlaceOf(q)' = i
    BY <2>1, <2>4, <2>6, <2>7, <2>9, ChosenPlace DEF PlaceOf
  <2> QED
    BY <1>9, <2>10, <2>11
<1> QED
  BY <1>8, <1>9

\* What PriceLevels sees of the lists and of the table.
ShownLevels == [p \in Prices |-> LevelOf(p)]
Listed      == {entries[e].key : e \in DOMAIN entries}
ShownRefs   == [q \in Listed |-> PlaceOf(q)]

\* Putting a row in the table and in its list is loading its order.
LEMMA ShownLoad ==
  ASSUME OrderTableAssumption, Table!TableInv, List!ListInv, LinkInv, NewestInv, removals = 0,
         EntriesOK', ListsOK', NodesOnce',
         NEW o \in Orders, LoadKnown(o) \/ LoadNew(o),
         NEW p, p = PriceOf[o]
  PROVE  Book!Load(o, p) /\ p \in Prices
<1>1. p \in Prices
  BY Assumptions
<1>2. /\ \A q \in Prices : LevelOf(q)' = IF q = p THEN Append(LevelOf(q), o) ELSE LevelOf(q)
      /\ \A q \in Prices : \A i \in DOMAIN LevelOf(q) : q # p => LevelOf(q)[i] # o
  BY LoadLevels
<1>3. /\ \A q \in Prices : ShownLevels[q] = LevelOf(q)
      /\ ShownLevels' = [q \in Prices |-> LevelOf(q)']
  BY DEF ShownLevels
<1>4. ~Book!AtOtherLevel(o, p)
  <2>1. ~ \E q \in Prices \ {p} : \E i \in DOMAIN ShownLevels[q] : ShownLevels[q][i] = o
    BY <1>2, <1>3
  <2> QED
    BY <2>1 DEF Book!AtOtherLevel, ShownLevels
<1>5. ShownLevels' = [ShownLevels EXCEPT ![p] = Append(ShownLevels[p], o)]
  <2>1. [ShownLevels EXCEPT ![p] = Append(ShownLevels[p], o)] =
          [q \in Prices |-> IF q = p THEN Append(LevelOf(q), o) ELSE LevelOf(q)]
    BY <1>1, <1>3 DEF ShownLevels
  <2> QED
    BY <1>2, <1>3, <2>1
<1>6. /\ Listed' = Listed \cup {o} /\ Listed' \subseteq Orders
      /\ \A q \in Listed' : EntriesOf(q)' # {}
  <2>1. PICK entry : \/ LoadKnown(o) /\ entry = Table!Known(o)
                     \/ LoadNew(o) /\ entry = Table!NewEntry
    OBVIOUS
  <2>2. /\ DOMAIN entries' = DOMAIN entries \cup {entry}
        /\ entries'[entry].key = o
        /\ \A e \in DOMAIN entries : entries'[e].key = entries[e].key
        /\ entry \in DOMAIN entries \/ entry = allocated + 1
    BY <2>1, LoadEffect
  <2>3. Listed' = Listed \cup {o}
    BY <2>2 DEF Listed
  <2>4. Listed' \subseteq Orders
    BY <2>3, TableEntries DEF EntriesOK, Listed
  <2> QED
    BY <2>3, <2>4 DEF Listed, EntriesOf
<1>7. \A q \in Listed' : PlaceOf(q)' = IF q = o THEN Len(content[p]) + 1 ELSE PlaceOf(q)
  BY <1>6, LoadPlaces
<1>8. Len(ShownLevels[p]) = Len(content[p])
  <2>1. PICK len : len = Len(content[p])
    OBVIOUS
  <2>2. len \in Nat
    BY <1>1, <2>1, ListNodes DEF ListsOK
  <2>3. LevelOf(p) = [i \in 1..len |-> entries[data[content[p][i]]].key]
    BY <2>1 DEF LevelOf
  <2>4. Len([i \in 1..len |-> entries[data[content[p][i]]].key]) = len
    BY <2>2
  <2> QED
    BY <1>1, <1>3, <2>1, <2>3, <2>4
<1>9. ShownRefs' = [q \in DOMAIN ShownRefs \cup {o} |->
                      IF q = o THEN Len(ShownLevels[p]) + 1 ELSE ShownRefs[q]]
  <2>1. ShownRefs' = [q \in Listed' |-> PlaceOf(q)']
    BY DEF ShownRefs
  <2>2. DOMAIN ShownRefs = Listed /\ \A q \in Listed : ShownRefs[q] = PlaceOf(q)
    BY DEF ShownRefs
  <2>3. \A q \in Listed' :
          PlaceOf(q)' = IF q = o THEN Len(ShownLevels[p]) + 1 ELSE ShownRefs[q]
    BY <1>6, <1>7, <1>8, <2>2
  <2> QED
    BY <1>6, <2>1, <2>2, <2>3
<1>10. Book!Load(o, p)
  BY ONLY <1>4, <1>5, <1>9 DEF Book!Load, ShownLevels, ShownRefs, Listed
<1> QED
  BY <1>1, <1>10

LEMMA ShownStutter ==
  ASSUME UNCHANGED <<entries, ref, data, content>>
  PROVE  UNCHANGED Book!vars
<1>1. \A q : PlaceOf(q)' = PlaceOf(q)
  BY DEF PlaceOf, Newest, EntriesOf
<1>2. \A p : LevelOf(p)' = LevelOf(p)
  BY DEF LevelOf
<1>3. ShownLevels' = ShownLevels
  BY <1>2 DEF ShownLevels
<1>4. ShownRefs' = ShownRefs
  BY <1>1 DEF ShownRefs, Listed
<1> QED
  BY <1>3, <1>4 DEF Book!vars, ShownLevels, ShownRefs, Listed

\* A row that is dropped changes neither, though the table may have grown.
LEMMA ShownStep ==
  ASSUME OrderTableAssumption, Table!TableInv, List!ListInv, LinkInv, NewestInv, Counts,
         EntriesOK', ListsOK', NodesOnce', [Next]_vars, removals' = 0
  PROVE  Book!Next \/ UNCHANGED Book!vars
<1>1. ASSUME NEW o \in Orders, LoadKnown(o) \/ LoadNew(o)
      PROVE  Book!Next
  <2>1. removals = 0
    BY <1>1 DEF LoadKnown, LoadNew
  <2>2. PICK p : p = PriceOf[o]
    OBVIOUS
  <2>3. Book!Load(o, p) /\ p \in Prices
    BY <1>1, <2>1, <2>2, ShownLoad
  <2> QED
    BY <2>3 DEF Book!Next
<1>2. ASSUME NEW o \in Orders, LoadDrops(o)
      PROVE  UNCHANGED Book!vars
  BY <1>2, ShownStutter DEF LoadDrops, Table!PutCannotGrow, Table!PutCannotCreate, Table!vars, listVars
<1>3. CASE UNCHANGED vars
  BY <1>3, ShownStutter DEF vars, tableVars, listVars
<1>4. ASSUME NEW o \in Orders, Forget(o)
      PROVE  FALSE
  BY <1>4 DEF Forget, Counts
<1>5. ASSUME NEW p \in Prices, NEW i \in DOMAIN content[p], Delist(p, i)
      PROVE  FALSE
  BY <1>5 DEF Delist, Counts
<1> QED
  BY <1>1, <1>2, <1>3, <1>4, <1>5 DEF Next, LoadRow

LEMMA ShownInit ==
  ASSUME OrderTableAssumption, Init
  PROVE  Book!Init
<1>1. entries = <<>> /\ \A p \in Prices : content[p] = <<>>
  BY DEF Init, Table!Init, List!Init
<1>2. \A p \in Prices : LevelOf(p) = <<>>
  BY <1>1 DEF LevelOf
<1>3. Listed = {}
  BY <1>1 DEF Listed
<1>4. ShownRefs = <<>>
  BY <1>3 DEF ShownRefs
<1> QED
  BY <1>2, <1>4 DEF Book!Init, ShownRefs, Listed

\* Whatever the table does -- grow, lose sight of an order, make a second entry
\* for it, run out of memory -- the levels and the places of the orders are
\* those of PriceLevels, as long as nothing is removed (load_orders_helper).
THEOREM ImplementsBook ==
  ASSUME OrderTableAssumption
  PROVE  Spec => BookSteps
<1>1. Init => Book!Init
  BY ShownInit
<1>2. Table!TableInv /\ List!ListInv /\ LinkInv /\ NewestInv /\ Counts
      /\ EntriesOK' /\ ListsOK' /\ NodesOnce' /\ [Next]_vars
        => [removals' = 0 => Book!Next \/ UNCHANGED Book!vars]_vars
  <2>1. ASSUME Table!TableInv, List!ListInv, LinkInv, NewestInv, Counts,
               EntriesOK', ListsOK', NodesOnce', [Next]_vars, removals' = 0
        PROVE  Book!Next \/ UNCHANGED Book!vars
    BY <2>1, ShownStep
  <2> QED
    BY <2>1
<1>3. List!ListInv => ListsOK /\ NodesOnce
  BY ListNodes, ListOnce
<1> QED
  BY <1>1, <1>2, <1>3, TableInvariant, EntriesInvariant, CountInvariant, ListInvariant,
     LinkInvariant, NewestInvariant, PTL
     DEF Spec, BookSteps

\* So where nothing is ever removed, as in the service itself, loading orders
\* is what PriceLevels says it is.
THEOREM ServiceImplementsBook ==
  ASSUME OrderTableAssumption
  PROVE  Spec /\ [](removals = 0) => Book!Spec
<1>1. (removals = 0)' /\ [removals' = 0 => Book!Next \/ UNCHANGED Book!vars]_vars
        => [Book!Next]_(Book!vars)
  <2>1. UNCHANGED vars => UNCHANGED Book!vars
    BY ShownStutter DEF vars, tableVars, listVars
  <2> QED
    BY <2>1
<1> QED
  BY <1>1, ImplementsBook, PTL DEF BookSteps, Book!Spec

=============================================================================
