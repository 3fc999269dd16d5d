--------------------------- MODULE HashTableProofs ---------------------------
(***************************************************************************)
(* Proofs about HashTable, for any keys, hash function, capacity and       *)
(* history of calls, with allocations that may fail.                       *)
(***************************************************************************)
EXTENDS HashTable, FiniteSetTheorems, TLAPS

-----------------------------------------------------------------------------
(* Numbers.                                                                 *)

\* What is congruent modulo the doubled capacity was so modulo the old one.
LEMMA SameHalf ==
  ASSUME NEW x \in Nat, NEW y \in Nat, NEW c \in Nat \ {0},
         (x % (2 * c)) = (y % (2 * c))
  PROVE  (x % c) = (y % c)
<1> DEFINE d == 2 * c
<1>1. /\ x = d * (x \div d) + (x % d) /\ y = d * (y \div d) + (y % d)
      /\ x \div d \in Int /\ y \div d \in Int
  OBVIOUS
<1>2. /\ x = c * (x \div c) + (x % c) /\ y = c * (y \div c) + (y % c)
      /\ x % c \in 0..(c - 1) /\ y % c \in 0..(c - 1)
      /\ x \div c \in Int /\ y \div c \in Int
  OBVIOUS
<1> DEFINE m == 2 * (x \div d - y \div d) - (x \div c - y \div c)
<1>3. m \in Int
  BY <1>1, <1>2
<1>4. (x % c) - (y % c) = c * m
  <2>1. ASSUME NEW q \in Int PROVE d * q = c * (2 * q)
    OBVIOUS
  <2>2. ASSUME NEW q1 \in Int, NEW q2 \in Int PROVE c * q1 - c * q2 = c * (q1 - q2)
    OBVIOUS
  <2> DEFINE p == 2 * (x \div d)
             q == 2 * (y \div d)
             r == x \div c
             s == y \div c
  <2>3. p \in Int /\ q \in Int /\ r \in Int /\ s \in Int /\ m = (p - q) - (r - s)
    BY <1>1, <1>2
  <2>4. x - y = c * p - c * q
    BY <1>1, <2>1
  <2>5. x - y = (c * r - c * s) + ((x % c) - (y % c))
    BY <1>2
  <2>6. c * ((p - q) - (r - s)) = c * (p - q) - c * (r - s)
    BY <2>2, <2>3
  <2> QED
    BY <1>2, <2>2, <2>3, <2>4, <2>5, <2>6
<1>5. m > 0 => c * m >= c
  BY <1>3
<1>6. m < 0 => c * m <= -c
  BY <1>3
<1>7. m = 0
  BY <1>2, <1>3, <1>4, <1>5, <1>6
<1> QED
  BY <1>2, <1>4, <1>7

\* Among finitely many numbers one is last.
LEMMA LastElement ==
  ASSUME NEW n \in Nat, NEW T \in SUBSET (0..n), T # {}
  PROVE  \E m \in T : \A x \in T : x <= m
<1> DEFINE Above(m) == {x \in T : x > m}
           Aboves   == {Above(m) : m \in T}
<1>1. IsFiniteSet(T)
  <2>1. IsFiniteSet(0..n)
    BY FS_Interval
  <2> QED
    BY <2>1, FS_Subset
<1>2. Aboves \subseteq FiniteSubsetsOf(T) /\ Aboves # {}
  <2>1. \A m \in T : Above(m) \in SUBSET T
    OBVIOUS
  <2>2. \A m \in T : Above(m) \in FiniteSubsetsOf(T)
    BY <1>1, <2>1, FS_FiniteSubsetsOfFinite
  <2> QED
    BY <2>2
<1>3. IsWellFoundedOn(StrictSubsetOrdering(T), FiniteSubsetsOf(T))
  BY FS_StrictSubsetOrderingWellFounded
<1>4. PICK A \in Aboves : \A B \in Aboves : ~ (<<B, A>> \in StrictSubsetOrdering(T))
  BY <1>2, <1>3, WFMin
<1>5. PICK m \in T : A = Above(m)
  BY <1>4
<1>6. ASSUME NEW x \in T, x > m
      PROVE  FALSE
  <2>1. Above(x) \in Aboves
    OBVIOUS
  <2>2. Above(x) \subseteq Above(m) /\ x \in Above(m) /\ x \notin Above(x)
    <3>1. \A y \in T : y > x => y > m
      BY <1>6
    <3>2. ~ (x > x)
      OBVIOUS
    <3>3. x \in Above(m) /\ x \notin Above(x)
      BY <1>6, <3>2
    <3>4. Above(x) \subseteq Above(m)
      BY <3>1
    <3> QED
      BY <3>3, <3>4
  <2>3. <<Above(x), Above(m)>> \in StrictSubsetOrdering(T)
    BY <2>2 DEF StrictSubsetOrdering
  <2> QED
    BY <1>4, <1>5, <2>1, <2>3
<1> QED
  BY <1>6

-----------------------------------------------------------------------------
(* What the inductive invariant gives.                                      *)

\* The entries are finitely many, and size is a number.
LEMMA SizeNat ==
  ASSUME EntriesInv
  PROVE  IsFiniteSet(DOMAIN entries) /\ size \in Nat
<1>1. IsFiniteSet(1..allocated)
  BY FS_Interval DEF EntriesInv
<1> QED
  BY <1>1, FS_Subset, FS_CardinalityType DEF EntriesInv

\* Home is a bucket of the table.
LEMMA HomeInTable ==
  ASSUME HashTableAssumption, NEW k \in Keys, NEW cap \in Nat \ {0}
  PROVE  Home(k, cap) \in 0..(cap - 1)
BY DEF HashTableAssumption, Home

\* What the walk along a chain finds.
LEMMA WalkFinds ==
  ASSUME EntriesInv, NEW cap, NEW bs, Chains(cap, bs), NEW b \in 0..(cap - 1), NEW k
  PROVE  /\ Position(bs[b], k) \in 0..Len(bs[b])
         /\ Position(bs[b], k) = 0 => \A i \in 1..Len(bs[b]) : KeyAt(bs, b, i) # k
         /\ Position(bs[b], k) # 0 => KeyAt(bs, b, Position(bs[b], k)) = k
         /\ Walk(bs[b], k) = NULL <=> Position(bs[b], k) = 0
<1> DEFINE at == {i \in 1..Len(bs[b]) : entries[bs[b][i]].key = k}
<1>1. bs[b] \in Seq(DOMAIN entries) /\ Len(bs[b]) \in Nat
  BY DEF Chains
<1>2. CASE at = {}
  <2>1. Position(bs[b], k) = 0
    BY <1>2 DEF Position
  <2> QED
    BY <1>1, <1>2, <2>1 DEF Walk, KeyAt, NULL
<1>3. CASE at # {}
  <2>1. PICK i \in at : TRUE
    BY <1>3
  <2>2. \A j \in at : j = i
    BY <2>1 DEF Chains, Once, KeyAt
  <2>3. Position(bs[b], k) = i
    <3>1. \A j \in at : i <= j
      BY <1>1, <2>1, <2>2
    <3> QED
      BY <1>3, <2>1, <2>2, <3>1 DEF Position
  <2>4. bs[b][i] \in DOMAIN entries
    BY <1>1, <2>1
  <2>5. bs[b][i] # 0
    BY <2>4 DEF EntriesInv
  <2> QED
    BY <1>1, <2>1, <2>3, <2>5 DEF Walk, KeyAt, NULL
<1> QED
  BY <1>2, <1>3

-----------------------------------------------------------------------------
(* Growing.                                                                 *)

\* Where resize_hashtable moves the chain of bucket old.
Target(old) == Home(KeyAt(buckets, old, 1), NewCapacity)

\* A bucket of the new table is empty or has the chain of one old bucket.
LEMMA MovedChains ==
  ASSUME HashTableAssumption, EntriesInv, Chains(capacity, buckets)
  PROVE  /\ NewCapacity \in Nat \ {0}
         /\ \A b \in 0..(NewCapacity - 1) :
              MovedTo(b) = {old \in 0..(capacity - 1) : buckets[old] # <<>> /\ Target(old) = b}
         /\ \A b \in 0..(NewCapacity - 1) :
              \/ MovedTo(b) = {} /\ Resized[b] = <<>>
              \/ \E old \in MovedTo(b) : Resized[b] = buckets[old]
<1>1. NewCapacity \in Nat \ {0}
  BY DEF Chains, NewCapacity
<1>2. ASSUME NEW b \in 0..(NewCapacity - 1)
      PROVE  MovedTo(b) = {old \in 0..(capacity - 1) : buckets[old] # <<>> /\ Target(old) = b}
  BY DEF MovedTo, Target, KeyAt
<1>3. ASSUME NEW b \in 0..(NewCapacity - 1), MovedTo(b) # {}
      PROVE  \E old \in MovedTo(b) : Resized[b] = buckets[old]
  <2>1. capacity - 1 \in Nat /\ MovedTo(b) \in SUBSET (0..(capacity - 1))
    BY DEF MovedTo, Chains
  <2>2. \E old \in MovedTo(b) : \A o \in MovedTo(b) : o <= old
    BY <1>3, <2>1, LastElement
  <2>3. (CHOOSE old \in MovedTo(b) : \A o \in MovedTo(b) : o <= old) \in MovedTo(b)
    BY <2>2
  <2> QED
    BY <1>3, <2>3 DEF Resized
<1> QED
  BY <1>1, <1>2, <1>3 DEF Resized

LEMMA ResizedChains ==
  ASSUME HashTableAssumption, EntriesInv, Chains(capacity, buckets)
  PROVE  Chains(NewCapacity, Resized)
<1>1. \A b \in 0..(NewCapacity - 1) :
        \/ Resized[b] = <<>>
        \/ \E old \in 0..(capacity - 1) : Target(old) = b /\ Resized[b] = buckets[old]
  BY MovedChains
<1>2. DOMAIN Resized = 0..(NewCapacity - 1) /\ DOMAIN buckets = 0..(capacity - 1)
  BY DEF Resized, Chains
<1>3. Resized \in [0..(NewCapacity - 1) -> Seq(DOMAIN entries)]
  <2>1. \A b \in 0..(NewCapacity - 1) : Resized[b] \in Seq(DOMAIN entries)
    BY <1>1 DEF Chains
  <2> QED
    BY <2>1 DEF Resized
<1>4. \A b \in 0..(NewCapacity - 1) : Len(Resized[b]) <= allocated
  BY <1>1 DEF Chains, EntriesInv
<1>5. ASSUME NEW b \in 0..(NewCapacity - 1), NEW c \in 0..(NewCapacity - 1),
             NEW i \in 1..Len(Resized[b]), NEW j \in 1..Len(Resized[c])
      PROVE  /\ Resized[b][i] = Resized[c][j] => b = c /\ i = j
             /\ b = c /\ KeyAt(Resized, b, i) = KeyAt(Resized, b, j) => i = j
  <2>1. PICK x \in 0..(capacity - 1) : Target(x) = b /\ Resized[b] = buckets[x]
    BY <1>1
  <2>2. PICK y \in 0..(capacity - 1) : Target(y) = c /\ Resized[c] = buckets[y]
    BY <1>1
  <2>3. Resized[b][i] = Resized[c][j] => x = y /\ i = j
    <3>1. \A u, w \in DOMAIN buckets : \A m \in 1..Len(buckets[u]), n \in 1..Len(buckets[w]) :
            buckets[u][m] = buckets[w][n] => u = w /\ m = n
      BY DEF Chains, Once
    <3>2. i \in 1..Len(buckets[x]) /\ j \in 1..Len(buckets[y])
      BY <2>1, <2>2
    <3>3. x \in DOMAIN buckets /\ y \in DOMAIN buckets
      BY <1>2
    <3>4. buckets[x][i] = buckets[y][j] => x = y /\ i = j
      BY <3>1, <3>2, <3>3
    <3> QED
      BY <2>1, <2>2, <3>4
  <2>4. b = c /\ KeyAt(Resized, b, i) = KeyAt(Resized, b, j) => i = j
    BY <1>2, <2>1 DEF Chains, Once, KeyAt
  <2> QED
    BY <2>1, <2>2, <2>3, <2>4
<1>6. Once(Resized)
  BY <1>2, <1>5 DEF Once
<1> QED
  BY MovedChains, <1>3, <1>4, <1>6 DEF Chains

\* While no entry was removed from a table that has grown, no two chains meet:
\* their first entries are at home, and two that belong in one bucket of the
\* new table belonged in one of the old.
LEMMA NoChainsMeet ==
  ASSUME HashTableAssumption, EntriesInv, Chains(capacity, buckets),
         Sound(capacity, buckets),
         NEW old \in 0..(capacity - 1), buckets[old] # <<>>
  PROVE  Target(old) \in 0..(NewCapacity - 1) /\ Resized[Target(old)] = buckets[old]
<1>1. \A o \in 0..(capacity - 1) :
        buckets[o] # <<>> => KeyAt(buckets, o, 1) \in Keys /\ Home(KeyAt(buckets, o, 1), capacity) = o
  <2> SUFFICES ASSUME NEW o \in 0..(capacity - 1), buckets[o] # <<>>
               PROVE  KeyAt(buckets, o, 1) \in Keys /\ Home(KeyAt(buckets, o, 1), capacity) = o
    OBVIOUS
  <2>1. buckets[o] \in Seq(DOMAIN entries)
    BY DEF Chains
  <2>2. buckets[o][1] \in DOMAIN entries
    BY <2>1
  <2> QED
    BY <2>2 DEF Sound, EntriesInv, KeyAt
<1>2. Target(old) \in 0..(NewCapacity - 1)
  BY <1>1, MovedChains, HomeInTable DEF Target
<1>3. ASSUME NEW o \in 0..(capacity - 1), buckets[o] # <<>>, Target(o) = Target(old)
      PROVE  o = old
  <2>1. /\ Hash[KeyAt(buckets, o, 1)] \in Nat /\ Hash[KeyAt(buckets, old, 1)] \in Nat
        /\ capacity \in Nat \ {0}
    BY <1>1, <1>3 DEF HashTableAssumption, Chains
  <2>2. (Hash[KeyAt(buckets, o, 1)] % (2 * capacity)) = (Hash[KeyAt(buckets, old, 1)] % (2 * capacity))
    BY <1>3 DEF Target, Home, NewCapacity
  <2>3. (Hash[KeyAt(buckets, o, 1)] % capacity) = (Hash[KeyAt(buckets, old, 1)] % capacity)
    BY <2>1, <2>2, SameHalf
  <2> QED
    BY <1>1, <1>3, <2>3 DEF Home
<1>4. old \in MovedTo(Target(old))
  BY <1>2, MovedChains
<1>5. \A o \in MovedTo(Target(old)) : o = old
  BY <1>2, <1>3, MovedChains
<1> QED
  BY <1>2, <1>4, <1>5, MovedChains

LEMMA ResizedSound ==
  ASSUME HashTableAssumption, EntriesInv, Chains(capacity, buckets),
         Sound(capacity, buckets)
  PROVE  Sound(NewCapacity, Resized)
<1>1. \A b \in 0..(NewCapacity - 1) :
        \/ Resized[b] = <<>>
        \/ \E old \in 0..(capacity - 1) : /\ buckets[old] # <<>>
                                          /\ Target(old) = b
                                          /\ Resized[b] = buckets[old]
  BY MovedChains
<1>2. ASSUME NEW e \in DOMAIN entries
      PROVE  \E b \in 0..(NewCapacity - 1) : \E i \in 1..Len(Resized[b]) : Resized[b][i] = e
  <2>1. PICK old \in 0..(capacity - 1) : \E i \in 1..Len(buckets[old]) : buckets[old][i] = e
    BY DEF Sound
  <2>2. buckets[old] # <<>>
    BY <2>1
  <2> QED
    BY <2>1, <2>2, NoChainsMeet
<1>3. ASSUME NEW b \in 0..(NewCapacity - 1), Resized[b] # <<>>
      PROVE  Home(KeyAt(Resized, b, 1), NewCapacity) = b
  BY <1>1, <1>3 DEF Target, KeyAt
<1>4. ASSUME NEW b \in 0..(NewCapacity - 1), NEW i \in 1..Len(Resized[b]),
             Home(KeyAt(Resized, b, i), NewCapacity) = b
      PROVE  entries[Resized[b][i]].value = dict[KeyAt(Resized, b, i)]
  <2>1. Resized[b] # <<>>
    BY <1>4
  <2>2. PICK old \in 0..(capacity - 1) : /\ buckets[old] # <<>>
                                         /\ Target(old) = b
                                         /\ Resized[b] = buckets[old]
    BY <1>1, <2>1
  <2> DEFINE k == KeyAt(buckets, old, i)
             h == KeyAt(buckets, old, 1)
  <2>3. k \in Keys /\ h \in Keys /\ capacity \in Nat \ {0}
    BY <2>2 DEF Chains, EntriesInv, KeyAt
  <2>4. Home(k, 2 * capacity) = Home(h, 2 * capacity)
    BY <1>4, <2>2 DEF Target, KeyAt, NewCapacity
  <2>5. Home(k, capacity) = Home(h, capacity)
    BY <2>3, <2>4, SameHalf DEF Home, HashTableAssumption
  <2>6. Home(k, capacity) = old
    BY <2>2, <2>5 DEF Sound
  <2> QED
    BY <2>2, <2>6 DEF Sound, KeyAt
<1> QED
  BY <1>2, <1>3, <1>4 DEF Sound

-----------------------------------------------------------------------------
(* The steps.                                                               *)

\* The table in which ht_put looks for its key is as good as the one it had.
LEMMA GrownKeeps ==
  ASSUME HashTableAssumption, TableInv
  PROVE  /\ Room \in Nat \ {0}
         /\ Chains(Room, Table)
         /\ ~disturbed => Sound(Room, Table)
         /\ ~(grown \/ Crowded) => Exact(Room, Table)
         /\ 4 * (size + 1) <= 3 * Room
<1>1. size \in Nat /\ capacity \in Nat \ {0} /\ 4 * size <= 3 * capacity
  BY SizeNat DEF TableInv, Chains
<1>2. CASE Crowded
  <2>1. Room = NewCapacity /\ Table = Resized
    BY <1>2 DEF Room, Table
  <2>2. Chains(NewCapacity, Resized)
    BY ResizedChains DEF TableInv
  <2>3. ~disturbed => Sound(NewCapacity, Resized)
    BY ResizedSound DEF TableInv
  <2>4. 4 * (size + 1) <= 3 * NewCapacity /\ NewCapacity \in Nat \ {0}
    BY <1>1 DEF NewCapacity
  <2> QED
    BY <1>2, <2>1, <2>2, <2>3, <2>4
<1>3. CASE ~Crowded
  <2>1. Room = capacity /\ Table = buckets
    BY <1>3 DEF Room, Table
  <2>2. 4 * (size + 1) <= 3 * capacity
    BY <1>1, <1>3 DEF Crowded
  <2> QED
    BY <1>1, <2>1, <2>2 DEF TableInv
<1> QED
  BY <1>2, <1>3

\* What ht_put finds in that table.
LEMMA KnownFound ==
  ASSUME HashTableAssumption, TableInv, NEW k \in Keys
  PROVE  LET b == Home(k, Room)
             p == Position(Table[b], k)
         IN /\ b \in 0..(Room - 1)
            /\ Known(k) = NULL => \A i \in 1..Len(Table[b]) : KeyAt(Table, b, i) # k
            /\ Known(k) # NULL => /\ p \in 1..Len(Table[b])
                                  /\ Known(k) = Table[b][p]
                                  /\ KeyAt(Table, b, p) = k
                                  /\ Known(k) \in DOMAIN entries
<1> DEFINE b == Home(k, Room)
           p == Position(Table[b], k)
<1>1. b \in 0..(Room - 1) /\ Chains(Room, Table) /\ EntriesInv
  BY GrownKeeps, HomeInTable DEF TableInv
<1>2. /\ p \in 0..Len(Table[b])
      /\ p = 0 => \A i \in 1..Len(Table[b]) : KeyAt(Table, b, i) # k
      /\ p # 0 => KeyAt(Table, b, p) = k
      /\ Walk(Table[b], k) = NULL <=> p = 0
  BY <1>1, WalkFinds
<1>3. Table[b] \in Seq(DOMAIN entries) /\ Len(Table[b]) \in Nat
  BY <1>1 DEF Chains
<1>4. ASSUME p # 0
      PROVE  /\ p \in 1..Len(Table[b])
             /\ Known(k) = Table[b][p]
             /\ Table[b][p] \in DOMAIN entries
  <2>1. p \in 1..Len(Table[b])
    BY <1>2, <1>3, <1>4
  <2>2. Walk(Table[b], k) = Table[b][p]
    BY <1>4 DEF Walk
  <2> QED
    BY <1>3, <2>1, <2>2 DEF Known
<1> QED
  BY <1>1, <1>2, <1>4 DEF Known

\* What a walk finds in a sound table is an entry with the value put last.
LEMMA WalkCurrent ==
  ASSUME HashTableAssumption, EntriesInv, NEW cap, NEW bs, Chains(cap, bs), Sound(cap, bs),
         NEW k \in Keys, NEW e, e = Walk(bs[Home(k, cap)], k), e # NULL
  PROVE  e \in DOMAIN entries /\ entries[e].key = k /\ entries[e].value = dict[k]
<1> DEFINE b == Home(k, cap)
           p == Position(bs[b], k)
<1>1. b \in 0..(cap - 1)
  BY HomeInTable DEF Chains
<1>2. /\ p \in 0..Len(bs[b])
      /\ p = 0 => \A i \in 1..Len(bs[b]) : KeyAt(bs, b, i) # k
      /\ p # 0 => KeyAt(bs, b, p) = k
      /\ Walk(bs[b], k) = NULL <=> p = 0
  BY <1>1, WalkFinds
<1>3. bs[b] \in Seq(DOMAIN entries)
  BY <1>1 DEF Chains
<1>4. p # 0 /\ e = bs[b][p] /\ KeyAt(bs, b, p) = k
  BY <1>2 DEF Walk
<1>5. p \in 1..Len(bs[b])
  BY <1>2, <1>3, <1>4
<1>6. entries[bs[b][p]].value = dict[KeyAt(bs, b, p)]
  BY <1>1, <1>4, <1>5 DEF Sound
<1> QED
  BY <1>3, <1>4, <1>5, <1>6 DEF KeyAt

\* That is so of what ht_put and ht_get find.
LEMMA FoundCurrent ==
  ASSUME HashTableAssumption, TableInv, ~disturbed, NEW k \in Keys,
         NEW e, e \in {Known(k), Walk(buckets[Home(k, capacity)], k)}, e # NULL
  PROVE  e \in DOMAIN entries /\ entries[e].key = k /\ entries[e].value = dict[k]
<1>1. /\ EntriesInv
      /\ Chains(Room, Table) /\ Sound(Room, Table)
      /\ Chains(capacity, buckets) /\ Sound(capacity, buckets)
  BY GrownKeeps DEF TableInv
<1>2. CASE e = Known(k)
  BY <1>1, <1>2, WalkCurrent DEF Known
<1>3. CASE e = Walk(buckets[Home(k, capacity)], k)
  BY <1>1, <1>3, WalkCurrent
<1> QED
  BY <1>2, <1>3

LEMMA PutReplacesStep ==
  ASSUME HashTableAssumption, TableInv, NEW k \in Keys, NEW v \in Values, PutReplaces(k, v)
  PROVE  TableInv'
<1> DEFINE b == Home(k, Room)
           p == Position(Table[b], k)
           e == Known(k)
<1>1. /\ b \in 0..(Room - 1) /\ p \in 1..Len(Table[b])
      /\ e = Table[b][p] /\ KeyAt(Table, b, p) = k /\ e \in DOMAIN entries
  BY KnownFound DEF PutReplaces
<1>2. /\ Room \in Nat \ {0} /\ Chains(Room, Table) /\ EntriesInv
      /\ ~disturbed => Sound(Room, Table)
      /\ ~(grown \/ Crowded) => Exact(Room, Table)
      /\ size \in Nat /\ 4 * (size + 1) <= 3 * Room
  BY GrownKeeps, SizeNat DEF TableInv
<1>3. /\ capacity' = Room /\ buckets' = Table /\ size' = size /\ allocated' = allocated
      /\ disturbed' = disturbed /\ grown' = (grown \/ Crowded)
      /\ entries' = [entries EXCEPT ![e].value = v] /\ dict' = [dict EXCEPT ![k] = v]
  BY DEF PutReplaces, Grow
<1>4. /\ DOMAIN entries' = DOMAIN entries
      /\ \A x \in DOMAIN entries : entries'[x].key = entries[x].key
      /\ \A x \in DOMAIN entries : x # e => entries'[x] = entries[x]
      /\ entries'[e].value = v /\ v \in Nat \ {0}
      /\ \A x \in DOMAIN entries : entries'[x] \in [key : Keys, value : Nat \ {0}]
  BY <1>1, <1>2, <1>3 DEF EntriesInv, HashTableAssumption
<1>5. /\ dict'[k] = v /\ \A q \in Keys : q # k => dict'[q] = dict[q]
      /\ dict' \in [Keys -> Nat]
  BY <1>2, <1>3, <1>4 DEF EntriesInv
<1>6. EntriesInv'
  <2>1. entries' \in [DOMAIN entries -> [key : Keys, value : Nat \ {0}]]
    BY <1>3, <1>4
  <2>2. grown' \in BOOLEAN /\ disturbed' \in BOOLEAN /\ (disturbed' => grown')
    BY <1>2, <1>3 DEF EntriesInv, Crowded
  <2> QED
    BY <1>2, <1>3, <1>4, <1>5, <2>1, <2>2 DEF EntriesInv
<1>7. ASSUME NEW c \in 0..(Room - 1), NEW i \in 1..Len(Table[c])
      PROVE  /\ Table[c][i] \in DOMAIN entries
             /\ KeyAt(Table, c, i) \in Keys
             /\ entries'[Table[c][i]].key = KeyAt(Table, c, i)
  <2>1. Table[c] \in Seq(DOMAIN entries)
    BY <1>2 DEF Chains
  <2>2. Table[c][i] \in DOMAIN entries
    BY <2>1
  <2> QED
    BY <1>2, <1>4, <2>2 DEF KeyAt, EntriesInv
<1>8. Chains(capacity, buckets)'
  <2>1. DOMAIN Table = 0..(Room - 1)
    BY <1>2 DEF Chains
  <2>2. Once(buckets)'
    <3>1. \A x, y \in DOMAIN Table : \A i \in 1..Len(Table[x]), j \in 1..Len(Table[y]) :
            Table[x][i] = Table[y][j] => x = y /\ i = j
      BY <1>2 DEF Chains, Once
    <3>2. \A x \in DOMAIN Table : \A i, j \in 1..Len(Table[x]) :
            entries'[Table[x][i]].key = entries'[Table[x][j]].key => i = j
      BY <1>2, <1>7, <2>1 DEF Chains, Once
    <3> QED
      BY <1>3, <3>1, <3>2 DEF Once, KeyAt
  <2> QED
    BY <1>2, <1>3, <1>4, <2>2 DEF Chains
<1>9. ASSUME ~disturbed
      PROVE  Sound(capacity, buckets)'
  <2>0. Sound(Room, Table)
    BY <1>2, <1>9
  <2>1. \A x \in DOMAIN entries' :
          \E c \in 0..(Room - 1) : \E i \in 1..Len(Table[c]) : Table[c][i] = x
    BY <1>4, <2>0 DEF Sound
  <2>2. ASSUME NEW c \in 0..(Room - 1), Table[c] # <<>>
        PROVE  Home(entries'[Table[c][1]].key, Room) = c
    <3>1. Table[c] \in Seq(DOMAIN entries)
      BY <1>2 DEF Chains
    <3>2. 1 \in 1..Len(Table[c])
      BY <2>2, <3>1
    <3> QED
      BY <1>7, <2>0, <2>2, <3>2 DEF Sound
  <2>3. ASSUME NEW c \in 0..(Room - 1), NEW i \in 1..Len(Table[c]),
               Home(KeyAt(Table, c, i), Room) = c
        PROVE  entries'[Table[c][i]].value = dict'[KeyAt(Table, c, i)]
    <3>1. CASE Table[c][i] = e
      <4>1. KeyAt(Table, c, i) = k
        BY <1>1, <3>1 DEF KeyAt
      <4> QED
        BY <1>4, <1>5, <3>1, <4>1
    <3>2. CASE Table[c][i] # e
      <4>1. KeyAt(Table, c, i) # k
        <5>1. SUFFICES ASSUME KeyAt(Table, c, i) = k PROVE FALSE
          OBVIOUS
        <5>2. c = b
          BY <2>3, <5>1
        <5>3. i = p
          BY <1>1, <1>2, <5>1, <5>2 DEF Chains, Once
        <5> QED
          BY <1>1, <3>2, <5>2, <5>3
      <4>2. entries[Table[c][i]].value = dict[KeyAt(Table, c, i)]
        BY <2>0, <2>3 DEF Sound
      <4>3. entries'[Table[c][i]] = entries[Table[c][i]]
        BY <1>4, <1>7, <3>2
      <4>4. dict'[KeyAt(Table, c, i)] = dict[KeyAt(Table, c, i)]
        BY <1>5, <1>7, <4>1
      <4> QED
        BY <4>2, <4>3, <4>4
    <3> QED
      BY <3>1, <3>2
  <2> QED
    BY <1>3, <1>7, <2>1, <2>2, <2>3, SMTT(30) DEF Sound, KeyAt, Home
<1>10. ASSUME ~(grown \/ Crowded)
       PROVE  Exact(capacity, buckets)'
  <2>0. Exact(Room, Table)
    BY <1>2, <1>10
  <2>1. \A c \in 0..(Room - 1) : \A i \in 1..Len(Table[c]) :
          Home(entries'[Table[c][i]].key, Room) = c
    BY <1>7, <2>0 DEF Exact
  <2>2. ASSUME NEW q \in Keys, dict'[q] # NULL
        PROVE  \E x \in DOMAIN entries' : entries'[x].key = q
    <3>1. CASE q = k
      BY <1>1, <1>4, <3>1 DEF KeyAt
    <3>2. CASE q # k
      BY <1>4, <1>5, <2>0, <2>2, <3>2 DEF Exact
    <3> QED
      BY <3>1, <3>2
  <2> QED
    BY <1>3, <2>1, <2>2 DEF Exact, KeyAt, Home
<1>11. (4 * size <= 3 * capacity)'
  BY <1>2, <1>3
<1> QED
  BY <1>3, <1>6, <1>8, <1>9, <1>10, <1>11 DEF TableInv

LEMMA PutCannotCreateStep ==
  ASSUME HashTableAssumption, TableInv, NEW k \in Keys, PutCannotCreate(k)
  PROVE  TableInv'
<1>1. /\ Room \in Nat \ {0} /\ Chains(Room, Table) /\ EntriesInv
      /\ ~disturbed => Sound(Room, Table)
      /\ ~(grown \/ Crowded) => Exact(Room, Table)
      /\ size \in Nat /\ 4 * (size + 1) <= 3 * Room
  BY GrownKeeps, SizeNat DEF TableInv
<1>2. /\ capacity' = Room /\ buckets' = Table /\ size' = size /\ allocated' = allocated
      /\ disturbed' = disturbed /\ grown' = (grown \/ Crowded)
      /\ entries' = entries /\ dict' = dict
  BY DEF PutCannotCreate, Grow
<1>3. EntriesInv'
  BY <1>1, <1>2 DEF EntriesInv, Crowded
<1>4. Chains(capacity, buckets)'
  <2>1. Once(Table)
    BY <1>1 DEF Chains
  <2>2. Once(buckets)'
    BY <1>2, <2>1 DEF Once, KeyAt
  <2> QED
    BY <1>1, <1>2, <2>2 DEF Chains
<1>5. ~disturbed => Sound(capacity, buckets)'
  BY <1>1, <1>2 DEF Sound, KeyAt, Home
<1>6. ~(grown \/ Crowded) => Exact(capacity, buckets)'
  BY <1>1, <1>2 DEF Exact, KeyAt, Home
<1>7. (4 * size <= 3 * capacity)'
  BY <1>1, <1>2
<1> QED
  BY <1>2, <1>3, <1>4, <1>5, <1>6, <1>7 DEF TableInv

LEMMA PutInsertsStep ==
  ASSUME HashTableAssumption, TableInv, NEW k \in Keys, NEW v \in Values, PutInserts(k, v)
  PROVE  TableInv'
<1> DEFINE b == Home(k, Room)
           e == NewEntry
           T == [Table EXCEPT ![b] = <<e>> \o @]
<1>1. b \in 0..(Room - 1) /\ \A i \in 1..Len(Table[b]) : KeyAt(Table, b, i) # k
  BY KnownFound DEF PutInserts
<1>2. /\ Room \in Nat \ {0} /\ Chains(Room, Table) /\ EntriesInv
      /\ ~disturbed => Sound(Room, Table)
      /\ ~(grown \/ Crowded) => Exact(Room, Table)
      /\ size \in Nat /\ 4 * (size + 1) <= 3 * Room /\ IsFiniteSet(DOMAIN entries)
  BY GrownKeeps, SizeNat DEF TableInv
<1>3. /\ capacity' = Room /\ buckets' = T /\ size' = size + 1 /\ allocated' = e
      /\ disturbed' = disturbed /\ grown' = (grown \/ Crowded)
      /\ entries' = WithEntry(k, v) /\ dict' = [dict EXCEPT ![k] = v]
  BY DEF PutInserts, Grow
<1>4. /\ e = allocated + 1 /\ allocated \in Nat /\ allocated < MaxEntries /\ MaxEntries \in Nat
      /\ e \notin DOMAIN entries /\ e \in 1..e
  BY <1>2 DEF NewEntry, EntriesInv, HashTableAssumption, PutInserts
<1>5. /\ DOMAIN entries' = DOMAIN entries \cup {e}
      /\ \A x \in DOMAIN entries : entries'[x] = entries[x]
      /\ entries'[e].key = k /\ entries'[e].value = v /\ v \in Nat \ {0}
      /\ entries' \in [DOMAIN entries \cup {e} -> [key : Keys, value : Nat \ {0}]]
  <2>1. v \in Nat \ {0}
    BY DEF HashTableAssumption
  <2> QED
    BY <1>2, <1>3, <1>4, <2>1 DEF WithEntry, EntriesInv
<1>6. /\ dict'[k] = v /\ \A q \in Keys : q # k => dict'[q] = dict[q]
      /\ dict' \in [Keys -> Nat]
  BY <1>2, <1>3, <1>5 DEF EntriesInv
<1>7. EntriesInv'
  <2>1. Cardinality(DOMAIN entries \cup {e}) = size + 1
    BY <1>2, <1>4, FS_AddElement DEF EntriesInv
  <2>2. DOMAIN entries' \subseteq 1..e
    BY <1>2, <1>4, <1>5 DEF EntriesInv
  <2>3. grown' \in BOOLEAN /\ disturbed' \in BOOLEAN /\ (disturbed' => grown')
    BY <1>2, <1>3 DEF EntriesInv, Crowded
  <2>4. e \in 0..MaxEntries
    BY <1>4
  <2> QED
    BY <1>3, <1>5, <1>6, <2>1, <2>2, <2>3, <2>4 DEF EntriesInv
<1>8. \A c \in 0..(Room - 1) : Table[c] \in Seq(DOMAIN entries) /\ Len(Table[c]) \in Nat
  BY <1>2 DEF Chains
<1>9. /\ T \in [0..(Room - 1) -> Seq(DOMAIN entries \cup {e})]
      /\ \A c \in 0..(Room - 1) : c # b => T[c] = Table[c]
      /\ T[b] = <<e>> \o Table[b] /\ Len(T[b]) = Len(Table[b]) + 1
      /\ T[b][1] = e
      /\ \A i \in 1..Len(T[b]) : i # 1 => i - 1 \in 1..Len(Table[b]) /\ T[b][i] = Table[b][i - 1]
      /\ \A i \in 1..Len(Table[b]) : T[b][i + 1] = Table[b][i]
  <2>1. Table \in [0..(Room - 1) -> Seq(DOMAIN entries)]
    BY <1>2 DEF Chains
  <2>2. \A c \in 0..(Room - 1) : T[c] = IF c = b THEN <<e>> \o Table[b] ELSE Table[c]
    BY <1>1, <2>1
  <2>3. /\ <<e>> \o Table[b] \in Seq(DOMAIN entries \cup {e})
        /\ Len(<<e>> \o Table[b]) = Len(Table[b]) + 1
        /\ (<<e>> \o Table[b])[1] = e
        /\ \A i \in 1..Len(Table[b]) : (<<e>> \o Table[b])[i + 1] = Table[b][i]
        /\ \A i \in 1..(Len(Table[b]) + 1) : i # 1 => (<<e>> \o Table[b])[i] = Table[b][i - 1]
    BY <1>1, <1>8
  <2>4. \A c \in 0..(Room - 1) : Table[c] \in Seq(DOMAIN entries \cup {e})
    BY <1>8
  <2>5. T \in [0..(Room - 1) -> Seq(DOMAIN entries \cup {e})]
    BY <2>1, <2>2, <2>3, <2>4
  <2>6. T[b] = <<e>> \o Table[b]
    BY <1>1, <2>2
  <2>7. \A i \in 1..(Len(Table[b]) + 1) : i # 1 => i - 1 \in 1..Len(Table[b])
    BY <1>1, <1>8
  <2> HIDE DEF T
  <2> QED
    BY <2>2, <2>3, <2>5, <2>6, <2>7
<1> HIDE DEF T
<1> DEFINE old(c, i) == IF c = b THEN i - 1 ELSE i
<1>10. ASSUME NEW c \in 0..(Room - 1), NEW i \in 1..Len(T[c]), ~(c = b /\ i = 1)
       PROVE  /\ old(c, i) \in 1..Len(Table[c])
              /\ T[c][i] = Table[c][old(c, i)]
              /\ T[c][i] \in DOMAIN entries
              /\ entries'[T[c][i]] = entries[Table[c][old(c, i)]]
              /\ KeyAt(Table, c, old(c, i)) \in Keys
              /\ c = b => KeyAt(Table, c, old(c, i)) # k
  <2>1. old(c, i) \in 1..Len(Table[c]) /\ T[c][i] = Table[c][old(c, i)]
    BY <1>9, <1>10
  <2>2. Table[c][old(c, i)] \in DOMAIN entries
    BY <1>8, <2>1
  <2>3. KeyAt(Table, c, old(c, i)) \in Keys
    BY <1>2, <2>2 DEF EntriesInv, KeyAt
  <2>4. c = b => KeyAt(Table, c, old(c, i)) # k
    BY <1>1, <2>1
  <2> QED
    BY <1>5, <2>1, <2>2, <2>3, <2>4
<1>11. Once(buckets)'
  <2>1. DOMAIN T = 0..(Room - 1) /\ DOMAIN Table = 0..(Room - 1)
    BY <1>2, <1>9 DEF Chains
  <2>2. ASSUME NEW x \in 0..(Room - 1), NEW y \in 0..(Room - 1),
               NEW i \in 1..Len(T[x]), NEW j \in 1..Len(T[y]), T[x][i] = T[y][j]
        PROVE  x = y /\ i = j
    <3>1. CASE x = b /\ i = 1
      BY <1>4, <1>9, <1>10, <2>2, <3>1
    <3>2. CASE y = b /\ j = 1
      BY <1>4, <1>9, <1>10, <2>2, <3>2
    <3>3. CASE ~(x = b /\ i = 1) /\ ~(y = b /\ j = 1)
      <4>1. /\ old(x, i) \in 1..Len(Table[x]) /\ old(y, j) \in 1..Len(Table[y])
            /\ Table[x][old(x, i)] = Table[y][old(y, j)]
        BY <1>10, <2>2, <3>3
      <4>2. x = y /\ old(x, i) = old(y, j)
        <5> HIDE DEF old
        <5> QED
          BY <1>2, <2>1, <4>1 DEF Chains, Once
      <4> QED
        BY <4>2
    <3> QED
      BY <3>1, <3>2, <3>3
  <2>3. ASSUME NEW x \in 0..(Room - 1), NEW i \in 1..Len(T[x]), NEW j \in 1..Len(T[x]),
               entries'[T[x][i]].key = entries'[T[x][j]].key
        PROVE  i = j
    <3>1. CASE x = b /\ i = 1 /\ j # 1
      <4>1. KeyAt(Table, b, old(b, j)) # k /\ entries'[T[b][j]].key = KeyAt(Table, b, old(b, j))
        BY <1>10, <3>1 DEF KeyAt
      <4>2. entries'[T[b][i]].key = k
        BY <1>5, <1>9, <3>1
      <4> QED
        BY <2>3, <3>1, <4>1, <4>2
    <3>2. CASE x = b /\ i # 1 /\ j = 1
      <4>1. KeyAt(Table, b, old(b, i)) # k /\ entries'[T[b][i]].key = KeyAt(Table, b, old(b, i))
        BY <1>10, <3>2 DEF KeyAt
      <4>2. entries'[T[b][j]].key = k
        BY <1>5, <1>9, <3>2
      <4> QED
        BY <2>3, <3>2, <4>1, <4>2
    <3>3. CASE ~(x = b /\ i = 1) /\ ~(x = b /\ j = 1)
      <4>1. /\ old(x, i) \in 1..Len(Table[x]) /\ old(x, j) \in 1..Len(Table[x])
            /\ KeyAt(Table, x, old(x, i)) = KeyAt(Table, x, old(x, j))
        BY <1>10, <2>3, <3>3 DEF KeyAt
      <4>2. old(x, i) = old(x, j)
        <5> HIDE DEF old
        <5> QED
          BY <1>2, <2>1, <4>1 DEF Chains, Once
      <4> QED
        BY <4>2
    <3> QED
      BY <3>1, <3>2, <3>3
  <2>4. \A x, y \in DOMAIN T : \A i \in 1..Len(T[x]), j \in 1..Len(T[y]) :
          T[x][i] = T[y][j] => x = y /\ i = j
    BY <2>1, <2>2
  <2>5. \A x \in DOMAIN T : \A i, j \in 1..Len(T[x]) :
          entries'[T[x][i]].key = entries'[T[x][j]].key => i = j
    BY <2>1, <2>3
  <2> QED
    BY <1>3, <2>4, <2>5 DEF Once, KeyAt
<1>12. Chains(capacity, buckets)'
  <2>1. ASSUME NEW c \in 0..(Room - 1)
        PROVE  Len(T[c]) <= allocated'
    <3>1. Len(Table[c]) <= allocated /\ Len(Table[c]) \in Nat
      BY <1>2, <1>8 DEF Chains
    <3>2. Len(T[c]) <= Len(Table[c]) + 1
      BY <1>9, <3>1
    <3> QED
      BY <1>3, <1>4, <3>1, <3>2
  <2> QED
    BY <1>2, <1>3, <1>5, <1>9, <1>11, <2>1 DEF Chains
<1>13. \A c \in 0..(Room - 1) : \A j \in 1..Len(Table[c]) :
         \E i \in 1..Len(T[c]) : T[c][i] = Table[c][j]
  <2> SUFFICES ASSUME NEW c \in 0..(Room - 1), NEW j \in 1..Len(Table[c])
               PROVE  \E i \in 1..Len(T[c]) : T[c][i] = Table[c][j]
    OBVIOUS
  <2>1. CASE c = b
    <3>1. j + 1 \in 1..Len(T[c]) /\ T[c][j + 1] = Table[c][j]
      BY <1>8, <1>9, <2>1
    <3> QED
      BY <3>1
  <2>2. CASE c # b
    BY <1>9, <2>2
  <2> QED
    BY <2>1, <2>2
<1>14. 1 \in 1..Len(T[b])
  BY <1>1, <1>8, <1>9
<1>15. ASSUME ~disturbed
       PROVE  Sound(capacity, buckets)'
  <2>0. Sound(Room, Table)
    BY <1>2, <1>15
  <2>1. ASSUME NEW x \in DOMAIN entries'
        PROVE  \E c \in 0..(Room - 1) : \E i \in 1..Len(T[c]) : T[c][i] = x
    <3>1. CASE x = e
      BY <1>1, <1>9, <1>14, <3>1
    <3>2. CASE x \in DOMAIN entries
      <4>1. PICK c \in 0..(Room - 1) : \E j \in 1..Len(Table[c]) : Table[c][j] = x
        BY <2>0, <3>2 DEF Sound
      <4> QED
        BY <1>13, <4>1
    <3> QED
      BY <1>5, <3>1, <3>2
  <2>2. ASSUME NEW c \in 0..(Room - 1), T[c] # <<>>
        PROVE  Home(entries'[T[c][1]].key, Room) = c
    <3>1. CASE c = b
      BY <1>5, <1>9, <3>1
    <3>2. CASE c # b
      <4>1. T[c] = Table[c] /\ Table[c] \in Seq(DOMAIN entries)
        BY <1>8, <1>9, <3>2
      <4>2. 1 \in 1..Len(T[c])
        BY <2>2, <4>1
      <4> QED
        BY <1>10, <2>0, <2>2, <3>2, <4>1, <4>2 DEF Sound, KeyAt
    <3> QED
      BY <3>1, <3>2
  <2>3. ASSUME NEW c \in 0..(Room - 1), NEW i \in 1..Len(T[c]),
               Home(entries'[T[c][i]].key, Room) = c
        PROVE  entries'[T[c][i]].value = dict'[entries'[T[c][i]].key]
    <3>1. CASE c = b /\ i = 1
      BY <1>5, <1>6, <1>9, <3>1
    <3>2. CASE ~(c = b /\ i = 1)
      <4> DEFINE j == old(c, i)
                 q == KeyAt(Table, c, j)
      <4>1. /\ j \in 1..Len(Table[c]) /\ entries'[T[c][i]] = entries[Table[c][j]]
            /\ q \in Keys /\ (c = b => q # k) /\ entries'[T[c][i]].key = q
        BY <1>10, <3>2 DEF KeyAt
      <4> HIDE DEF j
      <4>2. q # k
        BY <2>3, <4>1
      <4>3. entries[Table[c][j]].value = dict[q]
        BY <2>0, <2>3, <4>1 DEF Sound
      <4> QED
        BY <1>6, <4>1, <4>2, <4>3
    <3> QED
      BY <3>1, <3>2
  <2> QED
    BY <1>3, <2>1, <2>2, <2>3 DEF Sound, KeyAt, Home
<1>16. ASSUME ~(grown \/ Crowded)
       PROVE  Exact(capacity, buckets)'
  <2>0. Exact(Room, Table)
    BY <1>2, <1>16
  <2>1. ASSUME NEW c \in 0..(Room - 1), NEW i \in 1..Len(T[c])
        PROVE  Home(entries'[T[c][i]].key, Room) = c
    <3>1. CASE c = b /\ i = 1
      BY <1>5, <1>9, <3>1
    <3>2. CASE ~(c = b /\ i = 1)
      BY <1>10, <2>0, <3>2 DEF Exact, KeyAt
    <3> QED
      BY <3>1, <3>2
  <2>2. ASSUME NEW q \in Keys, dict'[q] # NULL
        PROVE  \E x \in DOMAIN entries' : entries'[x].key = q
    <3>1. CASE q = k
      BY <1>5, <3>1
    <3>2. CASE q # k
      BY <1>5, <1>6, <2>0, <2>2, <3>2 DEF Exact
    <3> QED
      BY <3>1, <3>2
  <2> QED
    BY <1>3, <2>1, <2>2 DEF Exact, KeyAt, Home
<1>17. (4 * size <= 3 * capacity)'
  BY <1>2, <1>3
<1> QED
  BY <1>3, <1>7, <1>12, <1>15, <1>16, <1>17 DEF TableInv

LEMMA RemoveStep ==
  ASSUME HashTableAssumption, TableInv, NEW k \in Keys, Remove(k)
  PROVE  TableInv'
<1> DEFINE b == Home(k, capacity)
           p == Position(buckets[b], k)
           e == buckets[b][p]
           U == Unlinked(buckets[b], p)
           T == [buckets EXCEPT ![b] = Unlinked(@, p)]
<1>1. /\ capacity \in Nat \ {0} /\ Chains(capacity, buckets) /\ EntriesInv
      /\ b \in 0..(capacity - 1) /\ size \in Nat /\ IsFiniteSet(DOMAIN entries)
  BY HomeInTable, SizeNat DEF TableInv, Chains
<1>2. /\ buckets' = T /\ size' = size - 1 /\ capacity' = capacity
      /\ entries' = [x \in DOMAIN entries \ {e} |-> entries[x]]
      /\ dict' = [dict EXCEPT ![k] = NULL] /\ disturbed' = grown
      /\ allocated' = allocated /\ grown' = grown /\ p # 0
  BY DEF Remove
<1>3. \A c \in 0..(capacity - 1) : buckets[c] \in Seq(DOMAIN entries) /\ Len(buckets[c]) \in Nat
  BY <1>1 DEF Chains
<1>4. p \in 1..Len(buckets[b]) /\ KeyAt(buckets, b, p) = k /\ e \in DOMAIN entries
  <2>0. /\ p \in 0..Len(buckets[b])
        /\ p = 0 => \A i \in 1..Len(buckets[b]) : KeyAt(buckets, b, i) # k
        /\ p # 0 => KeyAt(buckets, b, p) = k
        /\ Walk(buckets[b], k) = NULL <=> p = 0
    <3>1. Chains(capacity, buckets) /\ EntriesInv /\ b \in 0..(capacity - 1)
      BY <1>1
    <3> QED
      BY <3>1, WalkFinds
  <2>1. p \in 0..Len(buckets[b]) /\ KeyAt(buckets, b, p) = k
    BY <1>2, <2>0
  <2>2. p \in 1..Len(buckets[b])
    BY <1>1, <1>2, <1>3, <2>1
  <2> QED
    BY <1>1, <1>3, <2>1, <2>2
<1> DEFINE old(c, i) == IF c = b /\ i >= p THEN i + 1 ELSE i
<1>5. /\ U = [j \in 1..(Len(buckets[b]) - 1) |-> buckets[b][old(b, j)]]
      /\ \A j \in 1..(Len(buckets[b]) - 1) : old(b, j) \in 1..Len(buckets[b]) /\ old(b, j) # p
  <2>1. \A j \in 1..(Len(buckets[b]) - 1) :
          (IF j < p THEN buckets[b][j] ELSE buckets[b][j + 1]) = buckets[b][old(b, j)]
    BY <1>1, <1>3, <1>4
  <2>2. \A j \in 1..(Len(buckets[b]) - 1) : old(b, j) \in 1..Len(buckets[b]) /\ old(b, j) # p
    BY <1>1, <1>3, <1>4
  <2> QED
    BY <2>1, <2>2 DEF Unlinked
<1>6. \A x, y \in DOMAIN buckets : \A i \in 1..Len(buckets[x]), j \in 1..Len(buckets[y]) :
        buckets[x][i] = buckets[y][j] => x = y /\ i = j
  BY <1>1 DEF Chains, Once
<1>7. DOMAIN buckets = 0..(capacity - 1)
  BY <1>1 DEF Chains
<1>8. /\ Len(U) = Len(buckets[b]) - 1 /\ Len(U) \in Nat
      /\ U \in Seq(DOMAIN entries \ {e})
  <2>1. \A j \in 1..(Len(buckets[b]) - 1) : buckets[b][old(b, j)] \in DOMAIN entries \ {e}
    <3> SUFFICES ASSUME NEW j \in 1..(Len(buckets[b]) - 1)
                 PROVE  buckets[b][old(b, j)] \in DOMAIN entries \ {e}
      OBVIOUS
    <3>1. old(b, j) \in 1..Len(buckets[b]) /\ old(b, j) # p
      BY <1>5
    <3> HIDE DEF old
    <3>2. buckets[b][old(b, j)] \in DOMAIN entries
      BY <1>1, <1>3, <3>1
    <3>3. buckets[b][old(b, j)] # e
      BY <1>1, <1>4, <1>6, <1>7, <3>1
    <3> QED
      BY <3>2, <3>3
  <2>2. Len(buckets[b]) - 1 \in Nat
    BY <1>1, <1>3, <1>4
  <2> HIDE DEF U, old
  <2> QED
    BY <1>5, <2>1, <2>2
<1>9. /\ T \in [0..(capacity - 1) -> Seq(DOMAIN entries \ {e})]
      /\ \A c \in 0..(capacity - 1) : T[c] = IF c = b THEN U ELSE buckets[c]
  <2>1. buckets \in [0..(capacity - 1) -> Seq(DOMAIN entries)]
    BY <1>1 DEF Chains
  <2> HIDE DEF U
  <2>2. \A c \in 0..(capacity - 1) : T[c] = IF c = b THEN U ELSE buckets[c]
    BY <1>1, <2>1 DEF U
  <2>3. ASSUME NEW c \in 0..(capacity - 1), c # b
        PROVE  buckets[c] \in Seq(DOMAIN entries \ {e})
    <3>1. \A i \in 1..Len(buckets[c]) : buckets[c][i] \in DOMAIN entries /\ buckets[c][i] # e
      BY <1>1, <1>3, <1>4, <1>6, <1>7, <2>3
    <3> QED
      BY <1>3, <3>1
  <2> QED
    BY <1>8, <2>1, <2>2, <2>3
<1> HIDE DEF T, U
<1>10. ASSUME NEW c \in 0..(capacity - 1), NEW i \in 1..Len(T[c])
       PROVE  /\ old(c, i) \in 1..Len(buckets[c])
              /\ T[c][i] = buckets[c][old(c, i)]
              /\ T[c][i] \in DOMAIN entries \ {e}
              /\ entries'[T[c][i]] = entries[buckets[c][old(c, i)]]
              /\ KeyAt(buckets, c, old(c, i)) \in Keys
              /\ c = b => KeyAt(buckets, c, old(c, i)) # k
  <2>1. /\ old(c, i) \in 1..Len(buckets[c]) /\ T[c][i] = buckets[c][old(c, i)]
        /\ c = b => old(c, i) # p
    <3>1. CASE c = b
      <4>1. i \in 1..(Len(buckets[b]) - 1) /\ T[c] = U
        BY <1>8, <1>9, <3>1
      <4>2. U[i] = buckets[b][old(b, i)]
        <5> HIDE DEF old
        <5> QED
          BY <1>5, <4>1
      <4> QED
        BY <1>5, <3>1, <4>1, <4>2
    <3>2. CASE c # b
      BY <1>9, <3>2
    <3> QED
      BY <3>1, <3>2
  <2> HIDE DEF old
  <2>2. T[c][i] \in DOMAIN entries \ {e}
    <3>1. T[c] \in Seq(DOMAIN entries \ {e})
      BY <1>9
    <3> QED
      BY <3>1
  <2>3. entries'[T[c][i]] = entries[buckets[c][old(c, i)]]
    BY <1>2, <2>1, <2>2
  <2>4. KeyAt(buckets, c, old(c, i)) \in Keys
    BY <1>1, <2>1, <2>2 DEF EntriesInv, KeyAt
  <2>5. c = b => KeyAt(buckets, c, old(c, i)) # k
    BY <1>1, <1>4, <1>7, <2>1 DEF Chains, Once
  <2> QED
    BY <2>1, <2>2, <2>3, <2>4, <2>5
<1>11. Once(buckets)'
  <2>1. ASSUME NEW x \in 0..(capacity - 1), NEW y \in 0..(capacity - 1),
               NEW i \in 1..Len(T[x]), NEW j \in 1..Len(T[y]), T[x][i] = T[y][j]
        PROVE  x = y /\ i = j
    <3>1. /\ old(x, i) \in 1..Len(buckets[x]) /\ old(y, j) \in 1..Len(buckets[y])
          /\ buckets[x][old(x, i)] = buckets[y][old(y, j)]
      BY <1>10, <2>1
    <3>2. x = y /\ old(x, i) = old(y, j)
      <4> HIDE DEF old
      <4> QED
        BY <1>6, <1>7, <3>1
    <3> QED
      BY <1>4, <3>2
  <2>2. ASSUME NEW x \in 0..(capacity - 1), NEW i \in 1..Len(T[x]), NEW j \in 1..Len(T[x]),
               entries'[T[x][i]].key = entries'[T[x][j]].key
        PROVE  i = j
    <3>1. /\ old(x, i) \in 1..Len(buckets[x]) /\ old(x, j) \in 1..Len(buckets[x])
          /\ KeyAt(buckets, x, old(x, i)) = KeyAt(buckets, x, old(x, j))
      <4> HIDE DEF old
      <4>1. \A n \in 1..Len(T[x]) :
              /\ old(x, n) \in 1..Len(buckets[x])
              /\ entries'[T[x][n]] = entries[buckets[x][old(x, n)]]
        BY <1>10
      <4> QED
        BY <2>2, <4>1 DEF KeyAt
    <3>2. old(x, i) = old(x, j)
      <4> HIDE DEF old
      <4> QED
        BY <1>1, <1>7, <3>1 DEF Chains, Once
    <3> QED
      BY <1>4, <3>2
  <2>3. DOMAIN T = 0..(capacity - 1)
    BY <1>9
  <2>4. \A x, y \in DOMAIN T : \A i \in 1..Len(T[x]), j \in 1..Len(T[y]) :
          T[x][i] = T[y][j] => x = y /\ i = j
    BY <2>1, <2>3
  <2>5. \A x \in DOMAIN T : \A i, j \in 1..Len(T[x]) :
          entries'[T[x][i]].key = entries'[T[x][j]].key => i = j
    BY <2>2, <2>3
  <2>6. buckets' = T
    BY <1>2
  <2> QED
    BY <2>4, <2>5, <2>6 DEF Once, KeyAt
<1>12. Chains(capacity, buckets)'
  <2>1. ASSUME NEW c \in 0..(capacity - 1)
        PROVE  Len(T[c]) <= allocated
    <3>1. Len(buckets[c]) <= allocated /\ Len(buckets[c]) \in Nat /\ allocated \in Nat
      BY <1>1, <1>3 DEF Chains, EntriesInv
    <3>2. Len(T[c]) <= Len(buckets[c])
      BY <1>8, <1>9, <3>1
    <3>3. Len(T[c]) \in Nat
      BY <1>9
    <3> QED
      BY <3>1, <3>2, <3>3
  <2>2. DOMAIN entries' = DOMAIN entries \ {e}
    BY <1>2
  <2> QED
    BY <1>1, <1>2, <1>9, <1>11, <2>1, <2>2 DEF Chains
<1>13. EntriesInv' /\ (4 * size <= 3 * capacity)'
  <2>1. Cardinality(DOMAIN entries \ {e}) = size - 1
    <3> HIDE DEF e
    <3> QED
      BY <1>1, <1>4, FS_RemoveElement DEF EntriesInv
  <2>2. entries' \in [DOMAIN entries \ {e} -> [key : Keys, value : Nat \ {0}]]
    BY <1>1, <1>2 DEF EntriesInv
  <2>3. dict' \in [Keys -> Nat]
    BY <1>1, <1>2 DEF EntriesInv, NULL
  <2>4. 4 * (size - 1) <= 3 * capacity
    BY <1>1 DEF TableInv
  <2> QED
    BY <1>1, <1>2, <2>1, <2>2, <2>3, <2>4 DEF EntriesInv
<1>14. ASSUME ~grown
       PROVE  Sound(capacity, buckets)' /\ Exact(capacity, buckets)'
  <2>1. Sound(capacity, buckets) /\ Exact(capacity, buckets)
    BY <1>1, <1>14 DEF TableInv, EntriesInv
  <2>2. ASSUME NEW x \in DOMAIN entries'
        PROVE  \E c \in 0..(capacity - 1) : \E i \in 1..Len(T[c]) : T[c][i] = x
    <3>1. x \in DOMAIN entries /\ x # e
      BY <1>2
    <3>2. PICK c \in 0..(capacity - 1) : \E j \in 1..Len(buckets[c]) : buckets[c][j] = x
      BY <2>1, <3>1 DEF Sound
    <3>3. PICK j \in 1..Len(buckets[c]) : buckets[c][j] = x
      BY <3>2
    <3>4. CASE c = b
      <4>1. j # p
        BY <3>1, <3>3, <3>4
      <4> DEFINE i == IF j < p THEN j ELSE j - 1
      <4>2. i \in 1..(Len(buckets[b]) - 1) /\ old(b, i) = j
        BY <1>1, <1>3, <1>4, <3>4, <4>1
      <4>3. i \in 1..Len(T[b])
        BY <1>1, <1>8, <1>9, <4>2
      <4>4. T[b][i] = buckets[b][j]
        BY <1>1, <1>10, <4>2, <4>3
      <4> QED
        BY <3>3, <3>4, <4>3, <4>4
    <3>5. CASE c # b
      BY <1>9, <3>3, <3>5
    <3> QED
      BY <3>4, <3>5
  <2>3. ASSUME NEW c \in 0..(capacity - 1), NEW i \in 1..Len(T[c])
        PROVE  /\ Home(entries'[T[c][i]].key, capacity) = c
               /\ entries'[T[c][i]].value = dict'[entries'[T[c][i]].key]
    <3> DEFINE j == old(c, i)
               q == KeyAt(buckets, c, j)
    <3>1. /\ j \in 1..Len(buckets[c]) /\ entries'[T[c][i]] = entries[buckets[c][j]]
          /\ q \in Keys /\ (c = b => q # k) /\ entries'[T[c][i]].key = q
      BY <1>10 DEF KeyAt
    <3> HIDE DEF j
    <3>2. Home(q, capacity) = c
      BY <2>1, <3>1 DEF Exact
    <3>3. q # k
      BY <3>1, <3>2
    <3>4. entries[buckets[c][j]].value = dict[q]
      BY <2>1, <3>1, <3>2 DEF Sound
    <3>5. dict'[q] = dict[q]
      BY <1>1, <1>2, <3>1, <3>3 DEF EntriesInv
    <3> QED
      BY <3>1, <3>2, <3>4, <3>5
  <2>4. ASSUME NEW c \in 0..(capacity - 1), T[c] # <<>>
        PROVE  1 \in 1..Len(T[c])
    <3>1. T[c] \in Seq(DOMAIN entries \ {e})
      BY <1>9
    <3> QED
      BY <2>4, <3>1
  <2>5. ASSUME NEW q \in Keys, dict'[q] # NULL
        PROVE  \E x \in DOMAIN entries' : entries'[x].key = q
    <3>1. q # k /\ dict[q] # NULL
      BY <1>1, <1>2, <2>5 DEF EntriesInv
    <3>2. PICK x \in DOMAIN entries : entries[x].key = q
      BY <2>1, <3>1 DEF Exact
    <3>3. x # e
      BY <1>4, <3>1, <3>2 DEF KeyAt
    <3> QED
      BY <1>2, <3>2, <3>3
  <2>6. buckets' = T /\ capacity' = capacity
    BY <1>2
  <2>7. \A c \in 0..(capacity - 1) : T[c] # <<>> => Home(entries'[T[c][1]].key, capacity) = c
    BY <2>3, <2>4
  <2>8. Sound(capacity, buckets)'
    BY <2>2, <2>3, <2>6, <2>7 DEF Sound, KeyAt, Home
  <2>9. Exact(capacity, buckets)'
    BY <2>3, <2>5, <2>6 DEF Exact, KeyAt, Home
  <2> QED
    BY <2>8, <2>9
<1> QED
  BY <1>2, <1>12, <1>13, <1>14 DEF TableInv

-----------------------------------------------------------------------------
(* The theorems.                                                            *)

LEMMA TableInit ==
  ASSUME HashTableAssumption, Init
  PROVE  TableInv
<1>1. entries = <<>> /\ DOMAIN entries = {} /\ Cardinality(DOMAIN entries) = 0
  BY FS_EmptySet DEF Init
<1>2. capacity \in Nat \ {0} /\ DOMAIN buckets = 0..(capacity - 1)
  BY DEF Init, HashTableAssumption
<1>3. \A b \in 0..(capacity - 1) : buckets[b] = <<>>
  BY DEF Init
<1>4. EntriesInv
  <2>1. entries \in [DOMAIN entries -> [key : Keys, value : Nat \ {0}]]
    BY <1>1
  <2>2. dict \in [Keys -> Nat] /\ allocated \in 0..MaxEntries
    BY DEF Init, HashTableAssumption, NULL
  <2> QED
    BY <1>1, <2>1, <2>2 DEF Init, EntriesInv
<1>5. Chains(capacity, buckets)
  <2>1. Once(buckets)
    BY <1>2, <1>3 DEF Once
  <2> QED
    BY <1>2, <1>3, <2>1 DEF Chains, Init
<1>6. Sound(capacity, buckets) /\ Exact(capacity, buckets)
  BY <1>1, <1>3 DEF Sound, Exact, Init, NULL
<1> QED
  BY <1>2, <1>4, <1>5, <1>6 DEF TableInv, Init

LEMMA TableNext ==
  ASSUME HashTableAssumption, TableInv, [Next]_vars
  PROVE  TableInv'
<1>1. CASE UNCHANGED vars
  <2>1. UNCHANGED <<capacity, size, buckets, entries, allocated, dict, grown, disturbed>>
    BY <1>1 DEF vars, chainVars
  <2> QED
    BY <2>1 DEF TableInv, EntriesInv, Chains, Once, Sound, Exact, KeyAt, Home
<1>2. ASSUME NEW k \in Keys, NEW v \in Values, Put(k, v)
      PROVE  TableInv'
  <2>1. CASE PutCannotGrow(k)
    BY <1>1, <2>1 DEF PutCannotGrow
  <2> QED
    BY <1>2, <2>1, PutReplacesStep, PutCannotCreateStep, PutInsertsStep DEF Put
<1> QED
  BY <1>1, <1>2, RemoveStep DEF Next

\* The inductive invariant.
THEOREM TableInvariant ==
  ASSUME HashTableAssumption
  PROVE  Spec => []TableInv
<1>1. Init => TableInv
  BY TableInit
<1>2. TableInv /\ [Next]_vars => TableInv'
  BY TableNext
<1> QED
  BY <1>1, <1>2, PTL DEF Spec

\* However it is used, the table is at most three quarters full, and size is
\* the number of its entries.
THEOREM NeverOverfull ==
  ASSUME HashTableAssumption
  PROVE  Spec => []LoadBounded
<1>1. TableInv => LoadBounded
  BY DEF TableInv, EntriesInv, LoadBounded
<1> QED
  BY <1>1, TableInvariant, PTL

\* As long as nothing was removed after the table had grown, every entry is
\* in one place of one chain.
THEOREM EntriesKept ==
  ASSUME HashTableAssumption
  PROVE  Spec => []NothingLost
<1>1. ASSUME TableInv, ~disturbed
      PROVE  /\ {At(p) : p \in Places} = DOMAIN entries
             /\ \A p, q \in Places : At(p) = At(q) => p = q
  <2>1. Chains(capacity, buckets) /\ Sound(capacity, buckets) /\ allocated \in Nat
    BY <1>1 DEF TableInv, EntriesInv
  <2>2. \A b \in 0..(capacity - 1) :
          buckets[b] \in Seq(DOMAIN entries) /\ Len(buckets[b]) \in Nat /\ Len(buckets[b]) <= allocated
    BY <2>1 DEF Chains
  <2>3. ASSUME NEW p \in Places
        PROVE  /\ p = <<p[1], p[2]>> /\ p[1] \in 0..(capacity - 1)
               /\ p[2] \in 1..Len(buckets[p[1]])
               /\ At(p) = buckets[p[1]][p[2]]
    BY <2>2 DEF Places, At
  <2>4. ASSUME NEW b \in 0..(capacity - 1), NEW i \in 1..Len(buckets[b])
        PROVE  <<b, i>> \in Places /\ At(<<b, i>>) = buckets[b][i]
    <3>1. i \in 1..allocated
      BY <2>1, <2>2
    <3> QED
      BY <3>1 DEF Places, At
  <2>5. \A p \in Places : At(p) \in DOMAIN entries
    BY <2>2, <2>3
  <2>6. ASSUME NEW e \in DOMAIN entries
        PROVE  \E p \in Places : At(p) = e
    <3>1. PICK b \in 0..(capacity - 1) : \E i \in 1..Len(buckets[b]) : buckets[b][i] = e
      BY <2>1 DEF Sound
    <3> QED
      BY <2>4, <3>1
  <2>7. ASSUME NEW p \in Places, NEW q \in Places, At(p) = At(q)
        PROVE  p = q
    <3>1. DOMAIN buckets = 0..(capacity - 1)
      BY <2>1 DEF Chains
    <3>2. \A b, c \in DOMAIN buckets : \A i \in 1..Len(buckets[b]), j \in 1..Len(buckets[c]) :
            buckets[b][i] = buckets[c][j] => b = c /\ i = j
      BY <2>1 DEF Chains, Once
    <3>3. /\ p[1] \in DOMAIN buckets /\ p[2] \in 1..Len(buckets[p[1]])
          /\ q[1] \in DOMAIN buckets /\ q[2] \in 1..Len(buckets[q[1]])
          /\ buckets[p[1]][p[2]] = buckets[q[1]][q[2]]
      BY <2>3, <2>7, <3>1
    <3>4. p[1] = q[1] /\ p[2] = q[2]
      BY <3>2, <3>3
    <3> QED
      BY <2>3, <3>4
  <2> QED
    BY <2>5, <2>6, <2>7
<1>2. TableInv => NothingLost
  BY <1>1 DEF NothingLost
<1> QED
  BY <1>2, TableInvariant, PTL

\* As long as nothing was removed after the table had grown, a lookup finds
\* what was put last or nothing, and before the table grows what was put last.
THEOREM NothingStale ==
  ASSUME HashTableAssumption
  PROVE  Spec => []NeverStale
<1>1. ASSUME TableInv, ~disturbed, NEW k \in Keys
      PROVE  Get(k) \in {dict[k]} \cup (IF grown THEN {NULL} ELSE {})
  <2> DEFINE b == Home(k, capacity)
             p == Position(buckets[b], k)
  <2>1. Chains(capacity, buckets) /\ Sound(capacity, buckets) /\ EntriesInv
    BY <1>1 DEF TableInv
  <2>2. b \in 0..(capacity - 1)
    BY <2>1, HomeInTable DEF Chains
  <2>3. /\ p \in 0..Len(buckets[b])
        /\ p = 0 => \A i \in 1..Len(buckets[b]) : KeyAt(buckets, b, i) # k
        /\ p # 0 => KeyAt(buckets, b, p) = k
        /\ Walk(buckets[b], k) = NULL <=> p = 0
    BY <2>1, <2>2, WalkFinds
  <2>4. CASE p # 0
    <3>1. Len(buckets[b]) \in Nat
      BY <2>1, <2>2 DEF Chains
    <3>2. p \in 1..Len(buckets[b])
      BY <2>3, <2>4, <3>1
    <3>3. entries[buckets[b][p]].value = dict[k]
      BY <2>1, <2>2, <2>3, <2>4, <3>2 DEF Sound
    <3>4. Walk(buckets[b], k) = buckets[b][p]
      BY <2>4 DEF Walk
    <3>5. Get(k) = dict[k]
      BY <2>3, <2>4, <3>3, <3>4 DEF Get
    <3> QED
      BY <3>5
  <2>5. CASE p = 0
    <3>1. Get(k) = NULL
      BY <2>3, <2>5 DEF Get
    <3>2. ASSUME ~grown
          PROVE  dict[k] = NULL
      <4> SUFFICES ASSUME dict[k] # NULL PROVE FALSE
        OBVIOUS
      <4>1. Exact(capacity, buckets)
        BY <1>1, <3>2 DEF TableInv
      <4>2. PICK e \in DOMAIN entries : entries[e].key = k
        BY <4>1 DEF Exact
      <4>3. PICK c \in 0..(capacity - 1) : \E i \in 1..Len(buckets[c]) : buckets[c][i] = e
        BY <2>1 DEF Sound
      <4>4. PICK i \in 1..Len(buckets[c]) : buckets[c][i] = e
        BY <4>3
      <4>5. KeyAt(buckets, c, i) = k
        BY <4>2, <4>4 DEF KeyAt
      <4>6. c = b
        BY <4>1, <4>5 DEF Exact
      <4> QED
        BY <2>3, <2>5, <4>5, <4>6
    <3> QED
      BY <3>1, <3>2
  <2> QED
    BY <2>4, <2>5
<1>2. TableInv => NeverStale
  BY <1>1 DEF NeverStale
<1> QED
  BY <1>2, TableInvariant, PTL
=============================================================================
