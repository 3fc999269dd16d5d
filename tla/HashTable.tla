----------------------------- MODULE HashTable -----------------------------
(***************************************************************************)
(* The hash table of orders (data_structures/hashtable.c): an array of     *)
(* chains that doubles when it would become more than three quarters full. *)
(*                                                                         *)
(* A chain is the sequence of the entries in a bucket, an entry an address *)
(* at which `entries' holds a key and a value while the entry is           *)
(* allocated.  Addresses are not used again, so that one that is kept      *)
(* after the entry was freed is seen.  What hash_function makes of a key   *)
(* does not matter, only that it is a number.                              *)
(*                                                                         *)
(* Each operation holds the lock of the table from beginning to end, and   *)
(* is one step.                                                            *)
(***************************************************************************)
EXTENDS Integers, Sequences, FiniteSets

CONSTANTS
  Keys,             \* order ids with their prefixes
  Hash,             \* hash_function of each key, before the remainder
  InitialCapacity,  \* HT_ORDER_CAPACITY (25013)
  Values,           \* what is stored: pointers to rows
  MemoryFails,      \* TRUE if malloc and calloc may fail
  MaxEntries        \* bound: entries ever allocated

HashTableAssumption ==
  /\ Hash \in [Keys -> Nat]
  /\ InitialCapacity \in Nat \ {0}
  /\ Values \subseteq Nat \ {0}
  /\ MemoryFails \in BOOLEAN
  /\ MaxEntries \in Nat

VARIABLES
  capacity,   \* ht->capacity
  size,       \* ht->size
  buckets,    \* ht->buckets: the chain of each bucket
  entries,    \* the entries that are allocated, by address
  allocated,  \* how many entries were ever allocated
  dict,       \* history: the function the table is meant to be
  grown,      \* history: resize_hashtable has run
  disturbed   \* history: an entry was removed after that

chainVars == <<capacity, size, buckets>>
vars == <<chainVars, entries, allocated, dict, grown, disturbed>>

NULL == 0

-----------------------------------------------------------------------------

\* ht_init.
Init ==
  /\ capacity = InitialCapacity
  /\ size = 0
  /\ buckets = [b \in 0..(InitialCapacity - 1) |-> <<>>]
  /\ entries = <<>>
  /\ allocated = 0
  /\ dict = [k \in Keys |-> NULL]
  /\ grown = FALSE
  /\ disturbed = FALSE

Home(k, cap) == Hash[k] % cap

\* Where in a chain the first entry with key k is, 0 if there is none.
Position(chain, k) ==
  LET at == {i \in 1..Len(chain) : entries[chain[i]].key = k}
  IN IF at = {} THEN 0 ELSE CHOOSE i \in at : \A j \in at : i <= j

\* That entry, NULL if there is none.
Walk(chain, k) ==
  IF Position(chain, k) = 0 THEN NULL ELSE chain[Position(chain, k)]

\* ht_get.
Get(k) ==
  LET e == Walk(buckets[Home(k, capacity)], k)
  IN IF e = NULL THEN NULL ELSE entries[e].value

-----------------------------------------------------------------------------
(* ht_put.                                                                  *)

\* One more entry would make the table more than RESIZE_THRESHOLD full.
Crowded == 4 * (size + 1) > 3 * capacity

\* Mutant: the capacity is kept odd, as the first one is.
NewCapacity_Odd == 2 * capacity + 1

\* What the table grows to.
NewCapacity == 2 * capacity

\* The buckets whose chains resize_hashtable moves to bucket b.
MovedTo(b) ==
  {old \in 0..(capacity - 1) :
     /\ buckets[old] # <<>>
     /\ Home(entries[Head(buckets[old])].key, NewCapacity) = b}

\* resize_hashtable: each chain goes, as it is, where its first entry
\* belongs; if two chains met, the later one would stay.
Resized ==
  [b \in 0..(NewCapacity - 1) |->
     IF MovedTo(b) = {} THEN <<>>
     ELSE buckets[CHOOSE old \in MovedTo(b) : \A o \in MovedTo(b) : o <= old]]

\* The table in which ht_put looks for the key, after growing if need be.
Room  == IF Crowded THEN NewCapacity ELSE capacity
Table == IF Crowded THEN Resized ELSE buckets

Grow ==
  /\ capacity' = Room
  /\ grown' = (grown \/ Crowded)

\* The entry ht_put finds for k, NULL if it has to make one.
Known(k) == Walk(Table[Home(k, Room)], k)

\* The address create_entry returns, and the entries with the new one.
NewEntry == allocated + 1
WithEntry(k, v) ==
  [e \in DOMAIN entries \cup {NewEntry} |->
     IF e = NewEntry THEN [key |-> k, value |-> v] ELSE entries[e]]

\* The table cannot grow: NULL is returned, even for a key that is there.
PutCannotGrow(k) ==
  /\ MemoryFails
  /\ Crowded
  /\ UNCHANGED vars

\* Mutant: the key gets a new entry in the place of the one it had.
PutReplaces_NewEntry(k, v) ==
  LET e == Known(k) IN
    /\ e # NULL
    /\ allocated < MaxEntries
    /\ Grow
    /\ buckets' = [Table EXCEPT ![Home(k, Room)] =
                     [i \in DOMAIN @ |-> IF @[i] = e THEN NewEntry ELSE @[i]]]
    /\ entries' = [x \in DOMAIN WithEntry(k, v) \ {e} |-> WithEntry(k, v)[x]]
    /\ allocated' = NewEntry
    /\ dict' = [dict EXCEPT ![k] = v]
    /\ UNCHANGED <<size, disturbed>>

\* The key is there: its entry gets the new value.
PutReplaces(k, v) ==
  /\ Known(k) # NULL
  /\ Grow
  /\ buckets' = Table
  /\ entries' = [entries EXCEPT ![Known(k)].value = v]
  /\ dict' = [dict EXCEPT ![k] = v]
  /\ UNCHANGED <<size, allocated, disturbed>>

\* create_entry fails; the table may have grown.
PutCannotCreate(k) ==
  /\ MemoryFails
  /\ Known(k) = NULL
  /\ Grow
  /\ buckets' = Table
  /\ UNCHANGED <<size, entries, allocated, dict, disturbed>>

\* Mutant: the new entry does not go on to the rest of the chain.
PutInserts_DropsChain(k, v) ==
  /\ allocated < MaxEntries
  /\ Known(k) = NULL
  /\ Grow
  /\ buckets' = [Table EXCEPT ![Home(k, Room)] = <<NewEntry>>]
  /\ size' = size + 1
  /\ entries' = WithEntry(k, v)
  /\ allocated' = NewEntry
  /\ dict' = [dict EXCEPT ![k] = v]
  /\ UNCHANGED disturbed

\* A new entry, first in the chain of its bucket.
PutInserts(k, v) ==
  /\ allocated < MaxEntries
  /\ Known(k) = NULL
  /\ Grow
  /\ buckets' = [Table EXCEPT ![Home(k, Room)] = <<NewEntry>> \o @]
  /\ size' = size + 1
  /\ entries' = WithEntry(k, v)
  /\ allocated' = NewEntry
  /\ dict' = [dict EXCEPT ![k] = v]
  /\ UNCHANGED disturbed

Put(k, v) ==
  PutCannotGrow(k) \/ PutReplaces(k, v) \/ PutCannotCreate(k) \/ PutInserts(k, v)

-----------------------------------------------------------------------------

\* A chain without its i-th entry.
Unlinked(chain, i) ==
  [j \in 1..(Len(chain) - 1) |-> IF j < i THEN chain[j] ELSE chain[j + 1]]

\* ht_remove: the first entry with the key leaves its chain and is freed.  A
\* key that is not found changes nothing.
Remove(k) ==
  LET b == Home(k, capacity)
      i == Position(buckets[b], k)
      e == buckets[b][i]
  IN /\ i # 0
     /\ buckets' = [buckets EXCEPT ![b] = Unlinked(@, i)]
     /\ size' = size - 1
     /\ entries' = [x \in DOMAIN entries \ {e} |-> entries[x]]
     /\ dict' = [dict EXCEPT ![k] = NULL]
     /\ disturbed' = grown
     /\ UNCHANGED <<capacity, allocated, grown>>

Next == \E k \in Keys : Remove(k) \/ \E v \in Values : Put(k, v)

Spec == Init /\ [][Next]_vars

-----------------------------------------------------------------------------

TypeOK ==
  /\ capacity \in Nat \ {0}
  /\ size \in Nat
  /\ allocated \in 0..MaxEntries
  /\ entries \in [DOMAIN entries -> [key : Keys, value : Nat \ {0}]]
  /\ DOMAIN entries \subseteq 1..allocated
  /\ buckets \in [0..(capacity - 1) -> Seq(DOMAIN entries)]
  /\ dict \in [Keys -> Nat]
  /\ grown \in BOOLEAN
  /\ disturbed \in BOOLEAN

Places == {p \in (0..(capacity - 1)) \X (1..allocated) : p[2] <= Len(buckets[p[1]])}
At(p) == buckets[p[1]][p[2]]

\* Doubling once is always enough, and size counts what is allocated, also
\* when an allocation fails after the table has grown.
LoadBounded ==
  /\ 4 * size <= 3 * capacity
  /\ size = Cardinality(DOMAIN entries)

\* Growing loses no entry and puts none in two chains: no two chains ever
\* meet in a bucket.  (They could once an entry is removed from a table that
\* has grown, for the next one in its chain may belong elsewhere.)
NothingLost ==
  ~disturbed =>
    /\ {At(p) : p \in Places} = DOMAIN entries
    /\ \A p, q \in Places : At(p) = At(q) => p = q

\* Until it grows the table is the function it is meant to be.  After that a
\* lookup may find nothing, but never a value that has been replaced: an entry
\* that can no longer be found is never found again, although chains move on
\* and a second entry is made for its key.
NeverStale ==
  ~disturbed =>
    \A k \in Keys : Get(k) \in {dict[k]} \cup (IF grown THEN {NULL} ELSE {})

\* Everything that was put and not removed is found.
AlwaysFound == \A k \in Keys : Get(k) = dict[k]

-----------------------------------------------------------------------------
(* Why these hold: the inductive invariant, of which parts are stated for   *)
(* any capacity cap and chains bs, for the table ht_put looks in has others *)
(* than the table it was called for.                                        *)

KeyAt(bs, b, i) == entries[bs[b][i]].key

\* No entry is in two places, and no chain has a key twice.
Once(bs) ==
  /\ \A b, c \in DOMAIN bs : \A i \in 1..Len(bs[b]), j \in 1..Len(bs[c]) :
       bs[b][i] = bs[c][j] => b = c /\ i = j
  /\ \A b \in DOMAIN bs : \A i, j \in 1..Len(bs[b]) :
       KeyAt(bs, b, i) = KeyAt(bs, b, j) => i = j

Chains(cap, bs) ==
  /\ cap \in Nat \ {0}
  /\ bs \in [0..(cap - 1) -> Seq(DOMAIN entries)]
  /\ \A b \in 0..(cap - 1) : Len(bs[b]) <= allocated
  /\ Once(bs)

\* Every entry is in a chain; a chain is where its first entry belongs; an
\* entry that is where it belongs has the value put last.
Sound(cap, bs) ==
  /\ \A e \in DOMAIN entries :
       \E b \in 0..(cap - 1) : \E i \in 1..Len(bs[b]) : bs[b][i] = e
  /\ \A b \in 0..(cap - 1) : bs[b] # <<>> => Home(KeyAt(bs, b, 1), cap) = b
  /\ \A b \in 0..(cap - 1) : \A i \in 1..Len(bs[b]) :
       Home(KeyAt(bs, b, i), cap) = b
         => entries[bs[b][i]].value = dict[KeyAt(bs, b, i)]

\* Every entry is where it belongs, and every key that was put has one.
Exact(cap, bs) ==
  /\ \A b \in 0..(cap - 1) : \A i \in 1..Len(bs[b]) :
       Home(KeyAt(bs, b, i), cap) = b
  /\ \A k \in Keys : dict[k] # NULL => \E e \in DOMAIN entries : entries[e].key = k

EntriesInv ==
  /\ entries \in [DOMAIN entries -> [key : Keys, value : Nat \ {0}]]
  /\ allocated \in 0..MaxEntries
  /\ DOMAIN entries \subseteq 1..allocated
  /\ size = Cardinality(DOMAIN entries)
  /\ dict \in [Keys -> Nat]
  /\ grown \in BOOLEAN /\ disturbed \in BOOLEAN
  /\ disturbed => grown

\* The inductive invariant.
TableInv ==
  /\ EntriesInv
  /\ Chains(capacity, buckets)
  /\ ~disturbed => Sound(capacity, buckets)
  /\ ~grown => Exact(capacity, buckets)
  /\ 4 * size <= 3 * capacity

=============================================================================
