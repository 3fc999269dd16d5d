----------------------------- MODULE OrderBook -----------------------------
(***************************************************************************)
(* How market_monitor keeps the order books in step with the trade_orders  *)
(* table of the database (load_orders in trade_service.c).                 *)
(*                                                                         *)
(* Every poll runs one query per book, two books per ticker, and takes the *)
(* open orders created at or after last_order_read_time.  Only when all    *)
(* the queries have run is last_order_read_time set to the time it is      *)
(* then.  Both are local times, which daylight saving, or a clock that is  *)
(* set, takes back.  Orders are placed and cancelled by other programs at  *)
(* any moment, also between two queries and between the last query and the *)
(* timestamp.                                                              *)
(*                                                                         *)
(* A row that has been read goes to the hash table, which replaces the row *)
(* of an order it knows already, and to the end of the list of its price   *)
(* level, which knows nothing of duplicates.  The hash table is a function *)
(* from order ids to the node of the list its entry refers to; a price     *)
(* level is the sequence of the ids in its list.  Nothing leaves a book:   *)
(* fill_order returns 0 before it does anything.  Memory does not run out *)
(* and the hash table does not grow.                                       *)
(***************************************************************************)
EXTENDS Integers, Sequences, FiniteSets

CONSTANTS
  NumBooks,      \* 2 * NUM_TICKERS (8), in the order they are loaded
  MaxPrice,      \* price levels are 1..MaxPrice
  MaxLoad,       \* MAX_LOAD_ORDERS (5000)
  Backload,      \* BACKLOAD_WEEKS in seconds: how far the first poll looks back
  PollSleep,     \* seconds market_monitor sleeps between two polls (2)
  FallBack,      \* the moment at which the local time is set back
  FallBackBy,    \* and by how many seconds (3600 when daylight saving ends)
  QueriesFail,   \* TRUE if the database may fail a query
  MaxOrders,     \* bound: orders placed
  MaxCancels,    \* bound: orders cancelled
  MaxTime        \* bound: the clock stops here

ASSUME OrderBookAssumption ==
  /\ NumBooks \in Nat \ {0}
  /\ MaxPrice \in Nat \ {0}
  /\ MaxLoad \in Nat
  /\ Backload \in Nat \ {0}
  /\ PollSleep \in Nat \ {0}
  /\ FallBack \in Nat
  /\ FallBackBy \in Nat
  /\ QueriesFail \in BOOLEAN
  /\ MaxOrders \in Nat
  /\ MaxCancels \in Nat
  /\ MaxTime \in Nat

VARIABLES
  clock,                 \* the seconds that have passed
  orders,                \* the table: orders[id] is the row of order id
  last_order_read_time,  \* service->last_order_read_time
  poll,                  \* where market_monitor is in its poll
  poll_end,              \* when the last poll ended and the sleep began
  book,                  \* the book being loaded
  rows,                  \* rows of the query still to be put in the book
  ht_orders,             \* service->ht_orders: the node (ref) of each order
  levels,                \* the price levels of each book
  missable               \* history: orders a poll had a reason not to read

tableVars == <<clock, orders>>
pollVars  == <<last_order_read_time, poll, poll_end, book, rows>>
bookVars  == <<ht_orders, levels>>
vars == <<tableVars, pollVars, bookVars, missable>>

Books  == 1..NumBooks
Prices == 1..MaxPrice
Ids    == 1..MaxOrders
Placed == 1..Len(orders)

-----------------------------------------------------------------------------

Init ==
  /\ clock = 1
  /\ orders = <<>>
  /\ last_order_read_time = 0
  /\ poll = "down"
  /\ poll_end = 0
  /\ book = 1
  /\ rows = <<>>
  /\ ht_orders = <<>>
  /\ levels = [b \in Books |-> [p \in Prices |-> <<>>]]
  /\ missable = {}

\* This poll has run the query of book b.
Loaded(b) == \/ poll = "stamp"
             \/ poll \in {"query", "insert"} /\ b < book
             \/ poll = "insert" /\ b = book

\* localtime: what the clocks on the wall show at moment t.
LocalTime(t) == IF t < FallBack THEN t ELSE t - FallBackBy

\* db_timestamp: the local time it was some seconds ago.
Timestamp(ago) == LocalTime(clock - ago)

\* The local time has not been set back yet.
Steady == clock < FallBack

\* An order that is placed now may be too late for this poll, which has queried
\* its book, and is then too old for the next one; or it is too old already,
\* since it carries a local time before the one the last poll ended at.
PlacedTooLate(b) == Loaded(b) \/ Timestamp(0) < last_order_read_time

\* Other programs: an order is placed, and created now.
PlaceOrder(b, p) ==
  /\ Len(orders) < MaxOrders
  /\ orders' = Append(orders, [book |-> b, price |-> p,
                               created_at |-> Timestamp(0), open |-> TRUE])
  /\ missable' = IF PlacedTooLate(b) THEN missable \cup {Len(orders) + 1} ELSE missable
  /\ UNCHANGED <<clock, pollVars, bookVars>>

\* Other programs: an order is cancelled.  No handler tells the service.
CancelOrder(o) ==
  /\ orders[o].open
  /\ Cardinality({q \in Placed : ~orders[q].open}) < MaxCancels
  /\ orders' = [orders EXCEPT ![o].open = FALSE]
  /\ UNCHANGED <<clock, pollVars, bookVars, missable>>

Tick ==
  /\ clock < MaxTime
  /\ clock' = clock + 1
  /\ UNCHANGED <<orders, pollVars, bookVars, missable>>

-----------------------------------------------------------------------------

\* A poll starts with the first book.
StartLoading ==
  /\ poll' = "query"
  /\ book' = 1

\* init_service: the first poll goes back Backload seconds.  Orders that are
\* older will never be read.
StartService ==
  /\ poll = "down"
  /\ last_order_read_time' = Timestamp(Backload)
  /\ StartLoading
  /\ missable' = {o \in Placed : orders[o].created_at < Timestamp(Backload)}
  /\ UNCHANGED <<tableVars, poll_end, rows, bookVars>>

\* Mutant: the poll starts without sleeping first.
WakeUp_NoSleep ==
  /\ poll = "sleep"
  /\ StartLoading
  /\ UNCHANGED <<tableVars, last_order_read_time, poll_end, rows, bookVars, missable>>

\* sleep(2) returns, whatever the local time is, and market_monitor calls
\* load_orders.
WakeUp ==
  /\ poll = "sleep"
  /\ clock >= poll_end + PollSleep
  /\ StartLoading
  /\ UNCHANGED <<tableVars, last_order_read_time, poll_end, rows, bookVars, missable>>

\* Mutant: orders created in the second of the last poll are not read.
Matching_Strict(b) ==
  {o \in Placed : /\ orders[o].book = b
                  /\ orders[o].open
                  /\ orders[o].created_at > last_order_read_time}

\* WHERE side = ... and ticker = ... and status = 'O' and created_at >= ...
Matching(b) ==
  {o \in Placed : /\ orders[o].book = b
                  /\ orders[o].open
                  /\ orders[o].created_at >= last_order_read_time}

\* Mutant: ORDER BY without created_at.
Before_PriceOnly(o, q) ==
  IF orders[o].book % 2 = 1 THEN orders[o].price < orders[q].price
                            ELSE orders[o].price > orders[q].price

\* ORDER BY price, created_at ASC: buy books (the odd ones) by ascending
\* price, sell books by descending price.
Before(o, q) ==
  IF orders[o].price = orders[q].price
    THEN orders[o].created_at < orders[q].created_at
  ELSE IF orders[o].book % 2 = 1 THEN orders[o].price < orders[q].price
  ELSE orders[o].price > orders[q].price

\* s is what the query of book b may return: matching orders in order, the
\* last ones left out if there are more than LIMIT.
IsQueryResult(s, b) ==
  LET read == {s[i] : i \in 1..Len(s)} IN
    /\ read \subseteq Matching(b)
    /\ \A i, j \in 1..Len(s) : i < j => s[i] # s[j] /\ ~Before(s[j], s[i])
    /\ Len(s) <= MaxLoad
    /\ read # Matching(b) => Len(s) = MaxLoad
    /\ \A o \in Matching(b) \ read, q \in read : ~Before(o, q)

\* Mutant: one book too many.
NextBook_PastEnd ==
  IF book <= NumBooks THEN book' = book + 1 /\ poll' = "query"
                      ELSE UNCHANGED book /\ poll' = "stamp"

\* After a book comes the next one, after the last one the timestamp.
NextBook ==
  IF book < NumBooks THEN book' = book + 1 /\ poll' = "query"
                     ELSE UNCHANGED book /\ poll' = "stamp"

\* load_orders_helper: the query succeeds.
QueryBook ==
  /\ poll = "query"
  /\ \E n \in 0..Len(orders) : \E s \in [1..n -> Placed] :
       /\ IsQueryResult(s, book)
       /\ rows' = s
       /\ missable' = missable \cup (Matching(book) \ {s[i] : i \in 1..n})
       /\ IF n = 0 THEN NextBook ELSE poll' = "insert" /\ UNCHANGED book
  /\ UNCHANGED <<tableVars, last_order_read_time, poll_end, bookVars>>

\* load_orders_helper: the query fails.  It says "Found no new orders" and
\* returns 1 all the same, so the poll goes on as if it had found none.
QueryFails ==
  /\ QueriesFail
  /\ poll = "query"
  /\ missable' = missable \cup Matching(book)
  /\ NextBook
  /\ UNCHANGED <<tableVars, last_order_read_time, poll_end, rows, bookVars>>

\* The list order o belongs in, and that list with o at its end.
Level(o) == levels[orders[o].book][orders[o].price]
Listed(o) == Append(Level(o), o)

\* Mutant: the entry of an order the hash table knows keeps its reference.
HtPut_KeepsRef(o, node) ==
  [q \in DOMAIN ht_orders \cup {o} |->
     IF q \in DOMAIN ht_orders THEN ht_orders[q] ELSE node]

\* The hash table with an entry for o that refers to node.  An entry o had
\* before is the one that is updated.
HtPut(o, node) ==
  [q \in DOMAIN ht_orders \cup {o} |-> IF q = o THEN node ELSE ht_orders[q]]

\* One row: ht_put, then rbt_insert at the end of the list of its price, whose
\* callback ht_node_to_dll_node makes the entry refer to the new node.
InsertRow ==
  /\ poll = "insert"
  /\ LET o == Head(rows) IN
       /\ levels' = [levels EXCEPT ![orders[o].book][orders[o].price] = Listed(o)]
       /\ ht_orders' = HtPut(o, Len(Listed(o)))
  /\ rows' = Tail(rows)
  /\ IF Len(rows) = 1 THEN NextBook ELSE UNCHANGED <<book, poll>>
  /\ UNCHANGED <<tableVars, last_order_read_time, poll_end, missable>>

\* load_orders: the timestamp, once all the books have been loaded.
StampReadTime ==
  /\ poll = "stamp"
  /\ last_order_read_time' = Timestamp(0)
  /\ poll' = "sleep"
  /\ poll_end' = clock
  /\ UNCHANGED <<tableVars, book, rows, bookVars, missable>>

-----------------------------------------------------------------------------

PollStep == WakeUp \/ QueryBook \/ QueryFails \/ InsertRow \/ StampReadTime

Next ==
  \/ \E b \in Books, p \in Prices : PlaceOrder(b, p)
  \/ \E o \in Placed : CancelOrder(o)
  \/ Tick
  \/ StartService
  \/ PollStep

SafeSpec == Init /\ [][Next]_vars

\* Time passes, and market_monitor is scheduled.
Spec == SafeSpec /\ WF_vars(PollStep) /\ WF_vars(Tick)

-----------------------------------------------------------------------------

Row == [book : Books, price : Prices, created_at : Int, open : BOOLEAN]

TypeOK ==
  /\ clock \in Nat
  /\ orders \in Seq(Row) /\ Len(orders) <= MaxOrders
  /\ last_order_read_time \in Int
  /\ poll \in {"down", "query", "insert", "stamp", "sleep"}
  /\ poll_end \in Nat
  /\ book \in Books
  /\ rows \in Seq(Placed)
  /\ poll = "insert" <=> rows # <<>>
  /\ levels \in [Books -> [Prices -> Seq(Placed)]]
  /\ DOMAIN ht_orders \subseteq Placed
  /\ missable \subseteq Placed

\* As long as the local time has not been set back, the orders at a price are
\* listed by the time they were placed, over any number of polls and although
\* each poll reads again what was created in the second the last one ended.
ListedByTime ==
  Steady =>
    \A b \in Books, p \in Prices :
      LET s == levels[b][p] IN
        \A i, j \in 1..Len(s) :
          i < j => orders[s[i]].created_at <= orders[s[j]].created_at

\* Where order o is listed, and how often it may be.
ListedAt(o) == {i \in 1..Len(Level(o)) : Level(o)[i] = o}
Unlisted(o) == ListedAt(o) = {}
ListedAtMostOnce(o) == ~\E i, j \in ListedAt(o) : i < j
ListedAtMostTwice(o) == ~\E i, j, k \in ListedAt(o) : i < j /\ j < k

\* As long as the local time has not been set back, an order may be listed
\* twice, when it was created in the second a poll ended, but never more often:
\* the sleep keeps two polls from ending in the same second.  Once the time has
\* been set back, every poll until it has caught up reads the order again.
ListedTwiceAtMost == Steady => \A o \in Placed : ListedAtMostTwice(o)

\* The hash table and the books hold the same orders, and an entry refers to
\* the last node of its order.
TableMatchesBooks ==
  /\ \A o \in DOMAIN ht_orders :
       /\ ht_orders[o] \in 1..Len(Level(o))
       /\ Level(o)[ht_orders[o]] = o
       /\ \A i \in 1..Len(Level(o)) : Level(o)[i] = o => i <= ht_orders[o]
  /\ \A b \in Books, p \in Prices : \A i \in 1..Len(levels[b][p]) :
       levels[b][p][i] \in DOMAIN ht_orders

\* There are five ways for an open order that is too old for the next poll not
\* to be in the books: when the service started it was older than
\* BACKLOAD_WEEKS; a query failed; a query was cut short by its LIMIT; the order
\* was placed between the query of its book and the end of that poll; or it was
\* placed after the local time had been set back, with a time before the one
\* the last poll ended at.
NothingElseMissed ==
  poll = "sleep" =>
    \A o \in Placed :
      orders[o].open /\ orders[o].created_at < last_order_read_time
        => o \in DOMAIN ht_orders \cup missable

\* An order that is in the table in time for one more poll is read, unless it
\* is cancelled or missable.
OrderRead ==
  \A o \in Ids :
    (/\ poll # "down"
     /\ o \in Placed
     /\ clock + PollSleep <= MaxTime)
    ~> (\/ o \in DOMAIN ht_orders \cup missable
        \/ o \in Placed /\ ~orders[o].open)

\* Every open order that is too old for the next poll is in the books.
EveryOrderRead ==
  poll = "sleep" =>
    \A o \in Placed :
      orders[o].open /\ orders[o].created_at < last_order_read_time
        => o \in DOMAIN ht_orders

\* Nothing else happens to the books than that orders are loaded.
Book == INSTANCE PriceLevels
        WITH Orders <- Ids, Levels <- Books \X Prices,
             levels <- [l \in Books \X Prices |-> levels[l[1]][l[2]]],
             refs <- ht_orders
BookSpec == Book!Spec

-----------------------------------------------------------------------------
(* Why these hold.                                                          *)

\* The orders whose rows are still to be put in the book.
Pending == {rows[i] : i \in 1..Len(rows)}

\* As long as the local time has not been set back, a poll begins at a later
\* one than the last poll ended at.
ClockInv ==
  Steady =>
    /\ \A o \in Placed : orders[o].created_at <= clock
    /\ last_order_read_time <= clock
    /\ poll \in {"query", "insert", "stamp"} => last_order_read_time < clock
    /\ poll = "sleep" => last_order_read_time = poll_end

\* A level holds orders of its book and price, none before the first poll, and
\* none newer than the last poll until this one gets to its book.
LevelsInv ==
  \A b \in Books, p \in Prices : \A i \in 1..Len(levels[b][p]) :
    LET row == orders[levels[b][p][i]] IN
      /\ row.book = b /\ row.price = p
      /\ poll # "down"
      /\ Steady /\ ~Loaded(b) => row.created_at <= last_order_read_time

\* The rows are different orders of the book being loaded, in the order of the
\* query, and none is older than what is listed already at its price.
RowsInv ==
  \A i \in 1..Len(rows) :
    /\ orders[rows[i]].book = book
    /\ orders[rows[i]].created_at >= last_order_read_time
    /\ \A j \in 1..Len(rows) : i < j => rows[i] # rows[j] /\ ~Before(rows[j], rows[i])
    /\ Steady => \A k \in 1..Len(Level(rows[i])) :
         orders[Level(rows[i])[k]].created_at <= orders[rows[i]].created_at

\* How often an order is listed follows from when it was created.  In the
\* second of the last poll it may have been read by that poll and is read
\* again by this one; before that second no poll reads it any more, and after
\* it no poll has read it yet.
CountInv ==
  Steady =>
    \A o \in Placed :
      LET created == orders[o].created_at IN
        IF Loaded(orders[o].book)
          THEN /\ ListedAtMostTwice(o)
               /\ created < last_order_read_time => o \notin Pending
               /\ created = last_order_read_time /\ o \in Pending => ListedAtMostOnce(o)
               /\ created > last_order_read_time => ListedAtMostOnce(o)
               /\ created > last_order_read_time /\ o \in Pending => Unlisted(o)
          ELSE /\ ListedAtMostTwice(o)
               /\ created = last_order_read_time => ListedAtMostOnce(o)
               /\ created > last_order_read_time => Unlisted(o)

\* An order that is too old for the next poll, or whose book this poll is done
\* with, is in the books, will be when this poll has dealt with its rows, or is
\* one the polls had a reason not to read.
AccountedFor ==
  poll # "down" =>
    \A o \in Placed :
      /\ orders[o].open
      /\ orders[o].created_at < last_order_read_time \/ Loaded(orders[o].book)
      => o \in DOMAIN ht_orders \cup missable \cup Pending

\* What is true of every state in which the monitor can be.  TableMatchesBooks
\* needs no help; the other three properties do.
BookInv ==
  /\ TypeOK
  /\ ClockInv
  /\ LevelsInv
  /\ RowsInv
  /\ ListedByTime
  /\ CountInv
  /\ TableMatchesBooks
  /\ AccountedFor

=============================================================================
