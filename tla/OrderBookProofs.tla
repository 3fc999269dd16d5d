-------------------------- MODULE OrderBookProofs --------------------------
(***************************************************************************)
(* Proofs about the order books, for every number of books and prices,     *)
(* every LIMIT, any queries that fail, any number of orders placed and     *)
(* cancelled at any time, and a local time set back at any moment.         *)
(***************************************************************************)
EXTENDS OrderBook, TLAPS

-----------------------------------------------------------------------------
(* Sequences and orders.                                                    *)

LEMMA SeqOfMore ==
  ASSUME NEW S, NEW T, S \subseteq T, NEW s \in Seq(S)
  PROVE  s \in Seq(T)
  OBVIOUS

LEMMA SeqElement ==
  ASSUME NEW S, NEW s \in Seq(S), NEW i \in 1..Len(s)
  PROVE  s[i] \in S
  OBVIOUS

LEMMA AppendElements ==
  ASSUME NEW S, NEW s \in Seq(S), NEW x \in S
  PROVE  /\ Append(s, x) \in Seq(S)
         /\ Len(Append(s, x)) = Len(s) + 1
         /\ \A i \in 1..Len(s) : Append(s, x)[i] = s[i]
         /\ Append(s, x)[Len(s) + 1] = x
  OBVIOUS

\* An order that is placed stays, with everything but its status.
OrdersKept ==
  /\ Placed \subseteq Placed'
  /\ \A o \in Placed : /\ orders'[o].book = orders[o].book
                       /\ orders'[o].price = orders[o].price
                       /\ orders'[o].created_at = orders[o].created_at

LEMMA RowType ==
  ASSUME TypeOK, NEW o \in Placed
  PROVE  /\ orders[o].book \in Books
         /\ orders[o].price \in Prices
         /\ orders[o].created_at \in Int
         /\ orders[o].open \in BOOLEAN
         /\ orders[o] \in Row
<1>1. orders[o] \in Row
  BY SeqElement DEF TypeOK, Placed
<1> QED
  BY <1>1 DEF Row

LEMMA LevelType ==
  ASSUME TypeOK, NEW b \in Books, NEW p \in Prices
  PROVE  /\ levels[b][p] \in Seq(Placed)
         /\ Len(levels[b][p]) \in Nat
         /\ \A i \in 1..Len(levels[b][p]) : levels[b][p][i] \in Placed
<1>1. levels[b][p] \in Seq(Placed)
  BY DEF TypeOK
<1> QED
  BY <1>1, SeqElement

LEMMA OwnLevelType ==
  ASSUME TypeOK, NEW o \in Placed
  PROVE  /\ Level(o) \in Seq(Placed)
         /\ Len(Level(o)) \in Nat
         /\ \A i \in 1..Len(Level(o)) : Level(o)[i] \in Placed
<1>1. orders[o].book \in Books /\ orders[o].price \in Prices
  BY RowType
<1> QED
  BY <1>1, LevelType DEF Level

\* A moment before the local time is set back.
LEMMA SteadyTime == TypeOK /\ Steady => \A ago \in Nat : Timestamp(ago) = clock - ago
  BY OrderBookAssumption DEF TypeOK, Steady, Timestamp, LocalTime

LEMMA TimeType == TypeOK => \A ago \in Nat : Timestamp(ago) \in Int
  BY OrderBookAssumption DEF TypeOK, Timestamp, LocalTime

LEMMA SteadyBefore == TypeOK /\ [Next]_vars /\ Steady' => Steady
<1> SUFFICES ASSUME TypeOK, [Next]_vars, Steady'
             PROVE  Steady
  OBVIOUS
<1>1. clock' = clock \/ clock' = clock + 1
  BY DEF Next, PlaceOrder, CancelOrder, Tick, StartService, PollStep, WakeUp,
         QueryBook, QueryFails, InsertRow, StampReadTime, tableVars, vars
<1> QED
  BY <1>1, OrderBookAssumption DEF Steady, TypeOK

\* A step of another program places an order or changes the status of one.
LEMMA PlacedRow ==
  ASSUME TypeOK, NEW b \in Books, NEW p \in Prices, PlaceOrder(b, p)
  PROVE  /\ orders' \in Seq(Row)
         /\ Len(orders') = Len(orders) + 1
         /\ Placed' = Placed \cup {Len(orders) + 1}
         /\ \A o \in Placed : orders'[o] = orders[o]
         /\ orders'[Len(orders) + 1] =
              [book |-> b, price |-> p, created_at |-> Timestamp(0), open |-> TRUE]
         /\ OrdersKept
<1> DEFINE new == [book |-> b, price |-> p, created_at |-> Timestamp(0), open |-> TRUE]
<1>1. new \in Row
  BY TimeType DEF Row
<1>2. orders' = Append(orders, new) /\ orders \in Seq(Row)
  BY DEF PlaceOrder, TypeOK
<1> HIDE DEF new
<1>3. /\ orders' \in Seq(Row)
      /\ Len(orders') = Len(orders) + 1
      /\ \A i \in 1..Len(orders) : orders'[i] = orders[i]
      /\ orders'[Len(orders) + 1] = new
  BY <1>1, <1>2
<1>4. Len(orders) \in Nat
  BY <1>2
<1>5. Placed' = Placed \cup {Len(orders) + 1}
  BY <1>3, <1>4 DEF Placed
<1> QED
  BY <1>3, <1>5 DEF Placed, OrdersKept, new

LEMMA CancelledRow ==
  ASSUME TypeOK, NEW o \in Placed, CancelOrder(o)
  PROVE  /\ orders' \in Seq(Row)
         /\ Len(orders') = Len(orders)
         /\ Placed' = Placed
         /\ \A q \in Placed : orders'[q] = [orders[q] EXCEPT !.open = orders'[q].open]
         /\ \A q \in Placed : orders'[q].open => orders[q].open
         /\ OrdersKept
<1> DEFINE row == [orders[o] EXCEPT !.open = FALSE]
<1>1. orders[o] \in Row /\ row \in Row
  BY RowType DEF Row
<1>2. orders' = [orders EXCEPT ![o] = row] /\ orders \in Seq(Row)
  BY DEF CancelOrder, TypeOK
<1>3. /\ row.book = orders[o].book /\ row.price = orders[o].price
      /\ row.created_at = orders[o].created_at /\ row.open = FALSE
  BY <1>1 DEF Row
<1>4. row = [orders[o] EXCEPT !.open = row.open]
  BY <1>1 DEF Row
<1> HIDE DEF row
<1>5. /\ orders' \in Seq(Row) /\ Len(orders') = Len(orders)
      /\ \A q \in Placed : orders'[q] = IF q = o THEN row ELSE orders[q]
  BY <1>1, <1>2 DEF Placed
<1>6. Placed' = Placed
  BY <1>5 DEF Placed
<1>7. \A q \in Placed : orders[q] = [orders[q] EXCEPT !.open = orders[q].open]
  BY RowType DEF Row
<1>8. \A q \in Placed : orders'[q] = [orders[q] EXCEPT !.open = orders'[q].open]
  BY <1>4, <1>5, <1>7
<1> QED
  BY <1>3, <1>5, <1>6, <1>8 DEF OrdersKept

LEMMA OrdersStay == TypeOK /\ UNCHANGED orders => Placed' = Placed /\ OrdersKept
  BY DEF Placed, OrdersKept

LEMMA OrdersStep == TypeOK /\ [Next]_vars => OrdersKept
<1> SUFFICES ASSUME TypeOK, [Next]_vars
             PROVE  OrdersKept
  OBVIOUS
<1>1. CASE \E b \in Books, p \in Prices : PlaceOrder(b, p)
  BY <1>1, PlacedRow
<1>2. CASE \E o \in Placed : CancelOrder(o)
  BY <1>2, CancelledRow
<1>3. CASE UNCHANGED orders
  BY <1>3, OrdersStay
<1>4. CASE Tick \/ StartService \/ PollStep \/ UNCHANGED vars
  <2>1. UNCHANGED orders
    BY <1>4 DEF Tick, StartService, PollStep, WakeUp, QueryBook, QueryFails,
                InsertRow, StampReadTime, tableVars, vars
  <2> QED
    BY <2>1, <1>3
<1> QED
  BY <1>1, <1>2, <1>4 DEF Next


-----------------------------------------------------------------------------
(* The steps of market_monitor.                                             *)

LEMMA NextBookType ==
  ASSUME book \in Books, NextBook
  PROVE  /\ book' \in Books
         /\ poll' \in {"query", "stamp"}
         /\ poll' = "query" => book' = book + 1
         /\ poll' = "stamp" => book = NumBooks
  BY OrderBookAssumption DEF NextBook, Books

\* The book a poll was at is loaded, and no other book is that was not.
LEMMA NextBookLoads ==
  ASSUME book \in Books, NextBook, poll \in {"query", "insert"},
         NEW b \in Books
  PROVE  Loaded(b)' <=> Loaded(b) \/ b = book
  BY OrderBookAssumption DEF NextBook, Books, Loaded

LEMMA StartLoads ==
  ASSUME StartLoading, NEW b \in Books
  PROVE  ~Loaded(b)'
  BY DEF StartLoading, Loaded, Books

LEMMA QueriedRows ==
  ASSUME TypeOK, QueryBook
  PROVE  /\ rows = <<>> /\ poll = "query"
         /\ rows' \in Seq(Placed) /\ Placed' = Placed
         /\ IsQueryResult(rows', book)
         /\ missable' = missable \cup (Matching(book) \ Pending')
         /\ \/ rows' = <<>> /\ NextBook
            \/ rows' # <<>> /\ poll' = "insert" /\ UNCHANGED book
<1>1. poll = "query" /\ rows = <<>>
  BY DEF QueryBook, TypeOK
<1>2. PICK n \in 0..Len(orders) : \E s \in [1..n -> Placed] :
         /\ IsQueryResult(s, book)
         /\ rows' = s
         /\ missable' = missable \cup (Matching(book) \ {s[i] : i \in 1..n})
         /\ IF n = 0 THEN NextBook ELSE poll' = "insert" /\ UNCHANGED book
  BY DEF QueryBook
<1>3. rows' \in [1..n -> Placed] /\ n \in Nat
  BY <1>2 DEF TypeOK
<1>4. rows' \in Seq(Placed) /\ Len(rows') = n
  BY <1>3
<1>5. n = 0 <=> rows' = <<>>
  BY <1>3, <1>4
<1>6. /\ IsQueryResult(rows', book)
      /\ missable' = missable \cup (Matching(book) \ {rows'[i] : i \in 1..n})
      /\ IF n = 0 THEN NextBook ELSE poll' = "insert" /\ UNCHANGED book
  BY <1>2
<1>7. Pending' = {rows'[i] : i \in 1..n}
  BY <1>4 DEF Pending
<1>8. Placed' = Placed
  BY DEF QueryBook, tableVars, Placed
<1> QED
  BY <1>1, <1>4, <1>5, <1>6, <1>7, <1>8

\* Matching orders are orders of the book and of this poll.
LEMMA QueriedRow ==
  ASSUME TypeOK, QueryBook, NEW i \in 1..Len(rows')
  PROVE  /\ rows'[i] \in Matching(book)
         /\ \A j \in 1..Len(rows') :
              i < j => rows'[i] # rows'[j] /\ ~Before(rows'[j], rows'[i])
  BY QueriedRows DEF IsQueryResult

LEMMA InsertedRow ==
  ASSUME TypeOK, InsertRow, NEW o, o = rows[1]
  PROVE  /\ o \in Placed
         /\ Placed' = Placed /\ orders' = orders
         /\ Len(rows) \in Nat \ {0}
         /\ rows' \in Seq(Placed)
         /\ Len(rows') = Len(rows) - 1
         /\ \A i \in 1..Len(rows') : rows'[i] = rows[i + 1] /\ i + 1 \in 1..Len(rows)
         /\ levels' = [levels EXCEPT ![orders[o].book][orders[o].price] = Listed(o)]
         /\ ht_orders' = HtPut(o, Len(Listed(o)))
         /\ rows' = <<>> => NextBook
         /\ rows' # <<>> => UNCHANGED <<book, poll>>
<1>1. rows \in Seq(Placed) /\ rows # <<>>
  BY DEF InsertRow, TypeOK
<1>2. o = Head(rows) /\ rows' = Tail(rows)
  BY <1>1 DEF InsertRow
<1>3. /\ o \in Placed
      /\ Len(rows) \in Nat \ {0}
      /\ rows' \in Seq(Placed)
      /\ Len(rows') = Len(rows) - 1
      /\ \A i \in 1..Len(rows') : rows'[i] = rows[i + 1] /\ i + 1 \in 1..Len(rows)
  BY <1>1, <1>2
<1>4. rows' = <<>> <=> Len(rows) = 1
  BY <1>3
<1>5. Placed' = Placed /\ orders' = orders
  BY DEF InsertRow, tableVars, Placed
<1> QED
  BY <1>2, <1>3, <1>4, <1>5 DEF InsertRow

\* The order goes to the end of the list of its price, and the other lists
\* stay as they are.
LEMMA InsertedLevel ==
  ASSUME TypeOK, InsertRow, NEW o, o = rows[1],
         NEW b \in Books, NEW p \in Prices
  PROVE  /\ levels'[b][p] = IF b = orders[o].book /\ p = orders[o].price
                              THEN Append(levels[b][p], o) ELSE levels[b][p]
         /\ levels'[b][p] \in Seq(Placed)
<1>1. /\ levels' = [levels EXCEPT ![orders[o].book][orders[o].price] = Listed(o)]
      /\ o \in Placed
  BY InsertedRow
<1>2. levels \in [Books -> [Prices -> Seq(Placed)]]
  BY DEF TypeOK
<1>3. Listed(o) = Append(levels[orders[o].book][orders[o].price], o)
  BY DEF Listed, Level
<1>4. orders[o].book \in Books /\ orders[o].price \in Prices
  BY <1>1, RowType
<1> HIDE DEF Listed
<1>5. levels'[b][p] = IF b = orders[o].book /\ p = orders[o].price
                        THEN Listed(o) ELSE levels[b][p]
  BY <1>1, <1>2, <1>4
<1>6. levels[b][p] \in Seq(Placed) /\ Append(levels[b][p], o) \in Seq(Placed)
  BY <1>1, <1>2
<1>7. levels'[b][p] = IF b = orders[o].book /\ p = orders[o].price
                        THEN Append(levels[b][p], o) ELSE levels[b][p]
  BY <1>3, <1>5
<1> QED
  BY <1>6, <1>7

\* The list order o belongs in after the step.
LevelThen(o) == levels'[orders'[o].book][orders'[o].price]

LEMMA InsertedOwnLevel ==
  ASSUME TypeOK, InsertRow, NEW o, o = rows[1], NEW q \in Placed
  PROVE  LevelThen(q) = IF orders[q].book = orders[o].book /\ orders[q].price = orders[o].price
                           THEN Append(Level(q), o) ELSE Level(q)
<1>1. orders[q].book \in Books /\ orders[q].price \in Prices
  BY RowType
<1>2. orders' = orders
  BY InsertedRow
<1> QED
  BY <1>1, <1>2, InsertedLevel DEF Level, LevelThen

-----------------------------------------------------------------------------
(* Types.                                                                   *)

LEMMA TypeInit == Init => TypeOK
<1> SUFFICES ASSUME Init
             PROVE  TypeOK
  OBVIOUS
<1>1. 1 \in Books
  BY OrderBookAssumption DEF Books
<1>2. levels \in [Books -> [Prices -> Seq(Placed)]]
  BY DEF Init
<1>3. DOMAIN ht_orders = {}
  BY DEF Init
<1> QED
  BY <1>1, <1>2, <1>3, OrderBookAssumption DEF Init, TypeOK

LEMMA LevelsGrow ==
  ASSUME TypeOK, Placed \subseteq Placed', UNCHANGED bookVars
  PROVE  levels' \in [Books -> [Prices -> Seq(Placed')]]
<1>1. levels \in [Books -> [Prices -> Seq(Placed)]]
  BY DEF TypeOK
<1>2. \A b \in Books, p \in Prices : levels[b][p] \in Seq(Placed')
  BY <1>1, SeqOfMore
<1>3. levels \in [Books -> [Prices -> Seq(Placed')]]
  BY <1>1, <1>2
<1> QED
  BY <1>3 DEF bookVars

\* One case per action.
LEMMA TypeStep == TypeOK /\ [Next]_vars => TypeOK'
<1> SUFFICES ASSUME TypeOK, [Next]_vars
             PROVE  TypeOK'
  OBVIOUS
<1> USE DEF TypeOK
<1>1. ASSUME NEW b \in Books, NEW p \in Prices, PlaceOrder(b, p)
      PROVE  TypeOK'
  <2>1. /\ orders' \in Seq(Row) /\ Len(orders') = Len(orders) + 1
        /\ Placed' = Placed \cup {Len(orders) + 1}
    BY <1>1, PlacedRow
  <2>2. levels' \in [Books -> [Prices -> Seq(Placed')]]
    BY <1>1, <2>1, LevelsGrow DEF PlaceOrder
  <2>3. rows' \in Seq(Placed')
    BY <1>1, <2>1, SeqOfMore DEF PlaceOrder, pollVars
  <2>4. /\ Len(orders') <= MaxOrders
        /\ missable' \subseteq Placed'
        /\ UNCHANGED <<clock, pollVars, bookVars>>
    BY <1>1, <2>1, OrderBookAssumption DEF PlaceOrder
  <2> QED
    BY <2>1, <2>2, <2>3, <2>4 DEF pollVars, bookVars
<1>2. ASSUME NEW o \in Placed, CancelOrder(o)
      PROVE  TypeOK'
  <2>1. orders' \in Seq(Row) /\ Len(orders') = Len(orders) /\ Placed' = Placed
    BY <1>2, CancelledRow
  <2> QED
    BY <1>2, <2>1 DEF CancelOrder, pollVars, bookVars
<1>3. CASE Tick
  BY <1>3 DEF Tick, pollVars, bookVars, Placed
<1>4. CASE StartService
  <2>1. 1 \in Books
    BY OrderBookAssumption DEF Books
  <2>2. Timestamp(Backload) \in Int
    BY TimeType, OrderBookAssumption
  <2>3. missable' \subseteq Placed
    BY <1>4 DEF StartService
  <2> QED
    BY <1>4, <2>1, <2>2, <2>3 DEF StartService, StartLoading, tableVars, bookVars, Placed
<1>5. CASE WakeUp
  <2>1. 1 \in Books
    BY OrderBookAssumption DEF Books
  <2> QED
    BY <1>5, <2>1 DEF WakeUp, StartLoading, tableVars, bookVars, Placed
<1>6. CASE QueryBook
  <2>1. /\ rows' \in Seq(Placed) /\ Placed' = Placed
        /\ missable' = missable \cup (Matching(book) \ Pending')
        /\ \/ rows' = <<>> /\ NextBook
           \/ rows' # <<>> /\ poll' = "insert" /\ UNCHANGED book
    BY <1>6, QueriedRows
  <2>2. Matching(book) \subseteq Placed
    BY DEF Matching
  <2>3. UNCHANGED <<tableVars, last_order_read_time, poll_end, bookVars>>
    BY <1>6 DEF QueryBook
  <2>4. /\ book' \in Books /\ poll' \in {"query", "insert", "stamp"}
        /\ poll' = "insert" <=> rows' # <<>>
    BY <2>1, NextBookType
  <2> QED
    BY <2>1, <2>2, <2>3, <2>4 DEF tableVars, bookVars
<1>7. CASE QueryFails
  <2>1. Matching(book) \subseteq Placed
    BY DEF Matching
  <2>2. book' \in Books /\ poll' \in {"query", "stamp"}
    BY <1>7, NextBookType DEF QueryFails
  <2> QED
    BY <1>7, <2>1, <2>2 DEF QueryFails, tableVars, bookVars, Placed
<1>8. CASE InsertRow
  <2> DEFINE o == rows[1]
  <2>1. /\ o \in Placed /\ Placed' = Placed
        /\ rows' \in Seq(Placed)
        /\ levels' = [levels EXCEPT ![orders[o].book][orders[o].price] = Listed(o)]
        /\ ht_orders' = HtPut(o, Len(Listed(o)))
        /\ rows' = <<>> => NextBook
        /\ rows' # <<>> => UNCHANGED <<book, poll>>
    BY <1>8, InsertedRow
  <2>2. \A b \in Books, p \in Prices : levels'[b][p] \in Seq(Placed)
    BY <1>8, InsertedLevel
  <2>3. levels' \in [Books -> [Prices -> Seq(Placed)]]
    BY <2>1, <2>2
  <2>4. DOMAIN ht_orders' \subseteq Placed
    BY <2>1 DEF HtPut
  <2>5. UNCHANGED <<tableVars, last_order_read_time, poll_end, missable>> /\ poll = "insert"
    BY <1>8 DEF InsertRow
  <2>6. /\ book' \in Books /\ poll' \in {"query", "insert", "stamp"}
        /\ poll' = "insert" <=> rows' # <<>>
    BY <2>1, <2>5, NextBookType
  <2> QED
    BY <2>1, <2>3, <2>4, <2>5, <2>6 DEF tableVars
<1>9. CASE StampReadTime
  <2>1. Timestamp(0) \in Int
    BY TimeType
  <2> QED
    BY <1>9, <2>1 DEF StampReadTime, tableVars, bookVars, Placed
<1>10. CASE UNCHANGED vars
  BY <1>10 DEF vars, tableVars, pollVars, bookVars, Placed
<1> QED
  BY <1>1, <1>2, <1>3, <1>4, <1>5, <1>6, <1>7, <1>8, <1>9, <1>10 DEF Next, PollStep


-----------------------------------------------------------------------------
(* The clock: until the local time is set back, a poll begins in a later     *)
(* second than the last one ended in.                                        *)

LEMMA ClockStep == TypeOK /\ TypeOK' /\ ClockInv /\ [Next]_vars => ClockInv'
<1> SUFFICES ASSUME TypeOK, TypeOK', ClockInv, [Next]_vars, Steady'
             PROVE  /\ \A o \in Placed' : orders'[o].created_at <= clock'
                    /\ last_order_read_time' <= clock'
                    /\ poll' \in {"query", "insert", "stamp"} => last_order_read_time' < clock'
                    /\ poll' = "sleep" => last_order_read_time' = poll_end'
  BY DEF ClockInv
<1>0. Steady
  BY SteadyBefore
<1>1. /\ clock \in Nat /\ last_order_read_time \in Int
      /\ last_order_read_time <= clock
      /\ \A o \in Placed : orders[o].created_at <= clock
      /\ poll \in {"query", "insert", "stamp"} => last_order_read_time < clock
      /\ poll = "sleep" => last_order_read_time = poll_end
      /\ \A o \in Placed : orders[o].created_at \in Int
  BY <1>0, RowType DEF TypeOK, ClockInv
<1>2. OrdersKept
  BY OrdersStep
<1>3. ASSUME NEW b \in Books, NEW p \in Prices, PlaceOrder(b, p)
      PROVE  /\ \A o \in Placed' : orders'[o].created_at <= clock
             /\ UNCHANGED <<clock, pollVars>>
  <2>1. /\ Placed' = Placed \cup {Len(orders) + 1}
        /\ \A o \in Placed : orders'[o] = orders[o]
        /\ orders'[Len(orders) + 1] =
             [book |-> b, price |-> p, created_at |-> Timestamp(0), open |-> TRUE]
    BY <1>3, PlacedRow
  <2>2. UNCHANGED <<clock, pollVars>>
    BY <1>3 DEF PlaceOrder
  <2>3. Timestamp(0) = clock
    BY <1>0, <1>1, SteadyTime
  <2>4. \A o \in Placed' : orders'[o].created_at <= clock
    BY <1>1, <2>1, <2>3
  <2> QED
    BY <2>2, <2>4
<1>4. CASE \E o \in Placed : CancelOrder(o)
  <2>1. PICK o \in Placed : CancelOrder(o)
    BY <1>4
  <2>2. Placed' = Placed /\ UNCHANGED <<clock, pollVars>>
    BY <2>1, CancelledRow DEF CancelOrder
  <2> QED
    BY <1>1, <1>2, <2>2 DEF OrdersKept, pollVars
<1>5. CASE Tick
  <2>1. Placed' = Placed /\ clock' = clock + 1 /\ UNCHANGED <<orders, pollVars>>
    BY <1>5 DEF Tick, Placed
  <2>2. \A o \in Placed : orders[o].created_at <= clock + 1
    BY <1>1
  <2>3. last_order_read_time < clock + 1
    BY <1>1
  <2> QED
    BY <2>1, <2>2, <2>3, <1>1 DEF pollVars
<1>6. CASE StartService
  <2>1. Placed' = Placed /\ UNCHANGED <<orders, clock>>
    BY <1>6 DEF StartService, tableVars, Placed
  <2>2. Timestamp(Backload) = clock - Backload
    BY <1>0, <1>1, SteadyTime, OrderBookAssumption
  <2>3. last_order_read_time' < clock /\ last_order_read_time' <= clock
    BY <1>1, <1>6, <2>2, OrderBookAssumption DEF StartService
  <2>4. poll' = "query"
    BY <1>6 DEF StartService, StartLoading
  <2> QED
    BY <1>1, <2>1, <2>3, <2>4
<1>7. CASE WakeUp
  <2>1. /\ Placed' = Placed /\ UNCHANGED <<orders, clock, last_order_read_time, poll_end>>
        /\ poll = "sleep" /\ poll' = "query"
    BY <1>7 DEF WakeUp, StartLoading, tableVars, Placed
  <2>2. last_order_read_time < clock
    BY <1>1, <1>7, <2>1, OrderBookAssumption DEF WakeUp
  <2> QED
    BY <1>1, <2>1, <2>2
<1>8. CASE QueryBook \/ QueryFails \/ InsertRow
  <2>1. /\ Placed' = Placed /\ UNCHANGED <<orders, clock, last_order_read_time>>
        /\ poll \in {"query", "insert", "stamp"}
    BY <1>8 DEF QueryBook, QueryFails, InsertRow, tableVars, Placed
  <2>2. poll' # "sleep"
    BY <1>8, NextBookType, QueriedRows, InsertedRow
       DEF QueryFails, InsertRow, TypeOK
  <2> QED
    BY <1>1, <2>1, <2>2
<1>9. CASE StampReadTime
  <2>1. Timestamp(0) = clock
    BY <1>0, <1>1, SteadyTime
  <2>2. /\ Placed' = Placed /\ UNCHANGED <<orders, clock>>
        /\ last_order_read_time' = clock /\ poll' = "sleep" /\ poll_end' = clock
    BY <1>9, <2>1 DEF StampReadTime, tableVars, Placed
  <2> QED
    BY <1>1, <2>2
<1>10. CASE UNCHANGED vars
  BY <1>1, <1>10 DEF vars, tableVars, pollVars, Placed
<1>11. CASE \E b \in Books, p \in Prices : PlaceOrder(b, p)
  BY <1>1, <1>3, <1>11 DEF pollVars
<1> QED
  BY <1>4, <1>5, <1>6, <1>7, <1>8, <1>9, <1>10, <1>11 DEF Next, PollStep


-----------------------------------------------------------------------------
(* The levels.                                                              *)

\* Steps that leave the lists alone.
LEMMA LevelsKept ==
  ASSUME TypeOK, OrdersKept, UNCHANGED levels
  PROVE  /\ \A o \in Placed : Level(o)' = Level(o)
         /\ \A b \in Books, p \in Prices : \A i \in 1..Len(levels[b][p]) :
              /\ levels[b][p][i] \in Placed
              /\ orders'[levels[b][p][i]].book = orders[levels[b][p][i]].book
              /\ orders'[levels[b][p][i]].price = orders[levels[b][p][i]].price
              /\ orders'[levels[b][p][i]].created_at = orders[levels[b][p][i]].created_at
<1>1. \A o \in Placed : Level(o)' = Level(o)
  BY DEF Level, OrdersKept
<1> QED
  BY <1>1, LevelType DEF OrdersKept

\* Steps between which no list changes, and a book that was not loaded is not
\* loaded for another time.
LEMMA LevelsStay ==
  ASSUME TypeOK, OrdersKept, LevelsInv, UNCHANGED levels,
         poll' # "down" \/ poll = "down",
         \A b \in Books : Steady' /\ ~Loaded(b)' =>
           \A p \in Prices : \A i \in 1..Len(levels[b][p]) :
             orders[levels[b][p][i]].created_at <= last_order_read_time'
  PROVE  LevelsInv'
<1> SUFFICES ASSUME NEW b \in Books, NEW p \in Prices, NEW i \in 1..Len(levels[b][p])
             PROVE  /\ orders'[levels[b][p][i]].book = b
                    /\ orders'[levels[b][p][i]].price = p
                    /\ poll' # "down"
                    /\ Steady' /\ ~Loaded(b)' =>
                         orders'[levels[b][p][i]].created_at <= last_order_read_time'
  BY DEF LevelsInv
<1>1. /\ orders'[levels[b][p][i]].book = orders[levels[b][p][i]].book
      /\ orders'[levels[b][p][i]].price = orders[levels[b][p][i]].price
      /\ orders'[levels[b][p][i]].created_at = orders[levels[b][p][i]].created_at
  BY LevelsKept
<1> QED
  BY <1>1 DEF LevelsInv

LEMMA LevelsStep ==
  TypeOK /\ TypeOK' /\ ClockInv /\ RowsInv /\ LevelsInv /\ [Next]_vars => LevelsInv'
<1> SUFFICES ASSUME TypeOK, TypeOK', ClockInv, RowsInv, LevelsInv, [Next]_vars
             PROVE  LevelsInv'
  OBVIOUS
<1>1. OrdersKept
  BY OrdersStep
<1>2. \A b \in Books, p \in Prices : \A i \in 1..Len(levels[b][p]) :
        /\ poll # "down"
        /\ Steady /\ ~Loaded(b) => orders[levels[b][p][i]].created_at <= last_order_read_time
        /\ Steady => orders[levels[b][p][i]].created_at <= clock
  BY LevelType DEF LevelsInv, ClockInv
<1>0. Steady' => Steady
  BY SteadyBefore
<1>3. CASE UNCHANGED <<pollVars, bookVars>>
  <2>1. \A b \in Books : Loaded(b)' = Loaded(b)
    BY <1>3 DEF pollVars, Loaded
  <2>2. UNCHANGED <<levels, poll, last_order_read_time>>
    BY <1>3 DEF pollVars, bookVars
  <2> QED
    BY <1>0, <1>1, <1>2, <2>1, <2>2, LevelsStay
<1>4. CASE StartService
  <2>1. poll = "down" /\ poll' # "down" /\ UNCHANGED levels
    BY <1>4 DEF StartService, StartLoading, bookVars
  <2> QED
    BY <1>0, <1>1, <1>2, <2>1, LevelsStay
<1>5. CASE WakeUp
  <2>1. poll = "sleep" /\ poll' # "down" /\ UNCHANGED <<levels, last_order_read_time>>
    BY <1>5 DEF WakeUp, StartLoading, bookVars
  <2>2. \A b \in Books : ~Loaded(b)
    BY <2>1 DEF Loaded
  <2> QED
    BY <1>0, <1>1, <1>2, <2>1, <2>2, LevelsStay
<1>6. CASE QueryBook \/ QueryFails
  <2>1. poll = "query" /\ UNCHANGED <<levels, last_order_read_time>>
    BY <1>6 DEF QueryBook, QueryFails, bookVars
  <2>2. NextBook \/ (poll' = "insert" /\ book' = book)
    BY <1>6, QueriedRows DEF QueryFails
  <2>3. poll' # "down"
    BY <2>2, NextBookType DEF TypeOK
  <2>4. \A b \in Books : ~Loaded(b)' => ~Loaded(b)
    BY <2>1, <2>2, NextBookLoads DEF TypeOK, Loaded
  <2> QED
    BY <1>0, <1>1, <1>2, <2>1, <2>3, <2>4, LevelsStay
<1>7. CASE InsertRow
  <2> DEFINE o == rows[1]
  <2>1. /\ o \in Placed /\ orders' = orders /\ Len(rows) \in Nat \ {0}
        /\ rows' = <<>> => NextBook
        /\ rows' # <<>> => UNCHANGED <<book, poll>>
    BY <1>7, InsertedRow
  <2>2. poll = "insert" /\ UNCHANGED last_order_read_time
    BY <1>7 DEF InsertRow
  <2>3. poll' # "down"
    BY <2>1, <2>2, NextBookType DEF TypeOK
  <2>4. \A b \in Books : ~Loaded(b)' => ~Loaded(b) /\ b # book
    BY <2>1, <2>2, NextBookLoads DEF TypeOK, Loaded
  <2>5. orders[o].book = book
    BY <2>1 DEF RowsInv
  <2>6. ASSUME NEW b \in Books, NEW p \in Prices, NEW i \in 1..Len(levels'[b][p])
        PROVE  /\ orders[levels'[b][p][i]].book = b
               /\ orders[levels'[b][p][i]].price = p
               /\ Steady' /\ ~Loaded(b)' =>
                    orders[levels'[b][p][i]].created_at <= last_order_read_time
    <3>1. levels[b][p] \in Seq(Placed)
      BY LevelType
    <3>2. levels'[b][p] = IF b = orders[o].book /\ p = orders[o].price
                            THEN Append(levels[b][p], o) ELSE levels[b][p]
      BY <1>7, InsertedLevel
    <3>3. CASE b = orders[o].book /\ p = orders[o].price /\ i = Len(levels[b][p]) + 1
      <4>1. levels'[b][p] = Append(levels[b][p], o)
        BY <3>2, <3>3
      <4>2. Append(levels[b][p], o)[Len(levels[b][p]) + 1] = o
        BY <3>1, <2>1, AppendElements
      <4>3. levels'[b][p][i] = o
        BY <3>3, <4>1, <4>2
      <4> QED
        BY <4>3, <3>3, <2>4, <2>5
    <3>4. CASE ~(b = orders[o].book /\ p = orders[o].price /\ i = Len(levels[b][p]) + 1)
      <4>1. i \in 1..Len(levels[b][p]) /\ levels'[b][p][i] = levels[b][p][i]
        BY <3>1, <3>2, <3>4, <2>1
      <4> QED
        BY <4>1, <1>0, <2>4 DEF LevelsInv
    <3> QED
      BY <3>3, <3>4
  <2> QED
    BY <2>1, <2>2, <2>3, <2>6 DEF LevelsInv
<1>8. CASE StampReadTime
  <2>1. poll = "stamp" /\ poll' = "sleep" /\ UNCHANGED levels
    BY <1>8 DEF StampReadTime, bookVars
  <2>2. Steady => last_order_read_time' = clock
    BY <1>8, SteadyTime DEF StampReadTime, TypeOK
  <2> QED
    BY <1>0, <1>1, <1>2, <2>1, <2>2, LevelsStay
<1>9. CASE \/ \E b \in Books, p \in Prices : PlaceOrder(b, p)
           \/ \E o \in Placed : CancelOrder(o)
           \/ Tick
           \/ UNCHANGED vars
  BY <1>3, <1>9 DEF PlaceOrder, CancelOrder, Tick, vars, pollVars, bookVars
<1> QED
  BY <1>4, <1>5, <1>6, <1>7, <1>8, <1>9 DEF Next, PollStep


-----------------------------------------------------------------------------
(* The rows of a query, and the order of the lists.                         *)

LEMMA BeforeKept ==
  ASSUME TypeOK, OrdersKept, NEW o \in Placed, NEW q \in Placed
  PROVE  Before(o, q)' <=> Before(o, q)
<1>1. /\ orders'[o].book = orders[o].book
      /\ orders'[o].price = orders[o].price
      /\ orders'[o].created_at = orders[o].created_at
      /\ orders'[q].price = orders[q].price
      /\ orders'[q].created_at = orders[q].created_at
  BY DEF OrdersKept
<1> QED
  BY <1>1 DEF Before

LEMMA NotBefore ==
  ASSUME TypeOK, NEW o \in Placed, NEW q \in Placed, ~Before(o, q),
         orders[o].price = orders[q].price
  PROVE  orders[q].created_at <= orders[o].created_at
  BY RowType DEF Before

LEMMA RowsStep ==
  TypeOK /\ TypeOK' /\ LevelsInv /\ RowsInv /\ [Next]_vars => RowsInv'
<1> SUFFICES ASSUME TypeOK, TypeOK', LevelsInv, RowsInv, [Next]_vars
             PROVE  RowsInv'
  OBVIOUS
<1>1. OrdersKept
  BY OrdersStep
<1>2. rows \in Seq(Placed) /\ \A i \in 1..Len(rows) : rows[i] \in Placed
  BY SeqElement DEF TypeOK
<1>0. Steady' => Steady
  BY SteadyBefore
<1>3. CASE rows' = <<>>
  BY <1>3 DEF RowsInv
<1>4. CASE UNCHANGED <<pollVars, bookVars>>
  <2>1. UNCHANGED <<rows, book, last_order_read_time, levels>>
    BY <1>4 DEF pollVars, bookVars
  <2> SUFFICES ASSUME NEW i \in 1..Len(rows)
               PROVE  /\ orders'[rows[i]].book = book
                      /\ orders'[rows[i]].created_at >= last_order_read_time
                      /\ \A j \in 1..Len(rows) :
                           i < j => rows[i] # rows[j] /\ ~Before(rows[j], rows[i])'
                      /\ Steady' => \A k \in 1..Len(Level(rows[i])') :
                           orders'[Level(rows[i])'[k]].created_at <= orders'[rows[i]].created_at
    BY <2>1 DEF RowsInv
  <2>2. /\ orders'[rows[i]].book = orders[rows[i]].book
        /\ orders'[rows[i]].created_at = orders[rows[i]].created_at
    BY <1>1, <1>2 DEF OrdersKept
  <2>3. \A j \in 1..Len(rows) : Before(rows[j], rows[i])' <=> Before(rows[j], rows[i])
    BY <1>1, <1>2, <2>1, BeforeKept
  <2>4. /\ Level(rows[i])' = Level(rows[i])
        /\ \A k \in 1..Len(Level(rows[i])) :
             orders'[Level(rows[i])[k]].created_at = orders[Level(rows[i])[k]].created_at
    <3>1. Level(rows[i])' = Level(rows[i])
      BY <1>1, <1>2, <2>1, LevelsKept
    <3>2. \A k \in 1..Len(Level(rows[i])) : Level(rows[i])[k] \in Placed
      BY <1>2, OwnLevelType
    <3> QED
      BY <3>1, <3>2, <1>1 DEF OrdersKept
  <2> QED
    BY <1>0, <2>2, <2>3, <2>4 DEF RowsInv
<1>5. CASE QueryBook /\ rows' # <<>>
  <2>1. /\ poll = "query" /\ poll' = "insert" /\ book' = book
        /\ Placed' = Placed
    BY <1>5, QueriedRows, NextBookType DEF TypeOK
  <2>2. UNCHANGED <<orders, levels, last_order_read_time>>
    BY <1>5 DEF QueryBook, tableVars, bookVars
  <2>3. \A i \in 1..Len(rows') :
          /\ rows'[i] \in Matching(book)
          /\ \A j \in 1..Len(rows') :
               i < j => rows'[i] # rows'[j] /\ ~Before(rows'[j], rows'[i])
    BY <1>5, QueriedRow
  <2>4. \A o, q : Before(o, q)' <=> Before(o, q)
    BY <2>2 DEF Before
  <2>5. \A o : Level(o)' = Level(o)
    BY <2>2 DEF Level
  <2>6. ASSUME Steady, NEW o \in Matching(book), NEW k \in 1..Len(Level(o))
        PROVE  orders[Level(o)[k]].created_at <= orders[o].created_at
    <3>1. /\ o \in Placed /\ orders[o].book = book
          /\ orders[o].created_at >= last_order_read_time
      BY DEF Matching
    <3>2. orders[o].price \in Prices /\ orders[o].created_at \in Int
      BY <3>1, RowType
    <3>3. Level(o) = levels[book][orders[o].price]
      BY <3>1 DEF Level
    <3>4. ~Loaded(book) /\ book \in Books
      BY <2>1 DEF Loaded, Books, TypeOK
    <3>5. orders[Level(o)[k]].created_at <= last_order_read_time
      BY <2>6, <3>2, <3>3, <3>4 DEF LevelsInv
    <3>6. orders[Level(o)[k]].created_at \in Int
      BY <3>1, OwnLevelType, RowType
    <3>7. last_order_read_time \in Int
      BY DEF TypeOK
    <3> QED
      BY <3>1, <3>2, <3>5, <3>6, <3>7
  <2>7. \A o \in Matching(book) : /\ orders[o].book = book
                                  /\ orders[o].created_at >= last_order_read_time
    BY DEF Matching
  <2> QED
    BY <1>0, <2>1, <2>2, <2>3, <2>4, <2>5, <2>6, <2>7 DEF RowsInv
<1>6. CASE InsertRow /\ rows' # <<>>
  <2> DEFINE o == rows[1]
  <2>1. /\ o \in Placed /\ Placed' = Placed /\ orders' = orders
        /\ Len(rows') = Len(rows) - 1 /\ Len(rows) \in Nat \ {0}
        /\ \A i \in 1..Len(rows') : rows'[i] = rows[i + 1] /\ i + 1 \in 1..Len(rows)
        /\ UNCHANGED <<book, poll>>
    BY <1>6, InsertedRow
  <2>2. UNCHANGED last_order_read_time
    BY <1>6 DEF InsertRow
  <2>3. ASSUME Steady, NEW i \in 2..Len(rows), NEW q, q = rows[i],
               NEW k \in 1..Len(LevelThen(q))
        PROVE  orders[LevelThen(q)[k]].created_at <= orders[q].created_at
    <3>1. i \in 1..Len(rows) /\ 1 \in 1..Len(rows) /\ 1 < i
      BY <2>1
    <3>2. q \in Placed
      BY <2>3, <3>1, <1>2
    <3>3. Level(q) \in Seq(Placed) /\ Len(Level(q)) \in Nat
      BY <3>2, OwnLevelType
    <3>4. LevelThen(q) =
            IF orders[q].book = orders[o].book /\ orders[q].price = orders[o].price
              THEN Append(Level(q), o) ELSE Level(q)
      BY <1>6, <3>2, InsertedOwnLevel
    <3>5. \A l \in 1..Len(Level(q)) : orders[Level(q)[l]].created_at <= orders[q].created_at
      BY <2>3, <3>1 DEF RowsInv
    <3>6. CASE LevelThen(q) = Level(q)
      BY <3>5, <3>6
    <3>7. CASE LevelThen(q) = Append(Level(q), o) /\ orders[q].price = orders[o].price
      <4>1. ~Before(q, o)
        BY <2>3, <3>1 DEF RowsInv
      <4>2. orders[o].created_at <= orders[q].created_at
        BY <2>1, <3>2, <3>7, <4>1, NotBefore
      <4>3. /\ Len(Append(Level(q), o)) = Len(Level(q)) + 1
            /\ \A l \in 1..Len(Level(q)) : Append(Level(q), o)[l] = Level(q)[l]
            /\ Append(Level(q), o)[Len(Level(q)) + 1] = o
        BY <3>3, <2>1, AppendElements
      <4>4. k \in 1..Len(Level(q)) \/ k = Len(Level(q)) + 1
        BY <3>3, <3>7, <4>3
      <4> QED
        BY <3>5, <3>7, <4>2, <4>3, <4>4
    <3> QED
      BY <3>4, <3>6, <3>7
  <2>4. ASSUME NEW i \in 1..Len(rows'), NEW q, q = rows'[i]
        PROVE  /\ orders[q].book = book
               /\ orders[q].created_at >= last_order_read_time
               /\ \A j \in 1..Len(rows') : i < j => q # rows'[j] /\ ~Before(rows'[j], q)
               /\ Steady => \A k \in 1..Len(LevelThen(q)) :
                    orders[LevelThen(q)[k]].created_at <= orders[q].created_at
    <3>1. q = rows[i + 1] /\ i + 1 \in 1..Len(rows) /\ i + 1 \in 2..Len(rows)
      BY <2>1, <2>4
    <3>2. \A j \in 1..Len(rows') :
            i < j => /\ rows'[j] = rows[j + 1] /\ j + 1 \in 1..Len(rows)
                     /\ i + 1 < j + 1
      BY <2>1
    <3>3. /\ orders[q].book = book
          /\ orders[q].created_at >= last_order_read_time
          /\ \A j \in 1..Len(rows) : i + 1 < j => q # rows[j] /\ ~Before(rows[j], q)
      BY <3>1 DEF RowsInv
    <3>4. Steady => \A k \in 1..Len(LevelThen(q)) :
            orders[LevelThen(q)[k]].created_at <= orders[q].created_at
      BY <2>3, <3>1
    <3> QED
      BY <3>2, <3>3, <3>4
  <2>5. \A i \in 1..Len(rows') :
          /\ orders'[rows'[i]].book = book'
          /\ orders'[rows'[i]].created_at >= last_order_read_time'
          /\ \A j \in 1..Len(rows') : i < j => rows'[i] # rows'[j] /\ ~Before(rows[j], rows[i])'
          /\ Steady' => \A k \in 1..Len(LevelThen(rows'[i])) :
               orders'[LevelThen(rows'[i])[k]].created_at <= orders'[rows'[i]].created_at
    <3>1. \A i, j : Before(rows'[j], rows'[i]) <=> Before(rows[j], rows[i])'
      BY <2>1 DEF Before
    <3> QED
      BY <1>0, <2>1, <2>2, <2>4, <3>1
  <2> QED
    BY <2>5 DEF RowsInv, Level, LevelThen
<1>7. CASE StartService \/ WakeUp \/ QueryFails \/ StampReadTime
  <2>1. rows' = <<>>
    BY <1>7 DEF StartService, WakeUp, QueryFails, StampReadTime, TypeOK
  <2> QED
    BY <2>1, <1>3
<1>8. CASE \/ \E b \in Books, p \in Prices : PlaceOrder(b, p)
           \/ \E o \in Placed : CancelOrder(o)
           \/ Tick
           \/ UNCHANGED vars
  BY <1>4, <1>8 DEF PlaceOrder, CancelOrder, Tick, vars, pollVars, bookVars
<1> QED
  BY <1>3, <1>5, <1>6, <1>7, <1>8 DEF Next, PollStep

LEMMA TimeStep ==
  TypeOK /\ LevelsInv /\ RowsInv /\ ListedByTime /\ [Next]_vars => ListedByTime'
<1> SUFFICES ASSUME TypeOK, LevelsInv, RowsInv, ListedByTime, [Next]_vars, Steady',
                    NEW b \in Books, NEW p \in Prices,
                    NEW i \in 1..Len(levels'[b][p]), NEW j \in 1..Len(levels'[b][p]),
                    i < j
             PROVE  orders'[levels'[b][p][i]].created_at <= orders'[levels'[b][p][j]].created_at
  BY DEF ListedByTime
<1>0. Steady
  BY SteadyBefore
<1>1. OrdersKept
  BY OrdersStep
<1>2. levels[b][p] \in Seq(Placed) /\ \A k \in 1..Len(levels[b][p]) : levels[b][p][k] \in Placed
  BY LevelType
<1>3. CASE UNCHANGED levels
  <2>1. levels[b][p][i] \in Placed /\ levels[b][p][j] \in Placed
    BY <1>2, <1>3
  <2>2. /\ orders'[levels[b][p][i]].created_at = orders[levels[b][p][i]].created_at
        /\ orders'[levels[b][p][j]].created_at = orders[levels[b][p][j]].created_at
    BY <1>1, <2>1 DEF OrdersKept
  <2> QED
    BY <1>0, <1>3, <2>2 DEF ListedByTime
<1>4. CASE InsertRow
  <2> DEFINE o == rows[1]
  <2>1. o \in Placed /\ orders' = orders /\ Len(rows) \in Nat \ {0}
    BY <1>4, InsertedRow
  <2>2. levels'[b][p] = IF b = orders[o].book /\ p = orders[o].price
                          THEN Append(levels[b][p], o) ELSE levels[b][p]
    BY <1>4, InsertedLevel
  <2>3. CASE levels'[b][p] = levels[b][p]
    BY <1>0, <2>1, <2>3 DEF ListedByTime
  <2>4. CASE /\ levels'[b][p] = Append(levels[b][p], o)
             /\ b = orders[o].book /\ p = orders[o].price
    <3>0. LET s == Append(levels[b][p], o) IN
            /\ Len(s) = Len(levels[b][p]) + 1
            /\ \A k \in 1..Len(levels[b][p]) : s[k] = levels[b][p][k]
            /\ s[Len(levels[b][p]) + 1] = o
      BY <1>2, <2>1, AppendElements
    <3>1. /\ Len(levels'[b][p]) = Len(levels[b][p]) + 1
          /\ \A k \in 1..Len(levels[b][p]) : levels'[b][p][k] = levels[b][p][k]
          /\ levels'[b][p][Len(levels[b][p]) + 1] = o
      BY <2>4, <3>0
    <3>2. Len(levels[b][p]) \in Nat
      BY <1>2
    <3>3. i \in 1..Len(levels[b][p])
      BY <3>1, <3>2
    <3>4. CASE j \in 1..Len(levels[b][p])
      BY <1>0, <2>1, <3>1, <3>3, <3>4 DEF ListedByTime
    <3>5. CASE j = Len(levels[b][p]) + 1
      <4>1. Level(o) = levels[b][p]
        BY <2>4 DEF Level
      <4>2. orders[levels[b][p][i]].created_at <= orders[o].created_at
        BY <1>0, <2>1, <3>3, <4>1 DEF RowsInv
      <4> QED
        BY <2>1, <3>1, <3>3, <3>5, <4>2
    <3> QED
      BY <3>1, <3>2, <3>4, <3>5
  <2> QED
    BY <2>2, <2>3, <2>4
<1>5. CASE \/ \E c \in Books, q \in Prices : PlaceOrder(c, q)
           \/ \E o \in Placed : CancelOrder(o)
           \/ Tick \/ StartService \/ WakeUp \/ QueryBook \/ QueryFails
           \/ StampReadTime \/ UNCHANGED vars
  <2>1. UNCHANGED levels
    BY <1>5 DEF PlaceOrder, CancelOrder, Tick, StartService, WakeUp, QueryBook,
                QueryFails, StampReadTime, vars, bookVars
  <2> QED
    BY <2>1, <1>3
<1> QED
  BY <1>4, <1>5 DEF Next, PollStep


-----------------------------------------------------------------------------
(* The hash table and the books.                                            *)

LEMMA TableStep ==
  TypeOK /\ TableMatchesBooks /\ [Next]_vars => TableMatchesBooks'
<1> SUFFICES ASSUME TypeOK, TableMatchesBooks, [Next]_vars
             PROVE  TableMatchesBooks'
  OBVIOUS
<1>1. OrdersKept
  BY OrdersStep
<1>2. DOMAIN ht_orders \subseteq Placed
  BY DEF TypeOK
<1>3. CASE UNCHANGED bookVars
  <2>1. UNCHANGED <<levels, ht_orders>>
    BY <1>3 DEF bookVars
  <2>2. \A o \in DOMAIN ht_orders : Level(o)' = Level(o)
    BY <1>1, <1>2, <2>1, LevelsKept
  <2> QED
    BY <2>1, <2>2 DEF TableMatchesBooks
<1>4. CASE InsertRow
  <2>1. PICK o : o = rows[1]
    OBVIOUS
  <2>2. /\ o \in Placed /\ orders' = orders
        /\ ht_orders' = HtPut(o, Len(Listed(o)))
    BY <1>4, <2>1, InsertedRow
  <2>3. Level(o) \in Seq(Placed) /\ Len(Level(o)) \in Nat
    BY <2>2, OwnLevelType
  <2>4. Len(Listed(o)) = Len(Level(o)) + 1
    BY <2>2, <2>3, AppendElements DEF Listed
  <2>5. /\ DOMAIN ht_orders' = DOMAIN ht_orders \cup {o}
        /\ ht_orders'[o] = Len(Level(o)) + 1
        /\ \A q \in DOMAIN ht_orders : q # o => ht_orders'[q] = ht_orders[q]
    BY <2>2, <2>4 DEF HtPut
  <2>6. ASSUME NEW q \in DOMAIN ht_orders'
        PROVE  /\ ht_orders'[q] \in 1..Len(LevelThen(q))
               /\ LevelThen(q)[ht_orders'[q]] = q
               /\ \A i \in 1..Len(LevelThen(q)) : LevelThen(q)[i] = q => i <= ht_orders'[q]
    <3>1. q \in Placed
      BY <1>2, <2>2, <2>5
    <3>2. Level(q) \in Seq(Placed) /\ Len(Level(q)) \in Nat
      BY <3>1, OwnLevelType
    <3>3. LevelThen(q) = IF orders[q].book = orders[o].book /\ orders[q].price = orders[o].price
                           THEN Append(Level(q), o) ELSE Level(q)
      BY <1>4, <2>1, <3>1, InsertedOwnLevel
    <3>4. /\ Len(Append(Level(q), o)) = Len(Level(q)) + 1
          /\ \A i \in 1..Len(Level(q)) : Append(Level(q), o)[i] = Level(q)[i]
          /\ Append(Level(q), o)[Len(Level(q)) + 1] = o
      BY <2>2, <3>2, AppendElements
    <3>5. CASE q = o
      <4>1. LevelThen(q) = Append(Level(q), o) /\ ht_orders'[q] = Len(Level(q)) + 1
        BY <2>5, <3>3, <3>5
      <4> QED
        BY <3>2, <3>4, <3>5, <4>1
    <3>6. CASE q # o
      <4>1. /\ q \in DOMAIN ht_orders /\ ht_orders'[q] = ht_orders[q]
            /\ ht_orders[q] \in 1..Len(Level(q)) /\ Level(q)[ht_orders[q]] = q
            /\ \A i \in 1..Len(Level(q)) : Level(q)[i] = q => i <= ht_orders[q]
        BY <2>5, <3>6 DEF TableMatchesBooks
      <4>2. CASE LevelThen(q) = Level(q)
        BY <4>1, <4>2
      <4>3. CASE LevelThen(q) = Append(Level(q), o)
        <5>1. \A i \in 1..(Len(Level(q)) + 1) :
                i \in 1..Len(Level(q)) \/ i = Len(Level(q)) + 1
          BY <3>2
        <5> QED
          BY <3>2, <3>4, <3>6, <4>1, <4>3, <5>1
      <4> QED
        BY <3>3, <4>2, <4>3
    <3> QED
      BY <3>5, <3>6
  <2>7. ASSUME NEW b \in Books, NEW p \in Prices, NEW i \in 1..Len(levels'[b][p])
        PROVE  levels'[b][p][i] \in DOMAIN ht_orders'
    <3>1. levels[b][p] \in Seq(Placed) /\ Len(levels[b][p]) \in Nat
      BY LevelType
    <3>2. levels'[b][p] = IF b = orders[o].book /\ p = orders[o].price
                            THEN Append(levels[b][p], o) ELSE levels[b][p]
      BY <1>4, <2>1, InsertedLevel
    <3>3. \A k \in 1..Len(levels[b][p]) : levels[b][p][k] \in DOMAIN ht_orders
      BY DEF TableMatchesBooks
    <3>4. LET s == Append(levels[b][p], o) IN
            /\ Len(s) = Len(levels[b][p]) + 1
            /\ \A k \in 1..Len(levels[b][p]) : s[k] = levels[b][p][k]
            /\ s[Len(levels[b][p]) + 1] = o
      BY <2>2, <3>1, AppendElements
    <3>5. CASE levels'[b][p] = levels[b][p]
      BY <2>5, <3>3, <3>5
    <3>6. CASE levels'[b][p] = Append(levels[b][p], o)
      <4>1. i \in 1..Len(levels[b][p]) \/ i = Len(levels[b][p]) + 1
        BY <3>1, <3>4, <3>6
      <4> QED
        BY <2>5, <3>3, <3>4, <3>6, <4>1
    <3> QED
      BY <3>2, <3>5, <3>6
  <2> QED
    BY <2>6, <2>7 DEF TableMatchesBooks, Level, LevelThen
<1>5. CASE \/ \E c \in Books, q \in Prices : PlaceOrder(c, q)
           \/ \E o \in Placed : CancelOrder(o)
           \/ Tick \/ StartService \/ WakeUp \/ QueryBook \/ QueryFails
           \/ StampReadTime \/ UNCHANGED vars
  <2>1. UNCHANGED bookVars
    BY <1>5 DEF PlaceOrder, CancelOrder, Tick, StartService, WakeUp, QueryBook,
                QueryFails, StampReadTime, vars
  <2> QED
    BY <2>1, <1>3
<1> QED
  BY <1>4, <1>5 DEF Next, PollStep

-----------------------------------------------------------------------------
(* How often an order is listed.                                            *)

LEMMA ListedAtType ==
  ASSUME TypeOK, NEW o \in Placed
  PROVE  /\ ListedAt(o) \subseteq Nat
         /\ ListedAt(o) \subseteq 1..Len(Level(o))
         /\ Unlisted(o) => ListedAtMostOnce(o)
         /\ ListedAtMostOnce(o) => ListedAtMostTwice(o)
<1>1. ListedAt(o) \subseteq 1..Len(Level(o)) /\ Len(Level(o)) \in Nat
  BY OwnLevelType DEF ListedAt
<1> QED
  BY <1>1 DEF Unlisted, ListedAtMostOnce, ListedAtMostTwice

LEMMA CountsKept ==
  ASSUME TypeOK, OrdersKept, UNCHANGED levels, NEW o \in Placed
  PROVE  /\ ListedAtMostTwice(o)' <=> ListedAtMostTwice(o)
         /\ ListedAtMostOnce(o)' <=> ListedAtMostOnce(o)
         /\ Unlisted(o)' <=> Unlisted(o)
<1>1. Level(o)' = Level(o)
  BY LevelsKept
<1>2. ListedAt(o)' = ListedAt(o)
  BY <1>1 DEF ListedAt
<1> QED
  BY <1>2 DEF ListedAtMostTwice, ListedAtMostOnce, Unlisted

\* A row that is inserted is listed once more, and nothing else is.
LEMMA InsertedCounts ==
  ASSUME TypeOK, InsertRow, NEW o, o = rows[1], NEW q \in Placed
  PROVE  /\ q # o => /\ ListedAtMostTwice(q)' <=> ListedAtMostTwice(q)
                     /\ ListedAtMostOnce(q)' <=> ListedAtMostOnce(q)
                     /\ Unlisted(q)' <=> Unlisted(q)
         /\ q = o => /\ ListedAtMostOnce(q) => ListedAtMostTwice(q)'
                     /\ Unlisted(q) => ListedAtMostOnce(q)'
<1>1. LevelThen(q) = IF orders[q].book = orders[o].book /\ orders[q].price = orders[o].price
                       THEN Append(Level(q), o) ELSE Level(q)
  BY InsertedOwnLevel
<1>2. Level(q) \in Seq(Placed) /\ Len(Level(q)) \in Nat
  BY OwnLevelType
<1>3. o \in Placed
  BY InsertedRow
<1>4. /\ Len(Append(Level(q), o)) = Len(Level(q)) + 1
      /\ \A i \in 1..Len(Level(q)) : Append(Level(q), o)[i] = Level(q)[i]
      /\ Append(Level(q), o)[Len(Level(q)) + 1] = o
  BY <1>2, <1>3, AppendElements
<1>5. ListedAt(q)' = {i \in 1..Len(LevelThen(q)) : LevelThen(q)[i] = q}
  BY DEF ListedAt, Level, LevelThen
<1>6. ListedAt(q) = {i \in 1..Len(Level(q)) : Level(q)[i] = q}
  BY DEF ListedAt
<1>7. 1..(Len(Level(q)) + 1) = 1..Len(Level(q)) \cup {Len(Level(q)) + 1}
  BY <1>2
<1>8. q # o => ListedAt(q)' = ListedAt(q)
  BY <1>1, <1>4, <1>5, <1>6, <1>7
<1>9. q = o => ListedAt(q)' = ListedAt(q) \cup {Len(Level(q)) + 1}
  BY <1>1, <1>4, <1>5, <1>6, <1>7
<1>10. \A i \in ListedAt(q) : i \in Nat /\ i < Len(Level(q)) + 1
  BY <1>2, <1>6
<1>11. ASSUME q = o, ListedAtMostOnce(q), ~ListedAtMostTwice(q)'
       PROVE  FALSE
  <2>1. PICK i, j, k \in ListedAt(q)' : i < j /\ j < k
    BY <1>11 DEF ListedAtMostTwice
  <2>2. i \in ListedAt(q) /\ j \in ListedAt(q)
    BY <1>2, <1>9, <1>10, <1>11, <2>1
  <2> QED
    BY <1>11, <2>1, <2>2 DEF ListedAtMostOnce
<1>12. ASSUME q = o, Unlisted(q)
       PROVE  ListedAtMostOnce(q)'
  BY <1>2, <1>9, <1>12 DEF Unlisted, ListedAtMostOnce
<1> QED
  BY <1>8, <1>11, <1>12 DEF ListedAtMostTwice, ListedAtMostOnce, Unlisted


\* What CountInv says of one order: created at c, when the last poll ended at
\* l, and whether its book is loaded, its row pending, and how it is listed.
CountOf(c, l, loaded, pending, once, twice, unlisted) ==
  IF loaded
    THEN /\ twice
         /\ c < l => ~pending
         /\ c = l /\ pending => once
         /\ c > l => once
         /\ c > l /\ pending => unlisted
    ELSE /\ twice
         /\ c = l => once
         /\ c > l => unlisted

LEMMA CountInvOf ==
  /\ CountInv <=>
       (Steady => \A o \in Placed :
         CountOf(orders[o].created_at, last_order_read_time,
                 Loaded(orders[o].book), o \in Pending,
                 ListedAtMostOnce(o), ListedAtMostTwice(o), Unlisted(o)))
  /\ CountInv' <=>
       (Steady' => \A o \in Placed' :
         CountOf(orders'[o].created_at, last_order_read_time',
                 Loaded(orders[o].book)', o \in Pending',
                 ListedAtMostOnce(o)', ListedAtMostTwice(o)', Unlisted(o)'))
  BY DEF CountInv, CountOf

\* Steps between which no list changes.
LEMMA CountStay ==
  ASSUME TypeOK, OrdersKept, Steady, CountInv, UNCHANGED levels, Placed' = Placed,
         UNCHANGED last_order_read_time,
         \A o \in Placed : Loaded(orders[o].book)' <=> Loaded(orders[o].book),
         \A o \in Placed : o \in Pending' => o \in Pending
  PROVE  CountInv'
<1> SUFFICES ASSUME NEW o \in Placed
             PROVE  CountOf(orders'[o].created_at, last_order_read_time',
                            Loaded(orders[o].book)', o \in Pending',
                            ListedAtMostOnce(o)', ListedAtMostTwice(o)', Unlisted(o)')
  BY CountInvOf
<1>1. /\ orders'[o].created_at = orders[o].created_at
      /\ Loaded(orders[o].book)' <=> Loaded(orders[o].book)
      /\ o \in Pending' => o \in Pending
  BY DEF OrdersKept
<1>2. CountOf(orders[o].created_at, last_order_read_time,
              Loaded(orders[o].book), o \in Pending,
              ListedAtMostOnce(o), ListedAtMostTwice(o), Unlisted(o))
  BY CountInvOf
<1>3. /\ ListedAtMostTwice(o)' <=> ListedAtMostTwice(o)
      /\ ListedAtMostOnce(o)' <=> ListedAtMostOnce(o)
      /\ Unlisted(o)' <=> Unlisted(o)
  BY CountsKept
<1> QED
  BY <1>1, <1>2, <1>3 DEF CountOf

LEMMA CountStep ==
  /\ TypeOK /\ TypeOK' /\ ClockInv /\ LevelsInv /\ RowsInv
  /\ CountInv /\ [Next]_vars
  => CountInv'
<1> SUFFICES ASSUME TypeOK, TypeOK', ClockInv, LevelsInv, RowsInv, CountInv, [Next]_vars,
                    Steady'
             PROVE  CountInv'
  BY CountInvOf
<1>0. Steady
  BY SteadyBefore
<1>1. OrdersKept
  BY OrdersStep
<1>2. \A o \in Placed :
        CountOf(orders[o].created_at, last_order_read_time,
                Loaded(orders[o].book), o \in Pending,
                ListedAtMostOnce(o), ListedAtMostTwice(o), Unlisted(o))
  BY <1>0, CountInvOf
<1>3. \A o \in Placed : /\ orders[o].book \in Books
                        /\ orders[o].created_at \in Int
                        /\ orders[o].created_at <= clock
                        /\ Unlisted(o) => ListedAtMostOnce(o)
                        /\ ListedAtMostOnce(o) => ListedAtMostTwice(o)
  BY <1>0, RowType, ListedAtType DEF ClockInv
<1>4. last_order_read_time \in Int /\ clock \in Nat
  BY DEF TypeOK
<1>5. CASE UNCHANGED <<pollVars, bookVars>> /\ Placed' = Placed
  <2>1. UNCHANGED <<last_order_read_time, levels>>
    BY <1>5 DEF pollVars, bookVars
  <2>2. \A o \in Placed : Loaded(orders[o].book)' <=> Loaded(orders[o].book)
    BY <1>1, <1>5 DEF pollVars, Loaded, OrdersKept
  <2>3. Pending' = Pending
    BY <1>5 DEF pollVars, Pending
  <2> QED
    BY <1>1, <1>5, <2>1, <2>2, <2>3, <1>0, CountStay
<1>6. CASE \E b \in Books, p \in Prices : PlaceOrder(b, p)
  <2>1. PICK b \in Books, p \in Prices : PlaceOrder(b, p)
    BY <1>6
  <2>2. PICK new : new = Len(orders) + 1
    OBVIOUS
  <2>3. /\ Placed' = Placed \cup {new}
        /\ \A o \in Placed : orders'[o] = orders[o]
        /\ orders'[new] = [book |-> b, price |-> p, created_at |-> Timestamp(0), open |-> TRUE]
    BY <2>1, <2>2, PlacedRow
  <2>4. new \notin Placed
    BY <2>2 DEF Placed, TypeOK
  <2>5. UNCHANGED <<last_order_read_time, poll, book, rows, levels>>
    BY <2>1 DEF PlaceOrder, pollVars, bookVars
  <2>6. Pending' = Pending /\ Pending \subseteq Placed
    BY <2>5, SeqElement DEF Pending, TypeOK
  <2>7. ASSUME NEW o \in Placed
        PROVE  CountOf(orders'[o].created_at, last_order_read_time',
                       Loaded(orders[o].book)', o \in Pending',
                       ListedAtMostOnce(o)', ListedAtMostTwice(o)', Unlisted(o)')
    <3>1. Loaded(orders[o].book)' <=> Loaded(orders[o].book)
      BY <2>3, <2>5 DEF Loaded
    <3>2. /\ ListedAtMostTwice(o)' <=> ListedAtMostTwice(o)
          /\ ListedAtMostOnce(o)' <=> ListedAtMostOnce(o)
          /\ Unlisted(o)' <=> Unlisted(o)
      BY <1>1, <2>5, CountsKept
    <3> QED
      BY <1>2, <2>3, <2>5, <2>6, <3>1, <3>2 DEF CountOf
  <2>8. Unlisted(new)'
    <3>1. Level(new)' = levels[b][p]
      BY <2>3, <2>5 DEF Level
    <3>2. \A i \in 1..Len(levels[b][p]) : levels[b][p][i] \in Placed
      BY <2>1, LevelType
    <3> QED
      BY <2>4, <3>1, <3>2 DEF Unlisted, ListedAt
  <2>9. ListedAtMostOnce(new)' /\ ListedAtMostTwice(new)'
    BY <2>8 DEF Unlisted, ListedAtMostOnce, ListedAtMostTwice
  <2>10. CountOf(orders'[new].created_at, last_order_read_time',
                Loaded(orders[new].book)', new \in Pending',
                ListedAtMostOnce(new)', ListedAtMostTwice(new)', Unlisted(new)')
    BY <2>4, <2>6, <2>8, <2>9 DEF CountOf
  <2> QED
    BY <2>3, <2>7, <2>10, CountInvOf
<1>7. CASE StartService
  <2>1. /\ poll = "down" /\ Placed' = Placed /\ UNCHANGED <<orders, levels>>
    BY <1>7 DEF StartService, tableVars, bookVars, Placed
  <2>2. \A o \in Placed : ~Loaded(orders[o].book)'
    BY <1>3, <1>7, <2>1, StartLoads DEF StartService, Loaded
  <2>3. ASSUME NEW o \in Placed
        PROVE  Unlisted(o)'
    <3>1. \A b \in Books, p \in Prices : 1..Len(levels[b][p]) = {}
      BY <2>1 DEF LevelsInv
    <3>2. 1..Len(Level(o)) = {}
      BY <3>1, RowType DEF Level
    <3>3. Unlisted(o)
      BY <3>2 DEF Unlisted, ListedAt
    <3> QED
      BY <1>1, <2>1, <3>3, CountsKept
  <2>4. \A o \in Placed : ListedAtMostOnce(o)' /\ ListedAtMostTwice(o)'
    BY <2>3 DEF Unlisted, ListedAtMostOnce, ListedAtMostTwice
  <2> QED
    BY <2>1, <2>2, <2>3, <2>4, CountInvOf DEF CountOf
<1>8. CASE WakeUp
  <2>1. /\ poll = "sleep" /\ Placed' = Placed
        /\ UNCHANGED <<orders, levels, last_order_read_time, rows>>
    BY <1>8 DEF WakeUp, tableVars, bookVars, Placed
  <2>2. \A o \in Placed : Loaded(orders[o].book)' <=> Loaded(orders[o].book)
    BY <1>3, <1>8, <2>1, StartLoads DEF WakeUp, Loaded
  <2>3. Pending' = Pending
    BY <2>1 DEF Pending
  <2> QED
    BY <1>1, <2>1, <2>2, <2>3, <1>0, CountStay
<1>9. CASE QueryBook \/ QueryFails
  <2>1. /\ poll = "query" /\ rows = <<>> /\ Placed' = Placed
        /\ UNCHANGED <<orders, levels, last_order_read_time>>
    BY <1>9 DEF QueryBook, QueryFails, tableVars, bookVars, Placed, TypeOK
  <2>2. NextBook \/ (poll' = "insert" /\ book' = book)
    BY <1>9, QueriedRows DEF QueryFails
  <2>3. \A b \in Books : Loaded(b)' <=> Loaded(b) \/ b = book
    BY <2>1, <2>2, NextBookLoads DEF TypeOK, Loaded
  <2>4. ~Loaded(book) /\ Pending = {}
    BY <2>1 DEF Loaded, TypeOK, Books, Pending
  <2>5. Pending' \subseteq Matching(book)
    <3>1. CASE QueryBook
      BY <3>1, QueriedRow DEF Pending
    <3>2. CASE QueryFails
      BY <2>1, <2>4, <3>2 DEF QueryFails, Pending
    <3> QED
      BY <1>9, <3>1, <3>2
  <2>6. \A o \in Pending' : /\ orders[o].book = book
                            /\ orders[o].created_at >= last_order_read_time
    BY <2>5 DEF Matching
  <2> SUFFICES ASSUME NEW o \in Placed
               PROVE  CountOf(orders[o].created_at, last_order_read_time,
                              Loaded(orders[o].book)', o \in Pending',
                              ListedAtMostOnce(o)', ListedAtMostTwice(o)', Unlisted(o)')
    BY <2>1, CountInvOf
  <2>7. Loaded(orders[o].book)' <=> Loaded(orders[o].book) \/ orders[o].book = book
    BY <1>3, <2>1, <2>3 DEF Loaded
  <2>8. /\ ListedAtMostTwice(o)' <=> ListedAtMostTwice(o)
        /\ ListedAtMostOnce(o)' <=> ListedAtMostOnce(o)
        /\ Unlisted(o)' <=> Unlisted(o)
    BY <1>1, <2>1, CountsKept
  <2>9. CASE orders[o].book = book
    BY <1>2, <1>3, <1>4, <2>4, <2>6, <2>7, <2>8, <2>9 DEF CountOf
  <2>10. CASE orders[o].book # book
    BY <1>2, <2>4, <2>6, <2>7, <2>8, <2>10 DEF CountOf
  <2> QED
    BY <2>9, <2>10
<1>10. CASE InsertRow
  <2>1. PICK r : r = rows[1]
    OBVIOUS
  <2>2. /\ r \in Placed /\ Placed' = Placed /\ orders' = orders
        /\ Len(rows) \in Nat \ {0} /\ Len(rows') = Len(rows) - 1
        /\ \A i \in 1..Len(rows') : rows'[i] = rows[i + 1] /\ i + 1 \in 1..Len(rows)
        /\ rows' = <<>> => NextBook
        /\ rows' # <<>> => UNCHANGED <<book, poll>>
    BY <1>10, <2>1, InsertedRow
  <2>3. poll = "insert" /\ UNCHANGED last_order_read_time
    BY <1>10 DEF InsertRow
  <2>4. \A b \in Books : Loaded(b)' <=> Loaded(b)
    <3>1. Loaded(book)
      BY <2>3 DEF Loaded
    <3> QED
      BY <2>2, <2>3, <3>1, NextBookLoads DEF TypeOK, Loaded
  <2>5. /\ 1 \in 1..Len(rows) /\ r \in Pending
        /\ orders[r].book = book /\ orders[r].created_at >= last_order_read_time
    <3>1. 1 \in 1..Len(rows)
      BY <2>2
    <3> QED
      BY <2>1, <3>1 DEF RowsInv, Pending
  <2>6. Pending' \subseteq Pending \ {r}
    <3>1. ASSUME NEW i \in 1..Len(rows')
          PROVE  rows'[i] \in Pending /\ rows'[i] # r
      <4>1. rows'[i] = rows[i + 1] /\ i + 1 \in 1..Len(rows) /\ 1 < i + 1
        BY <2>2
      <4>2. rows[1] # rows[i + 1]
        BY <2>5, <4>1 DEF RowsInv
      <4> QED
        BY <2>1, <4>1, <4>2 DEF Pending
    <3> QED
      BY <3>1 DEF Pending
  <2> SUFFICES ASSUME NEW o \in Placed
               PROVE  CountOf(orders[o].created_at, last_order_read_time,
                              Loaded(orders[o].book)', o \in Pending',
                              ListedAtMostOnce(o)', ListedAtMostTwice(o)', Unlisted(o)')
    BY <2>2, <2>3, CountInvOf
  <2>7. Loaded(orders[o].book)' <=> Loaded(orders[o].book)
    BY <1>3, <2>2, <2>4 DEF Loaded
  <2>8. CASE o = r
    <3>1. Loaded(orders[o].book) /\ o \notin Pending'
      BY <2>3, <2>5, <2>6, <2>8 DEF Loaded
    <3>2. /\ ListedAtMostOnce(o) => ListedAtMostTwice(o)'
          /\ Unlisted(o) => ListedAtMostOnce(o)'
      BY <1>10, <2>1, <2>8, InsertedCounts
    <3>3. o \in Pending
      BY <2>5, <2>8
    <3>4. CASE orders[o].created_at = last_order_read_time
      BY <1>2, <3>1, <3>2, <3>3, <3>4, <2>7 DEF CountOf
    <3>5. CASE orders[o].created_at > last_order_read_time
      BY <1>2, <1>3, <1>4, <3>1, <3>2, <3>3, <3>5, <2>7 DEF CountOf
    <3> QED
      BY <1>3, <1>4, <2>5, <2>8, <3>4, <3>5
  <2>9. CASE o # r
    <3>1. /\ ListedAtMostTwice(o)' <=> ListedAtMostTwice(o)
          /\ ListedAtMostOnce(o)' <=> ListedAtMostOnce(o)
          /\ Unlisted(o)' <=> Unlisted(o)
      BY <1>10, <2>1, <2>9, InsertedCounts
    <3> QED
      BY <1>2, <2>6, <2>7, <3>1 DEF CountOf
  <2> QED
    BY <2>8, <2>9
<1>11. CASE StampReadTime
  <2>1. /\ poll = "stamp" /\ poll' = "sleep" /\ Placed' = Placed
        /\ UNCHANGED <<orders, levels>>
        /\ last_order_read_time' = clock
    BY <1>0, <1>4, <1>11, SteadyTime DEF StampReadTime, tableVars, bookVars, Placed
  <2>2. last_order_read_time < clock
    BY <1>0, <2>1 DEF ClockInv
  <2> SUFFICES ASSUME NEW o \in Placed
               PROVE  CountOf(orders[o].created_at, clock,
                              Loaded(orders[o].book)', o \in Pending',
                              ListedAtMostOnce(o)', ListedAtMostTwice(o)', Unlisted(o)')
    BY <2>1, CountInvOf
  <2>3. Loaded(orders[o].book) /\ ~Loaded(orders[o].book)'
    BY <2>1 DEF Loaded
  <2>4. /\ ListedAtMostTwice(o)' <=> ListedAtMostTwice(o)
        /\ ListedAtMostOnce(o)' <=> ListedAtMostOnce(o)
        /\ Unlisted(o)' <=> Unlisted(o)
    BY <1>1, <2>1, CountsKept
  <2> QED
    BY <1>2, <1>3, <1>4, <2>2, <2>3, <2>4 DEF CountOf
<1>12. CASE (\E o \in Placed : CancelOrder(o)) \/ Tick \/ UNCHANGED vars
  <2>1. UNCHANGED <<pollVars, bookVars>>
    BY <1>12 DEF CancelOrder, Tick, vars
  <2>2. Placed' = Placed
    BY <1>12, CancelledRow DEF Tick, vars, tableVars, Placed
  <2> QED
    BY <2>1, <2>2, <1>5
<1> QED
  BY <1>6, <1>7, <1>8, <1>9, <1>10, <1>11, <1>12 DEF Next, PollStep


-----------------------------------------------------------------------------
(* What the polls account for.                                              *)

LEMMA AccountedStep ==
  TypeOK /\ TypeOK' /\ AccountedFor /\ [Next]_vars => AccountedFor'
<1> SUFFICES ASSUME TypeOK, TypeOK', AccountedFor, [Next]_vars, poll' # "down",
                    NEW o \in Placed', orders'[o].open,
                    \/ orders'[o].created_at < last_order_read_time'
                    \/ Loaded(orders[o].book)'
             PROVE  o \in DOMAIN ht_orders' \/ o \in missable' \/ o \in Pending'
  BY DEF AccountedFor
<1>1. OrdersKept
  BY OrdersStep
<1>2. /\ poll # "down" /\ o \in Placed /\ orders[o].open
      /\ orders[o].created_at < last_order_read_time \/ Loaded(orders[o].book)
      => o \in DOMAIN ht_orders \/ o \in missable \/ o \in Pending
  BY DEF AccountedFor
<1>3. /\ o \in Placed => orders[o].book \in Books /\ orders[o].created_at \in Int
      /\ last_order_read_time \in Int /\ clock \in Nat
  BY RowType DEF TypeOK
<1>4. CASE \E b \in Books, p \in Prices : PlaceOrder(b, p)
  <2>1. PICK b \in Books, p \in Prices : PlaceOrder(b, p)
    BY <1>4
  <2>2. PICK new : new = Len(orders) + 1
    OBVIOUS
  <2>3. /\ Placed' = Placed \cup {new}
        /\ \A q \in Placed : orders'[q] = orders[q]
        /\ orders'[new] = [book |-> b, price |-> p, created_at |-> Timestamp(0), open |-> TRUE]
    BY <2>1, <2>2, PlacedRow
  <2>4. /\ UNCHANGED <<last_order_read_time, poll, book, rows, ht_orders>>
        /\ missable' = IF PlacedTooLate(b) THEN missable \cup {new} ELSE missable
    BY <2>1, <2>2 DEF PlaceOrder, pollVars, bookVars
  <2>5. CASE o \in Placed
    <3>1. Loaded(orders[o].book)' <=> Loaded(orders[o].book)
      BY <2>3, <2>4, <2>5 DEF Loaded
    <3>2. o \in Pending' <=> o \in Pending
      BY <2>4 DEF Pending
    <3>3. orders'[o] = orders[o]
      BY <2>3, <2>5
    <3> QED
      BY <1>2, <2>4, <2>5, <3>1, <3>2, <3>3
  <2>6. CASE o = new
    <3>1. orders'[o].created_at = Timestamp(0) /\ orders'[o].book = b
      BY <2>3, <2>6
    <3>2. orders'[o].created_at < last_order_read_time' =>
            Timestamp(0) < last_order_read_time
      BY <2>4, <3>1
    <3>3. Loaded(orders[o].book)' <=> Loaded(b)
      BY <2>4, <3>1 DEF Loaded
    <3> QED
      BY <2>4, <2>6, <3>2, <3>3 DEF PlacedTooLate
  <2> QED
    BY <2>3, <2>5, <2>6
<1>5. CASE \E q \in Placed : CancelOrder(q)
  <2>1. PICK q \in Placed : CancelOrder(q)
    BY <1>5
  <2>2. /\ Placed' = Placed /\ orders[o].open
        /\ orders'[o].book = orders[o].book
        /\ orders'[o].created_at = orders[o].created_at
    BY <2>1, CancelledRow DEF OrdersKept
  <2>3. UNCHANGED <<last_order_read_time, poll, book, rows, ht_orders, missable>>
    BY <2>1 DEF CancelOrder, pollVars, bookVars
  <2>4. Loaded(orders[o].book)' <=> Loaded(orders[o].book)
    BY <2>2, <2>3 DEF Loaded
  <2>5. o \in Pending' <=> o \in Pending
    BY <2>3 DEF Pending
  <2> QED
    BY <1>2, <2>2, <2>3, <2>4, <2>5
<1>6. CASE Tick \/ UNCHANGED vars
  <2>1. UNCHANGED <<orders, last_order_read_time, poll, book, rows, ht_orders, missable>>
    BY <1>6 DEF Tick, vars, tableVars, pollVars, bookVars
  <2> QED
    BY <1>2, <2>1 DEF Loaded, Pending, Placed
<1>7. CASE StartService
  <2>1. /\ Placed' = Placed /\ orders' = orders
        /\ missable' = {q \in Placed : orders[q].created_at < last_order_read_time'}
    BY <1>7 DEF StartService, tableVars, Placed
  <2>2. ~Loaded(orders[o].book)'
    BY <1>3, <1>7, <2>1, StartLoads DEF StartService, Loaded
  <2> QED
    BY <2>1, <2>2
<1>8. CASE WakeUp
  <2>1. /\ poll = "sleep" /\ Placed' = Placed
        /\ UNCHANGED <<orders, last_order_read_time, rows, ht_orders, missable>>
    BY <1>8 DEF WakeUp, tableVars, bookVars, Placed
  <2>2. ~Loaded(orders[o].book)'
    BY <1>3, <1>8, <2>1, StartLoads DEF WakeUp, Loaded
  <2>3. o \in Pending' <=> o \in Pending
    BY <2>1 DEF Pending
  <2> QED
    BY <1>2, <2>1, <2>2, <2>3
<1>9. CASE QueryBook \/ QueryFails
  <2>1. /\ poll = "query" /\ rows = <<>> /\ Placed' = Placed
        /\ UNCHANGED <<orders, last_order_read_time, ht_orders>>
    BY <1>9 DEF QueryBook, QueryFails, tableVars, bookVars, Placed, TypeOK
  <2>2. NextBook \/ (poll' = "insert" /\ book' = book)
    BY <1>9, QueriedRows DEF QueryFails
  <2>3. \A b \in Books : Loaded(b)' <=> Loaded(b) \/ b = book
    BY <2>1, <2>2, NextBookLoads DEF TypeOK, Loaded
  <2>4. missable \subseteq missable' /\ Matching(book) \subseteq missable' \cup Pending'
    BY <1>9, QueriedRows DEF QueryFails
  <2>5. Loaded(orders[o].book)' <=> Loaded(orders[o].book) \/ orders[o].book = book
    BY <1>3, <2>1, <2>3 DEF Loaded
  <2>6. Pending = {}
    BY <2>1 DEF Pending
  <2>7. CASE orders[o].created_at < last_order_read_time \/ Loaded(orders[o].book)
    BY <1>2, <2>1, <2>4, <2>6, <2>7
  <2>8. CASE orders[o].book = book /\ ~(orders[o].created_at < last_order_read_time)
    <3>1. o \in Matching(book)
      BY <1>3, <2>1, <2>8 DEF Matching
    <3> QED
      BY <2>4, <3>1
  <2> QED
    BY <2>1, <2>5, <2>7, <2>8
<1>10. CASE InsertRow
  <2>1. PICK r : r = rows[1]
    OBVIOUS
  <2>2. /\ Placed' = Placed /\ orders' = orders
        /\ Len(rows) \in Nat \ {0} /\ Len(rows') = Len(rows) - 1
        /\ \A i \in 1..Len(rows') : rows'[i] = rows[i + 1] /\ i + 1 \in 1..Len(rows)
        /\ ht_orders' = HtPut(r, Len(Listed(r)))
        /\ rows' = <<>> => NextBook
        /\ rows' # <<>> => UNCHANGED <<book, poll>>
    BY <1>10, <2>1, InsertedRow
  <2>3. poll = "insert" /\ UNCHANGED <<last_order_read_time, missable>>
    BY <1>10 DEF InsertRow
  <2>4. \A b \in Books : Loaded(b)' <=> Loaded(b)
    <3>1. Loaded(book)
      BY <2>3 DEF Loaded
    <3> QED
      BY <2>2, <2>3, <3>1, NextBookLoads DEF TypeOK, Loaded
  <2>5. Loaded(orders[o].book)' <=> Loaded(orders[o].book)
    BY <1>3, <2>2, <2>4 DEF Loaded
  <2>6. DOMAIN ht_orders' = DOMAIN ht_orders \cup {r}
    BY <2>2 DEF HtPut
  <2>7. o \in Pending => o = r \/ o \in Pending'
    <3>1. ASSUME NEW i \in 1..Len(rows)
          PROVE  rows[i] = r \/ rows[i] \in Pending'
      <4>1. CASE i = 1
        BY <2>1, <4>1
      <4>2. CASE i # 1
        <5>1. i - 1 \in 1..Len(rows') /\ (i - 1) + 1 = i
          BY <2>2, <4>2
        <5>2. rows'[i - 1] = rows[i]
          BY <2>2, <5>1
        <5> QED
          BY <5>1, <5>2 DEF Pending
      <4> QED
        BY <4>1, <4>2
    <3> QED
      BY <3>1 DEF Pending
  <2> QED
    BY <1>2, <2>2, <2>3, <2>5, <2>6, <2>7
<1>11. CASE StampReadTime
  <2>1. /\ poll = "stamp" /\ Placed' = Placed
        /\ UNCHANGED <<orders, rows, ht_orders, missable>>
    BY <1>11 DEF StampReadTime, tableVars, bookVars, Placed
  <2>2. Loaded(orders[o].book)
    BY <2>1 DEF Loaded
  <2>3. o \in Pending' <=> o \in Pending
    BY <2>1 DEF Pending
  <2> QED
    BY <1>2, <2>1, <2>2, <2>3
<1> QED
  BY <1>4, <1>5, <1>6, <1>7, <1>8, <1>9, <1>10, <1>11 DEF Next, PollStep

-----------------------------------------------------------------------------
(* The invariant and what follows from it.                                  *)

LEMMA BookInit == Init => BookInv
<1> SUFFICES ASSUME Init
             PROVE  BookInv
  OBVIOUS
<1>1. /\ Placed = {} /\ rows = <<>> /\ poll = "down" /\ DOMAIN ht_orders = {}
      /\ clock = 1 /\ last_order_read_time = 0 /\ poll_end = 0
  BY DEF Init, Placed
<1>2. \A b \in Books, p \in Prices : levels[b][p] = <<>>
  BY DEF Init
<1> QED
  BY <1>1, <1>2, TypeInit
     DEF BookInv, ClockInv, LevelsInv, RowsInv, ListedByTime, CountInv,
         TableMatchesBooks, AccountedFor

\* The whole of BookInv is inductive.
LEMMA BookStep == BookInv /\ [Next]_vars => BookInv'
<1> SUFFICES ASSUME BookInv, [Next]_vars
             PROVE  BookInv'
  OBVIOUS
<1>1. TypeOK /\ TypeOK'
  BY TypeStep DEF BookInv
<1>2. ClockInv' /\ LevelsInv' /\ RowsInv'
  BY <1>1, ClockStep, LevelsStep, RowsStep DEF BookInv
<1>3. ListedByTime' /\ CountInv'
  BY <1>1, TimeStep, CountStep DEF BookInv
<1>4. TableMatchesBooks' /\ AccountedFor'
  BY <1>1, TableStep, AccountedStep DEF BookInv
<1> QED
  BY <1>1, <1>2, <1>3, <1>4 DEF BookInv

LEMMA BookCounts == BookInv => ListedTwiceAtMost
  BY DEF BookInv, CountInv, ListedTwiceAtMost

LEMMA BookMisses == BookInv => NothingElseMissed
<1> SUFFICES ASSUME BookInv, poll = "sleep"
             PROVE  \A o \in Placed :
                      orders[o].open /\ orders[o].created_at < last_order_read_time
                        => o \in DOMAIN ht_orders \cup missable
  BY DEF NothingElseMissed
<1>1. Pending = {}
  BY DEF BookInv, TypeOK, Pending
<1> QED
  BY <1>1 DEF BookInv, AccountedFor

\* Every state of the books satisfies BookInv, whatever the database answers
\* and other programs do (load_orders, load_orders_helper).
THEOREM BookInvariant == Spec => []BookInv
  BY BookInit, BookStep, PTL DEF Spec, SafeSpec

\* The clock, the table, the poll and the books have their types.
THEOREM TypeCorrect == Spec => []TypeOK
<1>1. BookInv => TypeOK
  BY DEF BookInv
<1> QED
  BY BookInvariant, <1>1, PTL

\* Time priority: as long as the local time has not been set back, the orders
\* at a price are listed by the time they were placed, over any number of polls
\* that read some of them again.
THEOREM TimePriority == Spec => []ListedByTime
<1>1. BookInv => ListedByTime
  BY DEF BookInv
<1> QED
  BY BookInvariant, <1>1, PTL

\* However many polls there are, until the local time is set back none lists
\* an order for a third time.
THEOREM TwiceAtMost == Spec => []ListedTwiceAtMost
  BY BookInvariant, BookCounts, PTL

\* The hash table and the books hold the same orders, and a lookup leads to
\* the last node of its order.
THEOREM TableInStep == Spec => []TableMatchesBooks
<1>1. BookInv => TableMatchesBooks
  BY DEF BookInv
<1> QED
  BY BookInvariant, <1>1, PTL

\* The only open orders the polls leave behind for good are those older than
\* the first poll looks back, those a failed or shortened query kept from a poll,
\* those placed behind the back of a poll, and those placed when the local time
\* had been set back to before the last one.
THEOREM NothingMissed == Spec => []NothingElseMissed
  BY BookInvariant, BookMisses, PTL

-----------------------------------------------------------------------------
(* The books are the price levels orders are loaded into.                   *)

\* The price levels as PriceLevels has them.
Shown == [l \in Books \X Prices |-> levels[l[1]][l[2]]]

LEMMA ShownInit == Init => Book!Init
<1> SUFFICES ASSUME Init
             PROVE  Book!Init
  OBVIOUS
<1>1. \A l \in Books \X Prices : levels[l[1]][l[2]] = <<>>
  BY DEF Init
<1> QED
  BY <1>1 DEF Init, Book!Init

\* Putting a row in its book is loading its order at its level.
LEMMA ShownInsert ==
  ASSUME BookInv, InsertRow, NEW o, o = rows[1],
         NEW l, l = <<orders[o].book, orders[o].price>>
  PROVE  Book!Load(o, l) /\ o \in Ids /\ l \in Books \X Prices
<1>1. TypeOK
  BY DEF BookInv
<1>2. /\ o \in Placed /\ ht_orders' = HtPut(o, Len(Listed(o)))
  BY <1>1, InsertedRow
<1>3. orders[o].book \in Books /\ orders[o].price \in Prices
  BY <1>1, <1>2, RowType
<1>4. l \in Books \X Prices /\ Shown[l] = Level(o)
  BY <1>3 DEF Shown, Level
<1>5. ASSUME NEW m \in Books \X Prices, m # l, NEW i \in DOMAIN Shown[m]
      PROVE  Shown[m][i] # o
  <2>1. m[1] \in Books /\ m[2] \in Prices /\ m = <<m[1], m[2]>>
    OBVIOUS
  <2>2. Shown[m] = levels[m[1]][m[2]]
    BY DEF Shown
  <2>3. levels[m[1]][m[2]] \in Seq(Placed)
    BY <1>1, <2>1, LevelType
  <2>4. i \in 1..Len(levels[m[1]][m[2]])
    BY <1>5, <2>2, <2>3
  <2>5. /\ orders[Shown[m][i]].book = m[1]
        /\ orders[Shown[m][i]].price = m[2]
    BY <2>1, <2>2, <2>4 DEF BookInv, LevelsInv
  <2> QED
    BY <1>5, <2>1, <2>5
<1>6. ~Book!AtOtherLevel(o, l)
  BY <1>5 DEF Book!AtOtherLevel, Shown
<1>7. \A m \in Books \X Prices :
        Shown'[m] = IF m = l THEN Append(Shown[m], o) ELSE Shown[m]
  <2> TAKE m \in Books \X Prices
  <2>1. m[1] \in Books /\ m[2] \in Prices /\ m = <<m[1], m[2]>>
    OBVIOUS
  <2>2. Shown'[m] = levels'[m[1]][m[2]] /\ Shown[m] = levels[m[1]][m[2]]
    BY DEF Shown
  <2>3. levels'[m[1]][m[2]] = IF m[1] = orders[o].book /\ m[2] = orders[o].price
                                THEN Append(levels[m[1]][m[2]], o) ELSE levels[m[1]][m[2]]
    BY <1>1, <2>1, InsertedLevel
  <2>4. m = l <=> m[1] = orders[o].book /\ m[2] = orders[o].price
    BY <2>1
  <2> QED
    BY <2>2, <2>3, <2>4
<1>8. Shown' = [Shown EXCEPT ![l] = Append(@, o)]
  <2>1. Shown' = [m \in Books \X Prices |-> Shown'[m]]
    BY DEF Shown
  <2>2. Shown = [m \in Books \X Prices |-> Shown[m]]
    BY DEF Shown
  <2> QED
    BY <1>4, <1>7, <2>1, <2>2
<1>9. Len(Listed(o)) = Len(Shown[l]) + 1
  <2>1. Level(o) \in Seq(Placed)
    BY <1>1, <1>2, OwnLevelType
  <2> QED
    BY <1>2, <1>4, <2>1 DEF Listed
<1>10. ht_orders' = [q \in DOMAIN ht_orders \cup {o} |->
                       IF q = o THEN Len(Shown[l]) + 1 ELSE ht_orders[q]]
  BY <1>2, <1>9 DEF HtPut
<1>11. o \in Ids
  BY <1>1, <1>2, OrderBookAssumption DEF TypeOK, Placed, Ids
<1>12. Book!Load(o, l)
  BY ONLY <1>6, <1>8, <1>10 DEF Book!Load, Shown
<1> QED
  BY <1>4, <1>11, <1>12

\* Every other step leaves the levels and the references as they are.
LEMMA ShownStep == BookInv /\ [Next]_vars => [Book!Next]_(Book!vars)
<1> SUFFICES ASSUME BookInv, [Next]_vars
             PROVE  [Book!Next]_(Book!vars)
  OBVIOUS
<1>1. CASE InsertRow
  <2>1. PICK o : o = rows[1]
    OBVIOUS
  <2>2. PICK l : l = <<orders[o].book, orders[o].price>>
    OBVIOUS
  <2>3. Book!Load(o, l) /\ o \in Ids /\ l \in Books \X Prices
    BY <1>1, <2>1, <2>2, ShownInsert
  <2>4. Book!Next
    BY ONLY <2>3 DEF Book!Next
  <2> QED
    BY <2>4
<1>2. CASE UNCHANGED bookVars
  BY <1>2 DEF bookVars, Book!vars
<1>3. CASE \/ \E b \in Books, p \in Prices : PlaceOrder(b, p)
           \/ \E o \in Placed : CancelOrder(o)
           \/ Tick \/ StartService \/ WakeUp \/ QueryBook \/ QueryFails
           \/ StampReadTime \/ UNCHANGED vars
  BY <1>2, <1>3 DEF PlaceOrder, CancelOrder, Tick, StartService, WakeUp, QueryBook,
                    QueryFails, StampReadTime, vars
<1> QED
  BY <1>1, <1>3 DEF Next, PollStep

\* The books are price levels into which orders are loaded, one at a time and
\* at the end, with the reference moving along: every state of the books is one
\* of PriceLevels, and load_orders_helper putting in a row is its only step.
THEOREM ImplementsBook == Spec => BookSpec
  BY BookInvariant, ShownInit, ShownStep, PTL DEF Spec, SafeSpec, BookSpec, Book!Spec

=============================================================================
