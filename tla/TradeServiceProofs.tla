------------------------- MODULE TradeServiceProofs -------------------------
(***************************************************************************)
(* Proofs about the threads of the trade service, for every number of      *)
(* tickers, every range of prices, sources that may fail at any read and   *)
(* threads that may not start.                                             *)
(***************************************************************************)
EXTENDS TradeService, TLAPS

-----------------------------------------------------------------------------
(* Types.                                                                   *)

LEMMA BetweenType ==
  ASSUME NEW p, NEW q
  PROVE  Between(p, q) \subseteq Prices
  BY DEF Between

LEMMA ReadingsType ==
  ASSUME NEW d \in BOOLEAN
  PROVE  /\ Readings(d) \subseteq 0..MaxPrice
         /\ \A p \in Readings(d) : p # 0 => p \in Prices
  BY TradeServiceAssumption DEF Readings, Prices

LEMMA NextTickerType ==
  ASSUME monitor_ticker \in Tickers, NextTicker
  PROVE  /\ monitor_ticker' \in Tickers
         /\ monitor' \in {"read", "queue"}
  BY TradeServiceAssumption DEF NextTicker, Tickers

LEMMA CountLateType ==
  ASSUME NEW w \in Threads, late \in [Threads -> 0..2], CountLate(w)
  PROVE  late' \in [Threads -> 0..2]
<1> DEFINE n == IF exit_flag /\ late[w] < 2 THEN late[w] + 1 ELSE late[w]
<1>1. n \in 0..2
  OBVIOUS
<1>2. late' = [late EXCEPT ![w] = n]
  BY DEF CountLate
<1> QED
  BY <1>1, <1>2

LEMMA TypeInit == Init => TypeOK
<1> SUFFICES ASSUME Init
             PROVE  TypeOK
  OBVIOUS
<1>1. last_prices \in [Tickers -> 0..MaxPrice]
  BY ReadingsType, TradeServiceAssumption DEF Init
<1>2. 1 \in Tickers /\ 0 \in 0..MaxPrice
  BY TradeServiceAssumption DEF Tickers
<1>3. observed \in [Tickers -> [last : 0..MaxPrice, before : 0..MaxPrice]]
  BY <1>1, <1>2 DEF Init
<1>4. /\ late \in [Threads -> 0..2]
      /\ crossed \in [Tickers -> SUBSET Prices]
      /\ visited \in [Tickers -> SUBSET Prices]
  BY DEF Init
<1>5. /\ monitor_ticker \in Tickers /\ worker_ticker \in Tickers
      /\ current_price \in 0..MaxPrice /\ sim_price \in 0..MaxPrice
  BY <1>2 DEF Init
<1>6. /\ caller = "init" /\ monitor = "none" /\ worker = "none"
      /\ exit_flag = FALSE /\ price_lock = "free"
  BY DEF Init
<1> QED
  BY <1>1, <1>3, <1>4, <1>5, <1>6 DEF TypeOK

\* One case per action.
LEMMA TypeStep == TypeOK /\ [Next]_vars => TypeOK'
<1> SUFFICES ASSUME TypeOK, [Next]_vars
             PROVE  TypeOK'
  OBVIOUS
<1> USE DEF TypeOK, monitorVars, workerVars, marketVars
<1>1. CASE CreateMonitor
  BY <1>1 DEF CreateMonitor
<1>2. CASE CreateWorker
  BY <1>2 DEF CreateWorker
<1>3. CASE SetExitFlag
  BY <1>3 DEF SetExitFlag
<1>4. CASE JoinMonitor
  BY <1>4 DEF JoinMonitor
<1>5. CASE JoinWorker
  BY <1>5 DEF JoinWorker
<1>6. CASE MonitorCheck
  <2>1. 1 \in Tickers
    BY TradeServiceAssumption DEF Tickers
  <2> QED
    BY <1>6, <2>1 DEF MonitorCheck, CheckExitFlag
<1>7. CASE ReadPrice
  <2>1. PICK p \in Readings(SourcesDeliver) :
          /\ current_price' = p
          /\ IF p = 0
               THEN NextTicker /\ UNCHANGED <<observed, crossed>>
               ELSE LET t == monitor_ticker
                        q == observed[t].last IN
                      /\ monitor' = "fills"
                      /\ observed' = [observed EXCEPT
                                        ![t] = [last |-> p, before |-> q]]
                      /\ crossed' = [crossed EXCEPT ![t] =
                           IF q = 0 THEN @ ELSE @ \cup Between(p, q)]
                      /\ UNCHANGED monitor_ticker
    BY <1>7 DEF ReadPrice
  <2>2. p \in 0..MaxPrice
    BY ReadingsType, TradeServiceAssumption
  <2>3. CASE p = 0
    BY <1>7, <2>1, <2>2, <2>3, NextTickerType DEF ReadPrice
  <2>4. CASE p # 0
    <3> DEFINE q == observed[monitor_ticker].last
    <3>1. q \in 0..MaxPrice /\ Between(p, q) \subseteq Prices
      BY BetweenType
    <3>2. observed' \in [Tickers -> [last : 0..MaxPrice, before : 0..MaxPrice]]
      BY <2>1, <2>2, <2>4, <3>1
    <3>3. crossed' \in [Tickers -> SUBSET Prices]
      BY <2>1, <2>4, <3>1
    <3> QED
      BY <1>7, <2>1, <2>2, <2>4, <3>2, <3>3 DEF ReadPrice
  <2> QED
    BY <2>3, <2>4
<1>8. CASE ProcessFills
  <2>1. Between(last_prices[monitor_ticker], current_price) \subseteq Prices
    BY BetweenType
  <2>2. visited' \in [Tickers -> SUBSET Prices]
    BY <1>8, <2>1 DEF ProcessFills
  <2> QED
    BY <1>8, <2>2 DEF ProcessFills
<1>9. CASE StorePrice
  BY <1>9, NextTickerType DEF StorePrice
<1>10. CASE QueuePrices
  BY <1>10, CountLateType DEF QueuePrices, Threads
<1>11. CASE WorkerCheck
  <2>1. 1 \in Tickers /\ 0 \in 0..MaxPrice
    BY TradeServiceAssumption DEF Tickers
  <2> QED
    BY <1>11, <2>1 DEF WorkerCheck, CheckExitFlag
<1>12. CASE BuildOrder
  <2>1. last_prices[worker_ticker] \in 0..MaxPrice
    OBVIOUS
  <2>2. worker_ticker' \in Tickers
    <3>1. CASE worker_ticker < NumTickers
      <4>1. worker_ticker' = worker_ticker + 1
        BY <1>12, <3>1 DEF BuildOrder
      <4> QED
        BY <3>1, <4>1, TradeServiceAssumption DEF Tickers
    <3>2. CASE ~(worker_ticker < NumTickers)
      BY <1>12, <3>2 DEF BuildOrder
    <3> QED
      BY <3>1, <3>2
  <2> QED
    BY <1>12, <2>1, <2>2 DEF BuildOrder
<1>13. CASE QueueOrders
  BY <1>13, CountLateType DEF QueueOrders, Threads
<1>14. CASE UNCHANGED vars
  BY <1>14 DEF vars
<1> QED
  BY <1>1, <1>2, <1>3, <1>4, <1>5, <1>6, <1>7, <1>8, <1>9, <1>10, <1>11,
     <1>12, <1>13, <1>14
  DEF Next, Start, Join, MonitorStep, WorkerStep

\* Tickers and prices stay in their ranges and every thread in its loop,
\* whatever is read and whichever threads start (trade_service.c).
THEOREM TypeCorrect == SafeSpec => []TypeOK
  BY TypeInit, TypeStep, PTL DEF SafeSpec

-----------------------------------------------------------------------------
(* Prices and fills.                                                        *)

\* What MarketInv says of one ticker.
TickerInv(t) ==
  LET between == IF observed[t].before = 0 THEN {}
                 ELSE Between(observed[t].before, observed[t].last)
  IN /\ last_prices[t] = IF Busy(t) THEN observed[t].before ELSE observed[t].last
     /\ Busy(t) => current_price = observed[t].last
     /\ visited[t] \subseteq crossed[t]
     /\ IF monitor = "fills" /\ monitor_ticker = t
          THEN crossed[t] \ visited[t] \subseteq between /\ between \subseteq crossed[t]
          ELSE crossed[t] \subseteq visited[t]

LEMMA MarketInvTickers == MarketInv <=> \A t \in Tickers : TickerInv(t)
  BY DEF MarketInv, TickerInv

LEMMA BetweenSymmetric ==
  ASSUME NEW p, NEW q
  PROVE  Between(p, q) = Between(q, p)
  BY DEF Between

LEMMA MarketInit == Init => MarketInv
<1> SUFFICES ASSUME Init, NEW t \in Tickers
             PROVE  TickerInv(t)
  BY MarketInvTickers
<1>1. /\ observed[t].last = last_prices[t]
      /\ crossed[t] = {} /\ visited[t] = {}
      /\ monitor = "none"
  BY DEF Init
<1> QED
  BY <1>1 DEF TickerInv, Busy

\* A step that changes neither the prices nor what was visited keeps the
\* invariant if the monitor is no busier after it.
LEMMA MarketUnchanged ==
  ASSUME MarketInv, UNCHANGED marketVars, UNCHANGED last_prices,
         monitor \notin {"fills", "store"},
         monitor' \notin {"fills", "store"}
  PROVE  MarketInv'
  BY DEF MarketInv, marketVars, Busy

\* A step of another thread.
LEMMA MarketElsewhere ==
  ASSUME MarketInv, UNCHANGED marketVars, UNCHANGED last_prices,
         UNCHANGED monitorVars
  PROVE  MarketInv'
  BY DEF MarketInv, marketVars, monitorVars, Busy

\* A step that concerns ticker t alone.
LEMMA MarketOneTicker ==
  ASSUME MarketInv, NEW t \in Tickers, TickerInv(t)',
         monitor_ticker = t, monitor \in {"read", "fills", "store"},
         monitor' \in {"fills", "store"} => monitor_ticker' = t,
         \A u \in Tickers \ {t} : /\ last_prices'[u] = last_prices[u]
                                  /\ observed'[u] = observed[u]
                                  /\ crossed'[u] = crossed[u]
                                  /\ visited'[u] = visited[u]
  PROVE  MarketInv'
<1> SUFFICES ASSUME NEW u \in Tickers, u # t
             PROVE  TickerInv(u)'
  BY DEF MarketInv, TickerInv, Busy
<1>1. TickerInv(u) /\ ~Busy(u) /\ ~Busy(u)'
  BY MarketInvTickers DEF Busy
<1>2. /\ ~(monitor = "fills" /\ monitor_ticker = u)
      /\ ~(monitor' = "fills" /\ monitor_ticker' = u)
  OBVIOUS
<1> QED
  BY <1>1, <1>2 DEF TickerInv

LEMMA NextTickerNotBusy ==
  ASSUME NextTicker
  PROVE  monitor' \notin {"fills", "store"}
  BY DEF NextTicker

LEMMA MarketReadPrice == TypeOK /\ MarketInv /\ ReadPrice => MarketInv'
<1> SUFFICES ASSUME TypeOK, MarketInv, ReadPrice
             PROVE  MarketInv'
  OBVIOUS
<1> DEFINE t == monitor_ticker
           q == observed[t].last
<1>1. /\ monitor = "read" /\ t \in Tickers
      /\ UNCHANGED last_prices /\ UNCHANGED visited
  BY DEF ReadPrice, TypeOK
<1>2. PICK p \in Readings(SourcesDeliver) :
        /\ current_price' = p
        /\ IF p = 0
             THEN NextTicker /\ UNCHANGED <<observed, crossed>>
             ELSE /\ monitor' = "fills"
                  /\ observed' = [observed EXCEPT
                                    ![t] = [last |-> p, before |-> q]]
                  /\ crossed' = [crossed EXCEPT ![t] =
                       IF q = 0 THEN @ ELSE @ \cup Between(p, q)]
                  /\ UNCHANGED monitor_ticker
  BY DEF ReadPrice
<1>3. CASE p = 0
  <2>1. monitor' \notin {"fills", "store"}
    BY <1>2, <1>3, NextTickerNotBusy
  <2> QED
    BY <1>1, <1>2, <1>3, <2>1, MarketUnchanged DEF marketVars
<1>4. CASE p # 0
  <2>1. /\ observed'[t] = [last |-> p, before |-> q]
        /\ crossed'[t] = IF q = 0 THEN crossed[t] ELSE crossed[t] \cup Between(q, p)
    BY <1>1, <1>2, <1>4, BetweenSymmetric DEF TypeOK
  <2>2. last_prices[t] = q /\ crossed[t] = visited[t]
    BY <1>1, MarketInvTickers DEF TickerInv, Busy
  <2>3. TickerInv(t)'
    BY <1>1, <1>2, <1>4, <2>1, <2>2 DEF TickerInv, Busy
  <2>4. \A u \in Tickers \ {t} : observed'[u] = observed[u] /\ crossed'[u] = crossed[u]
    BY <1>1, <1>2, <1>4 DEF TypeOK
  <2> QED
    BY <1>1, <1>2, <1>4, <2>3, <2>4, MarketOneTicker
<1> QED
  BY <1>3, <1>4

LEMMA MarketProcessFills == TypeOK /\ MarketInv /\ ProcessFills => MarketInv'
<1> SUFFICES ASSUME TypeOK, MarketInv, ProcessFills
             PROVE  MarketInv'
  OBVIOUS
<1> DEFINE t == monitor_ticker
<1>1. /\ monitor = "fills" /\ monitor' = "store" /\ t \in Tickers
      /\ UNCHANGED <<monitor_ticker, last_prices, current_price, observed, crossed>>
  BY DEF ProcessFills, TypeOK
<1>2. /\ last_prices[t] = observed[t].before
      /\ current_price = observed[t].last
      /\ TickerInv(t)
  BY <1>1, MarketInvTickers DEF TickerInv, Busy
<1>3. visited'[t] = IF observed[t].before = 0 THEN visited[t]
                    ELSE visited[t] \cup Between(observed[t].before, observed[t].last)
  BY <1>1, <1>2 DEF ProcessFills, TypeOK
<1>4. \A u \in Tickers \ {t} : visited'[u] = visited[u]
  BY <1>1 DEF ProcessFills, TypeOK
<1>5. visited'[t] = crossed[t]
  BY <1>1, <1>2, <1>3 DEF TickerInv
<1>6. TickerInv(t)'
  BY <1>1, <1>2, <1>5 DEF TickerInv, Busy
<1> QED
  BY <1>1, <1>4, <1>6, MarketOneTicker

LEMMA MarketStorePrice == TypeOK /\ MarketInv /\ StorePrice => MarketInv'
<1> SUFFICES ASSUME TypeOK, MarketInv, StorePrice
             PROVE  MarketInv'
  OBVIOUS
<1>0. PICK t \in Tickers : t = monitor_ticker
  BY DEF TypeOK
<1>1. /\ monitor = "store"
      /\ monitor' \notin {"fills", "store"}
      /\ UNCHANGED observed /\ UNCHANGED crossed /\ UNCHANGED visited
  BY NextTickerNotBusy DEF StorePrice, TypeOK, marketVars
<1>2. current_price = observed[t].last /\ TickerInv(t)
  BY <1>0, <1>1, MarketInvTickers DEF TickerInv, Busy
<1>3. /\ last_prices'[t] = current_price
      /\ \A u \in Tickers \ {t} : last_prices'[u] = last_prices[u]
  BY <1>0, <1>1 DEF StorePrice, TypeOK
<1>4. TickerInv(t)'
  BY <1>0, <1>1, <1>2, <1>3 DEF TickerInv, Busy
<1> QED
  BY <1>0, <1>1, <1>3, <1>4, MarketOneTicker

LEMMA MarketStep == TypeOK /\ JoinInv /\ MarketInv /\ [Next]_vars => MarketInv'
<1> SUFFICES ASSUME TypeOK, JoinInv, MarketInv, [Next]_vars
             PROVE  MarketInv'
  OBVIOUS
<1>1. CASE CreateMonitor
  <2>1. monitor = "none" /\ monitor' \in {"none", "check"}
    BY <1>1 DEF CreateMonitor, JoinInv
  <2> QED
    BY <1>1, <2>1, MarketUnchanged DEF CreateMonitor
<1>2. CASE CreateWorker
  BY <1>2, MarketElsewhere DEF CreateWorker
<1>3. CASE SetExitFlag
  BY <1>3, MarketElsewhere DEF SetExitFlag
<1>4. CASE JoinMonitor
  BY <1>4, MarketElsewhere DEF JoinMonitor
<1>5. CASE JoinWorker
  BY <1>5, MarketElsewhere DEF JoinWorker
<1>6. CASE MonitorCheck
  BY <1>6, MarketUnchanged DEF MonitorCheck, CheckExitFlag
<1>7. CASE ReadPrice
  BY <1>7, MarketReadPrice
<1>8. CASE ProcessFills
  BY <1>8, MarketProcessFills
<1>9. CASE StorePrice
  BY <1>9, MarketStorePrice
<1>10. CASE QueuePrices
  BY <1>10, MarketUnchanged DEF QueuePrices
<1>11. CASE WorkerCheck
  BY <1>11, MarketElsewhere DEF WorkerCheck
<1>12. CASE BuildOrder
  BY <1>12, MarketElsewhere DEF BuildOrder
<1>13. CASE QueueOrders
  BY <1>13, MarketElsewhere DEF QueueOrders
<1>14. CASE UNCHANGED vars
  BY <1>14, MarketElsewhere DEF vars
<1> QED
  BY <1>1, <1>2, <1>3, <1>4, <1>5, <1>6, <1>7, <1>8, <1>9, <1>10, <1>11,
     <1>12, <1>13, <1>14
  DEF Next, Start, Join, MonitorStep, WorkerStep

-----------------------------------------------------------------------------
(* Stopping.                                                                *)

LEMMA JoinStep == TypeOK /\ JoinInv /\ [Next]_vars => JoinInv'
<1> SUFFICES ASSUME TypeOK, JoinInv, [Next]_vars
             PROVE  JoinInv'
  OBVIOUS
<1>1. CASE Start \/ SetExitFlag \/ Join
  BY <1>1 DEF TypeOK, JoinInv, monitorVars, workerVars, Start, CreateMonitor,
              CreateWorker, SetExitFlag, Join, JoinMonitor, JoinWorker
\* A thread in its loop ends only when it has seen the exit flag.
<1>2. CASE MonitorStep
  <2>1. /\ monitor \notin {"none", "done"} /\ monitor' # "none"
        /\ monitor' = "done" => exit_flag
    <3>1. CASE MonitorCheck
      BY <3>1 DEF MonitorCheck, CheckExitFlag
    <3>2. CASE ReadPrice \/ ProcessFills \/ StorePrice \/ QueuePrices
      BY <3>2 DEF ReadPrice, ProcessFills, StorePrice, QueuePrices, NextTicker
    <3> QED
      BY <1>2, <3>1, <3>2 DEF MonitorStep
  <2>2. UNCHANGED <<caller, exit_flag, worker>>
    BY <1>2 DEF MonitorStep, MonitorCheck, ReadPrice, ProcessFills, StorePrice,
                QueuePrices, workerVars
  <2> QED
    BY <2>1, <2>2 DEF JoinInv
<1>3. CASE WorkerStep
  <2>1. /\ worker \notin {"none", "done"} /\ worker' # "none"
        /\ worker' = "done" => exit_flag
    <3>1. CASE WorkerCheck
      BY <3>1 DEF WorkerCheck, CheckExitFlag
    <3>2. CASE BuildOrder \/ QueueOrders
      BY <3>2 DEF BuildOrder, QueueOrders
    <3> QED
      BY <1>3, <3>1, <3>2 DEF WorkerStep
  <2>2. UNCHANGED <<caller, exit_flag, monitor>>
    BY <1>3 DEF WorkerStep, WorkerCheck, BuildOrder, QueueOrders, monitorVars
  <2> QED
    BY <2>1, <2>2 DEF JoinInv
<1>4. CASE UNCHANGED vars
  BY <1>4 DEF JoinInv, vars, monitorVars, workerVars
<1> QED
  BY <1>1, <1>2, <1>3, <1>4 DEF Next

\* Only the step that queues an event counts one, and only the check after it
\* moves the thread on.
LEMMA LateStep == TypeOK /\ JoinInv /\ LateInv /\ [Next]_vars => LateInv'
<1> SUFFICES ASSUME TypeOK, JoinInv, LateInv, [Next]_vars
             PROVE  LateInv'
  OBVIOUS
<1> USE DEF TypeOK, JoinInv, LateInv, Threads, monitorVars, workerVars
<1>1. CASE Start \/ SetExitFlag \/ Join
  BY <1>1 DEF Start, CreateMonitor, CreateWorker, SetExitFlag, Join,
              JoinMonitor, JoinWorker
<1>2. CASE MonitorCheck
  BY <1>2 DEF MonitorCheck, CheckExitFlag
<1>3. CASE ReadPrice \/ ProcessFills \/ StorePrice
  BY <1>3 DEF ReadPrice, ProcessFills, StorePrice
<1>4. CASE QueuePrices
  BY <1>4 DEF QueuePrices, CountLate
<1>5. CASE WorkerCheck
  BY <1>5 DEF WorkerCheck, CheckExitFlag
<1>6. CASE BuildOrder
  BY <1>6 DEF BuildOrder
<1>7. CASE QueueOrders
  BY <1>7 DEF QueueOrders, CountLate
<1>8. CASE UNCHANGED vars
  BY <1>8 DEF vars
<1> QED
  BY <1>1, <1>2, <1>3, <1>4, <1>5, <1>6, <1>7, <1>8
  DEF Next, MonitorStep, WorkerStep

-----------------------------------------------------------------------------
(* The theorems.                                                            *)

\* The inductive invariant: the last price of a ticker is the last reading but
\* while the monitor is busy with it, and the threads stop in order
\* (market_monitor, trade_service_stop).
THEOREM ServiceInvariant == SafeSpec => []ServiceInv
<1>1. Init => ServiceInv
  <2>1. Init => LateInv /\ JoinInv
    BY DEF Init, LateInv, JoinInv
  <2> QED
    BY <2>1, TypeInit, MarketInit DEF ServiceInv
<1>2. ServiceInv /\ [Next]_vars => ServiceInv'
  BY TypeStep, MarketStep, LateStep, JoinStep DEF ServiceInv
<1> QED
  BY <1>1, <1>2, PTL DEF SafeSpec

\* Every order the market passed over has been visited, over any number of
\* rounds, failed reads and skipped tickers (process_fills).
THEOREM CrossingsVisited == SafeSpec => []NoCrossingMissed
<1>1. ServiceInv => NoCrossingMissed
  BY DEF ServiceInv, MarketInv, NoCrossingMissed
<1> QED
  BY <1>1, ServiceInvariant, PTL

\* No order is visited that the market did not pass over (process_fills).
THEOREM OnlyCrossingsVisited == SafeSpec => []NoFillOffMarket
<1>1. ServiceInv => NoFillOffMarket
  BY DEF ServiceInv, MarketInv, NoFillOffMarket
<1> QED
  BY <1>1, ServiceInvariant, PTL

\* The worker builds its orders around one of the last two readings
\* (build_simulated_order).
THEOREM SimulatedOrdersFresh == SafeSpec => SimPriceFresh
<1>1. ServiceInv /\ [Next]_vars
        => [\A t \in Tickers :
              BuildOrder /\ worker_ticker = t
                => sim_price' \in {observed[t].last, observed[t].before}]_vars
  BY DEF ServiceInv, MarketInv, BuildOrder
<1> QED
  BY <1>1, ServiceInvariant, PTL DEF SafeSpec, SimPriceFresh

\* A thread queues one event at most after the exit flag has been set
\* (thread_check_exit_flag).
THEOREM OneLateEvent == SafeSpec => []AtMostOneLateEvent
<1>1. ServiceInv => AtMostOneLateEvent
  BY DEF ServiceInv, TypeOK, LateInv, AtMostOneLateEvent
<1> QED
  BY <1>1, ServiceInvariant, PTL

\* Both threads run once trade_service_start has reported success, none was
\* created when it has reported a failure, and when it could not create the
\* second one it waits for a first that does not end (trade_service_start).
THEOREM StartedWhole == SafeSpec => []StartsWhole
<1>1. ServiceInv => StartsWhole
  BY DEF ServiceInv, JoinInv, StartsWhole
<1> QED
  BY <1>1, ServiceInvariant, PTL

\* Nothing runs once trade_service_stop has returned.
THEOREM StoppedIsQuiet == SafeSpec => QuietAfterStop
<1>1. ServiceInv /\ [Next]_vars
        => [caller = "stopped" => UNCHANGED <<monitor, worker>>]_vars
  <2> SUFFICES ASSUME ServiceInv, Next, caller = "stopped"
               PROVE  UNCHANGED <<monitor, worker>>
    BY DEF vars
  <2>1. monitor = "done" /\ worker = "done"
    BY DEF ServiceInv, JoinInv
  <2> QED
    BY <2>1 DEF Next, Start, Join, CreateMonitor, CreateWorker, SetExitFlag,
       JoinMonitor, JoinWorker, MonitorStep, MonitorCheck, ReadPrice,
       ProcessFills, StorePrice, QueuePrices, WorkerStep, WorkerCheck,
       BuildOrder, QueueOrders
<1> QED
  BY <1>1, ServiceInvariant, PTL DEF SafeSpec, QuietAfterStop

=============================================================================
