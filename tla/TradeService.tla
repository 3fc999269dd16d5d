---------------------------- MODULE TradeService ----------------------------
(***************************************************************************)
(* The threads of the trade service (trade_service.c): the thread that     *)
(* starts and stops it, market_monitor and simulated_order_worker, with    *)
(* the two mutexes they share, last_price_lock and exit_lock.              *)
(*                                                                         *)
(* A critical section that always ends with its unlock is one atomic step. *)
(* The one in process_fills is not: it has an early return that keeps      *)
(* last_price_lock, so the lock has a holder here.  What is done between   *)
(* two locks by one thread, on data no other thread touches, is part of    *)
(* the step it follows or precedes.                                        *)
(*                                                                         *)
(* The price sources are files; a read of one yields a price or fails, and *)
(* a failed read is a price of 0.  A price stands for itself; where orders *)
(* rest between prices does not matter, only which prices the market       *)
(* passed over.  The books the orders are in, and load_orders, are in      *)
(* OrderBook; the queue the events go to is in DataQueue.                  *)
(***************************************************************************)
EXTENDS Integers

CONSTANTS
  NumTickers,         \* NUM_TICKERS (4)
  MaxPrice,           \* prices are 1..MaxPrice
  SourcesLoad,        \* TRUE if init_service reads a price for every ticker
  SourcesDeliver,     \* TRUE if every read of market_monitor yields a price
  ThreadsStart        \* TRUE if pthread_create never fails

ASSUME TradeServiceAssumption ==
  /\ NumTickers \in Nat \ {0}
  /\ MaxPrice \in Nat \ {0}
  /\ SourcesLoad \in BOOLEAN
  /\ SourcesDeliver \in BOOLEAN
  /\ ThreadsStart \in BOOLEAN

VARIABLES
  caller,           \* where the thread is that starts and stops the service
  monitor,          \* where market_monitor is
  worker,           \* where simulated_order_worker is
  exit_flag,        \* set by trade_service_stop
  price_lock,       \* holder of service->last_price_lock
  last_prices,      \* service->last_prices[t].price, 0 while there is none
  monitor_ticker,   \* ticker_idx of market_monitor
  current_price,    \* current_price of market_monitor
  worker_ticker,    \* ticker_idx of simulated_order_worker
  sim_price,        \* the price the last simulated order was built around
  late,             \* late[w]: events queued by w since the exit flag was set
  observed,         \* observed[t]: the last two prices read for t, 0 if none
  crossed,          \* crossed[t]: prices the market of t has passed over
  visited           \* visited[t]: prices whose orders were visited for t

monitorVars == <<monitor, monitor_ticker, current_price>>
workerVars  == <<worker, worker_ticker, sim_price>>
marketVars  == <<observed, crossed, visited>>
vars == <<caller, exit_flag, price_lock, last_prices,
          monitorVars, workerVars, late, marketVars>>

Tickers == 1..NumTickers
Prices  == 1..MaxPrice
Threads == {"monitor", "worker"}

-----------------------------------------------------------------------------

\* What a read of a price source can yield.
Readings(delivers) == IF delivers THEN Prices ELSE Prices \cup {0}

\* The prices between two prices, both included.
Between(p, q) == {r \in Prices : (p <= r /\ r <= q) \/ (q <= r /\ r <= p)}

\* trade_service_init: all prices 0, then init_service reads the first price
\* of each source.  One that cannot be read is logged and stays 0.
Init ==
  /\ caller = "init"
  /\ monitor = "none"
  /\ worker = "none"
  /\ exit_flag = FALSE
  /\ price_lock = "free"
  /\ last_prices \in [Tickers -> Readings(SourcesLoad)]
  /\ monitor_ticker = 1
  /\ current_price = 0
  /\ worker_ticker = 1
  /\ sim_price = 0
  /\ late = [w \in Threads |-> 0]
  /\ observed = [t \in Tickers |-> [last |-> last_prices[t], before |-> 0]]
  /\ crossed = [t \in Tickers |-> {}]
  /\ visited = [t \in Tickers |-> {}]

-----------------------------------------------------------------------------
(* trade_service_start and trade_service_stop.                              *)

\* The monitor is created, or trade_service_start fails.
CreateMonitor ==
  /\ caller = "init"
  /\ \/ caller' = "monitor_created" /\ monitor' = "check"
     \/ ~ThreadsStart /\ caller' = "start_failed" /\ UNCHANGED monitor
  /\ UNCHANGED <<exit_flag, price_lock, last_prices, monitor_ticker,
                 current_price, workerVars, late, marketVars>>

\* The worker is created, or trade_service_start waits for the monitor.
CreateWorker ==
  /\ caller = "monitor_created"
  /\ \/ caller' = "started" /\ worker' = "check"
     \/ ~ThreadsStart /\ caller' = "start_join" /\ UNCHANGED worker
  /\ UNCHANGED <<exit_flag, price_lock, last_prices, monitorVars,
                 worker_ticker, sim_price, late, marketVars>>

\* trade_service_stop, called once the service has started.
SetExitFlag ==
  /\ caller = "started"
  /\ exit_flag' = TRUE
  /\ caller' = "join_monitor"
  /\ UNCHANGED <<price_lock, last_prices, monitorVars, workerVars, late,
                 marketVars>>

\* Mutant: trade_service_start does not wait for the monitor it has created.
JoinMonitor_StartDoesNotWait ==
  /\ caller \in {"join_monitor", "start_join"}
  /\ monitor = "done" \/ caller = "start_join"
  /\ caller' = IF caller = "join_monitor" THEN "join_worker" ELSE "start_failed"
  /\ UNCHANGED <<exit_flag, price_lock, last_prices, monitorVars, workerVars,
                 late, marketVars>>

\* pthread_join(monitor_thread): trade_service_stop goes on to the worker,
\* trade_service_start reports its failure.
JoinMonitor ==
  /\ caller \in {"join_monitor", "start_join"}
  /\ monitor = "done"
  /\ caller' = IF caller = "join_monitor" THEN "join_worker" ELSE "start_failed"
  /\ UNCHANGED <<exit_flag, price_lock, last_prices, monitorVars, workerVars,
                 late, marketVars>>

\* Mutant: the second join is forgotten.
JoinWorker_Forgotten ==
  /\ caller = "join_worker"
  /\ caller' = "stopped"
  /\ UNCHANGED <<exit_flag, price_lock, last_prices, monitorVars, workerVars,
                 late, marketVars>>

JoinWorker ==
  /\ caller = "join_worker"
  /\ worker = "done"
  /\ caller' = "stopped"
  /\ UNCHANGED <<exit_flag, price_lock, last_prices, monitorVars, workerVars,
                 late, marketVars>>

-----------------------------------------------------------------------------
(* market_monitor.                                                          *)

\* thread_check_exit_flag: a thread that does not end goes on to its round.
CheckExitFlag(round) == IF exit_flag THEN "done" ELSE round

\* Mutant: the exit flag is not looked at.
MonitorCheck_IgnoresFlag ==
  /\ monitor = "check"
  /\ monitor' = "read"
  /\ monitor_ticker' = 1
  /\ UNCHANGED <<caller, exit_flag, price_lock, last_prices, current_price,
                 workerVars, late, marketVars>>

\* The check, and a new round.
MonitorCheck ==
  /\ monitor = "check"
  /\ monitor' = CheckExitFlag("read")
  /\ monitor_ticker' = 1
  /\ UNCHANGED <<caller, exit_flag, price_lock, last_prices, current_price,
                 workerVars, late, marketVars>>

\* After a ticker comes the next one; after the last one the event is queued.
NextTicker ==
  IF monitor_ticker < NumTickers
    THEN monitor_ticker' = monitor_ticker + 1 /\ monitor' = "read"
    ELSE UNCHANGED monitor_ticker /\ monitor' = "queue"

\* read_price_source.  A ticker whose price cannot be read is skipped.  The
\* price read is where the market now is, and passes over what is between.
ReadPrice ==
  /\ monitor = "read"
  /\ \E p \in Readings(SourcesDeliver) :
       /\ current_price' = p
       /\ IF p = 0
            THEN NextTicker /\ UNCHANGED <<observed, crossed>>
            ELSE LET t == monitor_ticker
                     q == observed[t].last IN
                   /\ monitor' = "fills"
                   /\ observed' = [observed EXCEPT
                                     ![t] = [last |-> p, before |-> q]]
                   /\ crossed' = [crossed EXCEPT ![t] =
                        IF q = 0 THEN @ ELSE @ \cup Between(p, q)]
                   /\ UNCHANGED monitor_ticker
  /\ UNCHANGED <<caller, exit_flag, price_lock, last_prices, 
                 workerVars, late, visited>>

\* Mutant: a missing last price is taken for a price of 0.
ProcessFills_FromZero ==
  /\ monitor = "fills"
  /\ price_lock = "free"
  /\ LET t == monitor_ticker IN
       visited' = [visited EXCEPT ![t] =
                     @ \cup Between(last_prices[t], current_price)]
  /\ monitor' = "store"
  /\ UNCHANGED <<caller, exit_flag, price_lock, last_prices, monitor_ticker,
                 current_price, workerVars, late, observed,
                 crossed>>

\* process_fills: without a last price it returns at once, and keeps
\* last_price_lock; otherwise it visits the orders of both books between the
\* last price and the current one.
ProcessFills ==
  /\ monitor = "fills"
  /\ price_lock = "free"
  /\ LET t == monitor_ticker IN
       IF last_prices[t] = 0
         THEN price_lock' = "monitor" /\ UNCHANGED visited
         ELSE /\ visited' = [visited EXCEPT ![t] =
                               @ \cup Between(last_prices[t], current_price)]
              /\ UNCHANGED price_lock
  /\ monitor' = "store"
  /\ UNCHANGED <<caller, exit_flag, last_prices, monitor_ticker,
                 current_price, workerVars, late, observed,
                 crossed>>

\* Mutant: the last price of the first ticker is stored for every ticker.
StorePrice_WrongTicker ==
  /\ monitor = "store"
  /\ price_lock = "free"
  /\ last_prices' = [last_prices EXCEPT ![1] = current_price]
  /\ NextTicker
  /\ UNCHANGED <<caller, exit_flag, price_lock, current_price, workerVars,
                 late, marketVars>>

\* The current price becomes the last one, under last_price_lock.  The mutex is
\* not recursive.
StorePrice ==
  /\ monitor = "store"
  /\ price_lock = "free"
  /\ last_prices' = [last_prices EXCEPT ![monitor_ticker] = current_price]
  /\ NextTicker
  /\ UNCHANGED <<caller, exit_flag, price_lock, current_price, workerVars,
                 late, marketVars>>

\* Thread w has called sse_server_queue_data; two late events are as bad as
\* more.
CountLate(w) ==
  late' = [late EXCEPT ![w] = IF exit_flag /\ @ < 2 THEN @ + 1 ELSE @]

\* sse_server_queue_data, sleep(2) and load_orders.
QueuePrices ==
  /\ monitor = "queue"
  /\ CountLate("monitor")
  /\ monitor' = "check"
  /\ UNCHANGED <<caller, exit_flag, price_lock, last_prices, monitor_ticker,
                 current_price, workerVars, marketVars>>

-----------------------------------------------------------------------------
(* simulated_order_worker.                                                  *)

WorkerCheck ==
  /\ worker = "check"
  /\ worker' = CheckExitFlag("build")
  /\ worker_ticker' = 1
  /\ sim_price' = 0
  /\ UNCHANGED <<caller, exit_flag, price_lock, last_prices, monitorVars,
                 late, marketVars>>

\* build_simulated_order, under last_price_lock.
BuildOrder ==
  /\ worker = "build"
  /\ price_lock = "free"
  /\ sim_price' = last_prices[worker_ticker]
  /\ IF worker_ticker < NumTickers
       THEN worker_ticker' = worker_ticker + 1 /\ UNCHANGED worker
       ELSE worker' = "queue" /\ UNCHANGED worker_ticker
  /\ UNCHANGED <<caller, exit_flag, price_lock, last_prices, monitorVars,
                 late, marketVars>>

\* sse_server_queue_data and sleep(3).
QueueOrders ==
  /\ worker = "queue"
  /\ CountLate("worker")
  /\ worker' = "check"
  /\ UNCHANGED <<caller, exit_flag, price_lock, last_prices, monitorVars,
                 worker_ticker, sim_price, marketVars>>

-----------------------------------------------------------------------------

Start == CreateMonitor \/ CreateWorker
Join  == JoinMonitor \/ JoinWorker

MonitorStep ==
  MonitorCheck \/ ReadPrice \/ ProcessFills \/ StorePrice \/ QueuePrices
WorkerStep == WorkerCheck \/ BuildOrder \/ QueueOrders

Next == Start \/ SetExitFlag \/ Join \/ MonitorStep \/ WorkerStep

SafeSpec == Init /\ [][Next]_vars

\* The operating system runs every thread that can run, and a thread that
\* waits for a mutex nobody keeps gets it.  Nothing makes the caller stop the
\* service.
Fairness ==
  /\ WF_vars(Start) /\ WF_vars(Join)
  /\ WF_vars(MonitorStep) /\ WF_vars(WorkerStep)

Spec == SafeSpec /\ Fairness

-----------------------------------------------------------------------------

TypeOK ==
  /\ caller \in {"init", "monitor_created", "started", "start_join",
                 "start_failed", "join_monitor", "join_worker", "stopped"}
  /\ monitor \in {"none", "check", "read", "fills", "store", "queue", "done"}
  /\ worker \in {"none", "check", "build", "queue", "done"}
  /\ exit_flag \in BOOLEAN
  /\ price_lock \in {"free", "monitor"}
  /\ last_prices \in [Tickers -> 0..MaxPrice]
  /\ monitor_ticker \in Tickers
  /\ current_price \in 0..MaxPrice
  /\ worker_ticker \in Tickers
  /\ sim_price \in 0..MaxPrice
  /\ late \in [Threads -> 0..2]
  /\ observed \in [Tickers -> [last : 0..MaxPrice, before : 0..MaxPrice]]
  /\ crossed \in [Tickers -> SUBSET Prices]
  /\ visited \in [Tickers -> SUBSET Prices]

\* Every order the market of its ticker passed over, from one reading to the
\* next, has been visited by process_fills, however many rounds skipped the
\* ticker in between because its source failed.
NoCrossingMissed ==
  \A t \in Tickers :
    monitor # "fills" \/ monitor_ticker # t => crossed[t] \subseteq visited[t]

\* process_fills never visits an order at a price the market did not pass
\* over: not when there is no last price, nor when rounds were skipped.
NoFillOffMarket == \A t \in Tickers : visited[t] \subseteq crossed[t]

\* The worker builds its orders around the last price read for the ticker
\* or, while the monitor is busy with the fills of that one, around the one
\* before.
SimPriceFresh ==
  [][\A t \in Tickers :
       BuildOrder /\ worker_ticker = t
         => sim_price' \in {observed[t].last, observed[t].before}]_vars

\* Once the exit flag is set each thread finishes the round it is in: it
\* queues one more event at most.
AtMostOneLateEvent == \A w \in Threads : late[w] <= 1

\* When trade_service_stop has returned, no thread of the service runs, so
\* what the threads use may be freed.
QuietAfterStop ==
  [][caller = "stopped" => UNCHANGED <<monitor, worker>>]_vars

\* market_monitor is between reading a price for t and storing it.
Busy(t) == monitor \in {"fills", "store"} /\ monitor_ticker = t

\* The last price of t is the last reading, or the one before while the
\* monitor is busy with t; the last prices passed over may be waiting for
\* process_fills.
MarketInv ==
  \A t \in Tickers :
    LET between == IF observed[t].before = 0 THEN {}
                   ELSE Between(observed[t].before, observed[t].last)
    IN /\ last_prices[t] = IF Busy(t) THEN observed[t].before ELSE observed[t].last
       /\ Busy(t) => current_price = observed[t].last
       /\ visited[t] \subseteq crossed[t]
       /\ IF monitor = "fills" /\ monitor_ticker = t
            THEN crossed[t] \ visited[t] \subseteq between /\ between \subseteq crossed[t]
            ELSE crossed[t] \subseteq visited[t]

\* A thread that has queued an event after the exit flag was set is about to
\* see the flag, or has.
LateInv ==
  \A w \in Threads :
    late[w] # 0 => /\ late[w] = 1
                   /\ exit_flag
                   /\ (IF w = "monitor" THEN monitor ELSE worker) \in {"check", "done"}

\* A thread is there once it has been created, and ends only after the exit
\* flag, which trade_service_stop alone sets; the threads are joined in order.
JoinInv ==
  /\ monitor = "none" <=> caller \in {"init", "start_failed"}
  /\ worker = "none" <=>
       caller \in {"init", "monitor_created", "start_join", "start_failed"}
  /\ exit_flag <=> caller \in {"join_monitor", "join_worker", "stopped"}
  /\ monitor = "done" \/ worker = "done" => exit_flag
  /\ caller \in {"join_worker", "stopped"} => monitor = "done"
  /\ caller = "stopped" => worker = "done"

\* The inductive invariant behind the properties above.
ServiceInv == TypeOK /\ MarketInv /\ LateInv /\ JoinInv

\* trade_service_start leaves no half of a service behind: both threads run when
\* it has reported success, and until somebody stops them, and none was ever
\* created when it has reported a failure.  So it reports nothing when it could
\* create the monitor only: the monitor it then joins has not been told to
\* exit, and keeps running.
StartsWhole ==
  /\ caller = "started" => {monitor, worker} \cap {"none", "done"} = {}
  /\ caller = "start_failed" => monitor = "none" /\ worker = "none"
  /\ caller = "start_join" => monitor \notin {"none", "done"} /\ worker = "none"

\* The monitor waits for a mutex it holds itself.
MonitorStuck == monitor = "store" /\ price_lock = "monitor"

\* market_monitor can store the price it has just processed.
MonitorNotStuck == ~MonitorStuck

\* trade_service_stop returns, whatever the threads are doing and whatever
\* reads fail, unless the monitor is stuck: nothing else can keep a thread
\* from its exit flag.
StopReturns == caller = "join_monitor" ~> caller = "stopped" \/ MonitorStuck

=============================================================================
