# TLA+ models of the trade server

This directory holds TLA+ specifications of the trade server in `src/`, the
TLC configurations that model-check them on small instances, and TLAPS proofs
of their main properties. `PROJECT.json` is the machine-readable index:
components, runs, mutants, the map from definitions to source lines, findings,
hazards and theorems.

    tlc  -config data_queue.cfg MCDataQueue.tla    # model-check one run
    tlapm DataQueueProofs.tla                      # check the proofs of one module

## 1. The system

`main.c` starts an SSE (server-sent events) server and a trade service, and then
sleeps for ever; it stops neither. Two test programs do: `test/sse_server_test.c`
stops the server, `test/trade_service_test.c` the trade service. The trade
service produces events; the SSE server sends every event to every connected
client.

    price files --> market_monitor ------+                       +-> write thread 1 -> clients
                                         +-> sse_server_queue ->-+-> write thread 2 -> clients
    last prices --> simulated_order_     |      (data queue)     +-> write thread 3 -> clients
                    worker --------------+                       
    trade_orders -> load_orders -> hash table + red-black trees -> process_fills
    sockets -> server thread (epoll) -> client lists (one per write thread)

Seven threads: the main thread, the server thread, three write threads, the
market monitor and the simulated order worker.

### Components

| Component | State | Operations | Works with | Hard to get right | What makes it correct |
|---|---|---|---|---|---|
| **Shared data queue, write threads** (`sse_client_writer.c`) | ring of nodes (id, data), write index, message counter; per thread: read index, last id, stop flag | `client_writer_queue_data`, `client_write_thread`, `client_writer_start`/`stop` | two producers, three readers, one mutex | indices that wrap on either side at different times; readers overtaken by producers; "new" decided by a wall-clock id; stop while threads sleep or send | ring holds the newest messages; order; loss only when lapped; nobody sleeps on unread messages; stop joins everybody |
| **Client lists** (`sse_client_writer.c`) | per list: descriptors, count; round-robin index | `client_writer_add_client`, `client_writer_select_manager`, `send_sse_event` | server thread adds, write thread sends, no lock | append during the walk; reuse of descriptor numbers; full lists; partial writes | a connected client gets every message once, and only it does |
| **SSE server** (`sse_server.c`) | listening socket, epoll set, `stop_signal_received` | `sse_server_init`/`start`/`stop`/`destroy`, `sse_server_queue_data`, `server_thread` | client writer, signals, the main thread | which thread takes the signal; wake-up of `epoll_pwait`; what is freed when | no signal is lost; stop ends the loop; nothing is used after it is freed |
| **Trade service threads** (`trade_service.c`) | last prices, `last_price_lock`, exit flag | `trade_service_init`/`start`/`stop`, `market_monitor`, `simulated_order_worker`, `process_fills` | price files, data queue, order books | an early return inside a critical section; failed reads; half-started service | no crossed price is forgotten, none is invented; stop returns |
| **Order loading** (`trade_service.c`) | `last_order_read_time`, hash table of orders, price levels | `load_orders`, `load_orders_all_tickers`, `load_orders_helper` | the database, written by other programs | orders placed during a poll; the same second read twice; failed or truncated queries | every open order gets into its book, in time order; table and books agree |
| **Fills** (`trade_service.c`) | batches of updates | `fill_order`, `update_fill_data`, `dispatch_fill_data` | database | two updates without a transaction | (stub, see section 6) |
| **Hash table** (`hashtable.c`) | buckets, chains, `size`, `capacity` | `ht_put`, `ht_get`, `ht_remove`, `resize_hashtable` | order loading | chains moved as a whole when the table grows; failures after it has grown | a finite function, never overfull; no entry lost, no old value found |
| **Red-black tree** (`rb_tree.c`) | nodes, shared sentinel | `rbt_insert`, range visit | order loading, fills | rotations around the sentinel | sorted, balanced, visits exactly a range |
| **Doubly linked list** (`dl_list.c`) | dummy head, tail, links | `dl_list_insert`, `dl_list_remove` | price levels; hash entries refer to its nodes | removal of the last node; nodes and entries that outlive one another | a sequence; entries and nodes lead to one another |
| **Currency** (`currency.c`) | none | conversions between strings and integers | order loading | rounding | round trip |
| **Main programs** (`main.c`, two tests) | what was started | start, stop, destroy, exit | all of the above | starts that fail half-way; who still runs when something is freed | nothing is used before its time or after it |
| **Database, redis, logger** | connections, files | wrappers of client libraries | everything | when they are open | -- |

## 2. Modules

| Module | Models | Status |
|---|---|---|
| `Broadcast` | what the data queue promises to a write thread, without rings or ids | checked and proved against |
| `DataQueue` | the ring, the ids, the cursors, the write threads, `client_writer_stop` | checked, proved |
| `DataQueueProofs` | the theorems about `DataQueue` | proved |
| `ClientLists` | accepting, listing, writing to and losing clients, over descriptors that are reused | checked, proved |
| `ClientListsProofs` | the theorems about `ClientLists` | proved |
| `TradeService` | the trade service's threads, mutex and exit flag, price crossing | checked, proved |
| `TradeServiceProofs` | the theorems about `TradeService` | proved |
| `PriceLevels` | what loading orders promises to fills and cancellations: a queue of orders per price and a reference per order | checked and proved against |
| `OrderBook` | polling the database, the hash table and the price levels | checked, proved |
| `OrderBookProofs` | the theorems about `OrderBook` | proved |
| `RBTree` | insertion into a red-black tree and its range visit | checked, proved |
| `RBTreeProofs` | the theorems about `RBTree` | proved |
| `HashTable` | the table of orders as chains of entries: put, get, remove, growing, failing allocations | checked, proved |
| `HashTableProofs` | the theorems about `HashTable` | proved |
| `DLList` | the lists of orders as nodes with pointers | checked, proved |
| `OrderTable` | `HashTable` and `DLList` together, as `load_orders_helper` uses them | checked, proved |
| `OrderTableProofs` | the theorems about `DLList` and `OrderTable`: it implements `HashTable` and `DLList` | proved |
| `Server` | the main threads of the three programs, signals, the server thread's loop and teardown, what is allocated and open | checked, proved |
| `ServerProofs` | the theorems about `Server` | proved |
| `MC...` | one per run's instance: what TLC loads | -- |

`MCDataStructures` extends `OrderTable` and puts `RBTree` next to it; a behaviour
uses one of the two, as they share no state. `OrderTable` INSTANCEs `HashTable` with
orders for keys and `DLList` with prices for lists, and its actions are built from
theirs, so that their invariants are part of its own.

`DataQueue` INSTANCEs `Broadcast` with a refinement mapping; `OrderBook` and `OrderTable`
both INSTANCE `PriceLevels`, so that what is checked of the one and of the other are two
halves of one statement. The modules meet
at one call each: `QueuePrices` and `QueueOrders` of `TradeService` are the
callers of `QueueData` of `DataQueue`, which accepts a call at any moment, so
nothing is lost by checking them apart; `Server` has the same threads as far as
they start, end and touch what another one frees, a round of each being one step; `TakeMessage` of `ClientLists` is that of
`DataQueue` for a thread that is not lapped; `Visit` of `RBTree` is the visit of
`ProcessFills`, and `InsertInList`/`InsertNode` are what `InsertRow` of
`OrderBook` does to find the list of a price; `LoadRow` of `OrderTable` is `InsertRow`
with the table and the lists as pointers; `QueuePrices` also stands for the
`load_orders` that follows, which is one poll of `OrderBook`, and the two share
no state but the books, which process_fills only reads.

### DataQueue

| Code | Model |
|---|---|
| `data_queue[i].id`, `.data` | `data_queue[i]`; a message is known by its ordinal |
| `last_data_write_idx`, `msg_count` | the same; `msg_count` counts modulo `CountMod` (2^32) |
| `clm[t].last_data_read_idx`, `.stop`; locals `last_data_id`, `send_buffer` | functions of `t` |
| `client_writer_queue_data` | `QueueData`: wrap, write, count, all under `dq_lock` |
| the loop of `client_write_thread` | `WakeUp` (sleep, stop flag), `TakeMessage` / `NothingNew` (id test and copy, under `dq_lock`), `FinishSend` (send, then `last_data_read_idx++`, outside the lock) |
| `client_writer_stop` | `FlagStop(t)` in order, then `Join(t)` in order |
| `time(NULL)` | `now`, with `Tick` and `SetClockBack` |

`Promise` maps `queued` to the messages published, `send_buffer[t]` to the
newest message received, and the threads that have not ended to the active
subscribers.

### ClientLists

| Code | Model |
|---|---|
| `accept`, `send_sse_headers`, `client_writer_add_client` in `server_thread` | `Accept`, `SendHeaders`, `AddClient`: three steps, a write thread may come between any two |
| `read` returning 0 or an error, also EAGAIN with the client still there, `close` | `CloseClient(fd)` |
| `client_writer_select_manager` | `NextManager` |
| the `for` loop of `client_write_thread` | `TakeMessage`, then `SendToSlot`, `SkipLost` for each slot, `EndOfList` |
| `clients[i] = -1` | `LOST` |
| `write` | `WriteSucceeds`, `WriteFails`, `WriteKills`: what they do depends on what the client did |

Descriptors are reused as POSIX says, the lowest free number first. A failure of
`make_socket_non_blocking` or `epoll_ctl` closes the connection as a failed
header write does, and is not told apart from it. What a client does: it is
`here`, `gone` (it closed; writes succeed until its system answers with a
reset), `aborted` (the next write fails) or `reset` (the next write raises
SIGPIPE). `got[c]` is what client `c` has received, headers being message 0.
`reused`, `slow` and `first_due` are histories: the connections that got a descriptor
which was on a list, those a write to which was partial or failed, and the first
message each client is owed, which is set when it is put on a list: the message of the
walk that is under way, or the next one.

### TradeService

Every function of the two threads is an action; `price_lock` has a holder only
because `process_fills` has a return that keeps the mutex; the other critical
sections are one step each. Prices are small numbers. `observed[t]` keeps the
last two readings, `crossed[t]` the prices between consecutive readings and
`visited[t]` the prices whose orders `process_fills` visited: histories that the
code does not have, which the properties compare with what it does.

### OrderBook

`PlaceOrder`, `CancelOrder` and `Tick` are the environment: the table is written
by another program. One poll is `WakeUp`, then for each book `QueryBook` or
`QueryFails` and one `InsertRow` per row, then `StampReadTime`. A query returns
any sequence that the SQL text allows (`IsQueryResult`): open, not older than
`last_order_read_time`, sorted, cut at `MaxLoad`, ties in any order. `InsertRow`
puts the order in the hash table and at the end of the list of its price and
makes the hash entry refer to the new node. `Book` maps the sequences and references of
the model to `PriceLevels`, a level being a book and a price. `missable` is a history: the orders
a poll had a known reason not to read.

`clock` counts the seconds that pass; what `db_timestamp` formats, and what the other
programs stamp an order with, is `LocalTime` of it, which is set back by `FallBackBy` at
the moment `FallBack` (daylight saving ends, or somebody sets the clock). The sleep of
`market_monitor` is not local: it is measured with `clock`, from `poll_end`. `Steady` says
that the local time has not been set back yet. `ListedByTime` and `ListedTwiceAtMost` are
stated as long as it holds, since they are false afterwards: orders placed later get
earlier times, and every poll until the time has caught up reads the same orders again.
`BookSpec`, `NothingElseMissed` and `OrderRead` hold whatever the local time does.

### RBTree

Nodes are known by their keys, and the links of the code are functions. One
iteration of `fix_up` is one step: `RedUncle`, `BlackUncle` (both rotations) or
`EndFixUp`. The second half of the loop, and `rotate_right`, are the first half
and `rotate_left` in the mirror. `NIL` is a node whose fields are state too, so
that writing to the shared sentinel would be seen.

| Code | Model |
|---|---|
| `node->color`, `->parent`, `->left`, `->right` | functions of the nodes in `tree` |
| `rbt_new_node`, then linking it | `WithNode` |
| the links one rotation changes under the parent of the node | `Replaced` in `RotateLeft` |
| the loop of `rbt_insert`, `rbt_visit_nodes_in_range` | `Search`, `Visit`: recursive functions on the nodes that are in the tree |
| no field | `inserted`, the prices inserted; `Below` and `BlackHeights`, what is under a node and how many black nodes there are on a way down from it |

### HashTable, DLList, OrderTable

| Code | Model |
|---|---|
| `ht->buckets[b]`, a chain of `next` pointers | `buckets[b]`, the sequence of the addresses in it |
| `entry->key`, `->value`, `->ref` | `entries[e].key`, `.value`; `ref[e]` in `OrderTable` |
| `hash_function(key) % capacity` | `Home(k, cap)`, with the hash of a key a constant |
| `resize_hashtable` | `Resized`: a chain goes, as it is, to the home of its first entry |
| `ht_put` | `PutCannotGrow`, `PutReplaces`, `PutCannotCreate`, `PutInserts`: the growth first, then the search in the table it leaves |
| `ht_get`, `ht_remove` | `Get`, `Remove` |
| `dl_list_insert`, `dl_list_remove` | `Insert`, `Remove` on `prev`, `next`, `data` and `tail` |
| the loop body of `load_orders_helper` with its callback | `LoadKnown`, `LoadNew`, `LoadDrops` |

Each holds its lock from beginning to end and is one step. Addresses are not used
again, so that what is kept after it was freed is seen. `dict` is the function the
table is meant to be, `content` the sequences the lists are meant to be; `grown`
and `disturbed` say whether the table has grown, and whether an entry was removed
after that. The service removes nothing (a filled order would be, section 6); the
tests of the two structures do, and `Forget` and `Delist` are their calls.

`Book` maps these structures to `PriceLevels`: a level is what the nodes of a list lead
to, the orders of their entries (`LevelOf`), and the reference of an order is the place
of the node its newest entry refers to (`PlaceOf`). An order has several entries once
the table has lost one of them; for the abstract book there is only one order.

### Server

`main` and `server` are where the main thread and the server thread are; all
other threads are only `none`, `running` or `ended`. `valid` is what may be used:
memory that is allocated, logs and connections that are open, threads whose id is
known. A use is `Touch`: what is not valid is remembered in `misused`, and then
the process dies or nothing happens, since the code's behaviour is undefined.

| Code | Model |
|---|---|
| `sse_server_init`, `sse_server_start` | `StartServer`: some of the threads are created; nobody looks at the result |
| `server_thread` up to the loop | `SetupFails`, `InstallHandlers`, `BlockSignals` |
| `while (!stop_signal_received)`, `epoll_pwait` | `TestFlag`, `EnterWait`, `ClientEvent`, `WaitFails`, `HandleEvents` |
| `stop_server_handler` | `Take(t)`: in the thread that takes the signal |
| `sse_server_stop` | `StopServer`, then `Raise`: the calling thread takes it |
| `sse_server_destroy` | `FlagWriters`, `JoinWriters`, `FreeRing`, `FreeWriter`, `FreeWriterAgain`, `FreeServer`, `CloseLog` |
| `init_service` and its callees | `ConnectDb`, `ConnectRedis`, `OpenSources`, `InitFails` |
| `trade_service_start`/`stop`/`destroy` | `MonitorNotCreated`, `WorkerNotCreated`, `ServiceStarts`, `StopService`, `JoinProducers`, `DestroyService` |

A signal sent to the process is taken by any thread that does not block it
(`Unblocked`): the server thread blocks it from `sigprocmask` on except inside
`epoll_pwait`, and nobody else ever does. Linux prefers the main thread when it
does not block the signal, which makes `stop_ignored` the usual case.

## 3. Runs

Six runs hold, six exhibit a disagreement with what a comment says.

| Run | Question | Instance | Result |
|---|---|---|---|
| `data_queue` | Do ring, ids and cursors agree? Order, loss, sleep, stop; is it a `Broadcast`? | 2 threads, ring of 3, 8 messages, clock of 3 seconds | holds |
| `client_lists` | Who receives what, who is turned away? | 2 lists of 2, 5 connections, 2 messages, one client leaves or is cut off, one is slow | holds |
| `trade_service` | Crossings, stale prices, late events, start and stop | 2 tickers, 3 prices, any read and any `pthread_create` may fail | holds |
| `order_book` | Lists, table, the only ways to miss an order; is an order read in the end? | 2 books, 3 orders, one cancelled, LIMIT 2, 4 seconds, in the last the time is set back by 2 | holds |
| `data_structures` | Is the tree a balanced search tree? Do table, nodes and lists stay linked, and are they the price levels, while the table grows and allocations fail? | 8 prices in any order; 6 rows of 4 orders, 3 buckets at first, one removal | holds |
| `server_stop` | Which signal stops the server? What is used before its time or after it? | 3 programs, 2 write threads, 2 signals, threads and services may not start | holds |
| `clock_step` | Is everything sent when the clock may be set back? | 1 thread, ring of 2, one step back | **violated** |
| `fd_reused` | Does every client receive its stream? | 2 connections, one leaves | **violated** |
| `price_lock_kept` | Can the monitor always store the price it processed? | 1 ticker without an initial price | **violated** |
| `order_missed` | Is every order read? | 2 books, 1 order, no failures | **violated** |
| `table_grows` | Is what was put found? | 4 orders, 3 buckets, nothing fails or is removed | **violated** |
| `stop_ignored` | Does the stop flag stop the server? | `main.c`, one signal, nothing fails | **violated** |

What the passing runs show:

* **data_queue** `OrderedDelivery`, `LossOnlyWhenLapped`, `CaughtUpBeforeSleep`:
  a thread never goes back, skips only when it is more than a ring behind, and
  sleeps only when nothing is left for it. `QueueInv` is the inductive
  invariant of the proofs; the type invariant and `RingContents` (the ring holds
  exactly the newest messages in their places) are parts of it. `PromiseSpec`: the
  refinement, including that a thread behind the producers eventually receives.
  `StopJoinsAll`: every write thread reaches its stop flag and is joined, whatever
  it is doing when stop begins.
* **client_lists** `OwnStream`: a client whose descriptor is its own gets the
  headers and then consecutive messages, whoever leaves or fails around it and
  wherever the write thread is when it is added. `NobodyForgotten`: it is up to
  date with its thread from the walk it was put on the list in or before; it may have
  its headers only just as long as the first message it is owed (`first_due`) is the
  next one to come. A lost neighbour makes no difference. `StaysListed`: a client that
  was put on a list stays on it, full as the lists may be, unless it is gone, slow or
  shares a descriptor.
  `TurnedAwayWhenAllFull`: round robin looks at one list only, yet turns a client
  away only when all are full. `ListInv` is the inductive invariant of the proofs,
  types included.
* **trade_service** `NoCrossingMissed` and `NoFillOffMarket`: whatever reads
  fail and however many rounds a ticker is skipped, the prices visited are the
  prices passed over. `SimPriceFresh`: the worker is at most one reading behind.
  `AtMostOneLateEvent`, `QuietAfterStop`: what is left to happen after the exit
  flag is set and after stop returned. `StopReturns`: stop returns, unless the
  monitor waits for the lock it kept itself. `StartsWhole`: both threads run when
  start has reported success, and none was created when it has reported a failure; a
  start that could not create its second thread reports neither, since it joins a
  monitor that nobody has told to exit. `ServiceInv` is the inductive invariant of the proofs, types included.
* **order_book** `ListedByTime`: price-time priority over any number of polls,
  although the second in which a poll ended is read twice. `ListedTwiceAtMost`:
  the duplicates this causes are bounded by the sleep. Both hold until the local time
  is set back. `BookSpec`: table and books
  implement `PriceLevels`. All that ever happens to them is that an order goes to the
  end of its level and the entry of that order refers to it there; no order is at two
  levels.
  `NothingElseMissed`: there are five ways to miss an order and no other: it is older
  than `BACKLOAD_WEEKS` when the service starts, a query fails, a query is cut by its
  LIMIT, it is placed between the query of its book and the timestamp of that poll, or
  it is placed after the local time was set back and before that has caught up.
  `OrderRead`: the liveness side of the same, for any order in time for one more poll.
  That orders are lost in the window before the timestamp is `order_missed`. `BookInv` is the inductive invariant of the proofs, types included.
* **data_structures** `VisitsRange`: a visit finds the prices of its range, in
  order, also between two iterations of `fix_up`. `WellFormed`: the colour rules
  but at the node being fixed, parent links, and a sentinel no insertion writes
  to. `FixUpEnds`. `BookSteps`: as long as nothing is removed, table, nodes and
  lists implement `PriceLevels` too, even while the table grows, loses sight of an
  order and gives it a second entry, and allocations fail. `NothingLost`: growing
  moves chains without two of them ever meeting in a bucket, so every entry stays
  in one place. `NeverStale`: a lookup finds the newest row or, once the table has
  grown, nothing; an entry that got lost and was made a second time is never found
  again when the chains move on. The last two stop being true when an entry is
  removed from a table that has grown, since the next one in its chain may belong
  elsewhere; they say so. `LinksInOrder`: forwards and backwards the links of a
  list pass through what was inserted and not removed. `RefsLeadBack`,
  `NodesHoldEntries`: from an order to its last node and from a node to the newest
  row of an order of its price, however often rows are read twice. `StorageInv` is
  the inductive invariant of the proofs: types, and why the table, the lists and the
  references between them hold.
* **server_stop** `SignalKept`: the server thread never waits with a signal it has
  taken itself, wherever it took it. `StopHeeded`: such a signal stops the server.
  `WritersOutlived`: no write thread runs once the queue or its list is freed.
  `MisuseExplained`: memory, logs and thread ids are used out of their time for
  three reasons only: the server thread goes on using what it has just freed (and
  so does the trade service, which nobody stops before), the service is stopped
  although its start failed, and a write thread is joined that could not be
  created. A service that started may be stopped and destroyed at any time.
  `ServerInv` is the inductive invariant of the proofs: the types, who runs and what
  is allocated at each place of the two threads.

### Disagreements the runs exhibit

* `clock_step`: ids are `time(NULL) * 10000000 + msg_count`
  (`sse_client_writer.c:271`); after the wall clock is set back a new message
  looks old and no client gets it until the clock has caught up. The comment at
  `:40-41` says the most recent data are sent.
* `fd_reused`: the server thread closes the descriptor of a client that left
  (`sse_server.c:230`) and its slot keeps the number; the next connection gets it
  and is sent messages through the old slot, before its headers or twice. The
  comment at `sse_client_writer.c:104-105` says a lost connection is -1.
* `price_lock_kept`: `process_fills` returns at `trade_service.c:487` without
  unlocking; `market_monitor` locks again at `:681` and waits for itself. The
  comment at `:485-486` presents this return as the handling of a price that
  could not be loaded.
* `order_missed`: `last_order_read_time` is taken after the queries (`:371`), so
  orders placed in between are in no poll; `:285-286` and `:661` say new orders
  are read.
* `table_grows`: `resize_hashtable` hashes only the first entry of each chain
  (`hashtable.c:54`); another entry of the chain that belongs elsewhere is not
  found any more, and its order gets a second entry when it is read again. The
  comments at `rb_tree.c:7-8` and `trade_service.h:52` want the table for quick
  access to an order to cancel. With 25013 buckets this takes 18760 orders.
* `stop_ignored`: the handler only sets `stop_signal_received`; when another thread
  than the server thread takes the signal, and `raise` in `sse_server_stop` is
  always taken by its caller, `epoll_pwait` is not interrupted and the server goes
  on until a client does something. `sse_server.c:146` calls the arrangement "epoll
  exit signaling", and `:172` takes an interrupted wait and the flag for one thing.

Noticed while reading, with no run: a write to a connection its peer has reset
raises SIGPIPE, which nobody handles (`sse_client_writer.c:292`), where `:105` and
`:111-115` mean to mark the client lost (`WriteKills` in `ClientLists`); `free` of the
client writer a second time and uses of the server after it is freed
(`sse_server.c:61-64`, the first reason of `MisuseExplained`); a start that joins a
monitor nobody stops (`trade_service.c:610`, the last part of `StartsWhole`), where the
comment at `:588-589` promises 0 on failure;
`main.c:45` pastes an integer macro between strings and does not compile; the price
event leaves out a ticker whose source failed, where the comment at
`trade_service.c:642` shows every ticker; a failed query returns 1 (`:312-317`)
where the comment says 0 (`:289-290`); the TODO at `:326-330` about duplicates is
what `ListedTwiceAtMost` bounds; `created_at` is compared with a local-time string, so
that when daylight saving ends an order may be listed many times and another one missed
(`database.c:226`, the time after `Steady`).

### Bounds, and why they suffice

* A ring of 3 and 8 messages wrap the write index twice and let a thread be
  lapped more than twice; the proofs then cover every size. Two threads are
  enough to interleave because threads only share what producers write.
* The clock of `data_queue` may stand still while several messages are queued
  (ids differ by the counter) or advance between them (`IdScale = 2`, so counter
  and clock overlap: with 8 messages a counter exceeds several seconds' worth
  of ids). The clock that is set back and the counter that wraps are left to
  `clock_step` and to the two theorems that hold for any clock and any counter.
* Two tickers make "the next ticker" and "the last ticker" different; three
  prices leave room for a price strictly between two readings.
* Five connections for two lists of two fill both lists and turn one client
  away; two messages per thread show a gap or a repetition; one client leaving
  and one being slow are independent, and a slot of each may be in one walk.
* Three orders and a LIMIT of 2 truncate a query; the three seconds before the time is
  set back hold three polls, enough for an order to be read in two of them and to be
  tried a third time; the step back by two makes all of them be read again. One order
  that is cancelled is enough, since cancelling one does not touch another.
  Two books give an order time to be placed behind the query of its book. One
  price per book is enough there: each price has a list of its own, and finding
  it is `RBTree`'s.
* Eight prices: with fewer no insertion recolours and then rotates higher up.
* Four orders whose hashes make two of them share a bucket of three and of six,
  and two others a bucket of three only: a chain that splits and one that does not.
  Six rows let the table grow twice with a lost order read again in between. One
  removal, from the table or from a list, reaches every place of a chain or list.
* Two write threads are joined in any state of both; two signals may come between
  any two steps, and the second after the first was taken by another thread.
* `MaxMsgs`, `MaxTime`, `MaxClockSteps`, `MaxConns`, `MaxLeaving`, `MaxSlow`,
  `MaxOrders`, `MaxCancels`, `MaxLoads`, `MaxRemovals`, `MaxEntries`, `MaxNodes`, `MaxSignals` and
  the prices are bounds of the model, not of the code. Deadlock checking is off
  because of them, and because a stopped server stops and a process that has
  ended does nothing.

## 4. Fairness

* `DataQueue`: weak fairness for each write thread. It is runnable whenever it
  is not asleep, `sleep(2)` returns, and `dq_lock` is never held across a sleep
  or a send. Sends are assumed to return: sockets are non-blocking
  (`sse_server.c:30-41`). `FlagStop(t)` for `t > 1` and `Join(t)` are fair since
  `client_writer_stop` runs on; its first step is not: nothing forces a
  shutdown. Producers and clock are not fair. A thread drains its whole backlog
  before it looks at its stop flag, so `StopJoinsAll` relies on the producers
  not queueing faster for ever than a thread sends; here their messages are
  bounded, in the code they sleep 2 and 3 seconds between messages.
* `TradeService`: weak fairness for the caller within start and stop, and for
  both threads. The mutex is free whenever a thread is outside its critical
  section, except after the early return, where no fairness helps;
  `StopReturns` makes that exception.
* `OrderBook`: weak fairness for the poll and for time. The sleep ends by itself, whatever
  the local time does.
* `MCDataStructures`: weak fairness for `fix_up`, which runs in a thread that is
  scheduled.
* `Server`: weak fairness for what the server thread and the main thread do by
  themselves, and for the ends of the other threads, which look at their flags
  between two sleeps (that they reach their flags is `StopJoinsAll` of `DataQueue`
  and `StopReturns` of `TradeService`). Signals, clients and failures are not fair:
  nobody has to send anything, and an idle server waits for ever.
* `ClientLists` has safety properties only.

## 5. Proofs

`DataQueueProofs` proves, for every number of threads, every ring size, every
`IdScale`, clock and bound:

| Theorem | Statement | Assumes |
|---|---|---|
| `TypeCorrect` | `SafeSpec => []TypeOK` | -- |
| `RingHoldsNewest` | `SafeSpec => []RingContents` | -- |
| `QueueInvariant` | `SafeSpec => []QueueInv` | `SteadyIds` |
| `DeliveredInOrder` | `SafeSpec => OrderedDelivery` | `SteadyIds` |
| `LostOnlyWhenLapped` | `SafeSpec => LossOnlyWhenLapped` | `SteadyIds` |
| `CaughtUp` | `SafeSpec => CaughtUpBeforeSleep` | `SteadyIds` |
| `ImplementsBroadcast` | `SafeSpec => Promise!SafeSpec` | `SteadyIds` |

`SteadyIds` says that the clock is never set back and the 32-bit counter does not
wrap. Both are needed: `clock_step` shows the first, and a wrap takes 2^32 off
an id while the next second adds only 10^7. At two messages every two or three
seconds a wrap is more than a century away. The two theorems without it hold
for any clock and any counter.

The argument: what a thread compares are ids, what matters are ordinals. Three
parts of `QueueInv` connect them. `NextIdInv`: without wraps the counter equals
the number of messages, so the next id exceeds all in use. `IdOrderInv`: ids in
the ring, and the last id of each thread, are ordered as their ordinals are.
`WriteIndexInv` and `CursorInv`: both indices are the ordinals modulo the ring,
stated as "a whole number of laps apart" (`IsLap`) so that only linear facts
about multiples are needed (the lap lemmas). `CursorInv` allows the one case in
which the cursor has restarted at 0 and the write index has not. With
`RingContents` these give the content of the node at a cursor: the next message
if the thread is less than a ring behind; a message of the current lap, larger,
if it was lapped; and an old one, never larger, if it has caught up. Each action
property and the refinement is a case split on that.

`TradeServiceProofs` proves, for every number of tickers and every range of
prices, with sources that may fail at any read and threads that may not start:

| Theorem | Statement |
|---|---|
| `TypeCorrect` | `SafeSpec => []TypeOK` |
| `ServiceInvariant` | `SafeSpec => []ServiceInv` |
| `CrossingsVisited` | `SafeSpec => []NoCrossingMissed` |
| `OnlyCrossingsVisited` | `SafeSpec => []NoFillOffMarket` |
| `SimulatedOrdersFresh` | `SafeSpec => SimPriceFresh` |
| `OneLateEvent` | `SafeSpec => []AtMostOneLateEvent` |
| `StartedWhole` | `SafeSpec => []StartsWhole` |
| `StoppedIsQuiet` | `SafeSpec => QuietAfterStop` |

`NoCrossingMissed` is not inductive: that the prices visited are the prices
passed over depends on `last_prices[t]` being the last reading. It is, except
between reading a price and storing it, when it is the reading before; this is
`MarketInv`. `LateInv` says where a thread is after its late event, and
`JoinInv` which threads are there at each place of start and stop: no thread ends before
the exit flag is set, and only stop sets it, which is why a start that joins its monitor
never gets past the join. Only one ticker changes in a step of the
monitor (`MarketOneTicker`), so each step is proved for that ticker alone.

`OrderBookProofs` proves, for any number of books, prices, orders and seconds, any
`LIMIT`, any reach of the first poll, any length of the sleep and any step back of the
local time, with queries that may fail, from `OrderBookAssumption` (the types of the constants; `PollSleep` and
`Backload` are at least a second: `sleep(2)` in `market_monitor`, `BACKLOAD_WEEKS`):

| Theorem | Statement |
|---|---|
| `BookInvariant` | `Spec => []BookInv` |
| `TypeCorrect` | `Spec => []TypeOK` |
| `TimePriority` | `Spec => []ListedByTime` (until the local time is set back) |
| `TwiceAtMost` | `Spec => []ListedTwiceAtMost` (until the local time is set back) |
| `TableInStep` | `Spec => []TableMatchesBooks` |
| `ImplementsBook` | `Spec => BookSpec` |
| `NothingMissed` | `Spec => []NothingElseMissed` |

`TableMatchesBooks`, a part of `BookInv`, says that an entry refers to the last node of
its order and that books and table hold the same orders; it is inductive by itself, and it
is what the refinement needs to see that an order is not put at a second level. The rest depends on two clocks, that
of the orders and `last_order_read_time`. `ClockInv`: a poll starts in a later second
than the last one ended in; this is where the sleep is needed. `LevelsInv`: what
is listed in a book this poll has not reached is no newer than the last poll;
`RowsInv`: what the query returned is no older, and sorted, so that each row
may go behind what is listed at its price. `CountInv` says how often an order
can be listed, by when it was created: twice at most if that was in the second the
last poll ended, and not yet if it was later. `AccountedFor` is `NothingElseMissed` in the
middle of a poll, when the rows not yet put into the book count as read. `Loaded(b)`,
whether this poll is past the query of `b`, divides each of these in two. `ClockInv`, `CountInv` and what `LevelsInv` and
`RowsInv` say of time are true as long as the local time is `Steady`; `AccountedFor` needs no clock
that goes forward, since an order placed with a time before the last poll is `missable`.

`ClientListsProofs` proves, for any number of lists, slots, connections and
messages, and any number of clients that leave or are slow, from
`ClientListsAssumption` (the types of the constants):

| Theorem | Statement |
|---|---|
| `ListInvariant` | `SafeSpec => []ListInv` |
| `TypeCorrect` | `SafeSpec => []TypeOK` |
| `ClientStream` | `SafeSpec => []OwnStream` |
| `NoneForgotten` | `SafeSpec => []NobodyForgotten` |
| `AddedStays` | `SafeSpec => []StaysListed` |
| `TurnedAway` | `SafeSpec => TurnedAwayWhenAllFull` |

The properties speak of clients, the code of descriptors in slots. `DescriptorInv`
connects them: an open connection has one descriptor. `OneSlot`: a descriptor that
was on no list when it was accepted goes to one slot only. Without it `OwnStream` is
not inductive: a client in two slots would get a message twice. `HeadersFirst`:
what a client has got before it is on a list. `NobodyForgotten` gives the last message
of a client from where its thread is in the walk (`WalkInv`) and from the first message
it is owed, so that the next one extends `OwnStream`. A client that is appended while its
thread is at or before its slot is owed the message of that walk, and any other the next
one. `RoundInv` is the argument for round robin: the lists that had their
turn are one client longer than the others, until all are full; when the list whose
turn it is is full, all are.

`HashTableProofs` proves, for any keys, hash function, initial capacity and
history of calls, with allocations that may fail, from `HashTableAssumption` (the
types of the constants, which `MCDataStructures` has TLC evaluate):

| Theorem | Statement |
|---|---|
| `TableInvariant` | `Spec => []TableInv` |
| `NeverOverfull` | `Spec => []LoadBounded` |
| `EntriesKept` | `Spec => []NothingLost` |
| `NothingStale` | `Spec => []NeverStale` |

`data_structures` checks the last two inside a book, where `OrderTableProofs` has all
three. `LoadBounded` (doubling once is always enough, and `size` counts what is there also
after a failed allocation) is proved only. None of them is inductive. `TableInv` holds for the chains as they
are and for the chains as `ht_put` finds them after growing (`GrownKeeps`). `Chains`:
no entry is in two places and no chain has a key twice. `Sound`, until an entry
is removed from a table that has grown: every entry is in a chain, a chain is where
its first entry belongs, and an entry that is where it belongs has the value put
last, whatever the values of those that are not. `Exact`, until the table grows:
every entry is where it belongs. The heart is arithmetic (`SameHalf`): keys that
meet modulo the doubled capacity met modulo the old one. So two chains whose first
entries are at home never meet in a bucket of the new table (`NoChainsMeet`), and
an entry that is at home after growing was at home before (`ResizedSound`), so that
no entry which could not be found, perhaps with an old value, ever is again.

`RBTreeProofs` proves, for trees of any size and prices inserted in any order, from
`RBTreeAssumption` (there is a price):

| Theorem | Statement |
|---|---|
| `TreeWellFormed` | `TreeSafeSpec => []WellFormed` |
| `VisitFindsRange` | `TreeSafeSpec => []VisitsRange` |
| `SearchFindsInserted` | `TreeSafeSpec => []` a price has a node exactly if `Search` ends there |
| `FixUpProgress` | `TreeSafeSpec => [][`after a rotation `fix_up` ends; a recolouring takes it strictly up`]` |

`WellFormed` speaks of `Below` and `BlackHeights`, which are computed anew from every
tree. The inductive invariant (`TreeInv`) says instead that there are two functions of
the nodes, `s` and `h`, such that `s[n]` is `n` with what `s` has for its children and
`h[n]` is the height of either child, plus one if `n` is black. A step changes these
functions at few nodes and the proof says where: a rotation changes `s` at the two
nodes it turns (`RotateLeftShape`), and `h` at the one that goes down (`RotateBlack`);
a recolouring changes `h` at parent and uncle (`RedUncleStep`); an insertion adds the
key to `s[n]` for every `n` above the new node (`WithNodeTree`). At the end `Below` and
`BlackHeights` are shown to be `s` and `h` (`BelowIsSubtrees`, `BlackHeightsAreHeights`).

Three things make this short enough. The order of the keys is a parameter of the
lemmas: a tree is the mirror image of another one with the order reversed
(`MirrorRedBlack`), so that `rotate_right` and the second half of `fix_up` need no proof
of their own. An induction over the tree is made with the smallest
counterexample (`Lowest`): among the nodes of a finite set there is one none of whose
children is in it, since the proper subset relation is well founded; this takes no theorem with an
operator for a parameter. And that a recursive function on the tree exists at all,
which is what lets its definition be used, is proved once, for every operation on what
it gives for the two children (`Recursion`).

`OrderTableProofs` proves, for any orders, prices, hash function, capacity and history
of rows, removals and failed allocations, from `OrderTableAssumption` (the types of the
constants, which `MCDataStructures` has TLC evaluate):

| Theorem | Statement |
|---|---|
| `ImplementsTable` | `Spec => Table!Spec` |
| `ImplementsLists` | `Spec => List!Spec` |
| `NeverOverfull` | `Spec => []LoadBounded` |
| `EntriesKept` | `Spec => []NothingLost` |
| `NothingStale` | `Spec => []NeverStale` |
| `ListInvariant` | `Spec => []List!ListInv` |
| `LinkedInOrder` | `Spec => []LinksInOrder` |
| `StorageInvariant` | `Spec => []StorageInv` |
| `RefsAreLast` | `Spec => []RefsLeadBack` |
| `NodesAreOfPrice` | `Spec => []NodesHoldEntries` |
| `NewestFound` | `Spec => []LookupFindsNewest` |
| `ImplementsBook` | `Spec => BookSteps` |
| `ServiceImplementsBook` | `Spec /\ [](removals = 0) => Book!Spec` |

Every step of the two structures together is a step of the table or leaves it alone,
and the same for the lists. So the theorems of `HashTableProofs` hold of them as they
stand, instantiated (the lemmas called `Same...` say that an instance of a proof module
is about the same operators as an instance of the module it proves), and so does the
invariant of the lists, `ListInv`, which is proved of every step of `DLList`: it adds to
`LinksInOrder` that no node is in two places (`NodesApart`), of one list or of two. So
the pointers that `Insert` and `Unlink` write belong to the neighbours in one list, and
all other links stay as they were. `ListInsertEffect` and `ListRemoveEffect` say what the
two do to the links, one pointer at a time; the sequence is then a matter of indices.

What is new is what relates the two: `RefsLeadBack` and `NodesHoldEntries`.
They hold of a row that is loaded again because the entry keeps its key, and so
its price, and gets the new node as its reference; of a growth because it moves
entries and changes none; of a removal because addresses were given out before
(`AddressesGivenOut`): a new entry or node is at none that is still referred to.

`ImplementsBook` is about the same structures as `PriceLevels` sees them. `BookSteps` has
the steps of behaviours in which entries and nodes are removed too, up to the first
removal; `ServiceImplementsBook` is the plain refinement for a service that removes
nothing, as this one. The invariants above do not give it: a row must become the last place of
its order even if the table has lost the entry of that order and made another one, or has
lost and made several. `NewestInv` is what is missing. The values of entries are the
numbers of the rows they were made or changed by, so no two entries have the same; the
newest entry of an order has its last row. `TableInv` has it that what a lookup finds has
the value put last, so that it is the newest entry (`FoundNewest`, and `NewestFound`, which
says that a lookup never leads to an old entry). So a known entry keeps being the
newest, and a new one becomes it; either way it refers to the node just appended
(`LoadPlaces`), and since no node is at two places (`ListOnce`) its place is unique.

`ServerProofs` proves, for any number of write threads, any of the three programs,
signals at any moment and any number of them, and threads and services that may
not start, from `ServerAssumption` (the write threads are not called like anything
else):

| Theorem | Statement |
|---|---|
| `SignalsKept` | `SafeSpec => []SignalKept` |
| `NoWriterOutlives` | `SafeSpec => []WritersOutlived` |
| `EveryMisuseExplained` | `SafeSpec => []MisuseExplained` |
| `ServerInvariant` | `SafeSpec => []ServerInv` |

`SignalInv` adds to the first where the server thread can be once it has taken a
signal: no longer before the mask, and not on its way from the test of the flag
into the wait. `MemoryInv` says until where in the teardown each thing is there
(`StandsInv`), that no write thread runs after the join (`JoinedInv`), and which
things a service that did not fail has at each place of the main thread, and that
its threads run between start and join only (`ServiceInv`).

Model-checked only is liveness (`StopJoinsAll`, `StopReturns`,
`OrderRead`, `FixUpEnds`, `StopHeeded`, and with `PromiseSpec` the fairness of
`Broadcast`), since ENABLED and fairness are out of the prover's reach. Every invariant
and every action property of a passing run is a theorem. Of `FixUpEnds` the safety part
is proved: `FixUpProgress` has what makes the loop end, the bound on how often nodes
below `z` can become more, but not that a step is taken.

## 6. Not modelled, and why

* Fills: `fill_order` returns 0 at `trade_service.c:386` before it does anything, so
  `update_fill_data` and `dispatch_fill_data` are never reached; `ProcessFills`
  therefore records which orders are visited and changes no book. For the same
  reason a cancelled order that stays in its book has no effect yet.
* Currency conversion: floating-point rounding and formatting of one price, without
  state; TLA+ has no floats to compare it with.
* `ht_destroy`, `rbt_destroy`, `dl_list_destroy` and `rbt_find_nearest`: nothing but the
  tests of the structures calls them, at their end. `rbt_inorder` prints.
* Memory exhaustion outside the hash table: the results of those `malloc`s are used
  unchecked, the process ends, and with it the model.
* The database, redis and logger wrappers beyond when their connections and files
  are open (`Server`) and what a query returns (`OrderBook`); the text of events and
  log lines.

## 7. Plan

Done: the modules of section 2, and the proofs of section 5; every safety property
a passing run checks is a theorem, and the order books are shown to be the price levels
of `PriceLevels` twice, with sequences and with pointers. Left:

The fills, once `fill_order` does something: they would remove entries and nodes, and
`PriceLevels` would get the action that takes an order from the front of its level.
