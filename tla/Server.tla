------------------------------- MODULE Server -------------------------------
(***************************************************************************)
(* Starting and stopping: the server thread with its signals               *)
(* (sse_server.c), the write threads and the threads of the trade service  *)
(* as far as they start, end and touch what another thread frees, and the  *)
(* main thread of one of the three programs of the repository:             *)
(*   "main"          main.c: server, trade service, then sleeps for ever   *)
(*   "server_test"   test/sse_server_test.c: server, queues data,          *)
(*                   sse_server_stop, exit                                 *)
(*   "service_test"  test/trade_service_test.c: server, trade service,     *)
(*                   trade_service_stop, trade_service_destroy, exit       *)
(*                                                                         *)
(* SIGTERM and SIGINT are one signal here, as they have one handler.  Sent *)
(* to the process it is taken by any thread that does not block it.        *)
(*                                                                         *)
(* `valid' holds what may be used: what is allocated, open or connected,   *)
(* and the ids of threads that were created.  What using anything else does is         *)
(* undefined: here the process dies or nothing happens.  `misused' keeps   *)
(* what was used like that.  Memory does not run out, and log files can be *)
(* opened.                                                                 *)
(***************************************************************************)
EXTENDS Naturals, FiniteSets

CONSTANTS
  Writers,      \* the write threads (NUM_CLIENT_LISTS, 3)
  Programs,     \* which programs may run
  ThreadsFail,  \* TRUE if pthread_create may fail
  MaxSignals    \* bound: signals sent from outside

Producers == {"monitor", "worker"}
Logs      == {"server_log", "writer_log", "service_log"}
Sources   == {"db", "redis", "price_sources"}
Things    == {"server", "writer", "ring", "service"} \cup Logs \cup Sources

ASSUME ServerAssumption ==
  /\ IsFiniteSet(Writers)
  /\ Writers \cap (Producers \cup Things \cup {"main", "server_thread"}) = {}
  /\ Programs \subseteq {"main", "server_test", "service_test"}
  /\ ThreadsFail \in BOOLEAN
  /\ MaxSignals \in Nat

VARIABLES
  program,    \* the program that runs
  alive,      \* FALSE once the process has ended
  main,       \* where the main thread is
  server,     \* where the server thread is
  installed,  \* stop_server_handler handles the signal
  stop_signal_received,
  takers,     \* history: the threads that have run the handler
  signals,    \* how many signals were sent
  thread,     \* write threads and threads of the service: are they running
  stop,       \* the stop flags of the write threads
  exit_flag,  \* of the trade service
  failed,     \* trade_service_start has returned 0
  holds,      \* what the service structure has pointers to
  valid,      \* what may be used
  misused     \* history: what was used although it may not be

signalVars  == <<installed, stop_signal_received, takers, signals>>
workerVars  == <<thread, stop, exit_flag, failed, holds>>
memoryVars  == <<alive, valid, misused>>
vars == <<program, main, server, signalVars, workerVars, memoryVars>>

Workers == Writers \cup Producers

-----------------------------------------------------------------------------

Init ==
  /\ program \in Programs
  /\ alive = TRUE
  /\ main = "begin"
  /\ server = "none"
  /\ installed = FALSE
  /\ stop_signal_received = FALSE
  /\ takers = {}
  /\ signals = 0
  /\ thread = [t \in Workers |-> "none"]
  /\ stop = FALSE
  /\ exit_flag = FALSE
  /\ failed = FALSE
  /\ holds = {}
  /\ valid = {}
  /\ misused = {}

\* The things of S are used.
Touch(S) ==
  /\ misused' = misused \cup (S \ valid)
  /\ alive' \in IF S \subseteq valid THEN {TRUE} ELSE BOOLEAN

Exit ==
  /\ alive' = FALSE
  /\ UNCHANGED <<valid, misused>>

\* The things of S are freed or closed.
Free(S) ==
  /\ Touch(S)
  /\ valid' = valid \ S

-----------------------------------------------------------------------------
(* Signals.                                                                 *)

\* Mutant: the server thread waits without a mask, and blocks nothing.
Unblocked_Always ==
  {"main"} \cup {t \in Workers : thread[t] = "running"}
           \cup (IF server \in {"none", "returned"} THEN {} ELSE {"server_thread"})

\* The threads that do not block the signal.  The server thread blocks it from
\* sigprocmask on, but not while it is in epoll_pwait.
Unblocked ==
  {"main"} \cup {t \in Workers : thread[t] = "running"}
           \cup (IF server \in {"setup", "handlers", "wait"}
            THEN {"server_thread"} ELSE {})

\* Mutant: a wait the handler interrupted goes on.
Take_Restarts(t) ==
  IF installed
    THEN /\ stop_signal_received' = TRUE
         /\ takers' = takers \cup {t}
         /\ UNCHANGED <<server, installed, memoryVars>>
    ELSE /\ Exit
         /\ UNCHANGED <<installed, stop_signal_received, takers, server>>

\* Thread t takes the signal.  Without the handler the process ends.  The
\* handler sets the flag; it interrupts epoll_pwait if t is the server thread,
\* and otherwise at most a sleep.
Take(t) ==
  IF installed
    THEN /\ stop_signal_received' = TRUE
         /\ takers' = takers \cup {t}
         /\ server' = IF t = "server_thread" /\ server = "wait" THEN "test" ELSE server
         /\ UNCHANGED <<installed, memoryVars>>
    ELSE /\ Exit
         /\ UNCHANGED <<installed, stop_signal_received, takers, server>>

\* Somebody sends the signal to the process.
Signal ==
  /\ signals < MaxSignals
  /\ \E t \in Unblocked : Take(t)
  /\ signals' = signals + 1
  /\ UNCHANGED <<program, main, workerVars>>

-----------------------------------------------------------------------------
(* The server thread.                                                       *)

ServerGoes(from, to) ==
  /\ server = from
  /\ server' = to
  /\ UNCHANGED <<program, main>>

\* One of the calls up to epoll_ctl fails: exit(255).
SetupFails ==
  /\ ServerGoes("setup", "setup")
  /\ Exit
  /\ UNCHANGED <<signalVars, workerVars>>

InstallHandlers ==
  /\ ServerGoes("setup", "handlers")
  /\ installed' = TRUE
  /\ UNCHANGED <<stop_signal_received, takers, signals, workerVars, memoryVars>>

\* sigprocmask.
BlockSignals ==
  /\ ServerGoes("handlers", "test")
  /\ UNCHANGED <<signalVars, workerVars, memoryVars>>

\* The loop reads stop_signal_received, and enters epoll_pwait or is left.
TestFlag ==
  /\ ServerGoes("test", IF stop_signal_received THEN "stop" ELSE "enter")
  /\ UNCHANGED <<signalVars, workerVars, memoryVars>>

EnterWait ==
  /\ ServerGoes("enter", "wait")
  /\ UNCHANGED <<signalVars, workerVars, memoryVars>>

\* A client connects, sends its request, or leaves.
ClientEvent ==
  /\ ServerGoes("wait", "events")
  /\ UNCHANGED <<signalVars, workerVars, memoryVars>>

\* epoll_pwait fails: the loop is left.
WaitFails ==
  /\ ServerGoes("wait", "stop")
  /\ UNCHANGED <<signalVars, workerVars, memoryVars>>

\* The events have been handled (ClientLists shows how).
HandleEvents ==
  /\ ServerGoes("events", "test")
  /\ Touch({"server", "server_log", "writer", "writer_log"})
  /\ UNCHANGED <<signalVars, workerVars, valid>>

\* sse_server_destroy, client_writer_stop: the write threads get their stop
\* flags.
FlagWriters ==
  /\ ServerGoes("stop", "join")
  /\ Touch({"server", "server_log", "writer", "writer_log"})
  /\ stop' = TRUE
  /\ UNCHANGED <<signalVars, thread, exit_flag, failed, holds, valid>>

\* Mutant: the write threads are told to stop, and not waited for.
JoinWriters_NoWait ==
  /\ ServerGoes("join", "free_ring")
  /\ UNCHANGED <<signalVars, workerVars, memoryVars>>

\* client_writer_stop joins them and closes its log.
JoinWriters ==
  /\ ServerGoes("join", "free_ring")
  /\ \A w \in Writers : thread[w] # "running"
  /\ Touch(Writers \cup {"writer", "writer_log"})
  /\ valid' = valid \ {"writer_log"}
  /\ UNCHANGED <<signalVars, workerVars>>

\* client_writer_destroy frees the queue and the writer; then sse_server_destroy
\* frees the writer, frees the server, and closes server->logger.
FreeRing ==
  /\ ServerGoes("free_ring", "free_writer")
  /\ Free({"ring"})
  /\ UNCHANGED <<signalVars, workerVars>>

FreeWriter ==
  /\ ServerGoes("free_writer", "free_again")
  /\ Free({"writer"})
  /\ UNCHANGED <<signalVars, workerVars>>

FreeWriterAgain ==
  /\ ServerGoes("free_again", "free_server")
  /\ Free({"writer"})
  /\ UNCHANGED <<signalVars, workerVars>>

FreeServer ==
  /\ ServerGoes("free_server", "close_log")
  /\ Free({"server"})
  /\ UNCHANGED <<signalVars, workerVars>>

CloseLog ==
  /\ ServerGoes("close_log", "returned")
  /\ Touch({"server", "server_log"})
  /\ valid' = valid \ {"server_log"}
  /\ UNCHANGED <<signalVars, workerVars>>

\* What the server thread does by itself.
ServerStep ==
  \/ InstallHandlers \/ BlockSignals \/ TestFlag \/ EnterWait \/ HandleEvents
  \/ FlagWriters \/ JoinWriters
  \/ FreeRing \/ FreeWriter \/ FreeWriterAgain \/ FreeServer \/ CloseLog

-----------------------------------------------------------------------------
(* Write threads and the threads of the trade service.                      *)

\* client_write_thread: a round, from sleep to sleep.
WriterRound(w) ==
  /\ thread[w] = "running"
  /\ Touch({"writer", "ring"})
  /\ UNCHANGED <<program, main, server, signalVars, workerVars, valid>>

\* client_write_thread: the stop flag is seen, and the thread ends.
WriterEnds(w) ==
  /\ thread[w] = "running"
  /\ stop
  /\ Touch({"writer"})
  /\ thread' = [thread EXCEPT ![w] = "ended"]
  /\ UNCHANGED <<program, main, server, signalVars, stop, exit_flag, failed, holds, valid>>

\* sse_server_queue_data.
Queued == {"server", "writer", "ring"}

\* What a round of market_monitor or of simulated_order_worker uses.
Used(p) ==
  {"service"} \cup Queued \cup (IF p = "monitor" THEN Sources ELSE {})

\* A round of one of them.
ProducerRound(p) ==
  /\ thread[p] = "running"
  /\ Touch(Used(p))
  /\ UNCHANGED <<program, main, server, signalVars, workerVars, valid>>

\* thread_check_exit_flag ends the thread.
ProducerEnds(p) ==
  /\ thread[p] = "running"
  /\ exit_flag
  /\ thread' = [thread EXCEPT ![p] = "ended"]
  /\ UNCHANGED <<program, main, server, signalVars, stop, exit_flag, failed, holds, memoryVars>>

-----------------------------------------------------------------------------
(* The main thread.                                                         *)

MainGoes(P, from, to) ==
  /\ program \in P
  /\ main = from
  /\ main' = to
  /\ UNCHANGED program

ServiceUsers == {"main", "service_test"}

\* Threads are created: all of S, or fewer, for nobody looks at the result.
Creatable(S) == IF ThreadsFail THEN SUBSET S ELSE {S}

\* sse_server_init and sse_server_start.
StartServer ==
  /\ MainGoes(Programs, "begin", "up")
  /\ \E created \in Creatable(Writers) :
       /\ valid' = Queued \cup {"server_log", "writer_log"} \cup created
       /\ thread' = [t \in Workers |-> IF t \in created THEN "running" ELSE "none"]
  /\ \E created \in Creatable({"server_thread"}) :
       server' = IF created = {} THEN "none" ELSE "setup"
  /\ UNCHANGED <<signalVars, stop, exit_flag, failed, holds, alive, misused>>

\* sse_server_test queues data.
MainQueues ==
  /\ MainGoes({"server_test"}, "up", "up")
  /\ Touch(Queued)
  /\ UNCHANGED <<server, signalVars, workerVars, valid>>

\* sse_server_stop writes to the log of the server,
StopServer ==
  /\ MainGoes({"server_test"}, "up", "raise")
  /\ Touch({"server", "server_log"})
  /\ UNCHANGED <<server, signalVars, workerVars, valid>>

\* and raises the signal in the thread it is called from, which takes it.
Raise ==
  /\ MainGoes({"server_test"}, "raise", "last")
  /\ Take("main")
  /\ UNCHANGED <<signals, workerVars>>

\* trade_service_init.
InitService ==
  /\ MainGoes(ServiceUsers, "up", "db")
  /\ valid' = valid \cup {"service", "service_log"}
  /\ holds' = {"service", "service_log"}
  /\ UNCHANGED <<server, signalVars, thread, stop, exit_flag, failed, alive, misused>>

\* init_service, step by step: x can be used from now on.
InitGoes(from, to, x) ==
  /\ MainGoes(ServiceUsers, from, to)
  /\ valid' = valid \cup {x}
  /\ UNCHANGED <<server, signalVars, thread, stop, exit_flag, failed, alive, misused>>

\* db_init.  The connection is global, and no program closes it.
ConnectDb == InitGoes("db", "redis", "db") /\ UNCHANGED holds

\* redis_init.
ConnectRedis ==
  InitGoes("redis", "sources", "redis") /\ holds' = holds \cup {"redis"}

\* load_price_sources.  The prices and orders that are then read for the first
\* time need not be there.
OpenSources ==
  /\ InitGoes("sources", "create", "price_sources")
  /\ holds' = holds \cup {"price_sources"}

\* Where main goes on after trade_service_start has returned 0: main.c exits,
\* the test goes on as if it had started.
AfterFailedStart(from) ==
  /\ MainGoes(ServiceUsers, from, IF program = "main" THEN "last" ELSE "serving")
  /\ failed' = TRUE

\* One of them fails, and trade_service_start destroys the service.  The
\* pointer to it is kept, and so is what the memory said.
InitFails ==
  /\ \E step \in {"db", "redis", "sources"} : AfterFailedStart(step)
  /\ Free(holds)
  /\ UNCHANGED <<server, signalVars, thread, stop, exit_flag, holds>>

\* trade_service_start: no monitor.
MonitorNotCreated ==
  /\ ThreadsFail
  /\ AfterFailedStart("create")
  /\ UNCHANGED <<server, signalVars, thread, stop, exit_flag, holds, memoryVars>>

\* Mutant: there is a thread for the fills, too.
Created_Dispatcher(P) ==
  /\ thread' = [t \in Workers |-> IF t \in P THEN "running" ELSE thread[t]]
  /\ valid' = valid \cup P \cup {"fill_data"}

\* The threads of P run, and the service has their ids.
Created(P) ==
  /\ thread' = [t \in Workers |-> IF t \in P THEN "running" ELSE thread[t]]
  /\ valid' = valid \cup P

\* trade_service_start: no worker.  It joins the monitor, which nobody has told
\* to exit.
WorkerNotCreated ==
  /\ ThreadsFail
  /\ MainGoes(ServiceUsers, "create", "joining_monitor")
  /\ Created({"monitor"})
  /\ UNCHANGED <<server, signalVars, stop, exit_flag, failed, holds, alive, misused>>

\* trade_service_start: both threads run.
ServiceStarts ==
  /\ MainGoes(ServiceUsers, "create", "serving")
  /\ Created(Producers)
  /\ UNCHANGED <<server, signalVars, stop, exit_flag, failed, holds, alive, misused>>

\* trade_service_stop sets the exit flag.
StopService ==
  /\ MainGoes({"service_test"}, "serving", "joining")
  /\ exit_flag' = TRUE
  /\ UNCHANGED <<server, signalVars, thread, stop, failed, holds, memoryVars>>

\* Mutant: the threads are told to exit, and not waited for.
JoinProducers_NoWait ==
  /\ MainGoes({"service_test"}, "joining", "joined")
  /\ UNCHANGED <<server, signalVars, workerVars, memoryVars>>

\* trade_service_stop joins the threads whose ids the service holds.
JoinProducers ==
  /\ MainGoes({"service_test"}, "joining", "joined")
  /\ \A p \in Producers : thread[p] # "running"
  /\ Touch({"service", "service_log"} \cup Producers)
  /\ UNCHANGED <<server, signalVars, workerVars, valid>>

\* trade_service_destroy.
DestroyService ==
  /\ MainGoes({"service_test"}, "joined", "last")
  /\ Free(holds)
  /\ UNCHANGED <<server, signalVars, workerVars>>

\* exit, or the return of main, ends every thread.
ExitMain ==
  /\ MainGoes(Programs, "last", "last")
  /\ Exit
  /\ UNCHANGED <<server, signalVars, workerVars>>

MainStep ==
  \/ StartServer \/ MainQueues \/ StopServer \/ Raise
  \/ InitService \/ ConnectDb \/ ConnectRedis \/ OpenSources \/ InitFails
  \/ MonitorNotCreated \/ WorkerNotCreated \/ ServiceStarts
  \/ StopService \/ JoinProducers \/ DestroyService \/ ExitMain

-----------------------------------------------------------------------------

Next ==
  /\ alive
  /\ \/ Signal
     \/ SetupFails \/ ClientEvent \/ WaitFails
     \/ ServerStep
     \/ \E w \in Writers : WriterRound(w) \/ WriterEnds(w)
     \/ \E p \in Producers : ProducerRound(p) \/ ProducerEnds(p)
     \/ MainStep

SafeSpec == Init /\ [][Next]_vars

\* Every thread that can run does, and a sleep ends.  Nobody has to send a
\* signal, and no client has to do anything.
Fairness ==
  /\ WF_vars(alive /\ ServerStep)
  /\ WF_vars(alive /\ MainStep)
  /\ \A w \in Writers : WF_vars(alive /\ WriterEnds(w))
  /\ \A p \in Producers : WF_vars(alive /\ ProducerEnds(p))

Spec == SafeSpec /\ Fairness

-----------------------------------------------------------------------------

TypeOK ==
  /\ program \in Programs
  /\ alive \in BOOLEAN
  /\ main \in {"begin", "up", "raise", "db", "redis", "sources", "create",
               "joining_monitor", "serving", "joining", "joined", "last"}
  /\ server \in {"none", "setup", "handlers", "test", "enter", "wait", "events",
                 "stop", "join", "free_ring", "free_writer", "free_again",
                 "free_server", "close_log", "returned"}
  /\ installed \in BOOLEAN
  /\ stop_signal_received \in BOOLEAN
  /\ takers \subseteq {"main", "server_thread"} \cup Workers
  /\ signals \in 0..MaxSignals
  /\ thread \in [Workers -> {"none", "running", "ended"}]
  /\ stop \in BOOLEAN
  /\ exit_flag \in BOOLEAN
  /\ failed \in BOOLEAN
  /\ holds \subseteq Things
  /\ valid \subseteq Things \cup Workers
  /\ misused \subseteq Things \cup Workers

\* A signal the server thread takes is not lost, whenever it comes: between
\* reading the flag and waiting the signal is blocked.  A flag that is set
\* while the server thread waits was set by another thread.
SignalKept == server = "wait" /\ stop_signal_received => "server_thread" \notin takers

\* A write thread outlives neither the queue nor the lists it walks.
WritersOutlived ==
  alive /\ (\E w \in Writers : thread[w] = "running") => {"writer", "ring"} \subseteq valid

\* The server thread has freed its writer, and goes on using it.
TornDown == server \in {"free_again", "free_server", "close_log", "returned"}

\* Nothing is used before its time or after it but for these reasons: the
\* server thread frees what it and the service go on using, the service is
\* stopped although it did not start, and a write thread is joined that could
\* not be created.  In particular a service may be stopped and destroyed while
\* the server runs: its threads touch nothing of it afterwards.
MisuseExplained ==
  /\ misused \cap {"server", "server_log", "writer"} # {} => TornDown
  /\ "ring" \in misused => TornDown \/ server = "free_writer"
  /\ misused \cap (Producers \cup Sources \cup {"service", "service_log"}) # {} => failed
  /\ \A w \in Writers : w \in misused => thread[w] = "none"
  /\ "writer_log" \notin misused

\* A signal taken by the server thread stops the server: the write threads are
\* joined and the thread returns, unless the process has ended.
StopHeeded == "server_thread" \in takers ~> (server = "returned" \/ ~alive)

\* Once the flag is set the server stops.
EveryStopHeeded == stop_signal_received ~> (TornDown \/ ~alive)

-----------------------------------------------------------------------------
(* Why these hold.                                                          *)

\* A signal the server thread has taken is in the flag, and the server thread
\* reads the flag before it waits again.
SignalInv ==
  /\ main = "begin" => server = "none"
  /\ server \in {"none", "setup"} => ~installed
  /\ "server_thread" \in takers =>
       /\ stop_signal_received
       /\ server \notin {"none", "setup", "enter", "wait", "events"}

\* Where the server thread is once the write threads have been joined, and
\* once the queue has been freed.
AfterRing == {"free_writer", "free_again", "free_server", "close_log", "returned"}
AfterJoin == {"free_ring"} \cup AfterRing

\* Before the main thread has started the server nothing is there.
BeginInv ==
  main = "begin" =>
    server = "none" /\ misused = {} /\ \A t \in Workers : thread[t] = "none"

\* The server, its writer, its queue and their logs are there until the server
\* thread frees them, which it does in this order.
StandsInv ==
  main # "begin" =>
    /\ server \notin AfterRing => "ring" \in valid
    /\ ~TornDown => {"server", "server_log", "writer"} \subseteq valid
    /\ server \notin AfterJoin => "writer_log" \in valid
    /\ \A w \in Writers : w \in valid \/ thread[w] = "none"

\* No write thread runs once the write threads have been joined.
JoinedInv == server \in AfterJoin => \A w \in Writers : thread[w] # "running"

\* What the service has pointers to is its own.
HoldsInv == holds \subseteq {"service", "service_log", "redis", "price_sources"}

\* A service that did not fail to start has what it uses for as long as it
\* runs, and its threads run only between start and join.
Running == {"joining_monitor", "serving", "joining"}
ServiceInv ==
  ~failed =>
    /\ main \in {"db", "redis", "sources", "create", "joined"} \cup Running
         => holds \cup {"service", "service_log"} \subseteq valid
    /\ main \in {"redis", "sources", "create", "joined"} \cup Running => "db" \in valid
    /\ main \in {"sources", "create", "joined"} \cup Running => "redis" \in valid
    /\ main \in {"create", "joined"} \cup Running => "price_sources" \in valid
    /\ main \in {"serving", "joining"} => Producers \subseteq valid
    /\ \A p \in Producers : thread[p] = "running" => main \in Running

\* What WritersOutlived and MisuseExplained rest on.
MemoryInv ==
  /\ thread \in [Workers -> {"none", "running", "ended"}]
  /\ BeginInv
  /\ StandsInv
  /\ JoinedInv
  /\ HoldsInv
  /\ ServiceInv
  /\ MisuseExplained

\* The inductive invariant.
ServerInv == TypeOK /\ SignalInv /\ MemoryInv

=============================================================================
