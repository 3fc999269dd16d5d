---------------------------- MODULE ServerProofs ----------------------------
(***************************************************************************)
(* Proofs about Server, for any number of write threads, signals at any    *)
(* moment, and threads and services that may not start.                    *)
(***************************************************************************)
EXTENDS Server, TLAPS

-----------------------------------------------------------------------------
(* Signals.                                                                 *)

\* The server thread takes a signal in three places only.
LEMMA WhereTaken ==
  "server_thread" \in Unblocked => server \in {"setup", "handlers", "wait"}
BY ServerAssumption DEF Unblocked, Workers, Producers

LEMMA SignalStep == SignalInv /\ [Next]_vars => SignalInv'
<1> SUFFICES ASSUME SignalInv, [Next]_vars
             PROVE  SignalInv'
  OBVIOUS
<1> USE DEF SignalInv, signalVars
<1>1. CASE Signal
  <2> PICK t \in Unblocked : Take(t)
    BY <1>1 DEF Signal
  <2>1. t = "server_thread" => server \in {"setup", "handlers", "wait"}
    BY WhereTaken
  <2> QED
    BY <1>1, <2>1 DEF Signal, Take
<1>2. CASE SetupFails \/ ClientEvent \/ WaitFails
  BY <1>2 DEF SetupFails, ClientEvent, WaitFails, ServerGoes
<1>3. CASE ServerStep
  BY <1>3 DEF ServerStep, ServerGoes, InstallHandlers, BlockSignals, TestFlag,
     EnterWait, HandleEvents, FlagWriters, JoinWriters, FreeRing, FreeWriter,
     FreeWriterAgain, FreeServer, CloseLog
<1>4. CASE StartServer
  BY <1>4 DEF StartServer, MainGoes, Creatable
<1>5. CASE Raise
  BY <1>5 DEF Raise, MainGoes, Take
<1>6. CASE MainStep /\ ~StartServer /\ ~Raise
  BY <1>6 DEF MainStep, MainGoes, MainQueues, StopServer, InitService, InitGoes,
     ConnectDb, ConnectRedis, OpenSources, AfterFailedStart, InitFails,
     MonitorNotCreated, WorkerNotCreated, ServiceStarts, StopService,
     JoinProducers, DestroyService, ExitMain
<1>7. CASE \/ \E w \in Writers : WriterRound(w) \/ WriterEnds(w)
           \/ \E p \in Producers : ProducerRound(p) \/ ProducerEnds(p)
  BY <1>7 DEF WriterRound, WriterEnds, ProducerRound, ProducerEnds
<1>8. CASE UNCHANGED vars
  BY <1>8 DEF vars
<1> QED
  BY <1>1, <1>2, <1>3, <1>4, <1>5, <1>6, <1>7, <1>8 DEF Next

\* No signal the server thread takes is lost: it never waits with the flag set
\* by itself (the mask of sigprocmask, and the loop of server_thread).
THEOREM SignalsKept == SafeSpec => []SignalKept
<1>1. Init => SignalInv
  BY DEF Init, SignalInv
<1>2. SignalInv => SignalKept
  BY DEF SignalInv, SignalKept
<1> QED
  BY <1>1, <1>2, SignalStep, PTL DEF SafeSpec

-----------------------------------------------------------------------------
(* Memory.                                                                  *)

LEMMA MemoryInit == Init => MemoryInv
<1> SUFFICES ASSUME Init
             PROVE  MemoryInv
  OBVIOUS
<1> QED
  BY DEF Init, MemoryInv, BeginInv, StandsInv, JoinedInv, HoldsInv, ServiceInv,
     MisuseExplained, AfterRing, AfterJoin, Running, Workers, Producers

\* The names of things and of threads are not names of write threads.
LEMMA Names ==
  ASSUME NEW w \in Writers
  PROVE  /\ w \in Workers
         /\ w \notin Things \cup Producers
BY ServerAssumption DEF Workers

LEMMA MemoryStep == MemoryInv /\ [Next]_vars => MemoryInv'
<1> SUFFICES ASSUME MemoryInv, [Next]_vars
             PROVE  MemoryInv'
  OBVIOUS
<1> USE Names
<1> USE DEF MemoryInv, BeginInv, StandsInv, JoinedInv, HoldsInv, ServiceInv,
        MisuseExplained, TornDown, AfterRing, AfterJoin, Running, Producers, Things,
        Logs, Sources, signalVars, workerVars, memoryVars
<1>1. CASE Signal
  BY <1>1 DEF Signal, Take, Exit
<1>2. CASE SetupFails \/ ClientEvent \/ WaitFails
  BY <1>2 DEF SetupFails, ClientEvent, WaitFails, ServerGoes, Exit
<1>3. CASE InstallHandlers \/ BlockSignals \/ TestFlag \/ EnterWait
  BY <1>3 DEF InstallHandlers, BlockSignals, TestFlag, EnterWait,
     ServerGoes
<1>4. CASE HandleEvents
  BY <1>4 DEF HandleEvents, ServerGoes, Touch
<1>5. CASE FlagWriters
  BY <1>5 DEF FlagWriters, ServerGoes, Touch
<1>6. CASE JoinWriters
  BY <1>6 DEF JoinWriters, ServerGoes, Touch
<1>7. CASE FreeRing
  BY <1>7 DEF FreeRing, ServerGoes, Free, Touch
<1>8. CASE FreeWriter \/ FreeWriterAgain \/ FreeServer
  BY <1>8 DEF FreeWriter, FreeWriterAgain, FreeServer, ServerGoes, Free,
     Touch
<1>9. CASE CloseLog
  BY <1>9 DEF CloseLog, ServerGoes, Touch
<1>10. CASE \E w \in Writers : WriterRound(w) \/ WriterEnds(w)
  <2> PICK w \in Writers : WriterRound(w) \/ WriterEnds(w)
    BY <1>10
  <2>1. w \in Workers /\ thread[w] = "running"
    BY DEF WriterRound, WriterEnds
  <2>2. main # "begin" /\ server \notin AfterJoin
    BY <2>1
  <2>3. {"writer", "ring"} \subseteq valid
    BY <2>2
  <2>4. UNCHANGED <<main, server, failed, holds, valid, misused>>
    <3>1. UNCHANGED <<main, server, failed, holds, valid>>
      BY DEF WriterRound, WriterEnds
    <3>2. misused' = misused \cup ({"writer", "ring"} \ valid) \/ misused' = misused \cup ({"writer"} \ valid)
      BY DEF WriterRound, WriterEnds, Touch
    <3>3. misused' = misused
      BY <2>3, <3>2
    <3> QED
      BY <3>1, <3>3
  <2>5. /\ thread' \in [Workers -> {"none", "running", "ended"}]
        /\ \A t \in Workers : thread'[t] = thread[t]
                               \/ (t = w /\ thread'[t] = "ended")
    BY <2>1 DEF WriterRound, WriterEnds
  <2>6. thread[w] # "none"
    BY <2>1
  <2>7. w \in valid /\ w \notin misused
    BY <2>2, <2>6
  <2> HIDE DEF Producers
  <2>8. \A p \in Producers : p \in Workers /\ p # w
    BY DEF Workers
  <2> QED
    BY <2>1, <2>2, <2>4, <2>5, <2>7, <2>8
<1>11. CASE \E p \in Producers : ProducerRound(p) \/ ProducerEnds(p)
  <2> PICK p \in Producers : ProducerRound(p) \/ ProducerEnds(p)
    BY <1>11
  <2>1. p \in Workers /\ thread[p] = "running"
    BY DEF ProducerRound, ProducerEnds, Workers
  <2>2. main # "begin"
    BY <2>1
  <2>3. ~failed => {"service"} \cup Sources \subseteq valid
    BY <2>1
  <2>4. UNCHANGED <<main, server, failed, holds, valid>>
    BY DEF ProducerRound, ProducerEnds
  <2>5. misused' \subseteq misused \cup ((Queued \cup {"service"} \cup Sources) \ valid)
    BY DEF ProducerRound, ProducerEnds, Touch, Used
  <2>6. MisuseExplained'
    <3>1. misused' \cap (Producers \cup Sources \cup {"service", "service_log"}) # {} => failed
      BY <2>3, <2>5 DEF Queued
    <3>2. \A w \in Writers : w \in misused' => w \in misused
      BY <2>5 DEF Queued
    <3>3. /\ misused' \cap {"server", "server_log", "writer"} # {} => TornDown
          /\ "ring" \in misused' => TornDown \/ server = "free_writer"
          /\ "writer_log" \notin misused'
      BY <2>2, <2>5 DEF Queued
    <3>4. \A w \in Writers : thread'[w] = thread[w]
      BY <2>1 DEF ProducerRound, ProducerEnds
    <3> QED
      BY <2>4, <3>1, <3>2, <3>3, <3>4
  <2>7. /\ thread' \in [Workers -> {"none", "running", "ended"}]
        /\ \A t \in Workers : thread'[t] = thread[t]
                               \/ (t = p /\ thread'[t] = "ended")
    BY <2>1 DEF ProducerRound, ProducerEnds
  <2>8. \A w \in Writers : w \in Workers /\ w # p
    BY DEF Workers
  <2>9. Producers \subseteq Workers
    BY DEF Workers
  <2> HIDE DEF MisuseExplained
  <2> QED
    BY <2>2, <2>4, <2>6, <2>7, <2>8, <2>9
<1>12. CASE StartServer
  <2> PICK created \in Creatable(Writers) :
         /\ valid' = Queued \cup {"server_log", "writer_log"} \cup created
         /\ thread' = [t \in Workers |-> IF t \in created THEN "running" ELSE "none"]
    BY <1>12 DEF StartServer
  <2>1. created \subseteq Writers
    BY DEF Creatable
  <2>2. server' \in {"none", "setup"} /\ main' = "up"
    BY <1>12 DEF StartServer, MainGoes, Creatable
  <2>3. UNCHANGED <<failed, holds, misused>> /\ misused = {}
    BY <1>12 DEF StartServer, MainGoes
  <2>4. \A p \in Producers : p \in Workers /\ thread'[p] = "none"
    BY <2>1 DEF Workers
  <2>5. \A w \in Writers : w \in valid' \/ thread'[w] = "none"
    BY DEF Workers
  <2>6. thread' \in [Workers -> {"none", "running", "ended"}]
    OBVIOUS
  <2>7. {"server", "server_log", "writer", "writer_log", "ring"} \subseteq valid'
    BY DEF Queued
  <2> QED
    BY <2>2, <2>3, <2>4, <2>5, <2>6, <2>7
<1>13. CASE MainQueues \/ StopServer
  BY <1>13 DEF MainQueues, StopServer, MainGoes, Touch, Queued
<1>14. CASE Raise
  BY <1>14 DEF Raise, MainGoes, Take, Exit
<1>15. CASE InitService
  BY <1>15 DEF InitService, MainGoes
<1>16. CASE ConnectDb \/ ConnectRedis \/ OpenSources
  BY <1>16 DEF ConnectDb, ConnectRedis, OpenSources, InitGoes, MainGoes
<1>17. CASE InitFails
  BY <1>17 DEF InitFails, AfterFailedStart, MainGoes, Free, Touch
<1>18. CASE MonitorNotCreated
  BY <1>18 DEF MonitorNotCreated, AfterFailedStart, MainGoes
<1>19. CASE WorkerNotCreated \/ ServiceStarts
  BY <1>19 DEF WorkerNotCreated, ServiceStarts, MainGoes, Created
<1>20. CASE StopService \/ ExitMain
  BY <1>20 DEF StopService, ExitMain, MainGoes, Exit
<1>21. CASE JoinProducers
  BY <1>21 DEF JoinProducers, MainGoes, Touch
<1>22. CASE DestroyService
  BY <1>22 DEF DestroyService, MainGoes, Free, Touch
<1>23. CASE UNCHANGED vars
  BY <1>23 DEF vars
<1> QED
  BY <1>1, <1>2, <1>3, <1>4, <1>5, <1>6, <1>7, <1>8, <1>9, <1>10, <1>11,
     <1>12, <1>13, <1>14, <1>15, <1>16, <1>17, <1>18, <1>19, <1>20, <1>21,
     <1>22, <1>23 DEF Next, ServerStep, MainStep

\* The write threads are joined before what they use is freed, whatever they
\* are doing when the server is stopped (sse_server_destroy).
THEOREM NoWriterOutlives == SafeSpec => []WritersOutlived
<1>1. MemoryInv => WritersOutlived
  BY Names DEF MemoryInv, BeginInv, StandsInv, JoinedInv, WritersOutlived, AfterRing,
     AfterJoin, TornDown
<1> QED
  BY <1>1, MemoryInit, MemoryStep, PTL DEF SafeSpec

\* Memory and threads are misused in the known ways only, and a service that
\* started may be stopped and destroyed while the server runs.
THEOREM EveryMisuseExplained == SafeSpec => []MisuseExplained
<1>1. MemoryInv => MisuseExplained
  BY DEF MemoryInv
<1> QED
  BY <1>1, MemoryInit, MemoryStep, PTL DEF SafeSpec

-----------------------------------------------------------------------------
(* Types.                                                                   *)

\* The threads that may take a signal.
LEMMA Takers == Unblocked \subseteq {"main", "server_thread"} \cup Workers
BY DEF Unblocked

\* What is used is a thing or a thread.
LEMMA TouchTypes ==
  ASSUME TypeOK, NEW S \in SUBSET (Things \cup Workers), Touch(S)
  PROVE  alive' \in BOOLEAN /\ misused' \subseteq Things \cup Workers
<1>1. alive' \in BOOLEAN
  BY DEF Touch
<1> QED
  BY <1>1 DEF Touch, TypeOK

LEMMA FreeTypes ==
  ASSUME TypeOK, NEW S \in SUBSET (Things \cup Workers), Free(S)
  PROVE  /\ alive' \in BOOLEAN /\ misused' \subseteq Things \cup Workers
         /\ valid' \subseteq Things \cup Workers
BY TouchTypes DEF Free, TypeOK

LEMMA TakeTypes ==
  ASSUME TypeOK, NEW t \in {"main", "server_thread"} \cup Workers, Take(t)
  PROVE  /\ alive' \in BOOLEAN /\ installed' = installed
         /\ stop_signal_received' \in BOOLEAN
         /\ takers' \subseteq {"main", "server_thread"} \cup Workers
         /\ server' \in {server, "test"}
         /\ UNCHANGED <<valid, misused>>
<1>1. CASE installed
  BY <1>1 DEF Take, TypeOK, memoryVars
<1>2. CASE ~installed
  BY <1>2 DEF Take, TypeOK, Exit
<1> QED
  BY <1>1, <1>2

LEMMA TypeStep == TypeOK /\ [Next]_vars => TypeOK'
<1> SUFFICES ASSUME TypeOK, [Next]_vars
             PROVE  TypeOK'
  OBVIOUS
<1> USE DEF TypeOK, signalVars, workerVars, memoryVars
<1>1. CASE Signal
  <2>1. PICK t \in Unblocked : Take(t)
    BY <1>1 DEF Signal
  <2>2. t \in {"main", "server_thread"} \cup Workers
    BY Takers
  <2>3. signals' \in 0..MaxSignals
    BY <1>1, ServerAssumption DEF Signal
  <2> QED
    BY <1>1, <2>1, <2>2, <2>3, TakeTypes DEF Signal
<1>2. CASE SetupFails \/ ClientEvent \/ WaitFails
  BY <1>2 DEF SetupFails, ClientEvent, WaitFails, ServerGoes, Exit
<1>3. CASE InstallHandlers \/ BlockSignals \/ TestFlag \/ EnterWait
  BY <1>3 DEF ServerGoes, InstallHandlers, BlockSignals, TestFlag, EnterWait
<1>16. CASE HandleEvents
  <2>1. {"server", "server_log", "writer", "writer_log"} \in SUBSET (Things \cup Workers)
    BY DEF Things, Logs
  <2> QED
    BY <1>16, <2>1, TouchTypes DEF ServerGoes, HandleEvents
<1>4. CASE FlagWriters \/ JoinWriters
  BY <1>4 DEF ServerGoes, FlagWriters, JoinWriters, Touch, Things, Logs, Workers
<1>5. CASE FreeRing \/ FreeWriter \/ FreeWriterAgain \/ FreeServer
  <2>1. \A x \in {"ring", "writer", "server"} : {x} \in SUBSET (Things \cup Workers)
    BY DEF Things
  <2> QED
    BY <1>5, <2>1, FreeTypes DEF ServerGoes, FreeRing, FreeWriter, FreeWriterAgain, FreeServer
<1>17. CASE CloseLog
  <2>1. {"server", "server_log"} \in SUBSET (Things \cup Workers)
    BY DEF Things, Logs
  <2> QED
    BY <1>17, <2>1, TouchTypes DEF ServerGoes, CloseLog
<1>6. ASSUME NEW w \in Writers, WriterRound(w) \/ WriterEnds(w)
      PROVE  TypeOK'
  <2>1. {"writer", "ring"} \in SUBSET (Things \cup Workers)
        /\ {"writer"} \in SUBSET (Things \cup Workers)
    BY DEF Things
  <2>2. alive' \in BOOLEAN /\ misused' \subseteq Things \cup Workers
    BY <1>6, <2>1, TouchTypes DEF WriterRound, WriterEnds
  <2>3. thread' \in [Workers -> {"none", "running", "ended"}]
    BY <1>6 DEF WriterRound, WriterEnds
  <2>4. UNCHANGED <<program, main, server, signalVars, stop, exit_flag, failed, holds, valid>>
    BY <1>6 DEF WriterRound, WriterEnds
  <2> QED
    BY <2>2, <2>3, <2>4
<1>7. ASSUME NEW p \in Producers, ProducerRound(p) \/ ProducerEnds(p)
      PROVE  TypeOK'
  <2>1. Used(p) \in SUBSET (Things \cup Workers)
    BY DEF Used, Queued, Things
  <2>2. p \in Workers
    BY DEF Workers
  <2> QED
    BY <1>7, <2>1, <2>2, TouchTypes DEF ProducerRound, ProducerEnds
<1>8. CASE StartServer
  <2>1. main' = "up" /\ UNCHANGED program
    BY <1>8 DEF StartServer, MainGoes
  <2>2. server' \in {"none", "setup"}
    BY <1>8 DEF StartServer
  <2>3. PICK created \in Creatable(Writers) :
          /\ valid' = Queued \cup {"server_log", "writer_log"} \cup created
          /\ thread' = [t \in Workers |-> IF t \in created THEN "running" ELSE "none"]
    BY <1>8 DEF StartServer
  <2>4. created \subseteq Workers
    BY <2>3 DEF Creatable, Workers
  <2>5. valid' \subseteq Things \cup Workers
    BY <2>3, <2>4 DEF Queued, Things, Logs
  <2>6. thread' \in [Workers -> {"none", "running", "ended"}]
    BY <2>3
  <2> QED
    BY <1>8, <2>1, <2>2, <2>5, <2>6 DEF StartServer
<1>9. CASE MainQueues \/ StopServer
  <2>1. Queued \in SUBSET (Things \cup Workers)
        /\ {"server", "server_log"} \in SUBSET (Things \cup Workers)
    BY DEF Queued, Things, Logs
  <2>2. alive' \in BOOLEAN /\ misused' \subseteq Things \cup Workers
    BY <1>9, <2>1, TouchTypes DEF MainQueues, StopServer
  <2>3. main' \in {"up", "raise"} /\ UNCHANGED program
    BY <1>9 DEF MainQueues, StopServer, MainGoes
  <2>4. UNCHANGED <<server, signalVars, workerVars, valid>>
    BY <1>9 DEF MainQueues, StopServer
  <2> QED
    BY <2>2, <2>3, <2>4
<1>10. CASE Raise
  BY <1>10, TakeTypes DEF Raise, MainGoes
<1>11. CASE InitService \/ ConnectDb \/ ConnectRedis \/ OpenSources
  <2>1. {"service", "service_log", "db", "redis", "price_sources"} \subseteq Things
    BY DEF Things, Logs, Sources
  <2>2. holds' \subseteq Things /\ valid' \subseteq Things \cup Workers
    BY <1>11, <2>1 DEF InitService, ConnectDb, ConnectRedis, OpenSources, InitGoes
  <2>3. main' \in {"db", "redis", "sources", "create"} /\ UNCHANGED program
    BY <1>11 DEF InitService, ConnectDb, ConnectRedis, OpenSources, InitGoes, MainGoes
  <2>4. UNCHANGED <<server, signalVars, thread, stop, exit_flag, failed, alive, misused>>
    BY <1>11 DEF InitService, ConnectDb, ConnectRedis, OpenSources, InitGoes
  <2> QED
    BY <2>2, <2>3, <2>4
<1>12. CASE InitFails \/ MonitorNotCreated
  <2>1. holds \in SUBSET (Things \cup Workers)
    OBVIOUS
  <2> QED
    BY <1>12, <2>1, FreeTypes DEF InitFails, MonitorNotCreated, AfterFailedStart, MainGoes
<1>13. CASE WorkerNotCreated \/ ServiceStarts
  <2>1. PICK P \in SUBSET Workers : Created(P)
    BY <1>13 DEF WorkerNotCreated, ServiceStarts, Workers, Producers
  <2>2. /\ thread' \in [Workers -> {"none", "running", "ended"}]
        /\ valid' \subseteq Things \cup Workers
    BY <2>1 DEF Created
  <2> QED
    BY <1>13, <2>2 DEF WorkerNotCreated, ServiceStarts, MainGoes
<1>14. CASE StopService \/ JoinProducers \/ DestroyService \/ ExitMain
  BY <1>14 DEF StopService, JoinProducers, DestroyService, ExitMain, MainGoes, Free, Touch,
     Exit, Things, Logs, Workers
<1>15. CASE UNCHANGED vars
  BY <1>15 DEF vars
<1> QED
  BY <1>1, <1>2, <1>3, <1>4, <1>5, <1>6, <1>7, <1>8, <1>9, <1>10, <1>11, <1>12, <1>13, <1>14, <1>15,
     <1>16, <1>17
     DEF Next, ServerStep, MainStep

\* Everything the theorems above rest on, with the types, in one invariant:
\* the one the runs check.
THEOREM ServerInvariant == SafeSpec => []ServerInv
<1>1. Init => TypeOK
  <2>1. 0 \in 0..MaxSignals
    BY ServerAssumption
  <2> QED
    BY <2>1 DEF Init, TypeOK
<1>2. Init => SignalInv
  BY DEF Init, SignalInv
<1>3. TypeOK /\ SignalInv /\ MemoryInv <=> ServerInv
  BY DEF ServerInv
<1> QED
  BY <1>1, <1>2, <1>3, TypeStep, SignalStep, MemoryInit, MemoryStep, PTL DEF SafeSpec

=============================================================================
