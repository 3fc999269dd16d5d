----------------------------- MODULE DataQueue -----------------------------
(***************************************************************************)
(* The shared data queue of the SSE client writer (sse_client_writer.c):   *)
(* a ring of data_queue_size nodes that client_writer_queue_data fills and *)
(* that every client_write_thread reads through a cursor of its own.       *)
(*                                                                         *)
(* A node holds a message and an id made of the wall clock and a message   *)
(* counter.  A thread tells a new message from one it has already sent by  *)
(* comparing ids only; nothing stops the producers from overtaking it.     *)
(*                                                                         *)
(* dq_lock is held from the first to the last access of                    *)
(* client_writer_queue_data, and around the id test and the copy of a      *)
(* write thread, so each of these is one atomic step here.  Sending to the *)
(* clients and advancing the cursor happen outside the lock and are a step *)
(* of their own.                                                           *)
(*                                                                         *)
(* A message is represented by its ordinal, the number of messages queued  *)
(* when it was; the empty string the nodes are initialised with is 0.  The *)
(* clients themselves are not in this module.                              *)
(***************************************************************************)
EXTENDS Integers

CONSTANTS
  NumClientLists,  \* NUM_CLIENT_LISTS, the number of write threads (3)
  QSize,           \* data_queue_size (100 in main.c)
  IdScale,         \* ids a second of the clock is worth (10000000)
  CountMod,        \* number of values of the unsigned int msg_count (2^32)
  StartTime,       \* time(NULL) when the process starts
  MaxTime,         \* bound: the clock stops here
  MaxMsgs,         \* bound: messages queued over the life of the process
  MaxClockSteps    \* bound: times the wall clock is set back

ASSUME DataQueueAssumption ==
  /\ NumClientLists \in Nat \ {0}
  /\ QSize \in Nat \ {0}
  /\ IdScale \in Nat \ {0}
  /\ CountMod \in Nat \ {0}
  /\ StartTime \in Nat \ {0}
  /\ MaxTime \in Nat
  /\ MaxMsgs \in Nat
  /\ MaxClockSteps \in Nat

VARIABLES
  now,                  \* time(NULL)
  clock_steps,          \* times the clock has been set back
  queued,               \* messages queued so far: the ordinal of the newest
  msg_count,            \* client_writer->msg_count
  last_data_write_idx,  \* client_writer->last_data_write_idx
  data_queue,           \* the ring: id and data of every node
  last_data_read_idx,   \* clm[t].last_data_read_idx
  last_data_id,         \* local of thread t: id of the last message it took
  send_buffer,          \* local of thread t: the last message it took
  pc,                   \* where thread t is
  stop,                 \* clm[t].stop
  joined                \* threads joined by client_writer_stop

writerVars == <<queued, msg_count, last_data_write_idx, data_queue>>
threadVars == <<last_data_read_idx, last_data_id, send_buffer, pc>>
clockVars  == <<now, clock_steps>>
vars == <<clockVars, writerVars, threadVars, stop, joined>>

WriteThreads == 1..NumClientLists
Slots == 0..(QSize - 1)

-----------------------------------------------------------------------------

Init ==
  /\ now = StartTime
  /\ clock_steps = 0
  /\ queued = 0
  /\ msg_count = 0
  /\ last_data_write_idx = 0
  /\ data_queue = [i \in Slots |-> [id |-> 0, data |-> 0]]
  /\ last_data_read_idx = [t \in WriteThreads |-> 0]
  /\ last_data_id = [t \in WriteThreads |-> 0]
  /\ send_buffer = [t \in WriteThreads |-> 0]
  /\ pc = [t \in WriteThreads |-> "sleep"]
  /\ stop = [t \in WriteThreads |-> FALSE]
  /\ joined = 0

\* Mutant: the index restarts one node too early.
Wrap_OneEarly(idx) == IF idx >= QSize - 1 THEN 0 ELSE idx

\* An index that has run off the end restarts at 0 before it is used.
Wrap(idx) == IF idx = QSize THEN 0 ELSE idx

\* Mutant: the id without the message counter.
NextId_ClockOnly == now * IdScale

\* The id of the next message.
NextId == now * IdScale + msg_count

\* msg_count++ on an unsigned int.
CountUp(count) == (count + 1) % CountMod

\* client_writer_queue_data: called by the market monitor and by the
\* simulated order worker, through sse_server_queue_data.
QueueData ==
  /\ queued < MaxMsgs
  /\ LET w == Wrap(last_data_write_idx) IN
       /\ data_queue' = [data_queue EXCEPT ![w] = [id   |-> NextId,
                                                   data |-> queued + 1]]
       /\ last_data_write_idx' = w + 1
  /\ msg_count' = CountUp(msg_count)
  /\ queued' = queued + 1
  /\ UNCHANGED <<clockVars, threadVars, stop, joined>>

\* Mutant: the stop flag is not looked at.
WakeUp_IgnoresStop(t) ==
  /\ pc[t] = "sleep"
  /\ pc' = [pc EXCEPT ![t] = "drain"]
  /\ UNCHANGED <<clockVars, writerVars, last_data_read_idx, last_data_id,
                 send_buffer, stop, joined>>

\* sleep(2) returns; the stop flag is read under clm->lock.
WakeUp(t) ==
  /\ pc[t] = "sleep"
  /\ pc' = [pc EXCEPT ![t] = IF stop[t] THEN "done" ELSE "drain"]
  /\ UNCHANGED <<clockVars, writerVars, last_data_read_idx, last_data_id,
                 send_buffer, stop, joined>>

\* The node at the cursor of t.
CursorNode(t) == data_queue[Wrap(last_data_read_idx[t])]

\* Mutant: any other id counts as new.
Fresh_Different(t) == last_data_id[t] # CursorNode(t).id

\* The node at the cursor of t is newer, by its id, than all t has taken.
Fresh(t) == last_data_id[t] < CursorNode(t).id

TakeMessage(t) ==
  /\ pc[t] = "drain"
  /\ Fresh(t)
  /\ last_data_read_idx' = [last_data_read_idx EXCEPT ![t] = Wrap(@)]
  /\ last_data_id' = [last_data_id EXCEPT ![t] = CursorNode(t).id]
  /\ send_buffer' = [send_buffer EXCEPT ![t] = CursorNode(t).data]
  /\ pc' = [pc EXCEPT ![t] = "send"]
  /\ UNCHANGED <<clockVars, writerVars, stop, joined>>

\* Mutant: the cursor moves on although there was nothing to take.
NothingNew_Advances(t) ==
  /\ pc[t] = "drain"
  /\ ~Fresh(t)
  /\ last_data_read_idx' = [last_data_read_idx EXCEPT ![t] = Wrap(@) + 1]
  /\ pc' = [pc EXCEPT ![t] = "sleep"]
  /\ UNCHANGED <<clockVars, writerVars, last_data_id, send_buffer, stop, joined>>

\* Nothing new at the cursor: leave the inner loop and sleep again.
NothingNew(t) ==
  /\ pc[t] = "drain"
  /\ ~Fresh(t)
  /\ last_data_read_idx' = [last_data_read_idx EXCEPT ![t] = Wrap(@)]
  /\ pc' = [pc EXCEPT ![t] = "sleep"]
  /\ UNCHANGED <<clockVars, writerVars, last_data_id, send_buffer, stop, joined>>

\* Mutant: the cursor is not advanced.
FinishSend_Stays(t) ==
  /\ pc[t] = "send"
  /\ pc' = [pc EXCEPT ![t] = "drain"]
  /\ UNCHANGED <<clockVars, writerVars, last_data_read_idx, last_data_id,
                 send_buffer, stop, joined>>

\* send_buffer has gone to the clients of t; the cursor moves on.
FinishSend(t) ==
  /\ pc[t] = "send"
  /\ last_data_read_idx' = [last_data_read_idx EXCEPT ![t] = @ + 1]
  /\ pc' = [pc EXCEPT ![t] = "drain"]
  /\ UNCHANGED <<clockVars, writerVars, last_data_id, send_buffer, stop, joined>>

\* client_writer_stop: the first loop flags the threads in order, the
\* second one joins them in order.
FlagStop(t) ==
  /\ ~stop[t]
  /\ \A u \in 1..(t - 1) : stop[u]
  /\ stop' = [stop EXCEPT ![t] = TRUE]
  /\ UNCHANGED <<clockVars, writerVars, threadVars, joined>>

Join(t) ==
  /\ \A u \in WriteThreads : stop[u]
  /\ joined = t - 1
  /\ pc[t] = "done"
  /\ joined' = t
  /\ UNCHANGED <<clockVars, writerVars, threadVars, stop>>

\* The wall clock: it advances, and an administrator or a time daemon may
\* set it back.
Tick ==
  /\ now < MaxTime
  /\ now' = now + 1
  /\ UNCHANGED <<clock_steps, writerVars, threadVars, stop, joined>>

SetClockBack ==
  /\ clock_steps < MaxClockSteps
  /\ clock_steps' = clock_steps + 1
  /\ now' \in 1..(now - 1)
  /\ UNCHANGED <<writerVars, threadVars, stop, joined>>

ThreadStep(t) == WakeUp(t) \/ TakeMessage(t) \/ NothingNew(t) \/ FinishSend(t)

SteadyNext ==
  \/ QueueData
  \/ \E t \in WriteThreads : ThreadStep(t) \/ FlagStop(t) \/ Join(t)
  \/ Tick

Next == SteadyNext \/ SetClockBack

SafeSpec == Init /\ [][Next]_vars

\* A runnable thread is eventually scheduled and gets dq_lock, which nobody
\* holds while sleeping or sending; a call to client_writer_stop, once it has
\* flagged the first thread, runs to its end.  Nothing forces the producers,
\* the clock or the first call to client_writer_stop.
Fairness ==
  /\ \A t \in WriteThreads : WF_vars(ThreadStep(t)) /\ WF_vars(Join(t))
  /\ \A t \in 2..NumClientLists : WF_vars(FlagStop(t))

\* Behaviours in which nobody sets the clock back.
SteadySpec == Init /\ [][SteadyNext]_vars /\ Fairness

-----------------------------------------------------------------------------

\* The types of the variables of sse_client_writer.h: indices within 0..QSize,
\* strictly below it while the node is in use, msg_count within its unsigned
\* int.
TypeOK ==
  /\ now \in Nat \ {0}
  /\ clock_steps \in Nat
  /\ queued \in Nat
  /\ msg_count \in 0..(CountMod - 1)
  /\ last_data_write_idx \in 0..QSize
  /\ data_queue \in [Slots -> [id : Nat, data : Nat]]
  /\ last_data_read_idx \in [WriteThreads -> 0..QSize]
  /\ last_data_id \in [WriteThreads -> Nat]
  /\ send_buffer \in [WriteThreads -> Nat]
  /\ pc \in [WriteThreads -> {"sleep", "drain", "send", "done"}]
  /\ \A t \in WriteThreads : pc[t] = "send" => last_data_read_idx[t] < QSize
  /\ stop \in [WriteThreads -> BOOLEAN]
  /\ joined \in 0..NumClientLists

\* The number of messages written in the laps of the ring before the
\* current one.
WriteLap == queued - last_data_write_idx

\* The ring holds the QSize newest messages (fewer while it fills for the
\* first time), each in the node its ordinal maps to: the newest just before
\* the write index, the oldest at it.  It is what client_writer_queue_data
\* must keep true for any history of calls, whatever the ids.
RingContents ==
  \A i \in Slots :
    data_queue[i].data = IF i < last_data_write_idx THEN WriteLap + i + 1
                         ELSE IF WriteLap = 0 THEN 0
                         ELSE WriteLap - QSize + i + 1

\* Messages reach the clients of a thread in the order they were queued,
\* although the thread only compares ids.
OrderedDelivery ==
  [][\A t \in WriteThreads :
       TakeMessage(t) => send_buffer[t] < send_buffer'[t]]_vars

\* A thread that is at most QSize messages behind takes the very next one:
\* only a producer that laps a thread makes its clients lose messages.
LossOnlyWhenLapped ==
  [][\A t \in WriteThreads :
       TakeMessage(t) /\ queued - send_buffer[t] <= QSize
         => send_buffer'[t] = send_buffer[t] + 1]_vars

\* A thread goes back to sleep only when the newest message of the queue is
\* the one it took last: its cursor never waits at a node the producers
\* will not fill next, even after they lapped it.
CaughtUpBeforeSleep ==
  [][\A t \in WriteThreads : NothingNew(t) => send_buffer[t] = queued]_vars

\* The hypothesis under which ids grow with the order of the messages: the
\* clock is never set back and the unsigned message counter never wraps.
SteadyIds == MaxClockSteps = 0 /\ MaxMsgs < CountMod

\* n messages are a whole number of laps of the ring.
IsLap(n) == \E k \in 0..n : n = k * QSize

\* The write index is where the number of queued messages puts it.
WriteIndexInv ==
  /\ WriteLap \in Nat
  /\ IsLap(WriteLap)
  /\ last_data_write_idx = 0 => queued = 0

\* The node t looks at next, counting the one it is sending as passed, and
\* the messages in the laps before the one it is in.
Cursor(t) == last_data_read_idx[t] + (IF pc[t] = "send" THEN 1 ELSE 0)
ReadLap(t) == send_buffer[t] - Cursor(t)

\* The cursor of t is where the last message it took puts it, and is never
\* ahead of the write index, except that it may have restarted at 0 when the
\* write index has yet to.
CursorPlaced(t) ==
  /\ send_buffer[t] <= queued
  /\ ReadLap(t) \in Nat
  /\ IsLap(ReadLap(t))
  /\ \/ ReadLap(t) <= WriteLap
     \/ /\ Cursor(t) = 0
        /\ last_data_write_idx = QSize
        /\ ReadLap(t) = WriteLap + QSize

CursorInv == \A t \in WriteThreads : CursorPlaced(t)

\* Ids order the messages as their ordinals do: those in the ring among
\* themselves, and each against the last message of each thread.
IdOrderInv ==
  /\ \A i, j \in Slots :
       data_queue[i].data < data_queue[j].data
         <=> data_queue[i].id < data_queue[j].id
  /\ \A t \in WriteThreads, i \in Slots :
       send_buffer[t] < data_queue[i].data
         <=> last_data_id[t] < data_queue[i].id

\* The next id is larger than every id in use.
NextIdInv ==
  /\ msg_count = queued
  /\ queued <= MaxMsgs
  /\ \A i \in Slots : data_queue[i].id < NextId
  /\ \A t \in WriteThreads : last_data_id[t] < NextId

\* The inductive invariant behind the action properties above.
QueueInv ==
  /\ TypeOK
  /\ RingContents
  /\ WriteIndexInv
  /\ CursorInv
  /\ IdOrderInv
  /\ NextIdInv

\* Once client_writer_stop has begun, every write thread ends and is joined.
StopJoinsAll == stop[1] ~> joined = NumClientLists

\* What the queue promises: see Broadcast.
Promise == INSTANCE Broadcast WITH
  Subscribers <- WriteThreads,
  Window      <- QSize,
  published   <- queued,
  received    <- send_buffer,
  active      <- {t \in WriteThreads : pc[t] # "done"}

PromiseSpec == Promise!Spec

=============================================================================
