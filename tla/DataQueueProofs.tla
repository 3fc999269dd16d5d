-------------------------- MODULE DataQueueProofs --------------------------
(***************************************************************************)
(* Proofs about the shared data queue, for every number of write threads,  *)
(* every ring size and every number of messages.                           *)
(***************************************************************************)
EXTENDS DataQueue, TLAPS

-----------------------------------------------------------------------------
(* Arithmetic of laps.                                                      *)

LEMMA LapZero == IsLap(0)
  BY DataQueueAssumption DEF IsLap

\* The messages of one more lap are a whole number of laps.
LEMMA LapUp ==
  ASSUME NEW a \in Nat, IsLap(a)
  PROVE  IsLap(a + QSize)
<1>1. PICK k \in 0..a : a = k * QSize
  BY DEF IsLap
<1>2. a + QSize = (k + 1) * QSize
  BY <1>1, DataQueueAssumption
<1>3. k + 1 \in 0..(a + QSize)
  BY DataQueueAssumption
<1> QED
  BY <1>2, <1>3 DEF IsLap

\* A number of laps that is not zero is at least one, and one less is again
\* a number of laps.
LEMMA LapDown ==
  ASSUME NEW a \in Nat, IsLap(a), a # 0
  PROVE  a - QSize \in Nat /\ IsLap(a - QSize)
<1>1. PICK k \in 0..a : a = k * QSize
  BY DEF IsLap
<1>2. k # 0
  BY <1>1, DataQueueAssumption
<1>3. k - 1 \in Nat /\ a - QSize = (k - 1) * QSize
  BY <1>1, <1>2, DataQueueAssumption
<1>4. k - 1 <= (k - 1) * QSize
  BY <1>3, DataQueueAssumption
<1> QED
  BY <1>3, <1>4, DataQueueAssumption DEF IsLap

\* Two different numbers of laps are at least one lap apart.
LEMMA LapGap ==
  ASSUME NEW a \in Nat, NEW b \in Nat, IsLap(a), IsLap(b), a < b
  PROVE  a + QSize <= b
<1>1. PICK k \in 0..a : a = k * QSize
  BY DEF IsLap
<1>2. PICK m \in 0..b : b = m * QSize
  BY DEF IsLap
<1>3. k < m
  <2>1. SUFFICES ASSUME m <= k
                 PROVE  FALSE
    BY <1>1, <1>2
  <2>2. m * QSize <= k * QSize
    BY <2>1, DataQueueAssumption
  <2> QED
    BY <2>2, <1>1, <1>2
<1>4. (k + 1) * QSize <= m * QSize
  BY <1>3, DataQueueAssumption
<1> QED
  BY <1>1, <1>2, <1>4, DataQueueAssumption

-----------------------------------------------------------------------------
(* Types.                                                                   *)

LEMMA CountUpType ==
  ASSUME NEW c \in 0..(CountMod - 1)
  PROVE  CountUp(c) \in 0..(CountMod - 1)
  BY DataQueueAssumption DEF CountUp

LEMMA WrapType ==
  ASSUME NEW idx \in 0..QSize
  PROVE  /\ Wrap(idx) \in Slots
         /\ Wrap(idx) \in 0..QSize
         /\ Wrap(idx) < QSize
         /\ Wrap(idx) + 1 \in 0..QSize
  BY DataQueueAssumption DEF Wrap, Slots

LEMMA NextIdType == TypeOK => NextId \in Nat \ {0}
<1> SUFFICES ASSUME TypeOK
             PROVE  NextId \in Nat \ {0}
  OBVIOUS
<1>1. now * IdScale \in Nat \ {0}
  BY DataQueueAssumption DEF TypeOK
<1> QED
  BY <1>1, DataQueueAssumption DEF TypeOK, NextId

LEMMA TypeInit == Init => TypeOK
  BY DataQueueAssumption DEF Init, TypeOK, Slots, WriteThreads

\* One case per action; the UNCHANGED ones need nothing but the definition.
LEMMA TypeStep == TypeOK /\ [Next]_vars => TypeOK'
<1> SUFFICES ASSUME TypeOK, [Next]_vars
             PROVE  TypeOK'
  OBVIOUS
<1> USE DEF TypeOK, vars, clockVars, writerVars, threadVars
<1>1. CASE QueueData
  <2>1. Wrap(last_data_write_idx) \in Slots
        /\ Wrap(last_data_write_idx) + 1 \in 0..QSize
    BY WrapType
  <2>2. NextId \in Nat /\ CountUp(msg_count) \in 0..(CountMod - 1)
    BY NextIdType, CountUpType
  <2> QED
    BY <1>1, <2>1, <2>2 DEF QueueData
<1>2. ASSUME NEW t \in WriteThreads, WakeUp(t)
      PROVE  TypeOK'
  BY <1>2 DEF WakeUp
<1>3. ASSUME NEW t \in WriteThreads, TakeMessage(t)
      PROVE  TypeOK'
  <2>1. /\ Wrap(last_data_read_idx[t]) \in Slots
        /\ Wrap(last_data_read_idx[t]) \in 0..QSize
    BY WrapType
  <2>2. Wrap(last_data_read_idx[t]) < QSize
    BY WrapType
  <2>3. CursorNode(t) \in [id : Nat, data : Nat]
    BY <2>1 DEF CursorNode
  <2>4. /\ last_data_read_idx' \in [WriteThreads -> 0..QSize]
        /\ last_data_id' \in [WriteThreads -> Nat]
        /\ send_buffer' \in [WriteThreads -> Nat]
        /\ pc' \in [WriteThreads -> {"sleep", "drain", "send", "done"}]
    BY <1>3, <2>1, <2>3 DEF TakeMessage
  <2>5. \A u \in WriteThreads : pc'[u] = "send" => last_data_read_idx'[u] < QSize
    BY <1>3, <2>2 DEF TakeMessage
  <2> QED
    BY <1>3, <2>4, <2>5 DEF TakeMessage
<1>4. ASSUME NEW t \in WriteThreads, NothingNew(t)
      PROVE  TypeOK'
  <2>1. Wrap(last_data_read_idx[t]) \in 0..QSize
    BY WrapType
  <2> QED
    BY <1>4, <2>1 DEF NothingNew
<1>5. ASSUME NEW t \in WriteThreads, FinishSend(t)
      PROVE  TypeOK'
  <2>1. last_data_read_idx[t] + 1 \in 0..QSize
    BY <1>5, DataQueueAssumption DEF FinishSend
  <2> QED
    BY <1>5, <2>1 DEF FinishSend
<1>6. ASSUME NEW t \in WriteThreads, FlagStop(t)
      PROVE  TypeOK'
  BY <1>6 DEF FlagStop
<1>7. ASSUME NEW t \in WriteThreads, Join(t)
      PROVE  TypeOK'
  BY <1>7 DEF Join, WriteThreads
<1>8. CASE Tick
  BY <1>8 DEF Tick
<1>9. CASE SetClockBack
  BY <1>9 DEF SetClockBack
<1>10. CASE UNCHANGED vars
  BY <1>10
<1> QED
  BY <1>1, <1>2, <1>3, <1>4, <1>5, <1>6, <1>7, <1>8, <1>9, <1>10
  DEF Next, SteadyNext, ThreadStep

\* The indices of the ring stay in bounds and msg_count within its unsigned
\* int, whatever the producers, the threads and the clock do.
THEOREM TypeCorrect == SafeSpec => []TypeOK
  BY TypeInit, TypeStep, PTL DEF SafeSpec

-----------------------------------------------------------------------------
(* The contents of the ring.                                                *)

\* The types of the two variables the ring arithmetic is about.
LEMMA RingTypes ==
  TypeOK => /\ queued \in Nat
            /\ last_data_write_idx \in 0..QSize
            /\ data_queue \in [Slots -> [id : Nat, data : Nat]]
  BY DEF TypeOK

LEMMA RingInit == Init => WriteIndexInv /\ RingContents
<1> SUFFICES ASSUME Init
             PROVE  WriteIndexInv /\ RingContents
  OBVIOUS
<1>1. WriteLap = 0
  BY DEF Init, WriteLap
<1>2. WriteIndexInv
  BY <1>1, LapZero DEF WriteIndexInv, Init
<1>3. RingContents
  BY <1>1, DataQueueAssumption DEF RingContents, Init, Slots
<1> QED
  BY <1>2, <1>3

\* A step that leaves the ring alone leaves both predicates alone.
LEMMA RingUnchanged ==
  ASSUME UNCHANGED <<queued, last_data_write_idx, data_queue>>
  PROVE  /\ WriteIndexInv <=> WriteIndexInv'
         /\ RingContents <=> RingContents'
  BY DEF WriteIndexInv, RingContents, WriteLap

\* Queueing in the middle of a lap stays in the lap; queueing at the end of
\* one starts the next.
LEMMA QueueDataRing ==
  ASSUME TypeOK, WriteIndexInv, RingContents, QueueData
  PROVE  WriteIndexInv' /\ RingContents'
<1>1. /\ queued \in Nat
      /\ last_data_write_idx \in 0..QSize
      /\ data_queue \in [Slots -> [id : Nat, data : Nat]]
      /\ QSize \in Nat \ {0}
  BY RingTypes, DataQueueAssumption
<1>2. /\ queued' = queued + 1
      /\ last_data_write_idx' = Wrap(last_data_write_idx) + 1
      /\ \A i \in Slots : data_queue'[i].data =
           IF i = Wrap(last_data_write_idx) THEN queued + 1
           ELSE data_queue[i].data
  BY <1>1 DEF QueueData
<1>3. CASE last_data_write_idx = QSize
  <2>1. /\ Wrap(last_data_write_idx) = 0
        /\ WriteLap' = WriteLap + QSize
        /\ WriteLap' # 0
        /\ last_data_write_idx' = 1
    BY <1>1, <1>2, <1>3 DEF Wrap, WriteLap, WriteIndexInv
  <2>2. WriteIndexInv'
    BY <1>1, <2>1, LapUp DEF WriteIndexInv
  <2>3. \A i \in Slots : data_queue[i].data = WriteLap + i + 1
    BY <1>1, <1>3 DEF RingContents, Slots
  <2>4. WriteLap \in Nat /\ queued = WriteLap + QSize
    BY <1>1, <1>3 DEF WriteLap, WriteIndexInv
  <2>5. ASSUME NEW i \in Slots
        PROVE  data_queue'[i].data = IF i < 1 THEN WriteLap' + i + 1
                                     ELSE WriteLap' - QSize + i + 1
    <3>1. data_queue'[i].data = IF i = 0 THEN queued + 1 ELSE WriteLap + i + 1
      BY <1>2, <2>1, <2>3
    <3>2. WriteLap' = queued /\ WriteLap' - QSize = WriteLap
      BY <1>1, <2>1, <2>4
    <3> QED
      BY <1>1, <2>4, <3>1, <3>2 DEF Slots
  <2>6. RingContents'
    BY <2>1, <2>5 DEF RingContents
  <2> QED
    BY <2>2, <2>6
<1>4. CASE last_data_write_idx < QSize
  <2>1. /\ Wrap(last_data_write_idx) = last_data_write_idx
        /\ WriteLap' = WriteLap
        /\ last_data_write_idx' = last_data_write_idx + 1
    BY <1>1, <1>2, <1>4 DEF Wrap, WriteLap
  <2>2. WriteIndexInv'
    BY <1>1, <2>1 DEF WriteIndexInv
  <2>3. RingContents'
    BY <1>1, <1>2, <1>4, <2>1
    DEF RingContents, Slots, WriteLap, WriteIndexInv
  <2> QED
    BY <2>2, <2>3
<1> QED
  BY <1>1, <1>3, <1>4

LEMMA RingStep ==
  TypeOK /\ WriteIndexInv /\ RingContents /\ [Next]_vars
    => WriteIndexInv' /\ RingContents'
<1> SUFFICES ASSUME TypeOK, WriteIndexInv, RingContents, [Next]_vars
             PROVE  WriteIndexInv' /\ RingContents'
  OBVIOUS
<1>1. CASE QueueData
  BY <1>1, QueueDataRing
<1>2. CASE ~QueueData
  <2>1. UNCHANGED <<queued, last_data_write_idx, data_queue>>
    BY <1>2 DEF Next, SteadyNext, ThreadStep, WakeUp, TakeMessage, NothingNew, FinishSend,
      FlagStop, Join, Tick, SetClockBack, vars, writerVars
  <2> QED
    BY <2>1, RingUnchanged
<1> QED
  BY <1>1, <1>2

\* Whatever the order of the calls and whatever the clock and the counter
\* do to the ids, the ring holds the QSize newest messages in their places.
THEOREM RingHoldsNewest == SafeSpec => []RingContents
<1>1. Init => TypeOK /\ WriteIndexInv /\ RingContents
  BY TypeInit, RingInit
<1>2. TypeOK /\ WriteIndexInv /\ RingContents /\ [Next]_vars
        => (TypeOK /\ WriteIndexInv /\ RingContents)'
  BY TypeStep, RingStep
<1> QED
  BY <1>1, <1>2, PTL DEF SafeSpec

-----------------------------------------------------------------------------
(* The cursors.                                                             *)

\* The types of the variables of one thread.
LEMMA ThreadTypes ==
  ASSUME TypeOK, NEW t \in WriteThreads
  PROVE  /\ last_data_read_idx[t] \in 0..QSize
         /\ last_data_id[t] \in Nat
         /\ send_buffer[t] \in Nat
         /\ pc[t] = "send" => last_data_read_idx[t] < QSize
  BY DEF TypeOK

\* What a node can hold: nothing newer than the newest message and nothing
\* that has been overwritten.
LEMMA RingBounds ==
  ASSUME TypeOK, WriteIndexInv, RingContents, NEW i \in Slots
  PROVE  /\ data_queue[i].data \in Nat
         /\ data_queue[i].data <= queued
         /\ data_queue[i].data = 0 \/ data_queue[i].data > queued - QSize
<1>1. /\ queued \in Nat
      /\ last_data_write_idx \in 0..QSize
      /\ data_queue[i].data \in Nat
      /\ QSize \in Nat \ {0}
  BY RingTypes, DataQueueAssumption
<1>2. WriteLap \in Nat /\ queued = WriteLap + last_data_write_idx
  BY <1>1 DEF WriteLap, WriteIndexInv
<1>3. WriteLap = 0 \/ WriteLap >= QSize
  BY LapDown, <1>1, <1>2 DEF WriteIndexInv
<1> QED
  BY <1>1, <1>2, <1>3 DEF RingContents, Slots

\* The node a thread is about to look at, and the messages in the laps
\* before the one that node is in.
Node(t) == Wrap(last_data_read_idx[t])
NodeLap(t) == send_buffer[t] - Node(t)

\* CursorInv still holds once the cursor has been wrapped.
LEMMA WrappedCursor ==
  ASSUME TypeOK, WriteIndexInv, CursorInv, NEW t \in WriteThreads,
         pc[t] # "send"
  PROVE  /\ Node(t) \in Slots
         /\ NodeLap(t) \in Nat
         /\ IsLap(NodeLap(t))
         /\ send_buffer[t] = NodeLap(t) + Node(t)
         /\ \/ NodeLap(t) <= WriteLap
            \/ /\ Node(t) = 0
               /\ last_data_write_idx = QSize
               /\ NodeLap(t) = WriteLap + QSize
<1>1. /\ queued \in Nat
      /\ last_data_write_idx \in 0..QSize
      /\ last_data_read_idx[t] \in 0..QSize
      /\ send_buffer[t] \in Nat
      /\ QSize \in Nat \ {0}
  BY RingTypes, ThreadTypes, DataQueueAssumption
<1>2. /\ Cursor(t) = last_data_read_idx[t]
      /\ send_buffer[t] <= queued
      /\ ReadLap(t) \in Nat
      /\ IsLap(ReadLap(t))
      /\ send_buffer[t] = ReadLap(t) + last_data_read_idx[t]
      /\ \/ ReadLap(t) <= WriteLap
         \/ /\ Cursor(t) = 0
            /\ last_data_write_idx = QSize
            /\ ReadLap(t) = WriteLap + QSize
  BY <1>1 DEF CursorInv, CursorPlaced, Cursor, ReadLap
<1>3. /\ WriteLap \in Nat
      /\ IsLap(WriteLap)
      /\ queued = WriteLap + last_data_write_idx
  BY <1>1 DEF WriteIndexInv, WriteLap
<1>4. CASE last_data_read_idx[t] < QSize
  <2>1. Node(t) = last_data_read_idx[t] /\ NodeLap(t) = ReadLap(t)
    BY <1>1, <1>2, <1>4 DEF Node, NodeLap, Wrap
  <2> QED
    BY <1>1, <1>2, <1>4, <2>1 DEF Slots
<1>5. CASE last_data_read_idx[t] = QSize
  <2>1. /\ Node(t) = 0
        /\ NodeLap(t) = ReadLap(t) + QSize
        /\ ReadLap(t) <= WriteLap
    BY <1>1, <1>2, <1>5 DEF Node, NodeLap, Wrap
  <2>2. IsLap(NodeLap(t))
    BY <1>2, <2>1, LapUp
  <2>3. /\ Node(t) \in Slots
        /\ NodeLap(t) \in Nat
        /\ IsLap(NodeLap(t))
        /\ send_buffer[t] = NodeLap(t) + Node(t)
    BY <1>1, <1>2, <1>5, <2>1, <2>2 DEF Slots
  <2>4. CASE ReadLap(t) < WriteLap
    <3>1. ReadLap(t) + QSize <= WriteLap
      BY <1>2, <1>3, <2>4, LapGap
    <3> QED
      BY <2>3, <2>1, <3>1
  <2>5. CASE ReadLap(t) = WriteLap
    <3>1. last_data_write_idx = QSize
      BY <1>1, <1>2, <1>3, <1>5, <2>5
    <3> QED
      BY <2>3, <2>1, <2>5, <3>1
  <2> QED
    BY <1>2, <1>3, <2>1, <2>4, <2>5
<1> QED
  BY <1>1, <1>4, <1>5

\* The ids tell a thread whether the node at its cursor is newer than the
\* last message it took.
LEMMA FreshIsNewer ==
  ASSUME TypeOK, IdOrderInv, NEW t \in WriteThreads, Node(t) \in Slots
  PROVE  /\ CursorNode(t) = data_queue[Node(t)]
         /\ Fresh(t) <=> send_buffer[t] < data_queue[Node(t)].data
  BY DEF IdOrderInv, Fresh, CursorNode, Node

\* A step that changes neither the queue nor the variables of t leaves the
\* cursor of t where it was.
LEMMA CursorUnchanged ==
  ASSUME NEW t \in WriteThreads, CursorPlaced(t),
         UNCHANGED <<queued, last_data_write_idx, last_data_read_idx[t],
                     send_buffer[t], Cursor(t)>>
  PROVE  CursorPlaced(t)'
  BY DEF CursorPlaced, ReadLap, WriteLap

LEMMA QueueDataCursor ==
  ASSUME TypeOK, WriteIndexInv, QueueData, NEW t \in WriteThreads,
         CursorPlaced(t)
  PROVE  CursorPlaced(t)'
<1>1. /\ queued \in Nat
      /\ last_data_write_idx \in 0..QSize
      /\ send_buffer[t] \in Nat
      /\ QSize \in Nat \ {0}
  BY RingTypes, ThreadTypes, DataQueueAssumption
<1>2. /\ queued' = queued + 1
      /\ send_buffer' = send_buffer
      /\ Cursor(t)' = Cursor(t)
      /\ ReadLap(t)' = ReadLap(t)
      /\ last_data_write_idx' = Wrap(last_data_write_idx) + 1
  BY DEF QueueData, Cursor, ReadLap, threadVars
<1>3. CASE last_data_write_idx = QSize
  <2>1. WriteLap' = WriteLap + QSize
    BY <1>1, <1>2, <1>3 DEF Wrap, WriteLap
  <2> QED
    BY <1>1, <1>2, <2>1 DEF CursorPlaced, WriteIndexInv
<1>4. CASE last_data_write_idx < QSize
  <2>1. WriteLap' = WriteLap
    BY <1>1, <1>2, <1>4 DEF Wrap, WriteLap
  <2> QED
    BY <1>1, <1>2, <1>4, <2>1 DEF CursorPlaced
<1> QED
  BY <1>1, <1>3, <1>4

\* Taking a message puts the cursor in the lap that message was written in,
\* however far behind the thread was.
LEMMA TakeMessageCursor ==
  ASSUME TypeOK, WriteIndexInv, RingContents, CursorInv, IdOrderInv,
         NEW t \in WriteThreads, TakeMessage(t)
  PROVE  CursorPlaced(t)'
<1>1. /\ queued \in Nat
      /\ last_data_write_idx \in 0..QSize
      /\ send_buffer[t] \in Nat
      /\ QSize \in Nat \ {0}
  BY RingTypes, ThreadTypes, DataQueueAssumption
<1>2. /\ Node(t) \in Slots
      /\ data_queue[Node(t)].data \in Nat
      /\ data_queue[Node(t)].data <= queued
  BY WrappedCursor, RingBounds DEF TakeMessage
<1>3. send_buffer[t] < data_queue[Node(t)].data
  BY <1>2, FreshIsNewer DEF TakeMessage
<1>4. /\ queued' = queued
      /\ last_data_write_idx' = last_data_write_idx
      /\ send_buffer'[t] = data_queue[Node(t)].data
      /\ Cursor(t)' = Node(t) + 1
  BY <1>2, FreshIsNewer DEF TakeMessage, TypeOK, Cursor, Node, writerVars
<1>5. /\ WriteLap \in Nat
      /\ WriteLap' = WriteLap
      /\ IsLap(WriteLap)
  BY <1>4 DEF WriteIndexInv, WriteLap
<1>6. CASE Node(t) < last_data_write_idx
  <2>1. ReadLap(t)' = WriteLap
    BY <1>1, <1>2, <1>4, <1>5, <1>6 DEF RingContents, ReadLap, Slots
  <2> QED
    BY <1>2, <1>4, <1>5, <2>1 DEF CursorPlaced
<1>7. CASE ~(Node(t) < last_data_write_idx)
  <2>1. WriteLap # 0
    BY <1>1, <1>2, <1>3, <1>7 DEF RingContents
  <2>2. ReadLap(t)' = WriteLap - QSize
    BY <1>1, <1>2, <1>4, <1>5, <1>7, <2>1 DEF RingContents, ReadLap, Slots
  <2>3. WriteLap - QSize \in Nat /\ IsLap(WriteLap - QSize)
    BY <1>5, <2>1, LapDown
  <2> QED
    BY <1>1, <1>2, <1>4, <1>5, <2>2, <2>3 DEF CursorPlaced
<1> QED
  BY <1>6, <1>7

LEMMA NothingNewCursor ==
  ASSUME TypeOK, WriteIndexInv, CursorInv, NEW t \in WriteThreads,
         NothingNew(t)
  PROVE  CursorPlaced(t)'
<1>1. /\ send_buffer' = send_buffer
      /\ queued' = queued
      /\ last_data_write_idx' = last_data_write_idx
      /\ Cursor(t)' = Node(t)
  BY WrapType, ThreadTypes DEF NothingNew, TypeOK, Cursor, Node, writerVars
<1>2. /\ ReadLap(t)' = NodeLap(t)
      /\ WriteLap' = WriteLap
      /\ send_buffer[t] <= queued
  BY <1>1 DEF ReadLap, NodeLap, WriteLap, CursorInv, CursorPlaced
<1> QED
  BY <1>1, <1>2, WrappedCursor DEF CursorPlaced, NothingNew

LEMMA CursorStep ==
  ASSUME TypeOK, WriteIndexInv, RingContents, CursorInv, IdOrderInv,
         [Next]_vars
  PROVE  CursorInv'
<1> SUFFICES ASSUME NEW t \in WriteThreads
             PROVE  CursorPlaced(t)'
  BY DEF CursorInv
<1>1. CursorPlaced(t)
  BY DEF CursorInv
<1>2. CASE QueueData
  BY <1>1, <1>2, QueueDataCursor
<1>3. CASE TakeMessage(t)
  BY <1>3, TakeMessageCursor
<1>4. CASE NothingNew(t)
  BY <1>4, NothingNewCursor
<1>5. CASE WakeUp(t) \/ FinishSend(t)
  <2>1. /\ UNCHANGED <<queued, last_data_write_idx, send_buffer[t]>>
        /\ Cursor(t)' = Cursor(t)
    BY <1>5, ThreadTypes DEF WakeUp, FinishSend, Cursor, TypeOK, writerVars
  <2>2. ReadLap(t)' = ReadLap(t) /\ WriteLap' = WriteLap
    BY <2>1 DEF ReadLap, WriteLap
  <2> QED
    BY <1>1, <2>1, <2>2 DEF CursorPlaced
<1>6. ASSUME NEW u \in WriteThreads, u # t, ThreadStep(u)
      PROVE  CursorPlaced(t)'
  <2>1. UNCHANGED <<queued, last_data_write_idx, last_data_read_idx[t],
                    send_buffer[t], pc[t]>>
    BY <1>6 DEF ThreadStep, WakeUp, TakeMessage, NothingNew, FinishSend,
      TypeOK, writerVars
  <2> QED
    BY <1>1, <2>1, CursorUnchanged DEF Cursor
<1>7. CASE \/ \E u \in WriteThreads : FlagStop(u) \/ Join(u)
           \/ Tick
           \/ SetClockBack
           \/ UNCHANGED vars
  <2>1. UNCHANGED <<writerVars, threadVars>>
    BY <1>7 DEF FlagStop, Join, Tick, SetClockBack, vars
  <2> QED
    BY <1>1, <2>1, CursorUnchanged DEF Cursor, writerVars, threadVars
<1> QED
  BY <1>2, <1>3, <1>4, <1>5, <1>6, <1>7 DEF Next, SteadyNext, ThreadStep

-----------------------------------------------------------------------------
(* The ids.                                                                 *)

\* A new message has a larger ordinal than every message around, and a
\* larger id.
LEMMA QueueDataOrder ==
  ASSUME TypeOK, RingContents, WriteIndexInv, CursorInv, IdOrderInv,
         NextIdInv, QueueData
  PROVE  IdOrderInv'
<1> DEFINE w == Wrap(last_data_write_idx)
<1>1. /\ queued \in Nat
      /\ w \in Slots
      /\ data_queue \in [Slots -> [id : Nat, data : Nat]]
      /\ NextId \in Nat
  BY RingTypes, WrapType, NextIdType
<1>2. \A i \in Slots : data_queue[i].data <= queued /\ data_queue[i].id < NextId
  BY RingBounds DEF NextIdInv
<1>3. \A t \in WriteThreads :
        /\ send_buffer[t] \in Nat /\ last_data_id[t] \in Nat
        /\ send_buffer[t] <= queued /\ last_data_id[t] < NextId
  BY ThreadTypes DEF CursorInv, CursorPlaced, NextIdInv
<1>4. /\ data_queue' = [data_queue EXCEPT ![w] = [id   |-> NextId,
                                                  data |-> queued + 1]]
      /\ UNCHANGED <<send_buffer, last_data_id>>
  BY DEF QueueData, threadVars
<1>5. \A i \in Slots :
        /\ data_queue'[i].id = IF i = w THEN NextId ELSE data_queue[i].id
        /\ data_queue'[i].data = IF i = w THEN queued + 1
                                 ELSE data_queue[i].data
        /\ data_queue[i].id \in Nat
        /\ data_queue[i].data \in Nat
  BY <1>1, <1>4
<1> HIDE DEF w
<1>6. ASSUME NEW i \in Slots, NEW j \in Slots
      PROVE  data_queue'[i].data < data_queue'[j].data
               <=> data_queue'[i].id < data_queue'[j].id
  BY <1>1, <1>2, <1>5 DEF IdOrderInv
<1>7. ASSUME NEW t \in WriteThreads, NEW i \in Slots
      PROVE  send_buffer'[t] < data_queue'[i].data
               <=> last_data_id'[t] < data_queue'[i].id
  BY <1>1, <1>2, <1>3, <1>4, <1>5 DEF IdOrderInv
<1> QED
  BY <1>6, <1>7 DEF IdOrderInv

LEMMA TakeMessageOrder ==
  ASSUME TypeOK, IdOrderInv, NEW t \in WriteThreads, Node(t) \in Slots,
         TakeMessage(t)
  PROVE  IdOrderInv'
<1>1. /\ data_queue' = data_queue
      /\ send_buffer' = [send_buffer EXCEPT ![t] = data_queue[Node(t)].data]
      /\ last_data_id' = [last_data_id EXCEPT ![t] = data_queue[Node(t)].id]
  BY FreshIsNewer DEF TakeMessage, writerVars
<1>2. ASSUME NEW u \in WriteThreads, NEW i \in Slots
      PROVE  send_buffer'[u] < data_queue[i].data
               <=> last_data_id'[u] < data_queue[i].id
  BY <1>1 DEF IdOrderInv, TypeOK
<1> QED
  BY <1>1, <1>2 DEF IdOrderInv

LEMMA IdOrderStep ==
  ASSUME TypeOK, RingContents, WriteIndexInv, CursorInv, IdOrderInv,
         NextIdInv, [Next]_vars
  PROVE  IdOrderInv'
<1>1. CASE QueueData
  BY <1>1, QueueDataOrder
<1>2. ASSUME NEW t \in WriteThreads, TakeMessage(t)
      PROVE  IdOrderInv'
  <2>1. Node(t) \in Slots
    BY <1>2, WrappedCursor DEF TakeMessage
  <2> QED
    BY <1>2, <2>1, TakeMessageOrder
<1>3. ASSUME ~QueueData, \A t \in WriteThreads : ~TakeMessage(t)
      PROVE  IdOrderInv'
  <2>1. UNCHANGED <<data_queue, send_buffer, last_data_id>>
    BY <1>3 DEF Next, SteadyNext, ThreadStep, WakeUp, NothingNew, FinishSend, FlagStop,
      Join, Tick, SetClockBack, vars, writerVars, threadVars
  <2> QED
    BY <2>1 DEF IdOrderInv
<1> QED
  BY <1>1, <1>2, <1>3

\* The clock only moves forwards and msg_count never wraps.
LEMMA NextIdStep ==
  ASSUME SteadyIds, TypeOK, WriteIndexInv, CursorInv, NextIdInv, [Next]_vars
  PROVE  NextIdInv'
<1>1. /\ NextId \in Nat
      /\ \A i \in Slots : data_queue[i].id \in Nat
      /\ \A t \in WriteThreads : last_data_id[t] \in Nat
  BY NextIdType, RingTypes, ThreadTypes
<1>2. CASE QueueData
  <2>1. msg_count' = queued + 1 /\ queued' = queued + 1 /\ queued' <= MaxMsgs
    BY <1>2, DataQueueAssumption
    DEF QueueData, CountUp, SteadyIds, NextIdInv, TypeOK
  <2>2. NextId' = NextId + 1
    <3>1. now' = now /\ now * IdScale \in Nat /\ msg_count \in Nat
      BY <1>2, DataQueueAssumption DEF QueueData, clockVars, TypeOK
    <3>2. msg_count' = msg_count + 1
      BY <2>1 DEF NextIdInv
    <3> QED
      BY <3>1, <3>2 DEF NextId
  <2>3. \A i \in Slots : data_queue'[i].id < NextId'
    BY <1>1, <1>2, <2>2, RingTypes, WrapType DEF QueueData, NextIdInv
  <2>4. \A t \in WriteThreads : last_data_id'[t] < NextId'
    BY <1>1, <1>2, <2>2 DEF QueueData, NextIdInv, threadVars
  <2> QED
    BY <2>1, <2>3, <2>4 DEF NextIdInv
<1>3. CASE Tick
  <2>1. NextId' = NextId + IdScale
    <3>1. (now + 1) * IdScale = now * IdScale + IdScale
      BY DataQueueAssumption DEF TypeOK
    <3>2. now * IdScale \in Nat /\ msg_count \in Nat /\ IdScale \in Nat
      BY DataQueueAssumption DEF TypeOK
    <3>3. NextId' = (now + 1) * IdScale + msg_count
      BY <1>3 DEF Tick, NextId, writerVars
    <3> QED
      BY <3>1, <3>2, <3>3 DEF NextId
  <2>2. UNCHANGED <<msg_count, queued, data_queue, last_data_id>>
    BY <1>3 DEF Tick, writerVars, threadVars
  <2> QED
    BY <1>1, <2>1, <2>2, DataQueueAssumption DEF NextIdInv
<1>4. ~SetClockBack
  BY DataQueueAssumption DEF SetClockBack, SteadyIds, TypeOK
<1>5. ASSUME NEW t \in WriteThreads, TakeMessage(t)
      PROVE  NextIdInv'
  <2>1. Node(t) \in Slots /\ CursorNode(t) = data_queue[Node(t)]
    BY <1>5, WrappedCursor DEF TakeMessage, CursorNode, Node
  <2>2. /\ UNCHANGED <<msg_count, queued, data_queue>>
        /\ NextId' = NextId
        /\ last_data_id' = [last_data_id EXCEPT ![t] = data_queue[Node(t)].id]
    BY <1>5, <2>1 DEF TakeMessage, NextId, writerVars, clockVars
  <2>3. \A u \in WriteThreads : last_data_id'[u] < NextId
    BY <1>1, <2>1, <2>2 DEF NextIdInv, TypeOK
  <2> QED
    BY <2>2, <2>3 DEF NextIdInv
<1>6. CASE \/ \E t \in WriteThreads : \/ WakeUp(t) \/ NothingNew(t)
                                      \/ FinishSend(t) \/ FlagStop(t)
                                      \/ Join(t)
           \/ UNCHANGED vars
  <2>1. UNCHANGED <<now, msg_count, queued, data_queue, last_data_id>>
    BY <1>6 DEF WakeUp, NothingNew, FinishSend, FlagStop, Join, vars,
      clockVars, writerVars, threadVars
  <2> QED
    BY <2>1 DEF NextIdInv, NextId
<1> QED
  BY <1>2, <1>3, <1>4, <1>5, <1>6 DEF Next, SteadyNext, ThreadStep

-----------------------------------------------------------------------------
(* The inductive invariant.                                                 *)

LEMMA QueueInit == Init => QueueInv
<1> SUFFICES ASSUME Init
             PROVE  QueueInv
  OBVIOUS
<1>1. TypeOK /\ RingContents /\ WriteIndexInv
  BY TypeInit, RingInit
<1>2. CursorInv
  <2>1. \A t \in WriteThreads : ReadLap(t) = 0
    BY DEF Init, ReadLap, Cursor
  <2>2. WriteLap = 0
    BY DEF Init, WriteLap
  <2> QED
    BY <2>1, <2>2, LapZero DEF CursorInv, CursorPlaced, Init
<1>3. IdOrderInv
  BY DEF IdOrderInv, Init
<1>4. NextIdInv
  <2>1. NextId \in Nat \ {0}
    BY <1>1, NextIdType
  <2> QED
    BY <2>1, DataQueueAssumption DEF NextIdInv, Init
<1> QED
  BY <1>1, <1>2, <1>3, <1>4 DEF QueueInv

LEMMA QueueStep ==
  ASSUME SteadyIds, QueueInv, [Next]_vars
  PROVE  QueueInv'
<1> USE DEF QueueInv
<1>1. TypeOK' /\ WriteIndexInv' /\ RingContents'
  BY TypeStep, RingStep
<1>2. CursorInv'
  BY CursorStep
<1>3. IdOrderInv'
  BY IdOrderStep
<1>4. NextIdInv'
  BY NextIdStep
<1> QED
  BY <1>1, <1>2, <1>3, <1>4

\* As long as the clock is not set back and msg_count does not wrap, the
\* ids, the ring and the cursors agree on what is new.
THEOREM QueueInvariant ==
  ASSUME SteadyIds
  PROVE  SafeSpec => []QueueInv
<1>1. QueueInv /\ [Next]_vars => QueueInv'
  BY QueueStep
<1> QED
  BY <1>1, QueueInit, PTL DEF SafeSpec

-----------------------------------------------------------------------------
(* What a thread takes from the queue.                                      *)

\* What the invariant says of a thread that looks at the node at its cursor.
LEMMA AtNode ==
  ASSUME QueueInv, NEW t \in WriteThreads, pc[t] = "drain"
  PROVE  /\ queued \in Nat
         /\ QSize \in Nat \ {0}
         /\ last_data_write_idx \in 0..QSize
         /\ WriteLap \in Nat
         /\ queued = WriteLap + last_data_write_idx
         /\ Node(t) \in 0..(QSize - 1)
         /\ NodeLap(t) \in Nat
         /\ send_buffer[t] = NodeLap(t) + Node(t)
         /\ send_buffer[t] <= queued
         /\ data_queue[Node(t)].data =
              IF Node(t) < last_data_write_idx THEN WriteLap + Node(t) + 1
              ELSE IF WriteLap = 0 THEN 0
              ELSE WriteLap - QSize + Node(t) + 1
         /\ Fresh(t) <=> send_buffer[t] < data_queue[Node(t)].data
         /\ TakeMessage(t) => send_buffer'[t] = data_queue[Node(t)].data
         /\ \/ NodeLap(t) <= WriteLap
            \/ /\ Node(t) = 0
               /\ last_data_write_idx = QSize
               /\ NodeLap(t) = WriteLap + QSize
<1> USE DEF QueueInv
<1>1. /\ queued \in Nat
      /\ last_data_write_idx \in 0..QSize
      /\ QSize \in Nat \ {0}
      /\ send_buffer \in [WriteThreads -> Nat]
  BY DataQueueAssumption DEF TypeOK
<1>2. WriteLap \in Nat /\ queued = WriteLap + last_data_write_idx
  BY <1>1 DEF WriteIndexInv, WriteLap
<1>3. /\ Node(t) \in Slots
      /\ NodeLap(t) \in Nat
      /\ send_buffer[t] = NodeLap(t) + Node(t)
      /\ \/ NodeLap(t) <= WriteLap
         \/ /\ Node(t) = 0
            /\ last_data_write_idx = QSize
            /\ NodeLap(t) = WriteLap + QSize
  BY WrappedCursor
<1>4. /\ CursorNode(t) = data_queue[Node(t)]
      /\ Fresh(t) <=> send_buffer[t] < data_queue[Node(t)].data
  BY <1>3, FreshIsNewer
<1>5. TakeMessage(t) => send_buffer'[t] = data_queue[Node(t)].data
  BY <1>1, <1>4 DEF TakeMessage
<1>6. send_buffer[t] <= queued
  BY DEF CursorInv, CursorPlaced
<1>7. data_queue[Node(t)].data =
        IF Node(t) < last_data_write_idx THEN WriteLap + Node(t) + 1
        ELSE IF WriteLap = 0 THEN 0
        ELSE WriteLap - QSize + Node(t) + 1
  BY <1>3 DEF RingContents
<1> QED
  BY <1>1, <1>2, <1>3, <1>4, <1>5, <1>6, <1>7 DEF Slots

\* The laps of the read and of the write cursor, when they differ, are at
\* least one lap apart.
LEMMA NodeLapGap ==
  ASSUME QueueInv, NEW t \in WriteThreads, pc[t] = "drain"
  PROVE  /\ NodeLap(t) < WriteLap => NodeLap(t) + QSize <= WriteLap
         /\ NodeLap(t) + QSize < WriteLap
              => NodeLap(t) + QSize + QSize <= WriteLap
<1>1. /\ NodeLap(t) \in Nat /\ IsLap(NodeLap(t))
      /\ WriteLap \in Nat /\ IsLap(WriteLap)
      /\ QSize \in Nat
  BY WrappedCursor, DataQueueAssumption DEF QueueInv, WriteIndexInv
<1>2. NodeLap(t) + QSize \in Nat /\ IsLap(NodeLap(t) + QSize)
  BY <1>1, LapUp
<1> QED
  BY <1>1, <1>2, LapGap

LEMMA TakesInOrder ==
  ASSUME QueueInv, NEW t \in WriteThreads, TakeMessage(t)
  PROVE  send_buffer[t] < send_buffer'[t]
  BY AtNode DEF TakeMessage

LEMMA TakesNext ==
  ASSUME QueueInv, NEW t \in WriteThreads, TakeMessage(t),
         queued - send_buffer[t] <= QSize
  PROVE  send_buffer'[t] = send_buffer[t] + 1
<1>1. pc[t] = "drain" /\ Fresh(t)
  BY DEF TakeMessage
<1>2. CASE Node(t) < last_data_write_idx
  <2>1. NodeLap(t) = WriteLap
    BY <1>1, <1>2, AtNode, NodeLapGap
  <2> QED
    BY <1>1, <1>2, <2>1, AtNode
<1>3. CASE ~(Node(t) < last_data_write_idx)
  <2>1. WriteLap # 0 /\ NodeLap(t) < WriteLap - QSize + 1
    BY <1>1, <1>3, AtNode
  <2>2. NodeLap(t) = WriteLap - QSize
    BY <1>1, <1>3, <2>1, AtNode, NodeLapGap
  <2> QED
    BY <1>1, <1>3, <2>1, <2>2, AtNode
<1> QED
  BY <1>2, <1>3

LEMMA SleepsCaughtUp ==
  ASSUME QueueInv, NEW t \in WriteThreads, NothingNew(t)
  PROVE  send_buffer[t] = queued
<1>1. pc[t] = "drain" /\ ~Fresh(t)
  BY DEF NothingNew
<1>2. CASE Node(t) < last_data_write_idx
  BY <1>1, <1>2, AtNode
<1>3. CASE ~(Node(t) < last_data_write_idx)
  <2>1. NodeLap(t) = WriteLap
    BY <1>1, <1>3, AtNode, NodeLapGap
  <2> QED
    BY <1>1, <1>3, <2>1, AtNode
<1> QED
  BY <1>2, <1>3

\* Comparing ids is enough to deliver the messages in order.
THEOREM DeliveredInOrder ==
  ASSUME SteadyIds
  PROVE  SafeSpec => OrderedDelivery
<1>1. QueueInv /\ [Next]_vars
        => [\A t \in WriteThreads :
              TakeMessage(t) => send_buffer[t] < send_buffer'[t]]_vars
  BY TakesInOrder
<1> QED
  BY <1>1, QueueInvariant, PTL DEF SafeSpec, OrderedDelivery

\* A message is lost to the clients of a thread only when the producers lap
\* the thread.
THEOREM LostOnlyWhenLapped ==
  ASSUME SteadyIds
  PROVE  SafeSpec => LossOnlyWhenLapped
<1>1. QueueInv /\ [Next]_vars
        => [\A t \in WriteThreads :
              TakeMessage(t) /\ queued - send_buffer[t] <= QSize
                => send_buffer'[t] = send_buffer[t] + 1]_vars
  BY TakesNext
<1> QED
  BY <1>1, QueueInvariant, PTL DEF SafeSpec, LossOnlyWhenLapped

\* A thread that sleeps has sent everything there was when it fell asleep.
THEOREM CaughtUp ==
  ASSUME SteadyIds
  PROVE  SafeSpec => CaughtUpBeforeSleep
<1>1. QueueInv /\ [Next]_vars
        => [\A t \in WriteThreads :
              NothingNew(t) => send_buffer[t] = queued]_vars
  BY SleepsCaughtUp
<1> QED
  BY <1>1, QueueInvariant, PTL DEF SafeSpec, CaughtUpBeforeSleep

-----------------------------------------------------------------------------
(* The queue implements the broadcast.                                      *)

LEMMA PromiseInit == Init => Promise!Init
  BY DEF Init, Promise!Init

LEMMA PromiseTake ==
  ASSUME QueueInv, NEW t \in WriteThreads, TakeMessage(t)
  PROVE  Promise!Receive(t)
<1> DEFINE n == data_queue[Node(t)].data
<1>1. pc[t] = "drain" /\ Fresh(t)
  BY DEF TakeMessage
<1>2. /\ queued \in Nat
      /\ send_buffer[t] \in Nat
      /\ n \in Nat
      /\ n <= queued
      /\ n = 0 \/ n > queued - QSize
  BY <1>1, RingBounds, RingTypes, ThreadTypes, WrappedCursor DEF QueueInv
<1>3. send_buffer[t] < n
  BY <1>1, AtNode
<1>4. /\ send_buffer' = [send_buffer EXCEPT ![t] = n]
      /\ UNCHANGED queued
      /\ pc' = [pc EXCEPT ![t] = "send"]
  BY WrappedCursor, FreshIsNewer, <1>1 DEF QueueInv, TakeMessage, writerVars
<1>5. queued - send_buffer[t] <= QSize => n = send_buffer[t] + 1
  BY <1>1, <1>4, TakesNext, AtNode
<1> HIDE DEF n
<1>6. n \in 1..queued /\ Promise!Receivable(t, n)
  BY <1>2, <1>3, <1>5, DataQueueAssumption DEF Promise!Receivable
<1>7. /\ t \in {u \in WriteThreads : pc[u] # "done"}
      /\ {u \in WriteThreads : pc[u] # "done"}'
           = {u \in WriteThreads : pc[u] # "done"}
  BY <1>1, <1>4 DEF QueueInv, TypeOK
<1> QED
  BY <1>4, <1>6, <1>7 DEF Promise!Receive

LEMMA PromiseStep ==
  ASSUME QueueInv, [Next]_vars
  PROVE  [Promise!Next]_Promise!vars
<1> DEFINE active == {u \in WriteThreads : pc[u] # "done"}
<1> USE DEF Promise!vars
<1>1. CASE QueueData
  BY <1>1 DEF QueueData, threadVars, Promise!Next, Promise!Publish
<1>2. ASSUME NEW t \in WriteThreads, TakeMessage(t)
      PROVE  [Promise!Next]_Promise!vars
  BY <1>2, PromiseTake DEF Promise!Next
<1>3. ASSUME NEW t \in WriteThreads, WakeUp(t)
      PROVE  [Promise!Next]_Promise!vars
  <2>1. UNCHANGED <<queued, send_buffer>>
    BY <1>3 DEF WakeUp, writerVars
  <2>2. CASE stop[t]
    <3>1. t \in active /\ active' = active \ {t}
      BY <1>3, <2>2 DEF WakeUp, QueueInv, TypeOK
    <3> QED
      BY <2>1, <3>1 DEF Promise!Next, Promise!Leave
  <2>3. CASE ~stop[t]
    <3>1. active' = active
      BY <1>3, <2>3 DEF WakeUp, QueueInv, TypeOK
    <3> QED
      BY <2>1, <3>1
  <2> QED
    BY <2>2, <2>3
<1>4. ASSUME NEW t \in WriteThreads, NothingNew(t) \/ FinishSend(t)
      PROVE  [Promise!Next]_Promise!vars
  <2>1. active' = active
    BY <1>4 DEF NothingNew, FinishSend, QueueInv, TypeOK
  <2> QED
    BY <1>4, <2>1 DEF NothingNew, FinishSend, writerVars
<1>5. CASE \/ \E t \in WriteThreads : FlagStop(t) \/ Join(t)
           \/ Tick
           \/ SetClockBack
           \/ UNCHANGED vars
  BY <1>5 DEF FlagStop, Join, Tick, SetClockBack, vars, writerVars, threadVars
<1> QED
  BY <1>1, <1>2, <1>3, <1>4, <1>5 DEF Next, SteadyNext, ThreadStep

\* The safety part of the promise: what the threads take is what a queue of
\* QSize retained messages, seen by each of them through a position of its
\* own, could have given them.
THEOREM ImplementsBroadcast ==
  ASSUME SteadyIds
  PROVE  SafeSpec => Promise!SafeSpec
<1>1. QueueInv /\ [Next]_vars => [Promise!Next]_Promise!vars
  BY PromiseStep
<1> QED
  BY <1>1, PromiseInit, QueueInvariant, PTL DEF SafeSpec, Promise!SafeSpec

=============================================================================
