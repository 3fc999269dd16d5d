---------------------------- MODULE ClientLists ----------------------------
(***************************************************************************)
(* The clients of the SSE server: how server_thread (sse_server.c) accepts *)
(* them and closes their connections, how client_writer_add_client gives   *)
(* each to a client list, and how each client_write_thread walks its list  *)
(* and writes a message to every client on it (sse_client_writer.c).       *)
(*                                                                         *)
(* A list is an array of descriptors that only grows.  The server thread   *)
(* appends to it while the write thread walks it, with no lock between     *)
(* them; each load or store of a slot is atomic here, and appending is a   *)
(* single store.  Descriptors are numbers the system hands out again once  *)
(* they are closed, always the lowest one that is free, so a descriptor in *)
(* a list need not belong to the connection it was added for.              *)
(*                                                                         *)
(* Messages come from the shared data queue; a thread that is not lapped   *)
(* takes them one after the other (see DataQueue).  A message is its       *)
(* ordinal, and the response headers of a connection are message 0.        *)
(***************************************************************************)
EXTENDS Integers, Sequences, FiniteSets

CONSTANTS
  NumClientLists,  \* NUM_CLIENT_LISTS (3)
  ListSize,        \* NUM_CLIENTS_PER_LIST (1000)
  MaxConns,        \* bound: connections over the life of the server
  MaxMsgs,         \* bound: messages queued
  MaxLeaving,      \* bound: clients that leave, or are cut off while there
  MaxSlow          \* bound: connections with a congested write

ASSUME ClientListsAssumption ==
  /\ NumClientLists \in Nat \ {0}
  /\ ListSize \in Nat \ {0}
  /\ MaxConns \in Nat
  /\ MaxMsgs \in Nat
  /\ MaxLeaving \in Nat
  /\ MaxSlow \in Nat

VARIABLES
  accepted,         \* connections accepted so far; they are 1..accepted
  peer,             \* peer[c]: what became of the client of connection c
  fd_conn,          \* fd_conn[fd]: the connection fd stands for, 0 if closed
  server,           \* where server_thread is
  client_fd,        \* client_fd of server_thread, 0 if it has none
  round_robin_idx,  \* client_writer->round_robin_idx
  client_fd_arr,    \* clm[t].client_fd_arr up to last_client_insert_idx
  message,          \* the last message write thread t has taken
  slot,             \* the slot thread t looks at, 0 if it sends nothing
  killed,           \* TRUE once a signal nobody handles ended the process
  got,              \* got[c]: what the client of connection c has received
  reused,           \* history: connections whose descriptor was on a list
  slow,             \* history: connections a write to failed or was partial
  first_due         \* history: the first message due to a client that is put
                    \* on a list, 0 for one that has not been

serverVars == <<accepted, fd_conn, server, client_fd, round_robin_idx, reused,
                first_due>>
threadVars == <<message, slot>>
netVars    == <<peer, got, slow, killed>>
vars == <<serverVars, client_fd_arr, threadVars, netVars>>

WriteThreads == 1..NumClientLists
Conns == 1..MaxConns
Fds   == 1..MaxConns
Headers == 0
LOST == -1

-----------------------------------------------------------------------------

Init ==
  /\ accepted = 0
  /\ peer = [c \in Conns |-> "none"]
  /\ fd_conn = [fd \in Fds |-> 0]
  /\ server = "wait"
  /\ client_fd = 0
  /\ round_robin_idx = 0
  /\ client_fd_arr = [t \in WriteThreads |-> <<>>]
  /\ message = [t \in WriteThreads |-> 0]
  /\ slot = [t \in WriteThreads |-> 0]
  /\ killed = FALSE
  /\ got = [c \in Conns |-> <<>>]
  /\ reused = {}
  /\ slow = {}
  /\ first_due = [c \in Conns |-> 0]

\* Some list has fd in one of its slots.
OnAList(fd) ==
  \E t \in WriteThreads :
    \E s \in 1..Len(client_fd_arr[t]) : client_fd_arr[t][s] = fd

-----------------------------------------------------------------------------
(* The network: clients end connections, and what a write does depends on   *)
(* it.                                                                      *)

\* A client closes its connection (FIN), or aborts it (RST).  What becomes of
\* a client whose connection is closed here makes no difference any more.
Leave(c) ==
  /\ Cardinality({d \in 1..accepted : peer[d] # "here"}) < MaxLeaving
  /\ peer[c] = "here"
  /\ \E fd \in Fds : fd_conn[fd] = c
  /\ \E how \in {"gone", "aborted"} : peer' = [peer EXCEPT ![c] = how]
  /\ UNCHANGED <<serverVars, client_fd_arr, threadVars, got, slow, killed>>

\* write(fd, m) delivers m to a client that is there.
Delivered(fd, m) ==
  LET c == fd_conn[fd] IN
    /\ peer[c] = "here"
    /\ got' = [got EXCEPT ![c] = Append(@, m)]
    /\ UNCHANGED <<peer, slow, killed>>

\* The client has closed: the write succeeds, and sooner or later the
\* system of the client answers it with a reset.
Unheard(fd) ==
  LET c == fd_conn[fd] IN
    /\ peer[c] = "gone"
    /\ \E then \in {"gone", "reset"} : peer' = [peer EXCEPT ![c] = then]
    /\ UNCHANGED <<got, slow, killed>>

WriteSucceeds(fd, m) == fd_conn[fd] # 0 /\ (Delivered(fd, m) \/ Unheard(fd))

\* The write is partial or fails because the connection is congested.
Congested(fd) ==
  LET c == fd_conn[fd] IN
    /\ Cardinality(slow \cup {c}) <= MaxSlow
    /\ peer[c] \in {"here", "gone"}
    /\ slow' = slow \cup {c}
    /\ UNCHANGED <<peer, got, killed>>

\* The first write after an abort reports it.
Aborted(fd) ==
  LET c == fd_conn[fd] IN
    /\ peer[c] = "aborted"
    /\ peer' = [peer EXCEPT ![c] = "reset"]
    /\ UNCHANGED <<got, slow, killed>>

WriteFails(fd) ==
  \/ fd_conn[fd] = 0 /\ UNCHANGED netVars
  \/ fd_conn[fd] # 0 /\ (Congested(fd) \/ Aborted(fd))

\* A write to a connection that is known to be reset raises SIGPIPE, whose
\* default action nobody changes.
WriteKills(fd) ==
  /\ fd_conn[fd] # 0
  /\ peer[fd_conn[fd]] = "reset"
  /\ killed' = TRUE
  /\ UNCHANGED <<peer, got, slow>>

-----------------------------------------------------------------------------
(* server_thread.                                                           *)

\* Mutant: the client goes to its list before it has got the headers.
Accept_NoHeaders ==
  /\ ~killed
  /\ server = "wait"
  /\ accepted < MaxConns
  /\ \E fd \in Fds :
       /\ fd_conn[fd] = 0
       /\ \A lower \in 1..(fd - 1) : fd_conn[lower] # 0
       /\ fd_conn' = [fd_conn EXCEPT ![fd] = accepted + 1]
       /\ client_fd' = fd
       /\ reused' = IF OnAList(fd) THEN reused \cup {accepted + 1} ELSE reused
  /\ accepted' = accepted + 1
  /\ peer' = [peer EXCEPT ![accepted + 1] = "here"]
  /\ server' = "add"
  /\ UNCHANGED <<round_robin_idx, first_due, client_fd_arr, threadVars, got, slow,
                 killed>>

\* accept returns the lowest free descriptor.
Accept ==
  /\ ~killed
  /\ server = "wait"
  /\ accepted < MaxConns
  /\ \E fd \in Fds :
       /\ fd_conn[fd] = 0
       /\ \A lower \in 1..(fd - 1) : fd_conn[lower] # 0
       /\ fd_conn' = [fd_conn EXCEPT ![fd] = accepted + 1]
       /\ client_fd' = fd
       /\ reused' = IF OnAList(fd) THEN reused \cup {accepted + 1} ELSE reused
  /\ accepted' = accepted + 1
  /\ peer' = [peer EXCEPT ![accepted + 1] = "here"]
  /\ server' = "headers"
  /\ UNCHANGED <<round_robin_idx, first_due, client_fd_arr, threadVars, got, slow,
                 killed>>

\* The server thread is done with client_fd and waits for the next event.
BackToWait ==
  /\ server' = "wait"
  /\ client_fd' = 0

\* send_sse_headers: the client is added only if the headers went out, and
\* its connection is closed if they did not.
SendHeaders ==
  /\ ~killed
  /\ server = "headers"
  /\ \/ /\ WriteSucceeds(client_fd, Headers)
        /\ server' = "add"
        /\ UNCHANGED <<client_fd, fd_conn>>
     \/ /\ WriteFails(client_fd)
        /\ fd_conn' = [fd_conn EXCEPT ![client_fd] = 0]
        /\ BackToWait
     \/ /\ WriteKills(client_fd)
        /\ UNCHANGED <<server, client_fd, fd_conn>>
  /\ UNCHANGED <<accepted, round_robin_idx, reused, first_due, client_fd_arr,
                 threadVars>>

\* Mutant: the round starts again one list too early.
NextManager_WrapsEarly ==
  IF round_robin_idx = NumClientLists - 1 THEN 1 ELSE round_robin_idx + 1

\* Mutant: the round skips the first list.
NextManager_SkipsFirst ==
  IF round_robin_idx = NumClientLists THEN 2 ELSE round_robin_idx + 1

\* client_writer_select_manager: the list whose turn it is, whether there is
\* room in it or not.
NextManager ==
  IF round_robin_idx = NumClientLists THEN 1 ELSE round_robin_idx + 1

\* The client goes to the end of list t: a walk that is under way has still to
\* come to it, so the first message due to it is the one of that walk.
Due(t) ==
  first_due' = [first_due EXCEPT ![fd_conn[client_fd]] =
                  IF slot[t] > 0 THEN message[t] ELSE message[t] + 1]

\* Mutant: the insert index stays where it is.
AddClient_SameSlot ==
  /\ ~killed
  /\ server = "add"
  /\ round_robin_idx' = NextManager
  /\ client_fd_arr' = [client_fd_arr EXCEPT ![NextManager] = <<client_fd>>]
  /\ Due(NextManager)
  /\ BackToWait
  /\ UNCHANGED <<accepted, fd_conn, reused, threadVars, netVars>>

\* client_writer_add_client: without room in its list the client is left
\* connected and on no list.
AddClient ==
  /\ ~killed
  /\ server = "add"
  /\ round_robin_idx' = NextManager
  /\ LET t == NextManager IN
       IF Len(client_fd_arr[t]) = ListSize
         THEN UNCHANGED <<client_fd_arr, first_due>>
         ELSE /\ client_fd_arr' = [client_fd_arr EXCEPT ![t] = Append(@, client_fd)]
              /\ Due(t)
  /\ BackToWait
  /\ UNCHANGED <<accepted, fd_conn, reused, threadVars, netVars>>

\* read returns nothing, or an error: the descriptor is closed.  Its slot
\* stays as it is.  EAGAIN is an error too, so that an event with nothing to
\* read ends the connection of a client that is there; from then on it is as
\* gone as one that left.
CloseClient(fd) ==
  /\ ~killed
  /\ server = "wait"
  /\ fd_conn[fd] # 0
  /\ \/ peer[fd_conn[fd]] \in {"gone", "aborted", "reset"}
     \/ /\ peer[fd_conn[fd]] = "here"
        /\ Cardinality({d \in 1..accepted : peer[d] # "here"}) < MaxLeaving
  /\ peer' = [peer EXCEPT ![fd_conn[fd]] = "gone"]
  /\ fd_conn' = [fd_conn EXCEPT ![fd] = 0]
  /\ UNCHANGED <<accepted, server, client_fd, round_robin_idx, reused, first_due,
                 client_fd_arr, threadVars, got, slow, killed>>

-----------------------------------------------------------------------------
(* client_write_thread.  How it takes messages is in DataQueue.             *)

TakeMessage(t) ==
  /\ ~killed
  /\ slot[t] = 0
  /\ message[t] < MaxMsgs
  /\ message' = [message EXCEPT ![t] = @ + 1]
  /\ slot' = [slot EXCEPT ![t] = 1]
  /\ UNCHANGED <<serverVars, client_fd_arr, netVars>>

\* The descriptor thread t looks at.
SlotFd(t) == client_fd_arr[t][slot[t]]

NextSlot(t) == slot' = [slot EXCEPT ![t] = @ + 1]

\* Slot 0 ends the list: the message has gone to all clients.
EndOfList(t) ==
  /\ ~killed
  /\ slot[t] > Len(client_fd_arr[t])
  /\ slot' = [slot EXCEPT ![t] = 0]
  /\ UNCHANGED <<serverVars, client_fd_arr, message, netVars>>

\* Mutant: a lost client ends the list.
SkipLost_EndsWalk(t) ==
  /\ ~killed
  /\ slot[t] \in 1..Len(client_fd_arr[t])
  /\ SlotFd(t) = LOST
  /\ slot' = [slot EXCEPT ![t] = 0]
  /\ UNCHANGED <<serverVars, client_fd_arr, message, netVars>>

SkipLost(t) ==
  /\ ~killed
  /\ slot[t] \in 1..Len(client_fd_arr[t])
  /\ SlotFd(t) = LOST
  /\ NextSlot(t)
  /\ UNCHANGED <<serverVars, client_fd_arr, message, netVars>>

\* send_sse_event: a client the message could not be written to is lost.
SendToSlot(t) ==
  /\ ~killed
  /\ slot[t] \in 1..Len(client_fd_arr[t])
  /\ SlotFd(t) # LOST
  /\ \/ /\ WriteSucceeds(SlotFd(t), message[t])
        /\ NextSlot(t)
        /\ UNCHANGED client_fd_arr
     \/ /\ WriteFails(SlotFd(t))
        /\ NextSlot(t)
        /\ client_fd_arr' = [client_fd_arr EXCEPT ![t][slot[t]] = LOST]
     \/ /\ WriteKills(SlotFd(t))
        /\ UNCHANGED <<client_fd_arr, slot>>
  /\ UNCHANGED <<serverVars, message>>

-----------------------------------------------------------------------------

ServerStep ==
  Accept \/ SendHeaders \/ AddClient \/ \E fd \in Fds : CloseClient(fd)
WriteStep(t) == TakeMessage(t) \/ EndOfList(t) \/ SkipLost(t) \/ SendToSlot(t)

Next ==
  \/ \E c \in Conns : Leave(c)
  \/ ServerStep
  \/ \E t \in WriteThreads : WriteStep(t)

SafeSpec == Init /\ [][Next]_vars

-----------------------------------------------------------------------------

TypeOK ==
  /\ accepted \in 0..MaxConns
  /\ peer \in [Conns -> {"none", "here", "gone", "aborted", "reset"}]
  /\ fd_conn \in [Fds -> 0..MaxConns]
  /\ server \in {"wait", "headers", "add"}
  /\ client_fd \in 0..MaxConns
  /\ server = "wait" <=> client_fd = 0
  /\ round_robin_idx \in 0..NumClientLists
  /\ client_fd_arr \in [WriteThreads -> Seq(Fds \cup {LOST})]
  /\ \A t \in WriteThreads : Len(client_fd_arr[t]) <= ListSize
  /\ message \in [WriteThreads -> 0..MaxMsgs]
  /\ slot \in [WriteThreads -> 0..(ListSize + 1)]
  /\ killed \in BOOLEAN
  /\ got \in [Conns -> Seq(0..MaxMsgs)]
  /\ reused \subseteq Conns
  /\ slow \subseteq Conns
  /\ first_due \in [Conns -> 0..(MaxMsgs + 1)]

\* s is what a client should see: the headers, and then messages that follow
\* each other without a gap, none of them twice.
IsStream(s) ==
  \A i \in 1..Len(s) :
    /\ s[i] = Headers <=> i = 1
    /\ i > 2 => s[i] = s[i - 1] + 1

\* A client whose descriptor was on no list when it connected receives a
\* stream, whatever clients and writes fail around it.
OwnStream == \A c \in Conns \ reused : IsStream(got[c])

\* Thread t has still to look at slot s in the walk it is in.
Ahead(t, s) == slot[t] > 0 /\ slot[t] <= s

\* The last message the thread of a list owes to slot s of it.
LastDue(t, s) == IF Ahead(t, s) THEN message[t] - 1 ELSE message[t]

\* A client that is on a list, and is neither gone nor slow, is up to date
\* with the thread of the list, from the walk it was added in or before: the
\* last thing it got is the last message due to it, and its headers only if
\* the first one is not due yet.  Clients that are lost on the way make no
\* difference.
NobodyForgotten ==
  \A t \in WriteThreads : \A s \in 1..Len(client_fd_arr[t]) :
    client_fd_arr[t][s] # LOST =>
      LET c    == fd_conn[client_fd_arr[t][s]]
          last == got[c][Len(got[c])]
      IN c # 0 /\ c \notin reused /\ peer[c] = "here" =>
           \/ LastDue(t, s) >= first_due[c] /\ last = LastDue(t, s)
           \/ LastDue(t, s) + 1 = first_due[c] /\ last = Headers

\* Only a client that is gone, slow or has a descriptor that was on a list
\* is ever marked lost: every other one that was put on a list stays on it,
\* however full the lists are.
StaysListed ==
  \A fd \in Fds :
    LET c == fd_conn[fd] IN
      /\ c # 0 /\ c \notin reused \cup slow /\ peer[c] = "here"
      /\ first_due[c] # 0
      => OnAList(fd)

\* A client is turned away only when every list is full, although only the
\* list whose turn it is is looked at.
TurnedAwayWhenAllFull ==
  [][AddClient /\ UNCHANGED client_fd_arr
       => \A t \in WriteThreads : Len(client_fd_arr[t]) = ListSize]_vars

\* Every client receives a stream.
EveryStream == \A c \in Conns : IsStream(got[c])

-----------------------------------------------------------------------------
(* Why these hold.                                                          *)

\* A connection that is open has one descriptor, the last one accepted that of
\* the server thread until it is on a list or closed, and nothing is known of
\* connections still to come.
DescriptorInv ==
  /\ \A f, g \in Fds : fd_conn[f] # 0 /\ fd_conn[f] = fd_conn[g] => f = g
  /\ \A f \in Fds : fd_conn[f] <= accepted
  /\ \A c \in Conns : c > accepted =>
       peer[c] = "none" /\ got[c] = <<>> /\ c \notin reused /\ first_due[c] = 0
  /\ server # "wait" => /\ client_fd \in Fds
                        /\ accepted > 0 /\ fd_conn[client_fd] = accepted
                        /\ first_due[accepted] = 0

\* A thread in a walk has a message, and is on its list or just past it.
WalkInv ==
  \A t \in WriteThreads : /\ slot[t] <= Len(client_fd_arr[t]) + 1
                          /\ slot[t] > 0 => message[t] > 0

\* The descriptor of a connection that was on no list when it was accepted
\* goes to one slot, when the server thread is done with it.
OneSlot ==
  \A f \in Fds : fd_conn[f] # 0 /\ fd_conn[f] \notin reused =>
    \A t \in WriteThreads : \A s \in 1..Len(client_fd_arr[t]) :
      client_fd_arr[t][s] = f =>
        /\ f # client_fd
        /\ \A u \in WriteThreads : \A r \in 1..Len(client_fd_arr[u]) :
             client_fd_arr[u][r] = f => t = u /\ s = r

\* The headers come first, before the descriptor is on a list.
HeadersFirst ==
  \A f \in Fds :
    LET c == fd_conn[f] IN
      c # 0 /\ c \notin reused /\ peer[c] = "here" =>
        IF f = client_fd
          THEN got[c] = IF server = "headers" THEN <<>> ELSE <<Headers>>
          ELSE got[c] # <<>>

\* The lists fill in turn: those that had theirs in this round are one client
\* longer than the others, until all are full.
RoundInv ==
  \A t, u \in WriteThreads :
    LET lt == Len(client_fd_arr[t])
        lu == Len(client_fd_arr[u])
    IN /\ (t <= round_robin_idx <=> u <= round_robin_idx) => lt = lu
       /\ t <= round_robin_idx /\ u > round_robin_idx =>
            lt = lu + 1 \/ (lt = ListSize /\ lu = ListSize)

\* What is true of every state of the lists and their clients.
ListInv ==
  /\ TypeOK
  /\ DescriptorInv
  /\ WalkInv
  /\ OneSlot
  /\ HeadersFirst
  /\ OwnStream
  /\ NobodyForgotten
  /\ StaysListed
  /\ RoundInv

=============================================================================
