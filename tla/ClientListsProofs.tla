------------------------- MODULE ClientListsProofs -------------------------
(***************************************************************************)
(* Proofs about the clients of the SSE server, for every number and size   *)
(* of the lists, any clients that come, leave and abort, and any writes    *)
(* that fail.                                                              *)
(***************************************************************************)
EXTENDS ClientLists, TLAPS

-----------------------------------------------------------------------------
(* The lists.                                                               *)

Entries == Fds \cup {LOST}

LEMMA AppendElements ==
  ASSUME NEW S, NEW s \in Seq(S), NEW x \in S
  PROVE  /\ Append(s, x) \in Seq(S)
         /\ Len(Append(s, x)) = Len(s) + 1
         /\ \A i \in 1..Len(s) : Append(s, x)[i] = s[i]
         /\ Append(s, x)[Len(s) + 1] = x
         /\ Append(s, x) # s
  OBVIOUS

LEMMA SeqOfMore ==
  ASSUME NEW S, NEW T, S \subseteq T, NEW s \in Seq(S)
  PROVE  s \in Seq(T)
  OBVIOUS

LEMMA ListType ==
  ASSUME TypeOK, NEW t \in WriteThreads
  PROVE  /\ client_fd_arr[t] \in Seq(Entries)
         /\ Len(client_fd_arr[t]) \in 0..ListSize
         /\ \A s \in 1..Len(client_fd_arr[t]) : client_fd_arr[t][s] \in Entries
         /\ slot[t] \in Nat /\ message[t] \in 0..MaxMsgs
<1>1. client_fd_arr[t] \in Seq(Entries)
  BY DEF TypeOK, Entries
<1>2. \A s \in 1..Len(client_fd_arr[t]) : client_fd_arr[t][s] \in Entries
  BY <1>1
<1>3. Len(client_fd_arr[t]) \in 0..ListSize
  BY <1>1, ClientListsAssumption DEF TypeOK
<1>4. slot[t] \in 0..(ListSize + 1) /\ message[t] \in 0..MaxMsgs
  BY DEF TypeOK
<1> QED
  BY <1>1, <1>2, <1>3, <1>4

LEMMA LostIsNoFd == LOST \notin Fds /\ Fds \subseteq Nat \ {0}
  BY DEF LOST, Fds

LEMMA ConnType ==
  ASSUME TypeOK, NEW f \in Fds
  PROVE  fd_conn[f] # 0 => fd_conn[f] \in Conns
  BY ClientListsAssumption DEF TypeOK, Conns

\* The slot a thread marks lost, and the rest of the lists.
LEMMA MarkedList ==
  ASSUME TypeOK, NEW t \in WriteThreads, NEW s \in 1..Len(client_fd_arr[t]),
         client_fd_arr' = [client_fd_arr EXCEPT ![t][s] = LOST]
  PROVE  /\ client_fd_arr' \in [WriteThreads -> Seq(Entries)]
         /\ \A u \in WriteThreads : Len(client_fd_arr'[u]) = Len(client_fd_arr[u])
         /\ \A u \in WriteThreads : \A r \in 1..Len(client_fd_arr[u]) :
              client_fd_arr'[u][r] = IF u = t /\ r = s THEN LOST ELSE client_fd_arr[u][r]
<1> DEFINE l == [client_fd_arr[t] EXCEPT ![s] = LOST]
<1>1. client_fd_arr[t] \in Seq(Entries) /\ LOST \in Entries
  BY ListType DEF Entries
<1>2. /\ l \in Seq(Entries) /\ Len(l) = Len(client_fd_arr[t])
      /\ \A r \in 1..Len(client_fd_arr[t]) :
           l[r] = IF r = s THEN LOST ELSE client_fd_arr[t][r]
  BY <1>1
<1>3. client_fd_arr \in [WriteThreads -> Seq(Entries)]
  BY DEF TypeOK, Entries
<1>4. client_fd_arr' = [client_fd_arr EXCEPT ![t] = l]
  OBVIOUS
<1> HIDE DEF l
<1>5. \A u \in WriteThreads : client_fd_arr'[u] = IF u = t THEN l ELSE client_fd_arr[u]
  BY <1>3, <1>4
<1>6. client_fd_arr' \in [WriteThreads -> Seq(Entries)]
  BY <1>2, <1>3, <1>4
<1> QED
  BY <1>2, <1>5, <1>6

LEMMA NextManagerType ==
  ASSUME TypeOK
  PROVE  NextManager \in WriteThreads
  BY ClientListsAssumption DEF TypeOK, NextManager, WriteThreads

\* The list that is one client longer, and the others, or no list at all.
LEMMA LongerList ==
  ASSUME TypeOK, AddClient, client_fd \in Fds, NEW m, m = NextManager
  PROVE  /\ m \in WriteThreads
         /\ client_fd_arr' \in [WriteThreads -> Seq(Entries)]
         /\ \A t \in WriteThreads : \A s \in 1..Len(client_fd_arr[t]) :
              client_fd_arr'[t][s] = client_fd_arr[t][s]
         /\ \/ /\ Len(client_fd_arr[m]) = ListSize
               /\ UNCHANGED <<client_fd_arr, first_due>>
            \/ /\ Len(client_fd_arr[m]) < ListSize /\ client_fd_arr' # client_fd_arr
               /\ client_fd_arr'[m][Len(client_fd_arr[m]) + 1] = client_fd
               /\ Due(m)
               /\ \A t \in WriteThreads :
                    Len(client_fd_arr'[t]) = IF t = m THEN Len(client_fd_arr[t]) + 1
                                                      ELSE Len(client_fd_arr[t])
<1> DEFINE old == client_fd_arr[m]
           l   == Append(old, client_fd)
<1>1. m \in WriteThreads /\ client_fd \in Entries
  BY NextManagerType DEF Entries
<1>2. old \in Seq(Entries) /\ Len(old) \in 0..ListSize
  BY <1>1, ListType
<1>3. client_fd_arr \in [WriteThreads -> Seq(Entries)]
  BY DEF TypeOK, Entries
<1>4. CASE Len(old) = ListSize
  <2>1. UNCHANGED <<client_fd_arr, first_due>>
    BY <1>4 DEF AddClient
  <2> QED
    BY <1>1, <1>3, <1>4, <2>1
<1>5. CASE Len(old) # ListSize
  <2>1. client_fd_arr' = [client_fd_arr EXCEPT ![m] = l] /\ Due(m)
    BY <1>5 DEF AddClient
  <2>2. /\ l \in Seq(Entries) /\ Len(l) = Len(old) + 1 /\ l # old
        /\ \A i \in 1..Len(old) : l[i] = old[i]
        /\ l[Len(old) + 1] = client_fd
    BY <1>1, <1>2, AppendElements
  <2> HIDE DEF l
  <2>3. \A t \in WriteThreads : client_fd_arr'[t] = IF t = m THEN l ELSE client_fd_arr[t]
    BY <1>3, <2>1
  <2>4. client_fd_arr' \in [WriteThreads -> Seq(Entries)]
    BY <1>3, <2>1, <2>2
  <2>5. client_fd_arr' # client_fd_arr
    BY <1>1, <2>2, <2>3
  <2>6. Len(old) < ListSize
    BY <1>2, <1>5, ClientListsAssumption
  <2> QED
    BY <1>1, <2>1, <2>2, <2>3, <2>4, <2>5, <2>6
<1> QED
  BY <1>4, <1>5

-----------------------------------------------------------------------------
(* The network.                                                             *)

\* What a write, and a client that leaves, may do to the connections.
NetKept ==
  /\ peer' \in [Conns -> {"none", "here", "gone", "aborted", "reset"}]
  /\ \A c \in Conns : /\ peer'[c] = "here" => peer[c] = "here"
                      /\ peer'[c] = "none" <=> peer[c] = "none"
  /\ slow \subseteq slow' /\ slow' \subseteq Conns
  /\ killed' \in BOOLEAN

LEMMA NetStays == TypeOK /\ UNCHANGED <<peer, slow, killed>> => NetKept
  BY DEF TypeOK, NetKept

\* A write that succeeds delivers its message or reaches nobody.
LEMMA SuccessfulWrite ==
  ASSUME TypeOK, NEW fd \in Fds, NEW m, WriteSucceeds(fd, m), NEW c, c = fd_conn[fd]
  PROVE  /\ NetKept /\ c \in Conns /\ UNCHANGED <<slow, killed>>
         /\ \/ peer[c] = "here" /\ got' = [got EXCEPT ![c] = Append(got[c], m)]
            \/ peer[c] # "here" /\ got' = got
<1>1. c \in Conns
  BY ConnType DEF WriteSucceeds
<1>2. CASE Delivered(fd, m)
  <2>1. NetKept
    BY <1>2, NetStays DEF Delivered
  <2> QED
    BY <1>1, <1>2, <2>1 DEF Delivered
<1>3. CASE Unheard(fd)
  <2>1. NetKept
    BY <1>1, <1>3 DEF Unheard, NetKept, TypeOK
  <2> QED
    BY <1>1, <1>3, <2>1 DEF Unheard
<1> QED
  BY <1>2, <1>3 DEF WriteSucceeds

\* A write that fails delivers nothing, and the client is slow or not there.
LEMMA FailedWrite ==
  ASSUME TypeOK, NEW fd \in Fds, WriteFails(fd), NEW c, c = fd_conn[fd]
  PROVE  /\ NetKept /\ got' = got
         /\ c # 0 => c \in slow' \/ peer'[c] # "here"
<1>1. c # 0 => c \in Conns
  BY ConnType
<1>2. CASE c = 0 /\ UNCHANGED netVars
  BY <1>2, NetStays DEF netVars
<1>3. CASE c # 0 /\ Congested(fd)
  BY <1>1, <1>3 DEF Congested, NetKept, TypeOK
<1>4. CASE c # 0 /\ Aborted(fd)
  BY <1>1, <1>4 DEF Aborted, NetKept, TypeOK
<1> QED
  BY <1>2, <1>3, <1>4 DEF WriteFails

LEMMA KillingWrite ==
  ASSUME TypeOK, NEW fd \in Fds, WriteKills(fd)
  PROVE  NetKept /\ UNCHANGED <<peer, got, slow>>
  BY DEF TypeOK, WriteKills, NetKept

LEMMA LeaveKeeps ==
  ASSUME TypeOK, NEW c \in Conns, Leave(c)
  PROVE  NetKept /\ got' = got /\ UNCHANGED slow
  BY DEF TypeOK, Leave, NetKept

LEMMA CloseKeeps ==
  ASSUME TypeOK, NEW fd \in Fds, CloseClient(fd)
  PROVE  NetKept /\ UNCHANGED <<got, slow>>
<1>1. fd_conn[fd] \in Conns
  BY ConnType DEF CloseClient
<1> QED
  BY <1>1 DEF TypeOK, CloseClient, NetKept

-----------------------------------------------------------------------------
(* What the two steps that write do to everything.                          *)

LEMMA HeadersSent ==
  ASSUME TypeOK, DescriptorInv, SendHeaders, NEW f, f = client_fd
  PROVE  /\ server = "headers" /\ f \in Fds /\ fd_conn[f] = accepted /\ accepted \in Conns
         /\ NetKept
         /\ UNCHANGED <<accepted, round_robin_idx, reused, first_due, client_fd_arr,
                        message, slot>>
         /\ \/ /\ server' = "add" /\ UNCHANGED <<client_fd, fd_conn, slow>>
               /\ \/ /\ peer[accepted] = "here"
                     /\ got' = [got EXCEPT ![accepted] = Append(got[accepted], Headers)]
                  \/ peer[accepted] # "here" /\ got' = got
            \/ /\ server' = "wait" /\ client_fd' = 0
               /\ fd_conn' = [fd_conn EXCEPT ![f] = 0] /\ got' = got
            \/ UNCHANGED <<server, client_fd, fd_conn, peer, got, slow>>
<1>1. server = "headers" /\ f \in Fds /\ fd_conn[f] = accepted /\ accepted > 0
  BY DEF SendHeaders, DescriptorInv
<1>2. accepted \in Conns
  BY <1>1, ConnType DEF TypeOK
<1>3. UNCHANGED <<accepted, round_robin_idx, reused, first_due, client_fd_arr,
                        message, slot>>
  BY DEF SendHeaders, threadVars
<1>4. CASE /\ WriteSucceeds(f, Headers) /\ server' = "add"
           /\ UNCHANGED <<client_fd, fd_conn>>
  <2>1. /\ NetKept /\ UNCHANGED slow
        /\ \/ /\ peer[accepted] = "here"
              /\ got' = [got EXCEPT ![accepted] = Append(got[accepted], Headers)]
           \/ peer[accepted] # "here" /\ got' = got
    BY <1>1, <1>4, SuccessfulWrite
  <2> QED
    BY <1>1, <1>2, <1>3, <1>4, <2>1
<1>5. CASE /\ WriteFails(f) /\ fd_conn' = [fd_conn EXCEPT ![f] = 0]
           /\ server' = "wait" /\ client_fd' = 0
  <2>1. NetKept /\ got' = got
    BY <1>1, <1>5, FailedWrite
  <2> QED
    BY <1>1, <1>2, <1>3, <1>5, <2>1
<1>6. CASE WriteKills(f) /\ UNCHANGED <<server, client_fd, fd_conn>>
  <2>1. NetKept /\ UNCHANGED <<peer, got, slow>>
    BY <1>1, <1>6, KillingWrite
  <2> QED
    BY <1>1, <1>2, <1>3, <1>6, <2>1
<1> QED
  BY <1>4, <1>5, <1>6 DEF SendHeaders, BackToWait

LEMMA SlotSent ==
  ASSUME TypeOK, NEW t \in WriteThreads, SendToSlot(t),
         NEW s, s = slot[t], NEW f, f = client_fd_arr[t][s], NEW c, c = fd_conn[f]
  PROVE  /\ s \in 1..Len(client_fd_arr[t]) /\ f \in Fds /\ NetKept
         /\ UNCHANGED serverVars /\ UNCHANGED message
         /\ \/ /\ slot' = [slot EXCEPT ![t] = s + 1] /\ UNCHANGED <<client_fd_arr, slow>>
               /\ c \in Conns
               /\ \/ peer[c] = "here" /\ got' = [got EXCEPT ![c] = Append(got[c], message[t])]
                  \/ peer[c] # "here" /\ got' = got
            \/ /\ slot' = [slot EXCEPT ![t] = s + 1] /\ got' = got
               /\ client_fd_arr' = [client_fd_arr EXCEPT ![t][s] = LOST]
               /\ c # 0 => c \in slow' \/ peer'[c] # "here"
            \/ UNCHANGED <<client_fd_arr, slot, peer, got, slow>>
<1>1. s \in 1..Len(client_fd_arr[t]) /\ UNCHANGED serverVars /\ UNCHANGED message
  BY DEF SendToSlot
<1>2. f \in Fds
  BY <1>1, ListType DEF SendToSlot, SlotFd, Entries
<1>3. slot \in [WriteThreads -> 0..(ListSize + 1)]
  BY DEF TypeOK
<1>4. CASE WriteSucceeds(f, message[t]) /\ NextSlot(t) /\ UNCHANGED client_fd_arr
  <2>1. /\ NetKept /\ UNCHANGED slow /\ c \in Conns
        /\ \/ peer[c] = "here" /\ got' = [got EXCEPT ![c] = Append(got[c], message[t])]
           \/ peer[c] # "here" /\ got' = got
    BY <1>2, <1>4, SuccessfulWrite
  <2>2. slot' = [slot EXCEPT ![t] = s + 1]
    BY <1>3, <1>4 DEF NextSlot
  <2> QED
    BY <1>1, <1>2, <1>4, <2>1, <2>2
<1>5. CASE /\ WriteFails(f) /\ NextSlot(t)
           /\ client_fd_arr' = [client_fd_arr EXCEPT ![t][s] = LOST]
  <2>1. /\ NetKept /\ got' = got
        /\ c # 0 => c \in slow' \/ peer'[c] # "here"
    BY <1>2, <1>5, FailedWrite
  <2>2. slot' = [slot EXCEPT ![t] = s + 1]
    BY <1>3, <1>5 DEF NextSlot
  <2> QED
    BY <1>1, <1>2, <1>5, <2>1, <2>2
<1>6. CASE WriteKills(f) /\ UNCHANGED <<client_fd_arr, slot>>
  <2>1. NetKept /\ UNCHANGED <<peer, got, slow>>
    BY <1>2, <1>6, KillingWrite
  <2> QED
    BY <1>1, <1>2, <1>6, <2>1
<1> QED
  BY <1>4, <1>5, <1>6 DEF SendToSlot, SlotFd

\* accept gives the new connection a descriptor that stood for none.
LEMMA Accepted ==
  ASSUME TypeOK, Accept, NEW c, c = accepted + 1
  PROVE  \E f \in Fds :
           /\ fd_conn[f] = 0 /\ c \in Conns /\ c > accepted
           /\ fd_conn' = [fd_conn EXCEPT ![f] = c] /\ client_fd' = f /\ server' = "headers"
           /\ accepted' = c
           /\ reused' = IF OnAList(f) THEN reused \cup {c} ELSE reused
           /\ peer' = [peer EXCEPT ![c] = "here"]
           /\ UNCHANGED <<round_robin_idx, first_due, client_fd_arr, message, slot, got, slow,
                        killed>>
<1>1. PICK f \in Fds :
        /\ fd_conn[f] = 0
        /\ fd_conn' = [fd_conn EXCEPT ![f] = c]
        /\ client_fd' = f
        /\ reused' = IF OnAList(f) THEN reused \cup {c} ELSE reused
  BY DEF Accept
<1>2. c \in Conns /\ c > accepted
  BY ClientListsAssumption DEF TypeOK, Accept, Conns
<1> QED
  BY <1>1, <1>2 DEF Accept, threadVars

-----------------------------------------------------------------------------
(* Types.                                                                   *)

LEMMA TypeInit == Init => TypeOK
<1> SUFFICES ASSUME Init
             PROVE  TypeOK
  OBVIOUS
<1>1. client_fd_arr \in [WriteThreads -> Seq(Fds \cup {LOST})]
  BY DEF Init
<1>2. \A t \in WriteThreads : Len(client_fd_arr[t]) <= ListSize
  BY ClientListsAssumption DEF Init
<1>3. got \in [Conns -> Seq(0..MaxMsgs)]
  BY DEF Init
<1>4. /\ 0 \in 0..MaxConns /\ 0 \in 0..NumClientLists /\ 0 \in 0..MaxMsgs
      /\ 0 \in 0..(ListSize + 1) /\ 0 \in 0..(MaxMsgs + 1)
  BY ClientListsAssumption
<1>5. /\ peer \in [Conns -> {"none", "here", "gone", "aborted", "reset"}]
      /\ fd_conn \in [Fds -> 0..MaxConns]
      /\ message \in [WriteThreads -> 0..MaxMsgs]
      /\ slot \in [WriteThreads -> 0..(ListSize + 1)]
      /\ first_due \in [Conns -> 0..(MaxMsgs + 1)]
  BY <1>4 DEF Init
<1>6. /\ accepted \in 0..MaxConns /\ client_fd \in 0..MaxConns
      /\ round_robin_idx \in 0..NumClientLists
      /\ server = "wait" /\ client_fd = 0
      /\ killed \in BOOLEAN /\ reused \subseteq Conns /\ slow \subseteq Conns
  BY <1>4 DEF Init
<1> QED
  BY <1>1, <1>2, <1>3, <1>5, <1>6 DEF TypeOK

LEMMA GotType ==
  ASSUME TypeOK, NEW c \in Conns, NEW m \in 0..MaxMsgs,
         got' = [got EXCEPT ![c] = Append(got[c], m)]
  PROVE  /\ got' \in [Conns -> Seq(0..MaxMsgs)]
         /\ got'[c] = Append(got[c], m)
         /\ \A d \in Conns : d # c => got'[d] = got[d]
<1>1. got \in [Conns -> Seq(0..MaxMsgs)]
  BY DEF TypeOK
<1>2. Append(got[c], m) \in Seq(0..MaxMsgs)
  BY <1>1
<1> QED
  BY <1>1, <1>2

\* One case per action.
LEMMA TypeStep == TypeOK /\ DescriptorInv /\ [Next]_vars => TypeOK'
<1> SUFFICES ASSUME TypeOK, DescriptorInv, [Next]_vars
             PROVE  TypeOK'
  OBVIOUS
<1>1. client_fd_arr \in [WriteThreads -> Seq(Entries)]
  BY DEF TypeOK, Entries
<1>2. ASSUME NEW c \in Conns, Leave(c)
      PROVE  TypeOK'
  BY <1>2, LeaveKeeps
     DEF TypeOK, Leave, NetKept, serverVars, threadVars
<1>3. CASE Accept
  <2>1. PICK c : c = accepted + 1
    OBVIOUS
  <2>2. PICK f \in Fds :
          /\ fd_conn[f] = 0 /\ c \in Conns /\ c > accepted
          /\ fd_conn' = [fd_conn EXCEPT ![f] = c] /\ client_fd' = f /\ server' = "headers"
          /\ accepted' = c
          /\ reused' = IF OnAList(f) THEN reused \cup {c} ELSE reused
          /\ peer' = [peer EXCEPT ![c] = "here"]
          /\ UNCHANGED <<round_robin_idx, first_due, client_fd_arr, message, slot, got, slow,
                        killed>>
    BY <1>3, <2>1, Accepted
  <2>3. c \in 0..MaxConns /\ f \in 0..MaxConns /\ f # 0
    BY <2>2 DEF Conns, Fds
  <2> QED
    BY <2>2, <2>3 DEF TypeOK
<1>4. CASE SendHeaders
  <2>1. PICK f : f = client_fd
    OBVIOUS
  <2>2. /\ f \in Fds /\ accepted \in Conns /\ NetKept
        /\ UNCHANGED <<accepted, round_robin_idx, reused, first_due, client_fd_arr,
                        message, slot>>
        /\ \/ /\ server' = "add" /\ UNCHANGED <<client_fd, fd_conn, slow>>
              /\ \/ got' = [got EXCEPT ![accepted] = Append(got[accepted], Headers)]
                 \/ got' = got
           \/ /\ server' = "wait" /\ client_fd' = 0
              /\ fd_conn' = [fd_conn EXCEPT ![f] = 0] /\ got' = got
           \/ UNCHANGED <<server, client_fd, fd_conn, peer, got, slow>>
    BY <1>4, <2>1, HeadersSent
  <2>3. Headers \in 0..MaxMsgs
    BY ClientListsAssumption DEF Headers
  <2>4. got' \in [Conns -> Seq(0..MaxMsgs)]
    BY <2>2, <2>3, GotType DEF TypeOK
  <2>5. fd_conn' \in [Fds -> 0..MaxConns]
    BY <2>2, ClientListsAssumption DEF TypeOK
  <2>6. /\ server' \in {"wait", "headers", "add"} /\ client_fd' \in 0..MaxConns
        /\ server' = "wait" <=> client_fd' = 0
    BY <2>1, <2>2, ClientListsAssumption DEF TypeOK, Fds
  <2> QED
    BY <2>2, <2>4, <2>5, <2>6 DEF TypeOK, NetKept
<1>5. CASE AddClient
  <2>1. PICK m : m = NextManager
    OBVIOUS
  <2>2. client_fd \in Fds
    BY <1>5 DEF AddClient, DescriptorInv
  <2>3. /\ m \in WriteThreads
        /\ client_fd_arr' \in [WriteThreads -> Seq(Entries)]
        /\ \/ UNCHANGED <<client_fd_arr, first_due>>
           \/ /\ Len(client_fd_arr[m]) < ListSize /\ Due(m)
              /\ \A t \in WriteThreads :
                   Len(client_fd_arr'[t]) = IF t = m THEN Len(client_fd_arr[t]) + 1
                                                     ELSE Len(client_fd_arr[t])
    BY <1>5, <2>1, <2>2, LongerList
  <2>4. \A t \in WriteThreads : Len(client_fd_arr'[t]) <= ListSize
    BY <2>3, ListType, ClientListsAssumption
  <2>5. round_robin_idx' \in 0..NumClientLists
    BY <1>5, <2>1, <2>3 DEF AddClient, WriteThreads
  <2>6. server' = "wait" /\ UNCHANGED <<accepted, fd_conn, reused, threadVars, netVars>>
    BY <1>5 DEF AddClient, BackToWait
  <2>7. client_fd' = 0 /\ 0 \in 0..MaxConns
    BY <1>5, ClientListsAssumption DEF AddClient, BackToWait
  <2>8. first_due' \in [Conns -> 0..(MaxMsgs + 1)]
    <3>1. message[m] \in 0..(MaxMsgs + 1) /\ message[m] + 1 \in 0..(MaxMsgs + 1)
      BY <2>3, ListType, ClientListsAssumption
    <3> QED
      BY <2>3, <3>1 DEF Due, TypeOK
  <2> QED
    BY <2>3, <2>4, <2>5, <2>6, <2>7, <2>8 DEF TypeOK, threadVars, netVars, Entries
<1>6. ASSUME NEW fd \in Fds, CloseClient(fd)
      PROVE  TypeOK'
  <2>1. fd_conn' \in [Fds -> 0..MaxConns]
    BY <1>6, ClientListsAssumption DEF TypeOK, CloseClient
  <2>2. peer' \in [Conns -> {"none", "here", "gone", "aborted", "reset"}]
    BY <1>6, CloseKeeps DEF NetKept
  <2> QED
    BY <1>6, <2>1, <2>2 DEF TypeOK, CloseClient, threadVars
<1>7. ASSUME NEW t \in WriteThreads, TakeMessage(t)
      PROVE  TypeOK'
  <2>1. /\ message' \in [WriteThreads -> 0..MaxMsgs]
        /\ slot' \in [WriteThreads -> 0..(ListSize + 1)]
    BY <1>7, ClientListsAssumption DEF TypeOK, TakeMessage
  <2> QED
    BY <1>7, <2>1 DEF TypeOK, TakeMessage, serverVars, netVars
<1>8. ASSUME NEW t \in WriteThreads, EndOfList(t)
      PROVE  TypeOK'
  <2>1. slot' \in [WriteThreads -> 0..(ListSize + 1)]
    BY <1>8, ClientListsAssumption DEF TypeOK, EndOfList
  <2> QED
    BY <1>8, <2>1 DEF TypeOK, EndOfList, serverVars, netVars
<1>9. ASSUME NEW t \in WriteThreads, NEW s \in 1..Len(client_fd_arr[t]),
             slot' = [slot EXCEPT ![t] = s + 1]
      PROVE  slot' \in [WriteThreads -> 0..(ListSize + 1)]
  <2>1. s + 1 \in 0..(ListSize + 1)
    BY ListType, ClientListsAssumption
  <2> QED
    BY <1>9, <2>1 DEF TypeOK
<1>10. ASSUME NEW t \in WriteThreads, SkipLost(t)
       PROVE  TypeOK'
  <2>1. slot' = [slot EXCEPT ![t] = slot[t] + 1] /\ slot[t] \in 1..Len(client_fd_arr[t])
    BY <1>10 DEF TypeOK, SkipLost, NextSlot
  <2>2. slot' \in [WriteThreads -> 0..(ListSize + 1)]
    BY <2>1, <1>9
  <2> QED
    BY <1>10, <2>2 DEF TypeOK, SkipLost, serverVars, netVars
<1>11. ASSUME NEW t \in WriteThreads, SendToSlot(t)
       PROVE  TypeOK'
  <2>1. PICK s : s = slot[t]
    OBVIOUS
  <2>2. PICK c : c = fd_conn[client_fd_arr[t][s]]
    OBVIOUS
  <2>3. /\ s \in 1..Len(client_fd_arr[t]) /\ NetKept
        /\ UNCHANGED serverVars /\ UNCHANGED message
        /\ \/ /\ slot' = [slot EXCEPT ![t] = s + 1] /\ UNCHANGED <<client_fd_arr, slow>>
              /\ c \in Conns
              /\ \/ got' = [got EXCEPT ![c] = Append(got[c], message[t])]
                 \/ got' = got
           \/ /\ slot' = [slot EXCEPT ![t] = s + 1] /\ got' = got
              /\ client_fd_arr' = [client_fd_arr EXCEPT ![t][s] = LOST]
           \/ UNCHANGED <<client_fd_arr, slot, peer, got, slow>>
    BY <1>11, <2>1, <2>2, SlotSent
  <2>4. slot' \in [WriteThreads -> 0..(ListSize + 1)]
    BY <2>3, <1>9 DEF TypeOK
  <2>5. message[t] \in 0..MaxMsgs
    BY ListType
  <2>6. got' \in [Conns -> Seq(0..MaxMsgs)]
    BY <2>3, <2>5, GotType DEF TypeOK
  <2>7. client_fd_arr = client_fd_arr' \/
        client_fd_arr' = [client_fd_arr EXCEPT ![t][s] = LOST]
    BY <2>3
  <2>8. /\ client_fd_arr' \in [WriteThreads -> Seq(Entries)]
        /\ \A u \in WriteThreads : Len(client_fd_arr'[u]) = Len(client_fd_arr[u])
    BY <1>1, <2>3, <2>7, MarkedList
  <2> QED
    BY <2>3, <2>4, <2>6, <2>8 DEF TypeOK, NetKept, serverVars, Entries
<1>12. CASE UNCHANGED vars
  BY <1>12 DEF TypeOK, vars, serverVars, threadVars, netVars
<1> QED
  BY <1>2, <1>3, <1>4, <1>5, <1>6, <1>7, <1>8, <1>10, <1>11, <1>12
     DEF Next, ServerStep, WriteStep


-----------------------------------------------------------------------------
(* Descriptors and connections.                                             *)

LEMMA DescriptorStep == TypeOK /\ DescriptorInv /\ [Next]_vars => DescriptorInv'
<1> SUFFICES ASSUME TypeOK, DescriptorInv, [Next]_vars
             PROVE  DescriptorInv'
  OBVIOUS
<1>1. /\ fd_conn \in [Fds -> 0..MaxConns] /\ accepted \in 0..MaxConns
      /\ \A f \in Fds : fd_conn[f] \in Nat
  BY ClientListsAssumption DEF TypeOK
<1>2. ASSUME NetKept, UNCHANGED serverVars,
             \A c \in Conns : c > accepted => got'[c] = got[c]
      PROVE  DescriptorInv'
  BY <1>2 DEF DescriptorInv, NetKept, serverVars
<1>3. ASSUME NEW c \in Conns, Leave(c)
      PROVE  DescriptorInv'
  BY <1>2, <1>3, LeaveKeeps DEF Leave
<1>4. CASE Accept
  <2>1. PICK c : c = accepted + 1
    OBVIOUS
  <2>2. PICK f \in Fds :
          /\ fd_conn[f] = 0 /\ c \in Conns /\ c > accepted
          /\ fd_conn' = [fd_conn EXCEPT ![f] = c] /\ client_fd' = f
          /\ accepted' = c
          /\ reused' = IF OnAList(f) THEN reused \cup {c} ELSE reused
          /\ peer' = [peer EXCEPT ![c] = "here"]
          /\ UNCHANGED <<got, first_due>>
    BY <1>4, <2>1, Accepted
  <2>3. \A g \in Fds : fd_conn'[g] = IF g = f THEN c ELSE fd_conn[g]
    BY <1>1, <2>2
  <2>4. \A g, h \in Fds : fd_conn'[g] # 0 /\ fd_conn'[g] = fd_conn'[h] => g = h
    BY <1>1, <2>1, <2>3 DEF DescriptorInv
  <2>5. \A g \in Fds : fd_conn'[g] <= accepted'
    BY <1>1, <2>1, <2>2, <2>3 DEF DescriptorInv
  <2>6. \A d \in Conns : d > accepted' => d > accepted /\ d # c
    BY <1>1, <2>1, <2>2 DEF Conns
  <2>7. \A d \in Conns : d # c => peer'[d] = peer[d] /\ (d \in reused' <=> d \in reused)
    BY <2>2 DEF TypeOK
  <2>8. /\ client_fd' \in Fds /\ accepted' > 0 /\ fd_conn'[client_fd'] = accepted'
        /\ first_due'[accepted'] = 0
    BY <1>1, <2>1, <2>2, <2>3 DEF DescriptorInv
  <2> QED
    BY <2>2, <2>4, <2>5, <2>6, <2>7, <2>8 DEF DescriptorInv
<1>5. CASE SendHeaders
  <2>1. PICK f : f = client_fd
    OBVIOUS
  <2>2. /\ server = "headers" /\ f \in Fds /\ fd_conn[f] = accepted /\ accepted \in Conns
        /\ NetKept /\ UNCHANGED <<accepted, reused, first_due>>
        /\ \/ /\ server' = "add" /\ UNCHANGED <<client_fd, fd_conn>>
              /\ \/ got' = [got EXCEPT ![accepted] = Append(got[accepted], Headers)]
                 \/ got' = got
           \/ /\ server' = "wait" /\ client_fd' = 0
              /\ fd_conn' = [fd_conn EXCEPT ![f] = 0] /\ got' = got
           \/ UNCHANGED <<server, client_fd, fd_conn, peer, got, slow>>
    BY <1>5, <2>1, HeadersSent
  <2>3. \A c \in Conns : c > accepted => got'[c] = got[c]
    <3>1. \A c \in Conns : c > accepted => c # accepted
      BY <1>1 DEF Conns
    <3> QED
      BY <2>2, <3>1 DEF TypeOK
  <2>4. CASE UNCHANGED <<client_fd, fd_conn>>
    BY <2>2, <2>3, <2>4 DEF DescriptorInv, NetKept
  <2>5. CASE server' = "wait" /\ fd_conn' = [fd_conn EXCEPT ![f] = 0]
    <3>1. \A g \in Fds : fd_conn'[g] = IF g = f THEN 0 ELSE fd_conn[g]
      BY <1>1, <2>5
    <3>2. \A g, h \in Fds : fd_conn'[g] # 0 /\ fd_conn'[g] = fd_conn'[h] => g = h
      BY <3>1 DEF DescriptorInv
    <3>3. \A g \in Fds : fd_conn'[g] <= accepted'
      BY <1>1, <2>2, <3>1 DEF DescriptorInv
    <3> QED
      BY <2>2, <2>3, <2>5, <3>2, <3>3 DEF DescriptorInv, NetKept
  <2> QED
    BY <2>2, <2>4, <2>5
<1>6. CASE AddClient
  <2>1. PICK m : m = NextManager
    OBVIOUS
  <2>2. /\ client_fd \in Fds /\ accepted > 0 /\ fd_conn[client_fd] = accepted
        /\ server' = "wait" /\ UNCHANGED <<accepted, fd_conn, reused, peer, got>>
    BY <1>6 DEF AddClient, BackToWait, DescriptorInv, netVars
  <2>3. first_due' = first_due \/ Due(m)
    BY <1>6, <2>1, <2>2, LongerList
  <2>4. \A c \in Conns : c > accepted => first_due'[c] = first_due[c]
    <3>1. \A c \in Conns : c > accepted => c # fd_conn[client_fd]
      BY <1>1, <2>2 DEF Conns
    <3> QED
      BY <2>3, <3>1 DEF Due, TypeOK
  <2> QED
    BY <2>2, <2>4 DEF DescriptorInv
<1>7. ASSUME NEW fd \in Fds, CloseClient(fd)
      PROVE  DescriptorInv'
  <2>1. \A g \in Fds : fd_conn'[g] = IF g = fd THEN 0 ELSE fd_conn[g]
    BY <1>1, <1>7 DEF CloseClient
  <2>2. \A g, h \in Fds : fd_conn'[g] # 0 /\ fd_conn'[g] = fd_conn'[h] => g = h
    BY <2>1 DEF DescriptorInv
  <2>3. /\ server' = "wait" /\ NetKept
        /\ UNCHANGED <<accepted, got, reused, first_due>>
    BY <1>7, CloseKeeps DEF CloseClient
  <2>4. \A g \in Fds : fd_conn'[g] <= accepted'
    BY <1>1, <2>1, <2>3 DEF DescriptorInv
  <2> QED
    BY <2>2, <2>3, <2>4 DEF DescriptorInv, NetKept
<1>8. ASSUME NEW t \in WriteThreads, SendToSlot(t)
      PROVE  DescriptorInv'
  <2>1. PICK s, f, c : s = slot[t] /\ f = client_fd_arr[t][s] /\ c = fd_conn[f]
    OBVIOUS
  <2>2. /\ f \in Fds /\ NetKept /\ UNCHANGED serverVars
        /\ \/ /\ c \in Conns
              /\ \/ got' = [got EXCEPT ![c] = Append(got[c], message[t])]
                 \/ got' = got
           \/ got' = got
    BY <1>8, <2>1, SlotSent
  <2>3. c <= accepted /\ c \in Nat
    BY <1>1, <2>1, <2>2 DEF DescriptorInv
  <2>4. \A d \in Conns : d > accepted => d # c
    BY <1>1, <2>3 DEF Conns
  <2>5. \A d \in Conns : d > accepted => got'[d] = got[d]
    BY <2>2, <2>4 DEF TypeOK
  <2> QED
    BY <1>2, <2>2, <2>5
<1>9. ASSUME NEW t \in WriteThreads, TakeMessage(t) \/ EndOfList(t) \/ SkipLost(t)
      PROVE  DescriptorInv'
  <2>1. UNCHANGED serverVars /\ UNCHANGED netVars
    BY <1>9 DEF TakeMessage, EndOfList, SkipLost
  <2> QED
    BY <1>2, <2>1, NetStays DEF netVars
<1>10. CASE UNCHANGED vars
  BY <1>2, <1>10, NetStays DEF vars, netVars
<1> QED
  BY <1>3, <1>4, <1>5, <1>6, <1>7, <1>8, <1>9, <1>10 DEF Next, ServerStep, WriteStep

-----------------------------------------------------------------------------
(* How the lists grow, and how the threads walk them.                       *)

\* Steps but those of the server thread that adds a client leave every list as
\* long as it is, and its slots as they are or lost.
ListsKept ==
  /\ \A t \in WriteThreads : Len(client_fd_arr'[t]) = Len(client_fd_arr[t])
  /\ \A t \in WriteThreads : \A s \in 1..Len(client_fd_arr[t]) :
       \/ client_fd_arr'[t][s] = client_fd_arr[t][s]
       \/ client_fd_arr'[t][s] = LOST

LEMMA ListsStep ==
  ASSUME TypeOK, [Next]_vars, ~AddClient
  PROVE  ListsKept
<1>1. CASE UNCHANGED client_fd_arr
  BY <1>1 DEF ListsKept
<1>2. ASSUME NEW t \in WriteThreads, SendToSlot(t)
      PROVE  ListsKept
  <2>1. PICK s : s = slot[t]
    OBVIOUS
  <2>2. /\ s \in 1..Len(client_fd_arr[t])
        /\ \/ UNCHANGED client_fd_arr
           \/ client_fd_arr' = [client_fd_arr EXCEPT ![t][s] = LOST]
    BY <1>2, <2>1, SlotSent
  <2>3. CASE client_fd_arr' = [client_fd_arr EXCEPT ![t][s] = LOST]
    BY <2>2, <2>3, MarkedList DEF ListsKept
  <2> QED
    BY <1>1, <2>2, <2>3
<1>3. ASSUME NEW t \in WriteThreads, TakeMessage(t) \/ EndOfList(t) \/ SkipLost(t)
      PROVE  UNCHANGED client_fd_arr
  BY <1>3 DEF TakeMessage, EndOfList, SkipLost
<1>4. ASSUME \/ \E c \in Conns : Leave(c)
             \/ Accept \/ SendHeaders \/ (\E fd \in Fds : CloseClient(fd))
             \/ UNCHANGED vars
      PROVE  UNCHANGED client_fd_arr
  BY <1>4 DEF Leave, Accept, SendHeaders, CloseClient, vars
<1> QED
  BY <1>1, <1>2, <1>3, <1>4 DEF Next, ServerStep, WriteStep

LEMMA RoundStep == TypeOK /\ DescriptorInv /\ RoundInv /\ [Next]_vars => RoundInv'
<1> SUFFICES ASSUME TypeOK, DescriptorInv, RoundInv, [Next]_vars
             PROVE  RoundInv'
  OBVIOUS
<1>1. CASE ~AddClient
  <2>1. UNCHANGED round_robin_idx
    BY <1>1 DEF Next, ServerStep, WriteStep, Leave, Accept, SendHeaders, CloseClient,
                TakeMessage, EndOfList, SkipLost, SendToSlot, serverVars, vars
  <2>2. \A t \in WriteThreads : Len(client_fd_arr'[t]) = Len(client_fd_arr[t])
    BY <1>1, ListsStep DEF ListsKept
  <2> QED
    BY <2>1, <2>2 DEF RoundInv
<1>2. CASE AddClient
  <2>1. PICK m : m = NextManager
    OBVIOUS
  <2>2. client_fd \in Fds
    BY <1>2 DEF AddClient, DescriptorInv
  <2>3. /\ m \in WriteThreads
        /\ \/ Len(client_fd_arr[m]) = ListSize /\ client_fd_arr' = client_fd_arr
           \/ /\ Len(client_fd_arr[m]) < ListSize
              /\ \A t \in WriteThreads :
                   Len(client_fd_arr'[t]) = IF t = m THEN Len(client_fd_arr[t]) + 1
                                                     ELSE Len(client_fd_arr[t])
    BY <1>2, <2>1, <2>2, LongerList
  <2>4. round_robin_idx' = m
    BY <1>2, <2>1 DEF AddClient
  <2>5. \A t \in WriteThreads : Len(client_fd_arr[t]) \in 0..ListSize
    BY ListType
  <2>6. \/ m = round_robin_idx + 1
        \/ m = 1 /\ \A t \in WriteThreads : t <= round_robin_idx
    BY <2>1 DEF NextManager, WriteThreads
  <2>7. round_robin_idx \in Nat /\ WriteThreads \subseteq Nat \ {0} /\ ListSize \in Nat \ {0}
    BY ClientListsAssumption DEF TypeOK, WriteThreads
  <2> SUFFICES ASSUME NEW t \in WriteThreads, NEW u \in WriteThreads
               PROVE  LET lt == Len(client_fd_arr'[t])
                          lu == Len(client_fd_arr'[u])
                      IN /\ (t <= m <=> u <= m) => lt = lu
                         /\ t <= m /\ u > m => lt = lu + 1 \/ (lt = ListSize /\ lu = ListSize)
    BY <2>4 DEF RoundInv
  <2>8. LET lt == Len(client_fd_arr[t])
            lu == Len(client_fd_arr[u])
            lm == Len(client_fd_arr[m])
        IN /\ (t <= round_robin_idx <=> u <= round_robin_idx) => lt = lu
           /\ (t <= round_robin_idx <=> m <= round_robin_idx) => lt = lm
           /\ (u <= round_robin_idx <=> m <= round_robin_idx) => lu = lm
           /\ t <= round_robin_idx /\ u > round_robin_idx =>
                lt = lu + 1 \/ (lt = ListSize /\ lu = ListSize)
           /\ t <= round_robin_idx /\ m > round_robin_idx =>
                lt = lm + 1 \/ (lt = ListSize /\ lm = ListSize)
           /\ u <= round_robin_idx /\ m > round_robin_idx =>
                lu = lm + 1 \/ (lu = ListSize /\ lm = ListSize)
    BY <2>3 DEF RoundInv
  <2>9. CASE Len(client_fd_arr[m]) = ListSize /\ client_fd_arr' = client_fd_arr
    <3>1. Len(client_fd_arr[t]) = ListSize /\ Len(client_fd_arr[u]) = ListSize
      BY <2>3, <2>5, <2>6, <2>7, <2>8, <2>9
    <3> QED
      BY <2>9, <3>1
  <2>10. CASE /\ Len(client_fd_arr[m]) < ListSize
              /\ \A v \in WriteThreads :
                   Len(client_fd_arr'[v]) = IF v = m THEN Len(client_fd_arr[v]) + 1
                                                     ELSE Len(client_fd_arr[v])
    <3>1. /\ Len(client_fd_arr'[t]) = IF t = m THEN Len(client_fd_arr[t]) + 1
                                               ELSE Len(client_fd_arr[t])
          /\ Len(client_fd_arr'[u]) = IF u = m THEN Len(client_fd_arr[u]) + 1
                                               ELSE Len(client_fd_arr[u])
      BY <2>10
    <3> QED
      BY <2>3, <2>5, <2>6, <2>7, <2>8, <2>10, <3>1
  <2> QED
    BY <2>3, <2>9, <2>10
<1> QED
  BY <1>1, <1>2

\* A list that has no room for the client whose turn it is has none because
\* the round has filled all of them.
LEMMA RoundFull ==
  TypeOK /\ DescriptorInv /\ RoundInv /\ [Next]_vars /\ AddClient /\ UNCHANGED client_fd_arr
  => \A t \in WriteThreads : Len(client_fd_arr[t]) = ListSize
<1> SUFFICES ASSUME TypeOK, DescriptorInv, RoundInv, AddClient, UNCHANGED client_fd_arr,
                    NEW t \in WriteThreads
             PROVE  Len(client_fd_arr[t]) = ListSize
  OBVIOUS
<1>1. PICK m : m = NextManager
  OBVIOUS
<1>2. client_fd \in Fds
  BY DEF AddClient, DescriptorInv
<1>3. m \in WriteThreads /\ Len(client_fd_arr[m]) = ListSize
  BY <1>1, <1>2, LongerList
<1>4. Len(client_fd_arr[t]) \in 0..ListSize
  BY ListType
<1>5. \/ m = round_robin_idx + 1
      \/ m = 1 /\ t <= round_robin_idx
  BY <1>1 DEF NextManager, WriteThreads
<1>6. round_robin_idx \in Nat /\ WriteThreads \subseteq Nat \ {0} /\ ListSize \in Nat \ {0}
  BY ClientListsAssumption DEF TypeOK, WriteThreads
<1>7. LET lt == Len(client_fd_arr[t])
          lm == Len(client_fd_arr[m])
      IN /\ (t <= round_robin_idx <=> m <= round_robin_idx) => lt = lm
         /\ t <= round_robin_idx /\ m > round_robin_idx =>
              lt = lm + 1 \/ (lt = ListSize /\ lm = ListSize)
  BY <1>3 DEF RoundInv
<1> QED
  BY <1>3, <1>4, <1>5, <1>6, <1>7


LEMMA WalkStep == TypeOK /\ DescriptorInv /\ WalkInv /\ [Next]_vars => WalkInv'
<1> SUFFICES ASSUME TypeOK, DescriptorInv, WalkInv, [Next]_vars
             PROVE  WalkInv'
  OBVIOUS
<1>1. \A t \in WriteThreads : Len(client_fd_arr'[t]) >= Len(client_fd_arr[t])
  <2>1. CASE AddClient
    <3>1. PICK m : m = NextManager
      OBVIOUS
    <3>2. client_fd \in Fds
      BY <2>1 DEF AddClient, DescriptorInv
    <3>3. \/ client_fd_arr' = client_fd_arr
          \/ \A t \in WriteThreads :
               Len(client_fd_arr'[t]) = IF t = m THEN Len(client_fd_arr[t]) + 1
                                                 ELSE Len(client_fd_arr[t])
      BY <2>1, <3>1, <3>2, LongerList
    <3> QED
      BY <3>3, ListType
  <2>2. CASE ~AddClient
    BY <2>2, ListsStep, ListType DEF ListsKept
  <2> QED
    BY <2>1, <2>2
<1>2. \A t \in WriteThreads : /\ slot[t] \in Nat /\ message[t] \in Nat
                              /\ Len(client_fd_arr[t]) \in Nat
                              /\ Len(client_fd_arr'[t]) \in Nat
  <2>1. DescriptorInv /\ TypeOK'
    BY TypeStep
  <2>2. \A t \in WriteThreads : client_fd_arr'[t] \in Seq(Fds \cup {LOST})
    BY <2>1 DEF TypeOK
  <2> QED
    BY <2>2, ListType
<1>3. CASE UNCHANGED threadVars
  BY <1>1, <1>2, <1>3 DEF WalkInv, threadVars
<1>4. ASSUME NEW t \in WriteThreads, TakeMessage(t)
      PROVE  WalkInv'
  <2>1. \A u \in WriteThreads : /\ slot'[u] = IF u = t THEN 1 ELSE slot[u]
                                /\ message'[u] = IF u = t THEN message[u] + 1 ELSE message[u]
    BY <1>4 DEF TakeMessage, TypeOK
  <2> QED
    BY <1>1, <1>2, <2>1 DEF WalkInv
<1>5. ASSUME NEW t \in WriteThreads, EndOfList(t)
      PROVE  WalkInv'
  <2>1. \A u \in WriteThreads : slot'[u] = IF u = t THEN 0 ELSE slot[u]
    BY <1>5 DEF EndOfList, TypeOK
  <2>2. UNCHANGED message
    BY <1>5 DEF EndOfList
  <2> QED
    BY <1>1, <1>2, <2>1, <2>2 DEF WalkInv
<1>6. ASSUME NEW t \in WriteThreads, slot[t] \in 1..Len(client_fd_arr[t]),
             slot' = [slot EXCEPT ![t] = slot[t] + 1], UNCHANGED message
      PROVE  WalkInv'
  <2>1. \A u \in WriteThreads : slot'[u] = IF u = t THEN slot[u] + 1 ELSE slot[u]
    BY <1>6 DEF TypeOK
  <2> QED
    BY <1>1, <1>2, <1>6, <2>1 DEF WalkInv
<1>7. ASSUME NEW t \in WriteThreads, SkipLost(t)
      PROVE  WalkInv'
  <2>1. slot' = [slot EXCEPT ![t] = slot[t] + 1]
    BY <1>7 DEF SkipLost, NextSlot, TypeOK
  <2> QED
    BY <1>6, <1>7, <2>1 DEF SkipLost
<1>8. ASSUME NEW t \in WriteThreads, SendToSlot(t)
      PROVE  WalkInv'
  <2>1. PICK s : s = slot[t]
    OBVIOUS
  <2>2. /\ s \in 1..Len(client_fd_arr[t]) /\ UNCHANGED message
        /\ UNCHANGED slot \/ slot' = [slot EXCEPT ![t] = s + 1]
    BY <1>8, <2>1, SlotSent
  <2>3. CASE UNCHANGED slot
    BY <1>3, <2>2, <2>3 DEF threadVars
  <2> QED
    BY <1>6, <2>1, <2>2, <2>3
<1>9. ASSUME \/ \E c \in Conns : Leave(c)
             \/ Accept \/ SendHeaders \/ AddClient
             \/ (\E fd \in Fds : CloseClient(fd)) \/ UNCHANGED vars
      PROVE  UNCHANGED threadVars
  BY <1>9 DEF Leave, Accept, SendHeaders, AddClient, CloseClient, vars
<1> QED
  BY <1>3, <1>4, <1>5, <1>7, <1>8, <1>9 DEF Next, ServerStep, WriteStep

-----------------------------------------------------------------------------
(* A connection has one slot.                                               *)

\* What has no descriptor that is new to the lists has no other slots than
\* before.
LEMMA OneSlotKept ==
  ASSUME TypeOK, OneSlot, ListsKept, reused \subseteq reused',
         NEW f \in Fds, fd_conn'[f] # 0, fd_conn'[f] = fd_conn[f],
         fd_conn'[f] \notin reused', f = client_fd' => f = client_fd
  PROVE  \A t, u \in WriteThreads :
           \A s \in 1..Len(client_fd_arr'[t]), r \in 1..Len(client_fd_arr'[u]) :
             /\ client_fd_arr'[t][s] = f => f # client_fd'
             /\ client_fd_arr'[t][s] = f /\ client_fd_arr'[u][r] = f => t = u /\ s = r
<1> SUFFICES ASSUME NEW t \in WriteThreads, NEW u \in WriteThreads,
                    NEW s \in 1..Len(client_fd_arr[t]), NEW r \in 1..Len(client_fd_arr[u])
             PROVE  /\ client_fd_arr'[t][s] = f => f # client_fd'
                    /\ client_fd_arr'[t][s] = f /\ client_fd_arr'[u][r] = f => t = u /\ s = r
  <2>1. \A t \in WriteThreads : Len(client_fd_arr'[t]) = Len(client_fd_arr[t])
    BY DEF ListsKept
  <2> QED
    BY <2>1
<1>1. /\ client_fd_arr'[t][s] = f => client_fd_arr[t][s] = f
      /\ client_fd_arr'[u][r] = f => client_fd_arr[u][r] = f
  BY LostIsNoFd DEF ListsKept
<1>2. fd_conn[f] # 0 /\ fd_conn[f] \notin reused
  OBVIOUS
<1> QED
  BY <1>1, <1>2 DEF OneSlot

LEMMA OneSlotStep == TypeOK /\ DescriptorInv /\ OneSlot /\ [Next]_vars => OneSlot'
<1> SUFFICES ASSUME TypeOK, DescriptorInv, OneSlot, [Next]_vars
             PROVE  OneSlot'
  OBVIOUS
<1>1. fd_conn \in [Fds -> 0..MaxConns]
  BY DEF TypeOK
<1>2. ASSUME ~AddClient, NEW f \in Fds, fd_conn'[f] # 0, fd_conn'[f] = fd_conn[f],
             fd_conn'[f] \notin reused', f = client_fd' => f = client_fd,
             reused \subseteq reused'
      PROVE  \A t, u \in WriteThreads :
               \A s \in 1..Len(client_fd_arr'[t]), r \in 1..Len(client_fd_arr'[u]) :
                 /\ client_fd_arr'[t][s] = f => f # client_fd'
                 /\ client_fd_arr'[t][s] = f /\ client_fd_arr'[u][r] = f => t = u /\ s = r
  BY <1>2, ListsStep, OneSlotKept
<1>3. CASE Accept
  <2>1. PICK c : c = accepted + 1
    OBVIOUS
  <2>2. PICK f \in Fds :
          /\ fd_conn[f] = 0
          /\ fd_conn' = [fd_conn EXCEPT ![f] = c] /\ client_fd' = f
          /\ reused' = IF OnAList(f) THEN reused \cup {c} ELSE reused
          /\ UNCHANGED client_fd_arr
    BY <1>3, <2>1, Accepted
  <2>3. \A g \in Fds : fd_conn'[g] = IF g = f THEN c ELSE fd_conn[g]
    BY <1>1, <2>2
  <2>4. ASSUME c \notin reused'
        PROVE  \A t \in WriteThreads : \A s \in 1..Len(client_fd_arr'[t]) :
                 client_fd_arr'[t][s] # f
    <3>1. ~OnAList(f)
      BY <2>2, <2>4
    <3> QED
      BY <2>2, <3>1 DEF OnAList
  <2>5. ~AddClient
    BY <1>3 DEF Accept, AddClient
  <2>6. ASSUME NEW g \in Fds, fd_conn'[g] # 0, fd_conn'[g] \notin reused'
        PROVE  \A t, u \in WriteThreads :
                 \A s \in 1..Len(client_fd_arr'[t]), r \in 1..Len(client_fd_arr'[u]) :
                   /\ client_fd_arr'[t][s] = g => g # client_fd'
                   /\ client_fd_arr'[t][s] = g /\ client_fd_arr'[u][r] = g => t = u /\ s = r
    <3>1. CASE g = f
      BY <2>3, <2>4, <2>6, <3>1
    <3>2. CASE g # f
      <4>1. fd_conn'[g] = fd_conn[g] /\ g # client_fd' /\ reused \subseteq reused'
        BY <2>2, <2>3, <3>2
      <4> QED
        BY <1>2, <2>5, <2>6, <4>1
    <3> QED
      BY <3>1, <3>2
  <2> QED
    BY <2>6 DEF OneSlot
<1>4. CASE SendHeaders
  <2>1. PICK f : f = client_fd
    OBVIOUS
  <2>2. /\ f \in Fds /\ UNCHANGED reused
        /\ \/ UNCHANGED <<client_fd, fd_conn>>
           \/ client_fd' = 0 /\ fd_conn' = [fd_conn EXCEPT ![f] = 0]
    BY <1>4, <2>1, HeadersSent
  <2>3. \A g \in Fds : fd_conn'[g] # 0 => fd_conn'[g] = fd_conn[g]
    BY <1>1, <2>2
  <2>4. \A g \in Fds : g = client_fd' => g = client_fd
    BY <2>2 DEF Fds
  <2>5. ~AddClient
    BY <1>4 DEF SendHeaders, AddClient
  <2> QED
    BY <1>2, <2>2, <2>3, <2>4, <2>5 DEF OneSlot
<1>5. CASE AddClient
  <2>1. PICK m : m = NextManager
    OBVIOUS
  <2>2. PICK f : f = client_fd
    OBVIOUS
  <2>3. f \in Fds
    BY <1>5, <2>2 DEF AddClient, DescriptorInv
  <2>4. /\ \A t \in WriteThreads : \A s \in 1..Len(client_fd_arr[t]) :
             client_fd_arr'[t][s] = client_fd_arr[t][s]
        /\ \/ client_fd_arr' = client_fd_arr
           \/ /\ client_fd_arr'[m][Len(client_fd_arr[m]) + 1] = f
              /\ \A t \in WriteThreads :
                   Len(client_fd_arr'[t]) = IF t = m THEN Len(client_fd_arr[t]) + 1
                                                     ELSE Len(client_fd_arr[t])
    BY <1>5, <2>1, <2>2, <2>3, LongerList
  <2>5. client_fd' = 0 /\ UNCHANGED <<fd_conn, reused>>
    BY <1>5 DEF AddClient, BackToWait
  <2>6. 0 \notin Fds
    BY DEF Fds
  <2>7. CASE client_fd_arr' = client_fd_arr
    BY <2>5, <2>6, <2>7 DEF OneSlot
  <2>8. CASE /\ client_fd_arr'[m][Len(client_fd_arr[m]) + 1] = f
             /\ \A t \in WriteThreads :
                  Len(client_fd_arr'[t]) = IF t = m THEN Len(client_fd_arr[t]) + 1
                                                    ELSE Len(client_fd_arr[t])
    <3>1. \A t \in WriteThreads : \A s \in 1..Len(client_fd_arr'[t]) :
            \/ s \in 1..Len(client_fd_arr[t])
            \/ t = m /\ s = Len(client_fd_arr[m]) + 1
      BY <2>8, ListType
    <3> SUFFICES ASSUME NEW g \in Fds, fd_conn[g] # 0, fd_conn[g] \notin reused,
                        NEW t \in WriteThreads, NEW u \in WriteThreads,
                        NEW s \in 1..Len(client_fd_arr'[t]), NEW r \in 1..Len(client_fd_arr'[u]),
                        client_fd_arr'[t][s] = g, client_fd_arr'[u][r] = g
                 PROVE  t = u /\ s = r
      BY <2>5, <2>6 DEF OneSlot
    <3>2. CASE s \in 1..Len(client_fd_arr[t]) /\ r \in 1..Len(client_fd_arr[u])
      <4>1. client_fd_arr[t][s] = g /\ client_fd_arr[u][r] = g
        BY <2>4, <3>2
      <4> QED
        BY <3>2, <4>1 DEF OneSlot
    <3>3. CASE s \in 1..Len(client_fd_arr[t]) /\ u = m /\ r = Len(client_fd_arr[m]) + 1
      <4>1. client_fd_arr[t][s] = g /\ g = client_fd
        BY <2>2, <2>4, <2>8, <3>3
      <4> QED
        BY <3>3, <4>1 DEF OneSlot
    <3>4. CASE r \in 1..Len(client_fd_arr[u]) /\ t = m /\ s = Len(client_fd_arr[m]) + 1
      <4>1. client_fd_arr[u][r] = g /\ g = client_fd
        BY <2>2, <2>4, <2>8, <3>4
      <4> QED
        BY <3>4, <4>1 DEF OneSlot
    <3> QED
      BY <3>1, <3>2, <3>3, <3>4
  <2> QED
    BY <2>4, <2>7, <2>8
<1>6. ASSUME NEW fd \in Fds, CloseClient(fd)
      PROVE  OneSlot'
  <2>1. \A g \in Fds : fd_conn'[g] # 0 => fd_conn'[g] = fd_conn[g]
    BY <1>1, <1>6 DEF CloseClient
  <2>2. UNCHANGED <<client_fd, reused>> /\ ~AddClient
    BY <1>6 DEF CloseClient, AddClient
  <2> QED
    BY <1>2, <2>1, <2>2 DEF OneSlot
<1>7. ASSUME \/ \E c \in Conns : Leave(c)
             \/ \E t \in WriteThreads : WriteStep(t)
             \/ UNCHANGED vars
      PROVE  OneSlot'
  <2>1. UNCHANGED serverVars
    BY <1>7 DEF Leave, WriteStep, TakeMessage, EndOfList, SkipLost, SendToSlot, vars
  <2>2. UNCHANGED <<fd_conn, client_fd, reused, server>>
    BY <2>1 DEF serverVars
  <2>3. ~AddClient
    BY <2>2 DEF AddClient, BackToWait
  <2> QED
    BY <1>2, <2>2, <2>3 DEF OneSlot
<1> QED
  BY <1>3, <1>4, <1>5, <1>6, <1>7 DEF Next, ServerStep


-----------------------------------------------------------------------------
(* What a client receives.                                                  *)

LEMMA HeadersStep ==
  TypeOK /\ DescriptorInv /\ OneSlot /\ HeadersFirst /\ [Next]_vars => HeadersFirst'
<1> SUFFICES ASSUME TypeOK, DescriptorInv, OneSlot, HeadersFirst, [Next]_vars
             PROVE  HeadersFirst'
  OBVIOUS
<1>1. /\ fd_conn \in [Fds -> 0..MaxConns]
      /\ 0 \notin Fds
      /\ \A f \in Fds : fd_conn[f] # 0 => fd_conn[f] \in Conns
  BY ConnType DEF TypeOK, Fds
<1>2. ASSUME UNCHANGED <<server, client_fd, fd_conn, got, reused>>, NetKept
      PROVE  HeadersFirst'
  BY <1>1, <1>2 DEF HeadersFirst, NetKept
<1>3. CASE Accept
  <2>1. PICK c : c = accepted + 1
    OBVIOUS
  <2>2. PICK f \in Fds :
          /\ fd_conn[f] = 0 /\ c \in Conns /\ c > accepted
          /\ fd_conn' = [fd_conn EXCEPT ![f] = c] /\ client_fd' = f /\ server' = "headers"
          /\ reused' = IF OnAList(f) THEN reused \cup {c} ELSE reused
          /\ peer' = [peer EXCEPT ![c] = "here"]
          /\ UNCHANGED got
    BY <1>3, <2>1, Accepted
  <2>3. got[c] = <<>>
    BY <2>2 DEF DescriptorInv
  <2>4. client_fd = 0
    BY <1>3 DEF Accept, TypeOK
  <2>5. \A g \in Fds : fd_conn'[g] = IF g = f THEN c ELSE fd_conn[g]
    BY <1>1, <2>2
  <2>6. ASSUME NEW g \in Fds, g # f, fd_conn[g] # 0
        PROVE  /\ peer'[fd_conn[g]] = peer[fd_conn[g]]
               /\ fd_conn[g] \in reused => fd_conn[g] \in reused'
    <3>1. fd_conn[g] <= accepted /\ fd_conn[g] \in Conns
      BY <1>1, <2>6 DEF DescriptorInv
    <3>2. fd_conn[g] # c
      BY <2>1, <3>1 DEF TypeOK, Conns
    <3> QED
      BY <2>2, <3>1, <3>2 DEF TypeOK
  <2> QED
    BY <1>1, <2>2, <2>3, <2>4, <2>5, <2>6 DEF HeadersFirst
<1>4. CASE SendHeaders
  <2>1. PICK f : f = client_fd
    OBVIOUS
  <2>2. /\ server = "headers" /\ f \in Fds /\ fd_conn[f] = accepted /\ accepted \in Conns
        /\ NetKept /\ UNCHANGED reused
        /\ \/ /\ server' = "add" /\ UNCHANGED <<client_fd, fd_conn>>
              /\ \/ /\ peer[accepted] = "here"
                    /\ got' = [got EXCEPT ![accepted] = Append(got[accepted], Headers)]
                 \/ peer[accepted] # "here" /\ got' = got
           \/ /\ server' = "wait" /\ client_fd' = 0
              /\ fd_conn' = [fd_conn EXCEPT ![f] = 0] /\ got' = got
           \/ UNCHANGED <<server, client_fd, fd_conn, peer, got, slow>>
    BY <1>4, <2>1, HeadersSent
  <2>3. CASE /\ server' = "add" /\ UNCHANGED <<client_fd, fd_conn>>
             /\ \/ /\ peer[accepted] = "here"
                   /\ got' = [got EXCEPT ![accepted] = Append(got[accepted], Headers)]
                \/ peer[accepted] # "here" /\ got' = got
    <3> SUFFICES ASSUME NEW g \in Fds, NEW c, c = fd_conn[g], c # 0, c \notin reused,
                        peer'[c] = "here"
                 PROVE  IF g = f THEN got'[c] = <<Headers>> ELSE got'[c] # <<>>
      BY <2>1, <2>2, <2>3 DEF HeadersFirst
    <3>1. c \in Conns /\ peer[c] = "here"
      BY <1>1, <2>2 DEF NetKept
    <3>2. CASE g = f
      <4>1. got[c] = <<>>
        BY <2>1, <2>2, <3>1, <3>2 DEF HeadersFirst
      <4>2. got' = [got EXCEPT ![c] = Append(got[c], Headers)]
        BY <2>2, <2>3, <3>1, <3>2
      <4>3. got'[c] = Append(got[c], Headers)
        BY <3>1, <4>2 DEF TypeOK
      <4> QED
        BY <3>2, <4>1, <4>3
    <3>3. CASE g # f
      <4>1. c # accepted
        BY <2>2, <3>3 DEF DescriptorInv
      <4>2. got'[c] = got[c]
        BY <2>3, <3>1, <4>1 DEF TypeOK
      <4> QED
        BY <2>1, <3>1, <3>3, <4>2 DEF HeadersFirst
    <3> QED
      BY <3>2, <3>3
  <2>4. CASE /\ client_fd' = 0 /\ fd_conn' = [fd_conn EXCEPT ![f] = 0] /\ got' = got
    <3>1. \A g \in Fds : fd_conn'[g] = IF g = f THEN 0 ELSE fd_conn[g]
      BY <1>1, <2>4
    <3> SUFFICES ASSUME NEW g \in Fds, g # f, NEW c, c = fd_conn[g], c # 0, c \notin reused,
                        peer'[c] = "here"
                 PROVE  got[c] # <<>>
      BY <1>1, <2>2, <2>4, <3>1 DEF HeadersFirst
    <3>2. peer[c] = "here"
      BY <1>1, <2>2 DEF NetKept
    <3> QED
      BY <2>1, <3>2 DEF HeadersFirst
  <2> QED
    BY <1>2, <2>2, <2>3, <2>4
<1>5. CASE AddClient
  <2>1. /\ server = "add" /\ client_fd' = 0
        /\ UNCHANGED <<fd_conn, reused, peer, got>>
    BY <1>5 DEF AddClient, BackToWait, netVars
  <2>2. <<Headers>> # <<>>
    OBVIOUS
  <2> QED
    BY <1>1, <2>1, <2>2 DEF HeadersFirst
<1>6. ASSUME NEW fd \in Fds, CloseClient(fd)
      PROVE  HeadersFirst'
  <2>1. \A g \in Fds : fd_conn'[g] # 0 => fd_conn'[g] = fd_conn[g]
    BY <1>1, <1>6 DEF CloseClient
  <2>2. UNCHANGED <<server, client_fd, reused, got>> /\ NetKept
    BY <1>6, CloseKeeps DEF CloseClient
  <2> QED
    BY <1>1, <2>1, <2>2 DEF HeadersFirst, NetKept
<1>7. ASSUME NEW t \in WriteThreads, SendToSlot(t)
      PROVE  HeadersFirst'
  <2>1. PICK s, f, c : s = slot[t] /\ f = client_fd_arr[t][s] /\ c = fd_conn[f]
    OBVIOUS
  <2>2. /\ s \in 1..Len(client_fd_arr[t]) /\ f \in Fds /\ NetKept
        /\ UNCHANGED <<server, client_fd, fd_conn, reused>>
        /\ \/ /\ c \in Conns
              /\ got' = [got EXCEPT ![c] = Append(got[c], message[t])]
           \/ got' = got
    BY <1>7, <2>1, SlotSent DEF serverVars
  <2>3. CASE c \in Conns /\ got' = [got EXCEPT ![c] = Append(got[c], message[t])]
    <3>1. /\ got'[c] = Append(got[c], message[t])
          /\ \A d \in Conns : d # c => got'[d] = got[d]
      BY <2>3, GotType, ListType
    <3>2. got[c] \in Seq(0..MaxMsgs) /\ message[t] \in 0..MaxMsgs
      BY <2>3, ListType DEF TypeOK
    <3>3. got'[c] # <<>>
      BY <3>1, <3>2
    <3> SUFFICES ASSUME NEW g \in Fds, NEW d, d = fd_conn[g], d # 0, d \notin reused,
                        peer'[d] = "here"
                 PROVE  IF g = client_fd
                          THEN got'[d] = IF server = "headers" THEN <<>> ELSE <<Headers>>
                          ELSE got'[d] # <<>>
      BY <2>2 DEF HeadersFirst
    <3>4. d \in Conns /\ peer[d] = "here"
      BY <1>1, <2>2 DEF NetKept
    <3>5. CASE d # c
      BY <3>1, <3>4, <3>5 DEF HeadersFirst
    <3>6. CASE d = c
      <4>1. g = f
        BY <2>1, <2>2, <3>6 DEF DescriptorInv
      <4>2. g # client_fd
        BY <2>1, <2>2, <4>1 DEF OneSlot
      <4> QED
        BY <3>3, <3>6, <4>2
    <3> QED
      BY <3>5, <3>6
  <2> QED
    BY <1>2, <2>2, <2>3
<1>8. ASSUME NEW t \in WriteThreads, TakeMessage(t) \/ EndOfList(t) \/ SkipLost(t)
      PROVE  HeadersFirst'
  <2>1. UNCHANGED serverVars /\ UNCHANGED netVars
    BY <1>8 DEF TakeMessage, EndOfList, SkipLost
  <2> QED
    BY <1>2, <2>1, NetStays DEF serverVars, netVars
<1>9. ASSUME NEW c \in Conns, Leave(c)
      PROVE  HeadersFirst'
  <2>1. UNCHANGED serverVars /\ NetKept /\ UNCHANGED got
    BY <1>9, LeaveKeeps DEF Leave
  <2> QED
    BY <1>2, <2>1 DEF serverVars
<1>10. CASE UNCHANGED vars
  BY <1>2, <1>10, NetStays DEF vars, serverVars, netVars
<1> QED
  BY <1>3, <1>4, <1>5, <1>6, <1>7, <1>8, <1>9, <1>10 DEF Next, ServerStep, WriteStep

\* A stream goes on with the message that follows the last one, or with any
\* message after the headers.
LEMMA StreamGoesOn ==
  ASSUME NEW s \in Seq(Nat), IsStream(s), s # <<>>, NEW m \in Nat \ {0},
         s[Len(s)] \in {Headers, m - 1}
  PROVE  IsStream(Append(s, m))
<1>1. /\ Len(Append(s, m)) = Len(s) + 1
      /\ \A i \in 1..Len(s) : Append(s, m)[i] = s[i]
      /\ Append(s, m)[Len(s) + 1] = m
  BY AppendElements
<1>2. Len(s) \in Nat \ {0}
  OBVIOUS
<1>3. \A i \in 1..Len(s) : /\ s[i] = Headers <=> i = 1
                           /\ i > 2 => s[i] = s[i - 1] + 1
  BY DEF IsStream
<1>4. ASSUME NEW i \in 1..Len(s)
      PROVE  /\ Append(s, m)[i] = Headers <=> i = 1
             /\ i > 2 => Append(s, m)[i] = Append(s, m)[i - 1] + 1
  <2>1. i > 2 => i - 1 \in 1..Len(s)
    BY <1>2
  <2> QED
    BY <1>1, <1>3, <2>1
<1>5. m # Headers /\ Len(s) + 1 # 1
  BY <1>2 DEF Headers
<1>6. Len(s) + 1 > 2 => m = s[Len(s)] + 1
  <2>1. Len(s) + 1 > 2 => s[Len(s)] # Headers
    BY <1>2, <1>3
  <2> QED
    BY <2>1
<1>7. \A i \in 1..(Len(s) + 1) : i \in 1..Len(s) \/ i = Len(s) + 1
  BY <1>2
<1>8. (Len(s) + 1) - 1 = Len(s) /\ Len(s) \in 1..Len(s)
  BY <1>2
<1>9. \A i \in 1..(Len(s) + 1) :
        /\ Append(s, m)[i] = Headers <=> i = 1
        /\ i > 2 => Append(s, m)[i] = Append(s, m)[i - 1] + 1
  BY <1>1, <1>4, <1>5, <1>6, <1>7, <1>8
<1> QED
  BY <1>1, <1>9 DEF IsStream

LEMMA StreamStep ==
  /\ TypeOK /\ DescriptorInv /\ WalkInv /\ OneSlot /\ HeadersFirst
  /\ NobodyForgotten /\ OwnStream /\ [Next]_vars
  => OwnStream'
<1> SUFFICES ASSUME TypeOK, DescriptorInv, WalkInv, OneSlot, HeadersFirst,
                    NobodyForgotten, OwnStream, [Next]_vars
             PROVE  OwnStream'
  OBVIOUS
<1>1. got \in [Conns -> Seq(0..MaxMsgs)]
  BY DEF TypeOK
<1>2. ASSUME UNCHANGED got, reused \subseteq reused'
      PROVE  OwnStream'
  BY <1>2 DEF OwnStream
<1>3. CASE SendHeaders
  <2>1. PICK f : f = client_fd
    OBVIOUS
  <2>2. /\ server = "headers" /\ f \in Fds /\ fd_conn[f] = accepted /\ accepted \in Conns
        /\ UNCHANGED reused
        /\ \/ /\ peer[accepted] = "here"
              /\ got' = [got EXCEPT ![accepted] = Append(got[accepted], Headers)]
           \/ got' = got
    BY <1>3, <2>1, HeadersSent
  <2>3. CASE /\ peer[accepted] = "here" /\ accepted \notin reused
             /\ got' = [got EXCEPT ![accepted] = Append(got[accepted], Headers)]
    <3>1. got[accepted] = <<>>
      <4>1. accepted # 0
        BY <2>2 DEF Conns
      <4> QED
        BY <2>1, <2>2, <2>3, <4>1 DEF HeadersFirst
    <3>2. got'[accepted] = <<Headers>>
      BY <1>1, <2>2, <2>3, <3>1
    <3>3. IsStream(<<Headers>>)
      BY DEF IsStream
    <3>4. \A c \in Conns : c # accepted => got'[c] = got[c]
      BY <1>1, <2>3
    <3> QED
      BY <2>2, <3>2, <3>3, <3>4 DEF OwnStream
  <2>4. CASE /\ accepted \in reused
             /\ got' = [got EXCEPT ![accepted] = Append(got[accepted], Headers)]
    <3>1. \A c \in Conns \ reused : got'[c] = got[c]
      BY <1>1, <2>4
    <3> QED
      BY <2>2, <3>1 DEF OwnStream
  <2> QED
    BY <1>2, <2>2, <2>3, <2>4
<1>4. ASSUME NEW t \in WriteThreads, SendToSlot(t)
      PROVE  OwnStream'
  <2>1. PICK s, f, c : s = slot[t] /\ f = client_fd_arr[t][s] /\ c = fd_conn[f]
    OBVIOUS
  <2>2. /\ s \in 1..Len(client_fd_arr[t]) /\ f \in Fds /\ UNCHANGED reused
        /\ \/ /\ c \in Conns /\ peer[c] = "here"
              /\ got' = [got EXCEPT ![c] = Append(got[c], message[t])]
           \/ got' = got
    BY <1>4, <2>1, SlotSent DEF serverVars
  <2>3. CASE /\ c \in Conns /\ peer[c] = "here"
             /\ got' = [got EXCEPT ![c] = Append(got[c], message[t])]
    <3>1. \A d \in Conns : d # c => got'[d] = got[d]
      BY <1>1, <2>3
    <3>2. got'[c] = Append(got[c], message[t])
      BY <1>1, <2>3
    <3>3. c # 0
      BY <2>3 DEF Conns
    <3>4. ASSUME c \notin reused
          PROVE  IsStream(got'[c])
      <4>1. f # client_fd
        BY <2>1, <2>2, <3>3, <3>4 DEF OneSlot
      <4>2. got[c] # <<>>
        BY <2>1, <2>2, <2>3, <3>3, <3>4, <4>1 DEF HeadersFirst
      <4>3. message[t] \in Nat \ {0} /\ s > 0
        <5>1. s > 0
          BY <2>2, ListType
        <5>2. message[t] > 0
          BY <2>1, <5>1 DEF WalkInv
        <5> QED
          BY <5>1, <5>2, ListType
      <4>4. Ahead(t, s)
        BY <2>1, <4>3, ListType DEF Ahead
      <4>5. got[c][Len(got[c])] \in {Headers, message[t] - 1}
        BY <2>1, <2>2, <2>3, <3>3, <3>4, <4>4, LostIsNoFd DEF NobodyForgotten, LastDue
      <4>6. got[c] \in Seq(Nat) /\ IsStream(got[c])
        <5>1. got[c] \in Seq(0..MaxMsgs)
          BY <1>1, <2>3
        <5>2. 0..MaxMsgs \subseteq Nat
          OBVIOUS
        <5>3. got[c] \in Seq(Nat)
          BY <5>1, <5>2, SeqOfMore
        <5> QED
          BY <2>3, <3>4, <5>3 DEF OwnStream
      <4> QED
        BY <3>2, <4>2, <4>3, <4>5, <4>6, StreamGoesOn
    <3> QED
      BY <2>2, <3>1, <3>4 DEF OwnStream
  <2> QED
    BY <1>2, <2>2, <2>3
<1>5. ASSUME \/ \E c \in Conns : Leave(c)
             \/ Accept \/ AddClient \/ (\E fd \in Fds : CloseClient(fd))
             \/ (\E t \in WriteThreads : TakeMessage(t) \/ EndOfList(t) \/ SkipLost(t))
             \/ UNCHANGED vars
      PROVE  UNCHANGED got /\ reused \subseteq reused'
  BY <1>5 DEF Leave, Accept, AddClient, CloseClient, TakeMessage, EndOfList, SkipLost,
              vars, serverVars, netVars
<1> QED
  BY <1>2, <1>3, <1>4, <1>5 DEF Next, ServerStep, WriteStep


\* What NobodyForgotten says of one slot.
UpToDate(last, due, first) ==
  \/ due >= first /\ last = due
  \/ due + 1 = first /\ last = Headers

\* The last thing a client got.
LastGot(c) == got[c][Len(got[c])]

LEMMA ForgottenBefore ==
  ASSUME NobodyForgotten, NEW t \in WriteThreads, NEW s \in 1..Len(client_fd_arr[t]),
         NEW f, f = client_fd_arr[t][s], f # LOST,
         NEW c, c = fd_conn[f], c # 0, c \notin reused, peer[c] = "here"
  PROVE  UpToDate(LastGot(c), LastDue(t, s), first_due[c])
  BY DEF NobodyForgotten, UpToDate, LastGot

LEMMA ForgottenAfter ==
  ASSUME ASSUME NEW t \in WriteThreads, NEW s \in 1..Len(client_fd_arr'[t]),
                NEW f, f = client_fd_arr'[t][s], f # LOST,
                NEW c, c = fd_conn'[f], c # 0, c \notin reused', peer'[c] = "here"
         PROVE  UpToDate(LastGot(c)', LastDue(t, s)', first_due'[c])
  PROVE  NobodyForgotten'
<1> SUFFICES ASSUME NEW t \in WriteThreads, NEW s \in 1..Len(client_fd_arr'[t]),
                    client_fd_arr'[t][s] # LOST,
                    NEW c, c = fd_conn'[client_fd_arr'[t][s]],
                    c # 0, c \notin reused', peer'[c] = "here"
             PROVE  LET last == got'[c][Len(got'[c])] IN
                      \/ LastDue(t, s)' >= first_due'[c] /\ last = LastDue(t, s)'
                      \/ LastDue(t, s)' + 1 = first_due'[c] /\ last = Headers
  BY DEF NobodyForgotten
<1>1. UpToDate(LastGot(c)', LastDue(t, s)', first_due'[c])
  OBVIOUS
<1> QED
  BY <1>1 DEF UpToDate, LastGot

LEMMA ForgottenStep ==
  /\ TypeOK /\ DescriptorInv /\ WalkInv /\ OneSlot /\ HeadersFirst
  /\ NobodyForgotten /\ [Next]_vars
  => NobodyForgotten'
<1> SUFFICES ASSUME TypeOK, DescriptorInv, WalkInv, OneSlot, HeadersFirst,
                    NobodyForgotten, [Next]_vars,
                    NEW t \in WriteThreads, NEW s \in 1..Len(client_fd_arr'[t]),
                    NEW f, f = client_fd_arr'[t][s], f # LOST,
                    NEW c, c = fd_conn'[f], c # 0, c \notin reused', peer'[c] = "here"
             PROVE  UpToDate(LastGot(c)', LastDue(t, s)', first_due'[c])
  BY ForgottenAfter
<1>1. /\ fd_conn \in [Fds -> 0..MaxConns] /\ 0 \notin Fds
      /\ slot \in [WriteThreads -> 0..(ListSize + 1)]
      /\ message \in [WriteThreads -> 0..MaxMsgs]
      /\ got \in [Conns -> Seq(0..MaxMsgs)]
      /\ first_due \in [Conns -> 0..(MaxMsgs + 1)]
  BY DEF TypeOK, Fds
<1>2. /\ \A r \in 1..Len(client_fd_arr[t]) : client_fd_arr[t][r] \in Fds \cup {LOST}
      /\ slot[t] \in Nat /\ message[t] \in Nat /\ Len(client_fd_arr[t]) \in Nat
  BY ListType DEF Entries
<1>3. ASSUME s \in 1..Len(client_fd_arr[t]), f = client_fd_arr[t][s], c = fd_conn[f],
             c \notin reused, peer[c] = "here"
      PROVE  UpToDate(LastGot(c), LastDue(t, s), first_due[c])
  BY <1>3, ForgottenBefore
\* Nothing the slot depends on has changed.
<1>4. ASSUME UNCHANGED <<client_fd_arr, slot, message, first_due>>, got'[c] = got[c],
             c = fd_conn[f], c \notin reused, peer[c] = "here"
      PROVE  UpToDate(LastGot(c)', LastDue(t, s)', first_due'[c])
  BY <1>3, <1>4 DEF LastGot, Ahead, LastDue
<1>5. ASSUME NEW d \in Conns, Leave(d)
      PROVE  UpToDate(LastGot(c)', LastDue(t, s)', first_due'[c])
  <2>1. NetKept /\ UNCHANGED <<got, client_fd_arr, slot, message, fd_conn, reused,
                             first_due>>
    BY <1>5, LeaveKeeps DEF Leave, threadVars, serverVars
  <2>2. f \in Fds
    BY <1>2, <2>1
  <2>3. c \in Conns
    BY <2>1, <2>2, ConnType
  <2> QED
    BY <1>4, <2>1, <2>3 DEF NetKept
<1>6. CASE Accept
  <2>1. PICK d : d = accepted + 1
    OBVIOUS
  <2>2. PICK g \in Fds :
          /\ d > accepted
          /\ fd_conn' = [fd_conn EXCEPT ![g] = d]
          /\ reused' = IF OnAList(g) THEN reused \cup {d} ELSE reused
          /\ peer' = [peer EXCEPT ![d] = "here"]
          /\ UNCHANGED <<client_fd_arr, slot, message, got, first_due>>
    BY <1>6, <2>1, Accepted
  <2>3. f \in Fds
    BY <1>2, <2>2
  <2>4. f # g
    <3>1. f = g => OnAList(g)
      BY <2>2 DEF OnAList
    <3>2. f = g => c = d
      BY <1>1, <2>2
    <3> QED
      BY <2>2, <3>1, <3>2
  <2>5. c = fd_conn[f] /\ c \notin reused
    BY <1>1, <2>2, <2>3, <2>4
  <2>6. c \in Conns /\ c # d
    <3>1. c <= accepted /\ c \in Conns
      BY <2>3, <2>5, ConnType DEF DescriptorInv
    <3> QED
      BY <2>1, <3>1 DEF Conns, TypeOK
  <2>7. peer[c] = "here"
    BY <2>2, <2>6 DEF TypeOK
  <2> QED
    BY <1>4, <2>2, <2>5, <2>7
<1>7. CASE SendHeaders
  <2>1. PICK g : g = client_fd
    OBVIOUS
  <2>2. /\ g \in Fds /\ fd_conn[g] = accepted /\ accepted \in Conns
        /\ NetKept /\ UNCHANGED <<reused, client_fd_arr, message, slot, first_due>>
        /\ \/ /\ UNCHANGED fd_conn
              /\ \/ got' = [got EXCEPT ![accepted] = Append(got[accepted], Headers)]
                 \/ got' = got
           \/ fd_conn' = [fd_conn EXCEPT ![g] = 0] /\ got' = got
           \/ UNCHANGED <<fd_conn, got>>
    BY <1>7, <2>1, HeadersSent
  <2>3. f \in Fds
    BY <1>2, <2>2
  <2>4. c = fd_conn[f] /\ c \in Conns
    <3>1. c = fd_conn[f]
      BY <1>1, <2>2, <2>3
    <3> QED
      BY <2>3, <3>1, ConnType
  <2>5. peer[c] = "here"
    BY <2>2, <2>4 DEF NetKept
  <2>6. f # g
    BY <2>1, <2>2, <2>3, <2>4 DEF OneSlot
  <2>7. c # accepted
    BY <2>2, <2>3, <2>4, <2>6 DEF DescriptorInv
  <2>8. got'[c] = got[c]
    BY <1>1, <2>2, <2>4, <2>7
  <2> QED
    BY <1>4, <2>2, <2>4, <2>5, <2>8
<1>8. CASE AddClient
  <2>1. PICK m : m = NextManager
    OBVIOUS
  <2>2. server = "add" /\ client_fd \in Fds
    BY <1>8 DEF AddClient, DescriptorInv
  <2>3. /\ \A r \in 1..Len(client_fd_arr[t]) : client_fd_arr'[t][r] = client_fd_arr[t][r]
        /\ \/ UNCHANGED <<client_fd_arr, first_due>>
           \/ /\ client_fd_arr'[m][Len(client_fd_arr[m]) + 1] = client_fd
              /\ Due(m)
              /\ Len(client_fd_arr'[t]) = IF t = m THEN Len(client_fd_arr[t]) + 1
                                                   ELSE Len(client_fd_arr[t])
    BY <1>8, <2>1, <2>2, LongerList
  <2>4. UNCHANGED <<fd_conn, reused, slot, message, peer, got>>
    BY <1>8 DEF AddClient, threadVars, netVars
  <2>5. CASE s \in 1..Len(client_fd_arr[t])
    <3>1. UpToDate(LastGot(c), LastDue(t, s), first_due[c])
      BY <1>3, <2>3, <2>4, <2>5
    <3>2. f \in Fds /\ f = client_fd_arr[t][s] /\ c = fd_conn[f] /\ c \notin reused
      BY <1>2, <2>3, <2>4, <2>5
    <3>3. c \in Conns
      BY <3>2, ConnType
    <3>4. f # client_fd
      BY <2>5, <3>2 DEF OneSlot
    <3>5. c # fd_conn[client_fd]
      BY <2>2, <3>2, <3>4 DEF DescriptorInv
    <3>6. first_due'[c] = first_due[c]
      BY <1>1, <2>3, <3>3, <3>5 DEF Due
    <3> QED
      BY <2>4, <3>1, <3>6 DEF LastGot, Ahead, LastDue
  <2>6. CASE t = m /\ s = Len(client_fd_arr[m]) + 1 /\ f = client_fd /\ Due(m)
    <3>1. got[c] = <<Headers>>
      BY <2>2, <2>4, <2>6 DEF HeadersFirst
    <3>2. LastGot(c)' = Headers
      <4>1. got'[c] = <<Headers>> /\ Len(<<Headers>>) = 1 /\ <<Headers>>[1] = Headers
        BY <2>4, <3>1
      <4> QED
        BY <4>1 DEF LastGot
    <3>3. c = fd_conn[client_fd] /\ c \in Conns
      BY <2>2, <2>4, <2>6, ConnType
    <3>4. first_due'[c] = IF slot[m] > 0 THEN message[m] ELSE message[m] + 1
      BY <1>1, <2>6, <3>3 DEF Due
    <3>5. Ahead(t, s)' <=> slot[m] > 0
      <4>1. slot[m] <= Len(client_fd_arr[m]) + 1
        BY <2>6 DEF WalkInv
      <4> QED
        BY <2>4, <2>6, <4>1 DEF Ahead
    <3>6. LastDue(t, s)' + 1 = first_due'[c]
      BY <1>2, <2>4, <2>6, <3>4, <3>5 DEF LastDue
    <3> QED
      BY <3>2, <3>6 DEF UpToDate
  <2> QED
    BY <1>2, <2>3, <2>5, <2>6
<1>9. ASSUME NEW fd \in Fds, CloseClient(fd)
      PROVE  UpToDate(LastGot(c)', LastDue(t, s)', first_due'[c])
  <2>1. /\ UNCHANGED <<reused, client_fd_arr, slot, message, got, first_due>> /\ NetKept
        /\ fd_conn' = [fd_conn EXCEPT ![fd] = 0]
    BY <1>9, CloseKeeps DEF CloseClient, threadVars
  <2>2. f \in Fds
    BY <1>2, <2>1
  <2>3. c = fd_conn[f] /\ c \in Conns
    BY <1>1, <2>1, <2>2, ConnType
  <2> QED
    BY <1>4, <2>1, <2>3 DEF NetKept
<1>10. ASSUME NEW u \in WriteThreads, TakeMessage(u)
       PROVE  UpToDate(LastGot(c)', LastDue(t, s)', first_due'[c])
  <2>1. /\ UNCHANGED serverVars /\ UNCHANGED netVars /\ UNCHANGED client_fd_arr
        /\ slot[u] = 0
        /\ message' = [message EXCEPT ![u] = @ + 1] /\ slot' = [slot EXCEPT ![u] = 1]
    BY <1>10 DEF TakeMessage
  <2>2. /\ UpToDate(LastGot(c), LastDue(t, s), first_due[c]) /\ LastGot(c)' = LastGot(c)
        /\ first_due'[c] = first_due[c]
    BY <1>3, <2>1 DEF serverVars, netVars, LastGot
  <2>3. CASE t = u
    <3>1. message'[t] = message[t] + 1 /\ slot'[t] = 1 /\ s \in 1..Len(client_fd_arr[t])
      BY <1>1, <2>1, <2>3
    <3>2. ~Ahead(t, s) /\ Ahead(t, s)' /\ message'[t] - 1 = message[t]
      BY <1>2, <2>1, <2>3, <3>1 DEF Ahead
    <3> QED
      BY <2>2, <3>2 DEF LastDue
  <2>4. CASE t # u
    BY <1>1, <2>1, <2>2, <2>4 DEF Ahead, LastDue
  <2> QED
    BY <2>3, <2>4
<1>11. ASSUME NEW u \in WriteThreads, EndOfList(u)
       PROVE  UpToDate(LastGot(c)', LastDue(t, s)', first_due'[c])
  <2>1. /\ UNCHANGED serverVars /\ UNCHANGED netVars /\ UNCHANGED <<client_fd_arr, message>>
        /\ slot[u] > Len(client_fd_arr[u]) /\ slot' = [slot EXCEPT ![u] = 0]
    BY <1>11 DEF EndOfList
  <2>2. /\ UpToDate(LastGot(c), LastDue(t, s), first_due[c]) /\ LastGot(c)' = LastGot(c)
        /\ first_due'[c] = first_due[c]
    BY <1>3, <2>1 DEF serverVars, netVars, LastGot
  <2>3. Ahead(t, s)' <=> Ahead(t, s)
    <3>1. s \in 1..Len(client_fd_arr[t])
      BY <2>1
    <3>2. slot'[t] = IF t = u THEN 0 ELSE slot[t]
      BY <1>1, <2>1
    <3> QED
      BY <1>2, <2>1, <3>1, <3>2 DEF Ahead
  <2> QED
    BY <2>1, <2>2, <2>3 DEF LastDue
<1>12. ASSUME NEW u \in WriteThreads, SkipLost(u)
       PROVE  UpToDate(LastGot(c)', LastDue(t, s)', first_due'[c])
  <2>1. /\ UNCHANGED serverVars /\ UNCHANGED netVars /\ UNCHANGED <<client_fd_arr, message>>
        /\ client_fd_arr[u][slot[u]] = LOST /\ slot' = [slot EXCEPT ![u] = slot[u] + 1]
    BY <1>1, <1>12 DEF SkipLost, SlotFd, NextSlot
  <2>2. /\ UpToDate(LastGot(c), LastDue(t, s), first_due[c]) /\ LastGot(c)' = LastGot(c)
        /\ first_due'[c] = first_due[c]
    BY <1>3, <2>1 DEF serverVars, netVars, LastGot
  <2>3. Ahead(t, s)' <=> Ahead(t, s)
    <3>1. s \in 1..Len(client_fd_arr[t]) /\ (t = u => s # slot[u])
      BY <2>1
    <3>2. slot'[t] = IF t = u THEN slot[t] + 1 ELSE slot[t]
      BY <1>1, <2>1
    <3>3. slot[u] \in 1..Len(client_fd_arr[u])
      BY <1>12 DEF SkipLost
    <3> QED
      BY <1>2, <3>1, <3>2, <3>3 DEF Ahead
  <2> QED
    BY <2>1, <2>2, <2>3 DEF LastDue
<1>13. ASSUME NEW u \in WriteThreads, SendToSlot(u)
       PROVE  UpToDate(LastGot(c)', LastDue(t, s)', first_due'[c])
  <2>1. PICK r, g, d : r = slot[u] /\ g = client_fd_arr[u][r] /\ d = fd_conn[g]
    OBVIOUS
  <2>2. /\ r \in 1..Len(client_fd_arr[u]) /\ g \in Fds /\ NetKept
        /\ UNCHANGED <<fd_conn, reused, client_fd, first_due>> /\ UNCHANGED message
        /\ \/ /\ slot' = [slot EXCEPT ![u] = r + 1] /\ UNCHANGED client_fd_arr
              /\ d \in Conns
              /\ \/ peer[d] = "here" /\ got' = [got EXCEPT ![d] = Append(got[d], message[u])]
                 \/ peer[d] # "here" /\ got' = got
           \/ /\ slot' = [slot EXCEPT ![u] = r + 1] /\ got' = got
              /\ client_fd_arr' = [client_fd_arr EXCEPT ![u][r] = LOST]
           \/ UNCHANGED <<client_fd_arr, slot, peer, got, slow>>
    BY <1>13, <2>1, SlotSent DEF serverVars
  <2>3. ListsKept
    BY <1>13, ListsStep DEF SendToSlot, AddClient, serverVars, BackToWait
  <2>4. s \in 1..Len(client_fd_arr[t]) /\ f = client_fd_arr[t][s] /\ f \in Fds
    <3>1. s \in 1..Len(client_fd_arr[t])
      BY <2>3 DEF ListsKept
    <3> QED
      BY <1>2, <2>3, <3>1 DEF ListsKept
  <2>5. c = fd_conn[f] /\ c \in Conns /\ c \notin reused
    BY <2>2, <2>4, ConnType
  <2>6. peer[c] = "here"
    BY <2>2, <2>5 DEF NetKept
  <2>7. UpToDate(LastGot(c), LastDue(t, s), first_due[c])
    BY <1>3, <2>4, <2>5, <2>6
  <2>8. CASE UNCHANGED <<slot, got>>
    BY <2>2, <2>7, <2>8 DEF LastGot, Ahead, LastDue
  <2>9. CASE slot' = [slot EXCEPT ![u] = r + 1] /\ t = u /\ s = r
    <3>1. f = g /\ c = d
      BY <2>1, <2>4, <2>5, <2>9
    <3>2. got' = [got EXCEPT ![c] = Append(got[c], message[t])]
      <4>1. client_fd_arr' # [client_fd_arr EXCEPT ![u][r] = LOST]
        BY <2>2, <2>9, MarkedList
      <4>2. slot' # slot
        BY <1>1, <1>2, <2>1, <2>9
      <4> QED
        BY <2>2, <2>6, <2>9, <3>1, <4>1, <4>2
    <3>3. got'[c] = Append(got[c], message[t]) /\ got[c] \in Seq(0..MaxMsgs)
      BY <1>1, <2>5, <3>2
    <3>4. LastGot(c)' = message[t]
      BY <3>3, AppendElements, ListType DEF LastGot
    <3>5. LastDue(t, s)' = message[t] /\ LastDue(t, s) = message[t] - 1
      <4>1. ~Ahead(t, s)'
        BY <1>1, <1>2, <2>4, <2>9 DEF Ahead
      <4>2. Ahead(t, s)
        BY <1>2, <2>1, <2>4, <2>9 DEF Ahead
      <4> QED
        BY <2>2, <4>1, <4>2 DEF LastDue
    <3>6. first_due[c] \in Nat /\ first_due'[c] = first_due[c]
      BY <1>1, <2>2, <2>5
    <3>7. message[t] >= first_due[c]
      BY <1>2, <2>7, <3>5, <3>6 DEF UpToDate
    <3> QED
      BY <3>4, <3>5, <3>6, <3>7 DEF UpToDate
  <2>10. CASE slot' = [slot EXCEPT ![u] = r + 1] /\ ~(t = u /\ s = r)
    <3>1. f # g
      <4>1. fd_conn[f] # 0 /\ fd_conn[f] \notin reused
        BY <2>5
      <4>2. client_fd_arr[t][s] = f /\ client_fd_arr[u][r] = g
        BY <2>1, <2>4
      <4> QED
        BY <2>2, <2>4, <2>10, <4>1, <4>2 DEF OneSlot
    <3>2. c # d
      BY <2>1, <2>2, <2>4, <2>5, <3>1 DEF DescriptorInv
    <3>3. got'[c] = got[c]
      BY <1>1, <2>2, <2>5, <3>2
    <3>4. slot'[t] = IF t = u THEN r + 1 ELSE slot[t]
      BY <1>1, <2>10
    <3>5. Ahead(t, s)' <=> Ahead(t, s)
      <4>1. r \in Nat \ {0} /\ s \in Nat
        BY <1>2, <2>2, <2>4, ListType
      <4> QED
        BY <1>2, <2>1, <2>10, <3>4, <4>1 DEF Ahead
    <3> QED
      BY <2>2, <2>7, <3>3, <3>5 DEF LastGot, LastDue
  <2> QED
    BY <2>2, <2>8, <2>9, <2>10
<1>14. CASE UNCHANGED vars
  BY <1>4, <1>14 DEF vars, serverVars, threadVars, netVars
<1> QED
  BY <1>5, <1>6, <1>7, <1>8, <1>9, <1>10, <1>11, <1>12, <1>13, <1>14
     DEF Next, ServerStep, WriteStep


-----------------------------------------------------------------------------
(* Who stays on a list.                                                     *)

LEMMA ListedStep ==
  TypeOK /\ DescriptorInv /\ StaysListed /\ [Next]_vars => StaysListed'
<1> SUFFICES ASSUME TypeOK, DescriptorInv, StaysListed, [Next]_vars,
                    NEW f \in Fds, NEW c, c = fd_conn'[f], c # 0, c \notin reused',
                    c \notin slow', peer'[c] = "here", first_due'[c] # 0
             PROVE  OnAList(f)'
  BY DEF StaysListed
<1>1. /\ fd_conn \in [Fds -> 0..MaxConns]
      /\ f # LOST
  BY LostIsNoFd DEF TypeOK
<1>2. ASSUME c = fd_conn[f], c \notin reused \cup slow, peer[c] = "here",
             first_due[c] # 0
      PROVE  OnAList(f)
  BY <1>2 DEF StaysListed
<1>3. ASSUME UNCHANGED <<client_fd_arr, first_due>>,
             c = fd_conn[f], c \notin reused \cup slow, peer[c] = "here"
      PROVE  OnAList(f)'
  BY <1>2, <1>3 DEF OnAList
<1>4. ASSUME UNCHANGED client_fd_arr, UNCHANGED serverVars, NetKept
      PROVE  OnAList(f)'
  <2>1. UNCHANGED <<fd_conn, reused, first_due>>
    BY <1>4 DEF serverVars
  <2>2. c \in Conns
    BY <2>1, ConnType
  <2>3. peer[c] = "here" /\ c \notin slow
    BY <1>4, <2>2 DEF NetKept
  <2> QED
    BY <1>3, <1>4, <2>1, <2>3
<1>5. ASSUME NEW d \in Conns, Leave(d)
      PROVE  OnAList(f)'
  BY <1>4, <1>5, LeaveKeeps DEF Leave
<1>6. CASE Accept
  <2>1. PICK d : d = accepted + 1
    OBVIOUS
  <2>2. PICK g \in Fds :
          /\ fd_conn' = [fd_conn EXCEPT ![g] = d] /\ d \in Conns /\ d > accepted
          /\ reused' = IF OnAList(g) THEN reused \cup {d} ELSE reused
          /\ peer' = [peer EXCEPT ![d] = "here"]
          /\ UNCHANGED <<client_fd_arr, slow, first_due>>
    BY <1>6, <2>1, Accepted
  <2>3. c = fd_conn[f] /\ c \notin reused \cup slow
    <3>1. first_due[d] = 0
      BY <2>2 DEF DescriptorInv
    <3>2. f # g
      BY <1>1, <2>2, <3>1
    <3> QED
      BY <1>1, <2>2, <3>2
  <2>4. c \in Conns /\ c # d
    <3>1. c <= accepted /\ c \in Conns
      BY <2>3, ConnType DEF DescriptorInv
    <3> QED
      BY <2>1, <3>1 DEF Conns, TypeOK
  <2>5. peer[c] = "here"
    BY <2>2, <2>4 DEF TypeOK
  <2> QED
    BY <1>3, <2>2, <2>3, <2>5
<1>7. CASE SendHeaders
  <2>1. PICK g : g = client_fd
    OBVIOUS
  <2>2. /\ NetKept /\ UNCHANGED <<reused, client_fd_arr, first_due>>
        /\ UNCHANGED fd_conn \/ fd_conn' = [fd_conn EXCEPT ![g] = 0]
    BY <1>7, <2>1, HeadersSent
  <2>3. c = fd_conn[f]
    BY <1>1, <2>2
  <2>4. c \in Conns
    BY <2>3, ConnType
  <2>5. peer[c] = "here" /\ c \notin slow
    BY <2>2, <2>4 DEF NetKept
  <2> QED
    BY <1>3, <2>2, <2>3, <2>5
<1>8. CASE AddClient
  <2>1. PICK m : m = NextManager
    OBVIOUS
  <2>2. client_fd \in Fds
    BY <1>8 DEF AddClient, DescriptorInv
  <2>3. /\ m \in WriteThreads
        /\ \A t \in WriteThreads : \A s \in 1..Len(client_fd_arr[t]) :
             client_fd_arr'[t][s] = client_fd_arr[t][s]
        /\ \/ UNCHANGED <<client_fd_arr, first_due>>
           \/ /\ client_fd_arr'[m][Len(client_fd_arr[m]) + 1] = client_fd
              /\ Due(m)
              /\ \A t \in WriteThreads :
                   Len(client_fd_arr'[t]) = IF t = m THEN Len(client_fd_arr[t]) + 1
                                                     ELSE Len(client_fd_arr[t])
    BY <1>8, <2>1, <2>2, LongerList
  <2>4. UNCHANGED <<fd_conn, reused, peer, slow>>
    BY <1>8 DEF AddClient, netVars
  <2>5. CASE UNCHANGED <<client_fd_arr, first_due>>
    BY <1>3, <2>4, <2>5
  <2>6. CASE /\ client_fd_arr'[m][Len(client_fd_arr[m]) + 1] = client_fd
             /\ Due(m)
             /\ \A t \in WriteThreads :
                  Len(client_fd_arr'[t]) = IF t = m THEN Len(client_fd_arr[t]) + 1
                                                    ELSE Len(client_fd_arr[t])
    <3>1. \A t \in WriteThreads : Len(client_fd_arr[t]) \in 0..ListSize
      BY ListType
    <3>2. CASE f = client_fd
      <4>1. Len(client_fd_arr[m]) + 1 \in 1..Len(client_fd_arr'[m])
        BY <2>3, <2>6, <3>1
      <4> QED
        BY <2>3, <2>6, <3>2, <4>1 DEF OnAList
    <3>3. CASE f # client_fd
      <4>1. c \in Conns /\ c = fd_conn[f]
        BY <2>4, ConnType
      <4>2. c # fd_conn[client_fd]
        BY <2>2, <3>3, <4>1 DEF DescriptorInv
      <4>3. first_due[c] # 0
        BY <2>6, <4>1, <4>2 DEF Due, TypeOK
      <4>4. OnAList(f)
        BY <1>2, <2>4, <4>1, <4>3
      <4>5. PICK t \in WriteThreads : \E s \in 1..Len(client_fd_arr[t]) : client_fd_arr[t][s] = f
        BY <4>4 DEF OnAList
      <4>6. PICK s \in 1..Len(client_fd_arr[t]) : client_fd_arr[t][s] = f
        BY <4>5
      <4>7. s \in 1..Len(client_fd_arr'[t]) /\ client_fd_arr'[t][s] = f
        BY <2>3, <2>6, <3>1, <4>6
      <4> QED
        BY <4>7 DEF OnAList
    <3> QED
      BY <3>2, <3>3
  <2> QED
    BY <2>3, <2>5, <2>6
<1>9. ASSUME NEW fd \in Fds, CloseClient(fd)
      PROVE  OnAList(f)'
  <2>1. /\ UNCHANGED <<reused, client_fd_arr, slow, first_due>> /\ NetKept
        /\ fd_conn' = [fd_conn EXCEPT ![fd] = 0]
    BY <1>9, CloseKeeps DEF CloseClient
  <2>2. c = fd_conn[f] /\ c \in Conns
    BY <1>1, <2>1, ConnType
  <2> QED
    BY <1>3, <2>1, <2>2 DEF NetKept
<1>10. ASSUME NEW t \in WriteThreads, TakeMessage(t) \/ EndOfList(t) \/ SkipLost(t)
       PROVE  OnAList(f)'
  <2>1. UNCHANGED serverVars /\ UNCHANGED netVars /\ UNCHANGED client_fd_arr
    BY <1>10 DEF TakeMessage, EndOfList, SkipLost
  <2> QED
    BY <1>4, <2>1, NetStays DEF netVars
<1>11. ASSUME NEW u \in WriteThreads, SendToSlot(u)
       PROVE  OnAList(f)'
  <2>1. PICK r, g, d : r = slot[u] /\ g = client_fd_arr[u][r] /\ d = fd_conn[g]
    OBVIOUS
  <2>2. /\ r \in 1..Len(client_fd_arr[u]) /\ g \in Fds /\ NetKept
        /\ UNCHANGED serverVars
        /\ \/ UNCHANGED client_fd_arr
           \/ /\ client_fd_arr' = [client_fd_arr EXCEPT ![u][r] = LOST]
              /\ d # 0 => d \in slow' \/ peer'[d] # "here"
    BY <1>11, <2>1, SlotSent
  <2>3. CASE UNCHANGED client_fd_arr
    BY <1>4, <2>2, <2>3
  <2>4. CASE /\ client_fd_arr' = [client_fd_arr EXCEPT ![u][r] = LOST]
             /\ d # 0 => d \in slow' \/ peer'[d] # "here"
    <3>1. UNCHANGED <<fd_conn, reused, first_due>>
      BY <2>2 DEF serverVars
    <3>2. f # g
      BY <2>1, <2>4, <3>1
    <3>3. c \in Conns /\ c = fd_conn[f]
      BY <3>1, ConnType
    <3>4. peer[c] = "here" /\ c \notin slow
      BY <2>2, <3>3 DEF NetKept
    <3>5. /\ \A t \in WriteThreads : Len(client_fd_arr'[t]) = Len(client_fd_arr[t])
          /\ \A t \in WriteThreads : \A s \in 1..Len(client_fd_arr[t]) :
               ~(t = u /\ s = r) => client_fd_arr'[t][s] = client_fd_arr[t][s]
      <4>1. r \in 1..Len(client_fd_arr[u])
        BY <2>2
      <4>2. client_fd_arr' = [client_fd_arr EXCEPT ![u][r] = LOST]
        BY <2>4
      <4>3. \A t \in WriteThreads : Len(client_fd_arr'[t]) = Len(client_fd_arr[t])
        BY <4>1, <4>2, MarkedList
      <4>4. \A t \in WriteThreads : \A s \in 1..Len(client_fd_arr[t]) :
              ~(t = u /\ s = r) => client_fd_arr'[t][s] = client_fd_arr[t][s]
        BY <4>1, <4>2, MarkedList
      <4> QED
        BY <4>3, <4>4
    <3>6. OnAList(f)
      BY <1>2, <3>1, <3>3, <3>4
    <3>7. PICK t \in WriteThreads : \E s \in 1..Len(client_fd_arr[t]) : client_fd_arr[t][s] = f
      BY <3>6 DEF OnAList
    <3>8. PICK s \in 1..Len(client_fd_arr[t]) : client_fd_arr[t][s] = f
      BY <3>7
    <3>9. client_fd_arr'[t][s] = f /\ s \in 1..Len(client_fd_arr'[t])
      BY <2>1, <3>2, <3>5, <3>8
    <3> QED
      BY <3>9 DEF OnAList
  <2> QED
    BY <2>2, <2>3, <2>4
<1>12. CASE UNCHANGED vars
  BY <1>4, <1>12, NetStays DEF vars, netVars
<1> QED
  BY <1>5, <1>6, <1>7, <1>8, <1>9, <1>10, <1>11, <1>12 DEF Next, ServerStep, WriteStep

-----------------------------------------------------------------------------
(* The invariant and what follows from it.                                  *)

LEMMA ListInit == Init => ListInv
<1> SUFFICES ASSUME Init
             PROVE  ListInv
  OBVIOUS
<1>1. /\ \A f \in Fds : fd_conn[f] = 0
      /\ \A c \in Conns : peer[c] = "none" /\ got[c] = <<>>
      /\ \A t \in WriteThreads : /\ client_fd_arr[t] = <<>>
                                 /\ slot[t] = 0 /\ message[t] = 0
      /\ server = "wait" /\ accepted = 0 /\ reused = {} /\ round_robin_idx = 0
      /\ \A c \in Conns : first_due[c] = 0
  BY DEF Init
<1>2. DescriptorInv
  BY <1>1 DEF DescriptorInv
<1>3. WalkInv /\ RoundInv
  BY <1>1 DEF WalkInv, RoundInv, WriteThreads
<1>4. OneSlot /\ HeadersFirst /\ StaysListed
  BY <1>1 DEF OneSlot, HeadersFirst, StaysListed
<1>5. OwnStream /\ NobodyForgotten
  BY <1>1 DEF OwnStream, IsStream, NobodyForgotten
<1> QED
  BY <1>2, <1>3, <1>4, <1>5, TypeInit DEF ListInv

\* The whole of ListInv is inductive.
LEMMA ListStep == ListInv /\ [Next]_vars => ListInv'
<1> SUFFICES ASSUME ListInv, [Next]_vars
             PROVE  ListInv'
  OBVIOUS
<1>1. TypeOK' /\ DescriptorInv' /\ WalkInv'
  BY TypeStep, DescriptorStep, WalkStep DEF ListInv
<1>2. OneSlot' /\ HeadersFirst'
  BY OneSlotStep, HeadersStep DEF ListInv
<1>3. OwnStream' /\ NobodyForgotten'
  BY StreamStep, ForgottenStep DEF ListInv
<1>4. StaysListed' /\ RoundInv'
  BY ListedStep, RoundStep DEF ListInv
<1> QED
  BY <1>1, <1>2, <1>3, <1>4 DEF ListInv

\* Every state of the lists and their clients satisfies ListInv, whatever
\* clients and writes do (server_thread, client_writer_add_client,
\* client_write_thread).
THEOREM ListInvariant == SafeSpec => []ListInv
  BY ListInit, ListStep, PTL DEF SafeSpec

\* The server, the lists, the threads and the connections have their types.
THEOREM TypeCorrect == SafeSpec => []TypeOK
<1>1. ListInv => TypeOK
  BY DEF ListInv
<1> QED
  BY ListInvariant, <1>1, PTL

\* A client whose descriptor was on no list when it connected receives the
\* headers and then consecutive messages.
THEOREM ClientStream == SafeSpec => []OwnStream
<1>1. ListInv => OwnStream
  BY DEF ListInv
<1> QED
  BY ListInvariant, <1>1, PTL

\* No walk of a list passes over a client that is there: each has got the last
\* message due to it since it was put on the list.
THEOREM NoneForgotten == SafeSpec => []NobodyForgotten
<1>1. ListInv => NobodyForgotten
  BY DEF ListInv
<1> QED
  BY ListInvariant, <1>1, PTL

\* A client that was put on a list is marked lost only if it leaves, is slow or
\* shares its descriptor, however full the lists are.
THEOREM AddedStays == SafeSpec => []StaysListed
<1>1. ListInv => StaysListed
  BY DEF ListInv
<1> QED
  BY ListInvariant, <1>1, PTL

\* Looking at one list only, the server turns no client away while another
\* list has room.
THEOREM TurnedAway == SafeSpec => TurnedAwayWhenAllFull
<1>1. ListInv /\ [Next]_vars =>
        [AddClient /\ UNCHANGED client_fd_arr
           => \A t \in WriteThreads : Len(client_fd_arr[t]) = ListSize]_vars
  BY RoundFull DEF ListInv
<1> QED
  BY ListInvariant, <1>1, PTL DEF SafeSpec, TurnedAwayWhenAllFull

=============================================================================
