----------------------------- MODULE Broadcast -----------------------------
(***************************************************************************)
(* What the data queue of the SSE server promises to each of its write     *)
(* threads, without rings, indices or message ids.                         *)
(*                                                                         *)
(* Messages are published one after the other and are known by their       *)
(* ordinal: the first one is 1.  A subscriber receives messages in the     *)
(* order they were published and never twice.  While it is at most Window  *)
(* messages behind it loses nothing: the next message it receives is the   *)
(* next one published.  Once it is further behind it may jump, but only to *)
(* one of the Window newest messages.  As long as it stays subscribed and  *)
(* there is something new, it eventually receives something.               *)
(***************************************************************************)
EXTENDS Integers

CONSTANTS
  Subscribers,  \* who listens: the write threads
  Window        \* how many messages are retained: the size of the ring, a
                \* positive number

VARIABLES
  published,    \* number of messages published so far
  received,     \* received[s]: ordinal of the newest message s received, or 0
  active        \* the subscribers that have not left

vars == <<published, received, active>>

Init ==
  /\ published = 0
  /\ received = [s \in Subscribers |-> 0]
  /\ active = Subscribers

Publish ==
  /\ published' = published + 1
  /\ UNCHANGED <<received, active>>

\* n may be the next message s receives.
Receivable(s, n) ==
  /\ received[s] < n
  /\ n <= published
  /\ \/ n = received[s] + 1
     \/ published - received[s] > Window /\ n > published - Window

Receive(s) ==
  /\ s \in active
  /\ \E n \in 1..published :
       /\ Receivable(s, n)
       /\ received' = [received EXCEPT ![s] = n]
  /\ UNCHANGED <<published, active>>

Leave(s) ==
  /\ s \in active
  /\ active' = active \ {s}
  /\ UNCHANGED <<published, received>>

Next ==
  \/ Publish
  \/ \E s \in Subscribers : Receive(s) \/ Leave(s)

SafeSpec == Init /\ [][Next]_vars

Spec == SafeSpec /\ \A s \in Subscribers : WF_vars(Receive(s))

=============================================================================
