------------------------------ MODULE Mailbox -------------------------------
(***************************************************************************)
(* What the message queue promises of its queue messages, without wait     *)
(* lists, timers, topics or the tree of queues: each queue is a channel    *)
(* whose messages are received in the order they were sent, each by one    *)
(* coroutine, and on which nobody is blocked while a message is pending.   *)
(***************************************************************************)
EXTENDS Integers

CONSTANTS Ctx, Qname, NoQueue, Nothing

VARIABLES
  sent, taken,  \* messages sent to and received from each queue
  blocked,      \* the queue a coroutine is blocked on
  got           \* the queue message its last receive returned, or Nothing

vars == <<sent, taken, blocked, got>>

Free(q) == \A c \in Ctx : blocked[c] # q

Init ==
  /\ sent = [q \in Qname |-> 0] /\ taken = [q \in Qname |-> 0]
  /\ blocked = [c \in Ctx |-> NoQueue]
  /\ got = [c \in Ctx |-> Nothing]

(* A message is left for later when nobody is blocked on its queue.        *)
Put(q) ==
  /\ Free(q)
  /\ sent' = [sent EXCEPT ![q] = @ + 1]
  /\ UNCHANGED <<taken, blocked, got>>

(* c gets the next message of q.                                           *)
Gets(c, q) ==
  /\ taken' = [taken EXCEPT ![q] = @ + 1]
  /\ got' = [got EXCEPT ![c] = <<q, taken[q] + 1>>]

Take(c, q) ==
  /\ Free(q) /\ blocked[c] = NoQueue
  /\ taken[q] < sent[q]
  /\ Gets(c, q)
  /\ UNCHANGED <<sent, blocked>>

HandOver(c, q) ==
  /\ blocked[c] = q
  /\ taken[q] = sent[q]
  /\ sent' = [sent EXCEPT ![q] = @ + 1]
  /\ blocked' = [blocked EXCEPT ![c] = NoQueue]
  /\ Gets(c, q)

Block(c, q) ==
  /\ blocked[c] = NoQueue
  /\ taken[q] = sent[q]
  /\ blocked' = [blocked EXCEPT ![c] = q]
  /\ got' = [got EXCEPT ![c] = Nothing]
  /\ UNCHANGED <<sent, taken>>

(* A receive ends with something that is not a queue message.              *)
GoWithout(c) ==
  /\ blocked' = [blocked EXCEPT ![c] = NoQueue]
  /\ got' = [got EXCEPT ![c] = Nothing]
  /\ UNCHANGED <<sent, taken>>

Next ==
  \/ \E q \in Qname : Put(q)
  \/ \E c \in Ctx :
       \/ GoWithout(c)
       \/ \E q \in Qname : Take(c, q) \/ HandOver(c, q) \/ Block(c, q)

Spec == Init /\ [][Next]_vars

=============================================================================
