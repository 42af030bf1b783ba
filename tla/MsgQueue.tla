------------------------------ MODULE MsgQueue ------------------------------
(***************************************************************************)
(* The message queue of a group of Melang coroutines                       *)
(* (src/lib_src/msgqueue).  Coroutines send to and receive from queues by  *)
(* name; a receiver that finds nothing is suspended, is woken by a send,   *)
(* by a broadcast to a topic it subscribes, or by the 10ms timer that      *)
(* expires receivers whose deadline is past.                               *)
(*                                                                         *)
(* A queue and a topic share the name space Qname.  The n-th message sent  *)
(* to a queue is the number n, and so is the n-th message published on a   *)
(* topic: a message carries its place in the order of sending.             *)
(*                                                                         *)
(* All code here runs under the mutex of the mln_lang_t, so that a C       *)
(* function is one step; the two functions that loop (the timer handler    *)
(* and the broadcast) take one step for each turn of the loop and keep the *)
(* other actions out meanwhile.                                            *)
(***************************************************************************)
EXTENDS Integers, Sequences, FiniteSets

CONSTANTS
  Ctx,            \* coroutines (mln_lang_ctx_t)
  Scripts,        \* the coroutines of the script files on the command line
  Qname,          \* names of queues and topics
  NoQueue, NoCtx, \* null pointers
  Timeouts,       \* the positive timeouts that recv is called with
  MaxTime,        \* bound on the clock
  MaxSend,        \* bound on the messages sent to one queue
  MaxPub,         \* bound on the messages published on one topic
  AllocFailures   \* whether the library may run out of memory

ASSUME ConstAssumption ==
  /\ Scripts \subseteq Ctx
  /\ NoQueue \notin Qname /\ NoCtx \notin Ctx
  /\ Timeouts \subseteq Nat \ {0}
  /\ MaxTime \in Nat /\ MaxSend \in Nat /\ MaxPub \in Nat
  /\ AllocFailures \in BOOLEAN

VARIABLES
  status,    \* "new", "run" (in run_head), "wait" (in wait_head) or "end"
  ret,       \* what the last recv of the coroutine returned
  res,       \* which of "mq" and "mq_timeout" are resources of the lang
  lcm,       \* coroutines that own an mln_lang_ctx_mq_t
  topics,    \* lcm->topics: the topics a coroutine subscribes
  tmsgs,     \* the messages queued in each of them
  mqs,       \* the names that have an entry in the tree of queues
  msgs,      \* mq->msg_head ...: messages queued in a queue
  waits,     \* mq->wait_head ...: receivers suspended on a queue
  mqWait,    \* lcm->mq_wait: the queue the coroutine is suspended on
  heap,      \* the suspended receivers that are in the timeout heap
  deadline,  \* wait->timestamp
  armed,     \* timers set and not fired: what lang->wait counts
  now,       \* gettimeofday
  loop,      \* the loop that holds the mutex: "none", "timer" or "bcast"
  todo,      \* coroutines the broadcast loop has still to visit
  btopic,    \* the topic it publishes on
  sender,    \* and the coroutine that called it
  fault,     \* "none", or the place where the process aborted
  sent, taken, pub,   \* history: messages sent to a queue, received from
                      \* it, published on a topic
  since, seen         \* history: pub when a coroutine subscribed a topic,
                      \* and the messages of the topic it received

ctxVars   == <<lcm, topics, tmsgs, since, seen>>
queueVars == <<mqs, msgs, waits, mqWait, sent, taken>>
timerVars == <<heap, deadline, armed>>
loopVars  == <<loop, todo, btopic, sender>>
vars == <<status, ret, res, ctxVars, queueVars, timerVars, loopVars, now,
          pub, fault>>

Resources == {"mq", "mq_timeout"}
Nil == [kind |-> "nil"]
Rejected == [kind |-> "rejected"]
FromQueue(q, n) == [kind |-> "queue", name |-> q, num |-> n]
FromTopic(t, n) == [kind |-> "topic", name |-> t, num |-> n]
Returns ==
  {Nil, Rejected} \cup [kind : {"queue", "topic"}, name : Qname, num : Nat]

(* A defective unlink, which changes nothing.                              *)
ChainDelForgotten(s, c) == s

(* mln_lang_mq_wait_chain_del: unlink coroutine c from the wait list s.    *)
ChainDel(s, c) ==
  LET i == CHOOSE j \in DOMAIN s : s[j] = c
  IN  [j \in 1 .. Len(s) - 1 |-> IF j < i THEN s[j] ELSE s[j + 1]]

Init ==
  /\ status = [c \in Ctx |-> IF c \in Scripts THEN "run" ELSE "new"]
  /\ ret = [c \in Ctx |-> Nil]
  /\ res = {}
  /\ lcm = {}
  /\ topics = [c \in Ctx |-> {}]
  /\ tmsgs = [c \in Ctx |-> [t \in Qname |-> <<>>]]
  /\ since = [c \in Ctx |-> [t \in Qname |-> 0]]
  /\ seen = [c \in Ctx |-> [t \in Qname |-> {}]]
  /\ mqs = {}
  /\ msgs = [q \in Qname |-> <<>>]
  /\ waits = [q \in Qname |-> <<>>]
  /\ mqWait = [c \in Ctx |-> NoQueue]
  /\ sent = [q \in Qname |-> 0]
  /\ taken = [q \in Qname |-> 0]
  /\ heap = {}
  /\ deadline = [c \in Ctx |-> 0]
  /\ armed = 0
  /\ now = 0
  /\ loop = "none" /\ todo = {} /\ btopic = NoQueue /\ sender = NoCtx
  /\ pub = [t \in Qname |-> 0]
  /\ fault = "none"

-----------------------------------------------------------------------------
(* The mutex is free and the process is alive.                             *)
Idle == loop = "none" /\ fault = "none"
Running(c) == Idle /\ status[c] = "run"
(* A defective Live, without the scheduler's wait list.                    *)
OnlyRunning == {c \in Ctx : status[c] = "run"}
Live == {c \in Ctx : status[c] \in {"run", "wait"}}

(* A script reaches the library through the object that Import('mq') gave  *)
(* it, so that it owns a ctx-level resource.                               *)
Calls(c) == Running(c) /\ c \in lcm

(* The process aborts at a failed ASSERT or a null dereference.            *)
Abort(where) ==
  /\ fault' = where
  /\ UNCHANGED <<status, ret, res, ctxVars, queueVars, timerVars, loopVars,
                 now, pub>>

(* The topics of c in set T are freed with the messages queued in them.    *)
FreeTopics(c, T) ==
  /\ topics' = [topics EXCEPT ![c] = @ \ T]
  /\ tmsgs' = [tmsgs EXCEPT ![c] =
                 [t \in Qname |-> IF t \in T THEN <<>> ELSE @[t]]]
  /\ since' = [since EXCEPT ![c] = [t \in Qname |-> IF t \in T THEN 0 ELSE @[t]]]
  /\ seen' = [seen EXCEPT ![c] = [t \in Qname |-> IF t \in T THEN {} ELSE @[t]]]

(* A coroutine that is not suspended in recv ends, by itself, by a script  *)
(* error or by Kill: its mln_lang_ctx_mq_t is freed.                       *)
Finish(c) ==
  /\ status' = [status EXCEPT ![c] = "end"]
  /\ lcm' = lcm \ {c}
  /\ FreeTopics(c, Qname)

(* The receiver c leaves the wait list of q and is moved to the run list.  *)
Wake(c, q, value) ==
  /\ ret' = [ret EXCEPT ![c] = value]
  /\ status' = [status EXCEPT ![c] = "run"]
  /\ mqWait' = [mqWait EXCEPT ![c] = NoQueue]
  /\ waits' = [waits EXCEPT ![q] = ChainDel(@, c)]
  /\ heap' = heap \ {c}

-----------------------------------------------------------------------------
(* Coroutines come and go.                                                 *)

(* Eval starts a coroutine.                                                *)
Eval(k, c) ==
  /\ Running(k)
  /\ status[c] = "new"
  /\ status' = [status EXCEPT ![c] = "run"]
  /\ UNCHANGED <<ret, res, ctxVars, queueVars, timerVars, loopVars, now, pub,
                 fault>>

(* Import('mq') registers what is missing.                                 *)
Import(c) ==
  /\ Running(c)
  /\ res' = Resources
  /\ lcm' = lcm \cup {c}
  /\ UNCHANGED <<status, ret, topics, tmsgs, since, seen, queueVars, timerVars,
                 loopVars, now, pub, fault>>

(* Import that fails runs destroy(), which drops the resources that are    *)
(* empty, whoever still uses them; the script ends with an error.          *)
ImportFails(c) ==
  /\ AllocFailures
  /\ Running(c)
  /\ res' = {r \in res : \/ r = "mq" /\ mqs # {}
                         \/ r = "mq_timeout" /\ heap # {}}
  /\ Finish(c)
  /\ UNCHANGED <<ret, queueVars, timerVars, loopVars, now, pub, fault>>

End(c) ==
  /\ Running(c)
  /\ Finish(c)
  /\ UNCHANGED <<ret, res, queueVars, timerVars, loopVars, now, pub, fault>>

(* Kill of a coroutine that is not suspended in recv.                      *)
Kill(k, c) ==
  /\ Running(k) /\ k # c
  /\ c \in Live /\ mqWait[c] = NoQueue
  /\ Finish(c)
  /\ UNCHANGED <<ret, res, queueVars, timerVars, loopVars, now, pub, fault>>

(* Kill of a coroutine suspended in recv: mln_lang_ctx_mq_free clears      *)
(* mq_wait->ctx and mln_lang_mq_wait_free then reads mq_wait->ctx->lang.   *)
KillWaiting(k, c) ==
  /\ Running(k)
  /\ status[c] = "wait" /\ mqWait[c] # NoQueue
  /\ Abort("mq_wait_free")

-----------------------------------------------------------------------------
(* mq.subscribe and mq.unsubscribe                                         *)

Subscribe(c, t) ==
  /\ Calls(c)
  /\ t \notin topics[c]
  /\ topics' = [topics EXCEPT ![c] = @ \cup {t}]
  /\ since' = [since EXCEPT ![c][t] = pub[t]]
  /\ UNCHANGED <<status, ret, res, lcm, tmsgs, seen, queueVars, timerVars,
                 loopVars, now, pub, fault>>

Unsubscribe(c, t) ==
  /\ Calls(c)
  /\ t \in topics[c]
  /\ FreeTopics(c, {t})
  /\ UNCHANGED <<status, ret, res, lcm, queueVars, timerVars, loopVars, now,
                 pub, fault>>

-----------------------------------------------------------------------------
(* mq.send(q, msg): mln_lang_mq_msg_set                                    *)

CanSend(c, q) == Calls(c) /\ sent[q] < MaxSend

SendAborts(c, q) ==
  /\ CanSend(c, q)
  /\ "mq" \notin res
  /\ Abort("mq_set")

(* A defective append, at the wrong end of the list.                       *)
Prepended(q) == <<sent[q] + 1>> \o msgs[q]

(* The message is appended, whether or not it is handed over at once.      *)
Appended(q) == Append(msgs[q], sent[q] + 1)

AppendsOnly(c, q) ==
  /\ CanSend(c, q) /\ "mq" \in res
  /\ mqs' = mqs \cup {q}
  /\ sent' = [sent EXCEPT ![q] = @ + 1]
  /\ msgs' = [msgs EXCEPT ![q] = Appended(q)]
  /\ UNCHANGED <<status, ret, res, ctxVars, waits, mqWait, taken, timerVars,
                 loopVars, now, pub, fault>>

SendQueues(c, q) ==
  /\ waits[q] = <<>>
  /\ AppendsOnly(c, q)

(* The head of the message list goes to the head of the wait list.         *)
SendHandsOver(c, q) ==
  /\ CanSend(c, q) /\ "mq" \in res
  /\ waits[q] # <<>>
  /\ mqs' = mqs \cup {q}
  /\ sent' = [sent EXCEPT ![q] = @ + 1]
  /\ Wake(Head(waits[q]), q, FromQueue(q, Head(Appended(q))))
  /\ msgs' = [msgs EXCEPT ![q] = Tail(Appended(q))]
  /\ taken' = [taken EXCEPT ![q] = @ + 1]
  /\ UNCHANGED <<res, ctxVars, deadline, armed, loopVars, now, pub, fault>>

(* No memory for the value handed over: the message stays queued and the   *)
(* receiver suspended, and the sender is not told.                         *)
SendLeavesBoth(c, q) ==
  /\ AllocFailures
  /\ waits[q] # <<>>
  /\ AppendsOnly(c, q)

(* No memory for the nil that send returns: the sender ends with an error  *)
(* although its message is queued.                                         *)
SendFails(c, q) ==
  /\ AllocFailures
  /\ CanSend(c, q) /\ "mq" \in res
  /\ mqs' = mqs \cup {q}
  /\ sent' = [sent EXCEPT ![q] = @ + 1]
  /\ msgs' = [msgs EXCEPT ![q] = Appended(q)]
  /\ Finish(c)
  /\ UNCHANGED <<ret, res, waits, mqWait, taken, timerVars, loopVars, now,
                 pub, fault>>

-----------------------------------------------------------------------------
(* mq.recv(q, timeout): mln_lang_mq_msg_subscribe_get, then                *)
(* mln_lang_mq_msg_get.                                                    *)

(* A defective look at the topic, off by one.                              *)
HasTwoTopicMsgs(c, q) == q \in topics[c] /\ Len(tmsgs[c][q]) > 1

(* The oldest message of a subscribed topic of that name comes first.      *)
HasTopicMsg(c, q) == q \in topics[c] /\ tmsgs[c][q] # <<>>

RecvTopic(c, q) ==
  /\ Calls(c)
  /\ HasTopicMsg(c, q)
  /\ ret' = [ret EXCEPT ![c] = FromTopic(q, Head(tmsgs[c][q]))]
  /\ seen' = [seen EXCEPT ![c][q] = @ \cup {Head(tmsgs[c][q])}]
  /\ tmsgs' = [tmsgs EXCEPT ![c][q] = Tail(@)]
  /\ UNCHANGED <<status, res, lcm, topics, since, queueVars, timerVars,
                 loopVars, now, pub, fault>>

RecvAborts(c, q) ==
  /\ Calls(c) /\ ~HasTopicMsg(c, q)
  /\ res # Resources
  /\ Abort("mq_set")

CanGet(c, q) == Calls(c) /\ ~HasTopicMsg(c, q) /\ res = Resources

(* A receiver that no other precedes takes the head of the message list; a *)
(* queue left without messages loses its entry.                            *)
RecvTakes(c, q) ==
  /\ CanGet(c, q)
  /\ waits[q] = <<>> /\ msgs[q] # <<>>
  /\ ret' = [ret EXCEPT ![c] = FromQueue(q, Head(msgs[q]))]
  /\ msgs' = [msgs EXCEPT ![q] = Tail(@)]
  /\ mqs' = IF Tail(msgs[q]) = <<>> THEN mqs \ {q} ELSE mqs
  /\ taken' = [taken EXCEPT ![q] = @ + 1]
  /\ UNCHANGED <<status, res, ctxVars, waits, mqWait, sent, timerVars,
                 loopVars, now, pub, fault>>

(* Any other receiver is suspended.                                        *)
Suspend(c, q) ==
  /\ CanGet(c, q)
  /\ waits[q] # <<>> \/ msgs[q] = <<>>
  /\ mqs' = mqs \cup {q}
  /\ waits' = [waits EXCEPT ![q] = Append(@, c)]
  /\ mqWait' = [mqWait EXCEPT ![c] = q]
  /\ status' = [status EXCEPT ![c] = "wait"]
  /\ ret' = [ret EXCEPT ![c] = Nil]
  /\ UNCHANGED <<res, ctxVars, msgs, sent, taken, loopVars, now, pub, fault>>

RecvBlocks(c, q) ==
  /\ Suspend(c, q)
  /\ UNCHANGED timerVars

(* A timer is armed when the receiver is alone in the heap.                *)
RecvBlocksTimed(c, q, timeout) ==
  /\ now + timeout <= MaxTime
  /\ Suspend(c, q)
  /\ deadline' = [deadline EXCEPT ![c] = now + timeout]
  /\ heap' = heap \cup {c}
  /\ armed' = IF heap = {} THEN armed + 1 ELSE armed

(* recv(q, 0) is an error of the script.                                   *)
RecvRejects(c) ==
  /\ Calls(c)
  /\ ret' = [ret EXCEPT ![c] = Rejected]
  /\ Finish(c)
  /\ UNCHANGED <<res, queueVars, timerVars, loopVars, now, pub, fault>>

(* No memory for the result or the timer: the receiver ends with an error, *)
(* and the entry made for its queue remains.                               *)
RecvFails(c, q) ==
  /\ AllocFailures
  /\ CanGet(c, q)
  /\ mqs' = mqs \cup {q}
  /\ Finish(c)
  /\ UNCHANGED <<ret, res, msgs, waits, mqWait, sent, taken, timerVars,
                 loopVars, now, pub, fault>>

-----------------------------------------------------------------------------
(* mln_lang_msgqueue_timeout_handler                                       *)

Tick ==
  /\ Idle
  /\ now < MaxTime
  /\ now' = now + 1
  /\ UNCHANGED <<status, ret, res, ctxVars, queueVars, timerVars, loopVars,
                 pub, fault>>

TimerAborts ==
  /\ Idle /\ armed > 0
  /\ res # Resources
  /\ Abort("timeout_handler")

TimerFires ==
  /\ Idle /\ armed > 0
  /\ res = Resources
  /\ armed' = armed - 1
  /\ loop' = "timer"
  /\ UNCHANGED <<status, ret, res, ctxVars, queueVars, heap, deadline, todo,
                 btopic, sender, now, pub, fault>>

(* A defective Due, which does not look at the deadlines.                  *)
DueAnyway == heap
Due == {c \in heap : deadline[c] <= now}

(* A defective Emptied, which forgets the other receivers.                 *)
OutOfMessages(q) == msgs[q] = <<>>

(* Nothing refers any more to the queue that a receiver has left.          *)
Emptied(q) == msgs[q] = <<>> /\ waits'[q] = <<>>

(* Two defective handlers: one sets no timer, one counts it wrong.         *)
NotRearmed == armed
Miscounted == armed - 1

(* The handler sets the next timer when a receiver remains in the heap.    *)
Rearmed == IF heap = {} THEN armed ELSE armed + 1

(* The receiver at the top of the heap is past its deadline: it returns    *)
(* nil, and a queue left without messages and receivers loses its entry.   *)
Expire(c) ==
  /\ loop = "timer"
  /\ c \in Due
  /\ \A d \in heap : deadline[c] <= deadline[d]
  /\ Wake(c, mqWait[c], ret[c])
  /\ mqs' = IF Emptied(mqWait[c]) THEN mqs \ {mqWait[c]} ELSE mqs
  /\ UNCHANGED <<res, ctxVars, msgs, sent, taken, deadline, armed, loopVars,
                 now, pub, fault>>

TimerDone ==
  /\ loop = "timer"
  /\ Due = {}
  /\ armed' = Rearmed
  /\ loop' = "none"
  /\ UNCHANGED <<status, ret, res, ctxVars, queueVars, heap, deadline, todo,
                 btopic, sender, now, pub, fault>>

(* The event loop refuses the timer: the handler does not look at the      *)
(* result, and no timer is left for the receivers in the heap.             *)
TimerNotSet ==
  /\ AllocFailures
  /\ loop = "timer"
  /\ Due = {} /\ heap # {}
  /\ loop' = "none"
  /\ UNCHANGED <<status, ret, res, ctxVars, queueVars, timerVars, todo, btopic,
                 sender, now, pub, fault>>

-----------------------------------------------------------------------------
(* mq.send(t, msg, true): mln_lang_mq_msg_broadcast                        *)

Broadcast(c, t) ==
  /\ Calls(c)
  /\ pub[t] < MaxPub
  /\ pub' = [pub EXCEPT ![t] = @ + 1]
  /\ loop' = "bcast"
  /\ todo' = Live
  /\ btopic' = t
  /\ sender' = c
  /\ UNCHANGED <<status, ret, res, ctxVars, queueVars, timerVars, now, fault>>

(* Coroutine c subscribes the topic of the broadcast.                      *)
Subscribes(c) == c \in lcm /\ btopic \in topics[c]

Visit(c) ==
  /\ loop = "bcast"
  /\ c \in todo
  /\ todo' = todo \ {c}
  /\ UNCHANGED <<res, lcm, topics, since, msgs, sent, taken, mqs, deadline,
                 armed, loop, btopic, sender, now, pub, fault>>

(* A coroutine that never imported the library owns no mln_lang_ctx_mq_t.  *)
VisitAborts(c) ==
  /\ loop = "bcast"
  /\ c \in todo \ lcm
  /\ Abort("broadcast_ctx")

VisitSkips(c) ==
  /\ Visit(c)
  /\ c \in lcm /\ ~Subscribes(c)
  /\ UNCHANGED <<status, ret, tmsgs, seen, waits, mqWait, heap>>

VisitQueues(c) ==
  /\ Visit(c)
  /\ Subscribes(c) /\ mqWait[c] = NoQueue
  /\ tmsgs' = [tmsgs EXCEPT ![c][btopic] = Append(@, pub[btopic])]
  /\ UNCHANGED <<status, ret, seen, waits, mqWait, heap>>

(* A subscriber suspended in recv, on a queue of any name, returns with    *)
(* the new message.                                                        *)
VisitWakes(c) ==
  /\ Visit(c)
  /\ Subscribes(c) /\ mqWait[c] # NoQueue
  /\ Wake(c, mqWait[c], FromTopic(btopic, pub[btopic]))
  /\ seen' = [seen EXCEPT ![c][btopic] = @ \cup {pub[btopic]}]
  /\ UNCHANGED tmsgs

BroadcastDone ==
  /\ loop = "bcast"
  /\ todo = {}
  /\ loop' = "none" /\ btopic' = NoQueue /\ sender' = NoCtx
  /\ UNCHANGED <<status, ret, res, ctxVars, queueVars, timerVars, todo, now,
                 pub, fault>>

(* No memory for the message of subscriber c, or for the value it returns  *)
(* with (its message then stays queued): the loop stops and its sender     *)
(* ends with an error.                                                     *)
BroadcastFails(c) ==
  /\ AllocFailures
  /\ loop = "bcast"
  /\ c \in todo /\ Subscribes(c)
  /\ \/ Finish(sender)
     \/ /\ mqWait[c] # NoQueue
        /\ status' = [status EXCEPT ![sender] = "end"]
        /\ lcm' = lcm \ {sender}
        /\ topics' = [topics EXCEPT ![sender] = {}]
        /\ tmsgs' = [tmsgs EXCEPT ![sender] = [t \in Qname |-> <<>>],
                                  ![c][btopic] = Append(@, pub[btopic])]
        /\ since' = [since EXCEPT ![sender] = [t \in Qname |-> 0]]
        /\ seen' = [seen EXCEPT ![sender] = [t \in Qname |-> {}]]
  /\ loop' = "none" /\ todo' = {} /\ btopic' = NoQueue /\ sender' = NoCtx
  /\ UNCHANGED <<ret, res, queueVars, timerVars, now, pub, fault>>

-----------------------------------------------------------------------------
Lifecycle ==
  \E c \in Ctx :
    \/ Import(c) \/ ImportFails(c) \/ End(c)
    \/ \E k \in Ctx : Eval(k, c) \/ Kill(k, c) \/ KillWaiting(k, c)

Receive ==
  \E c \in Ctx, q \in Qname :
    \/ RecvTopic(c, q) \/ RecvTakes(c, q) \/ RecvBlocks(c, q)
    \/ \E timeout \in Timeouts : RecvBlocksTimed(c, q, timeout)
    \/ RecvFails(c, q) \/ RecvAborts(c, q)
    \/ RecvRejects(c)

Send ==
  \E c \in Ctx, q \in Qname :
    \/ SendQueues(c, q) \/ SendHandsOver(c, q) \/ SendLeavesBoth(c, q)
    \/ SendFails(c, q) \/ SendAborts(c, q)

Topic ==
  \E c \in Ctx :
    \/ \E t \in Qname : Subscribe(c, t) \/ Unsubscribe(c, t) \/ Broadcast(c, t)
    \/ VisitSkips(c) \/ VisitQueues(c) \/ VisitWakes(c) \/ VisitAborts(c)
    \/ BroadcastFails(c)

Timer ==
  \/ TimerFires \/ TimerAborts \/ TimerDone \/ TimerNotSet
  \/ \E c \in Ctx : Expire(c)

Next == Lifecycle \/ Receive \/ Send \/ Topic \/ BroadcastDone \/ Timer \/ Tick

Spec == Init /\ [][Next]_vars

(* The event loop fires the timers that are set between the slices of the  *)
(* coroutines, a C loop runs to its end, and time passes.                  *)
Fairness ==
  /\ SF_vars(TimerFires)
  /\ WF_vars(TimerDone)
  /\ WF_vars(\E c \in Ctx : Expire(c))
  /\ WF_vars(\E c \in Ctx : VisitSkips(c) \/ VisitQueues(c) \/ VisitWakes(c)
                            \/ VisitAborts(c))
  /\ WF_vars(BroadcastDone)
  /\ SF_vars(Tick)

FairSpec == Spec /\ Fairness

-----------------------------------------------------------------------------
(* Types of the variables.                                                 *)
TypeOK ==
  /\ status \in [Ctx -> {"new", "run", "wait", "end"}]
  /\ ret \in [Ctx -> Returns]
  /\ res \subseteq Resources
  /\ lcm \subseteq Ctx
  /\ topics \in [Ctx -> SUBSET Qname]
  /\ tmsgs \in [Ctx -> [Qname -> Seq(Nat)]]
  /\ since \in [Ctx -> [Qname -> Nat]]
  /\ seen \in [Ctx -> [Qname -> SUBSET Nat]]
  /\ mqs \subseteq Qname
  /\ msgs \in [Qname -> Seq(Nat)]
  /\ waits \in [Qname -> Seq(Ctx)]
  /\ mqWait \in [Ctx -> Qname \cup {NoQueue}]
  /\ heap \subseteq Ctx
  /\ deadline \in [Ctx -> Nat]
  /\ armed \in Nat
  /\ now \in Nat
  /\ loop \in {"none", "timer", "bcast"}
  /\ todo \subseteq Ctx
  /\ btopic \in Qname \cup {NoQueue}
  /\ sender \in Ctx \cup {NoCtx}
  /\ sent \in [Qname -> Nat] /\ taken \in [Qname -> Nat]
  /\ pub \in [Qname -> Nat]
  /\ fault \in {"none", "mq_wait_free", "mq_set", "timeout_handler",
                "broadcast_ctx"}

InWaitList(c, q) == \E i \in DOMAIN waits[q] : waits[q][i] = c

(* The three places that know of a suspended receiver agree: it is in the  *)
(* wait list of exactly the queue its lcm->mq_wait points to, once, it is  *)
(* on the scheduler's wait list and still owns its lcm; a receiver in the  *)
(* timeout heap is suspended.  (A wait record left behind in one of them   *)
(* would be used after it is freed.)                                       *)
WaitRecordsAgree ==
  /\ \A c \in Ctx, q \in Qname : mqWait[c] = q <=> InWaitList(c, q)
  /\ \A q \in Qname : \A i, j \in DOMAIN waits[q] :
       waits[q][i] = waits[q][j] => i = j
  /\ \A c \in Ctx : mqWait[c] # NoQueue => status[c] = "wait" /\ c \in lcm
  /\ \A c \in Ctx : status[c] = "wait" => mqWait[c] # NoQueue
  /\ \A c \in heap : mqWait[c] # NoQueue

(* Nobody sleeps on a queue that has a message (no lost wakeup), unless an *)
(* allocation failed on the way: mln_lang_mq_msg_set hands a message over  *)
(* as soon as somebody waits.                                              *)
NoStarvedReceiver ==
  ~AllocFailures => \A q \in Qname : msgs[q] = <<>> \/ waits[q] = <<>>

(* A queue is a FIFO that loses and duplicates nothing, through hand-overs,*)
(* time-outs, deletion and re-creation of its entry: the messages queued   *)
(* are, in order, those sent and not yet received.                         *)
QueueIsFifo ==
  \A q \in Qname :
    /\ sent[q] = taken[q] + Len(msgs[q])
    /\ \A i \in DOMAIN msgs[q] : msgs[q][i] = taken[q] + i

(* An entry is deleted from the tree of queues only when it holds neither  *)
(* a message nor a receiver (it would be freed with them).                 *)
NoOrphanedQueue ==
  \A q \in Qname \ mqs : msgs[q] = <<>> /\ waits[q] = <<>>

(* While a receiver has a deadline, a timer that will look at it is set or *)
(* its handler is running, although the heap is emptied and filled by      *)
(* other paths than the timer's (unless the event loop refused the timer). *)
TimerCoversHeap ==
  ~AllocFailures => heap = {} \/ armed > 0 \/ loop = "timer"

(* A subscriber gets every message published on its topic since it         *)
(* subscribed exactly once: it is either received or queued, and the       *)
(* queued ones are in the order of publication.                            *)
TopicExactlyOnce ==
  ~AllocFailures =>
    \A c \in lcm : \A t \in topics[c] :
      LET queued == {tmsgs[c][t][i] : i \in DOMAIN tmsgs[c][t]}
          last == IF loop = "bcast" /\ btopic = t /\ c \in todo
                  THEN pub[t] - 1 ELSE pub[t]
      IN  /\ queued \cap seen[c][t] = {}
          /\ queued \cup seen[c][t] = since[c][t] + 1 .. last
          /\ \A i, j \in DOMAIN tmsgs[c][t] :
               i < j => tmsgs[c][t][i] < tmsgs[c][t][j]

(* A coroutine suspended on the name of a topic it subscribes has received *)
(* all the messages of the topic: the next one cannot overtake another.    *)
(* (It can when the coroutine is suspended on another name.)               *)
DrainedBeforeWaiting ==
  ~AllocFailures =>
    \A c \in Ctx : mqWait[c] \in topics[c] => tmsgs[c][mqWait[c]] = <<>>

(* A receiver is woken for one of three reasons: it gets the next message  *)
(* of the very queue it waits on, or the newest message of a topic it      *)
(* subscribes, or nil at a deadline it asked for.                          *)
WokenForAReason ==
  [][\A c \in Ctx :
       mqWait[c] # NoQueue /\ mqWait'[c] = NoQueue =>
         \/ /\ ret'[c] = FromQueue(mqWait[c], taken[mqWait[c]] + 1)
            /\ taken'[mqWait[c]] = taken[mqWait[c]] + 1
         \/ \E t \in topics[c] : ret'[c] = FromTopic(t, pub[t])
         \/ ret'[c] = Nil /\ c \in heap /\ deadline[c] <= now]_vars

(* The queues implement the channels of Mailbox when no allocation fails.  *)
Nothing == <<>>
Message(v) == IF v.kind = "queue" THEN <<v.name, v.num>> ELSE Nothing
Got == [c \in Ctx |-> Message(ret[c])]
Promise == INSTANCE Mailbox WITH blocked <- mqWait, got <- Got
IsMailbox == Promise!Spec

(* A recv with a timeout ends, by a message or at the deadline.            *)
TimedRecvEnds ==
  \A c \in Ctx : c \in heap ~> (c \notin heap \/ fault # "none")

-----------------------------------------------------------------------------
(* What the assertions and the documents say, and the code does not do.    *)

(* ASSERT(lcm != NULL) of mln_lang_mq_msg_broadcast_ctx: every coroutine   *)
(* that is alive owns an mln_lang_ctx_mq_t.                                *)
BroadcastAssertHolds == fault # "broadcast_ctx"

(* Kill(alias) of a coroutine suspended in recv returns nil.               *)
KillReturns == fault # "mq_wait_free"

=============================================================================
