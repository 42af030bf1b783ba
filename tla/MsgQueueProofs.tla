--------------------------- MODULE MsgQueueProofs ---------------------------
(***************************************************************************)
(* Proofs about MsgQueue for any set of coroutines and names and any       *)
(* bounds.                                                                 *)
(***************************************************************************)
EXTENDS MsgQueue, TLAPS

(* Unlinking keeps a wait list a list of coroutines.                       *)
LEMMA ChainDelIsSeq ==
  ASSUME NEW S, NEW s \in Seq(S), NEW c
  PROVE  ChainDel(s, c) \in Seq(S)
<1> DEFINE i == CHOOSE j \in DOMAIN s : s[j] = c
           d == [j \in 1 .. Len(s) - 1 |-> IF j < i THEN s[j] ELSE s[j + 1]]
<1>1. \A j \in 1 .. Len(s) - 1 : s[j] \in S /\ s[j + 1] \in S
  OBVIOUS
<1>2. d \in [1 .. Len(s) - 1 -> S]
  BY <1>1
<1>3. CASE Len(s) = 0
  <2>1. 1 .. Len(s) - 1 = 1 .. 0
    BY <1>3
  <2> QED  BY <1>2, <2>1 DEF ChainDel
<1>4. CASE Len(s) # 0
  <2>1. Len(s) - 1 \in Nat
    BY <1>4
  <2> QED  BY <1>2, <2>1 DEF ChainDel
<1> QED  BY <1>3, <1>4

(* Unlinking c from a list that holds it once removes c and nothing else.  *)
LEMMA ChainDelRemoves ==
  ASSUME NEW S, NEW s \in Seq(S), NEW c,
         \E k \in DOMAIN s : s[k] = c,
         \A i, j \in DOMAIN s : s[i] = s[j] => i = j
  PROVE  LET d == ChainDel(s, c)
         IN  /\ d \in Seq(S)
             /\ \A e : (\E k \in DOMAIN d : d[k] = e)
                         <=> e # c /\ \E k \in DOMAIN s : s[k] = e
             /\ \A i, j \in DOMAIN d : d[i] = d[j] => i = j
<1> DEFINE p == CHOOSE j \in DOMAIN s : s[j] = c
           d == [j \in 1 .. Len(s) - 1 |-> IF j < p THEN s[j] ELSE s[j + 1]]
<1>1. p \in 1 .. Len(s) /\ s[p] = c
  OBVIOUS
<1>2. d = ChainDel(s, c)
  BY DEF ChainDel
<1>3. d \in Seq(S) /\ DOMAIN d = 1 .. Len(s) - 1
  BY <1>2, ChainDelIsSeq
<1>4. ASSUME NEW k \in DOMAIN d
      PROVE  d[k] # c /\ \E m \in DOMAIN s : s[m] = d[k]
  BY <1>1, <1>3, <1>4
<1>5. ASSUME NEW m \in DOMAIN s, s[m] # c
      PROVE  \E k \in DOMAIN d : d[k] = s[m]
  <2>1. CASE m < p
    <3>1. m \in 1 .. Len(s) - 1 /\ d[m] = s[m]
      BY <1>1, <2>1
    <3> QED  BY <3>1, <1>3
  <2>2. CASE ~(m < p)
    <3>1. m - 1 \in 1 .. Len(s) - 1 /\ ~(m - 1 < p)
      BY <1>1, <1>5, <2>2
    <3>2. d[m - 1] = s[m]
      BY <3>1
    <3> QED  BY <3>1, <3>2, <1>3
  <2> QED  BY <2>1, <2>2
<1>6. ASSUME NEW i \in DOMAIN d, NEW j \in DOMAIN d, d[i] = d[j]
      PROVE  i = j
  BY <1>1, <1>3, <1>6
<1> HIDE DEF d
<1> QED  BY <1>2, <1>3, <1>4, <1>5, <1>6

-----------------------------------------------------------------------------
(* Types.                                                                  *)

(* The variables start with their types.                                   *)
LEMMA TypeInit == Init => TypeOK
BY ConstAssumption DEF Init, TypeOK, Returns, Nil

(* The parts of actions keep the types of the variables they assign.       *)
LEMMA CountUp ==
  ASSUME NEW S, NEW f \in [S -> Nat], NEW x \in S
  PROVE  [f EXCEPT ![x] = @ + 1] \in [S -> Nat]
OBVIOUS

(* So does freeing the topics of a coroutine,                              *)
LEMMA FreeTopicsTypes ==
  ASSUME TypeOK, NEW c \in Ctx \cup {NoCtx}, NEW T, FreeTopics(c, T)
  PROVE  /\ topics' \in [Ctx -> SUBSET Qname]
         /\ tmsgs' \in [Ctx -> [Qname -> Seq(Nat)]]
         /\ since' \in [Ctx -> [Qname -> Nat]]
         /\ seen' \in [Ctx -> [Qname -> SUBSET Nat]]
<1>1. CASE c \in Ctx
  <2>1. topics[c] \ T \in SUBSET Qname
    BY <1>1 DEF TypeOK
  <2>2. [t \in Qname |-> IF t \in T THEN <<>> ELSE tmsgs[c][t]]
          \in [Qname -> Seq(Nat)]
    BY <1>1 DEF TypeOK
  <2>3. [t \in Qname |-> IF t \in T THEN 0 ELSE since[c][t]] \in [Qname -> Nat]
    BY <1>1 DEF TypeOK
  <2>4. [t \in Qname |-> IF t \in T THEN {} ELSE seen[c][t]]
          \in [Qname -> SUBSET Nat]
    BY <1>1 DEF TypeOK
  <2> QED  BY <2>1, <2>2, <2>3, <2>4 DEF TypeOK, FreeTopics
<1>2. CASE c \notin Ctx
  BY <1>2 DEF TypeOK, FreeTopics
<1> QED  BY <1>1, <1>2

(* its end,                                                                *)
LEMMA FinishTypes ==
  ASSUME TypeOK, NEW c \in Ctx \cup {NoCtx}, Finish(c)
  PROVE  /\ status' \in [Ctx -> {"new", "run", "wait", "end"}]
         /\ lcm' \subseteq Ctx
         /\ topics' \in [Ctx -> SUBSET Qname]
         /\ tmsgs' \in [Ctx -> [Qname -> Seq(Nat)]]
         /\ since' \in [Ctx -> [Qname -> Nat]]
         /\ seen' \in [Ctx -> [Qname -> SUBSET Nat]]
<1>1. FreeTopics(c, Qname)
  BY DEF Finish
<1>2. status' \in [Ctx -> {"new", "run", "wait", "end"}] /\ lcm' \subseteq Ctx
  BY DEF TypeOK, Finish
<1> QED  BY <1>1, <1>2, FreeTopicsTypes

(* the waking of a receiver,                                               *)
LEMMA WakeTypes ==
  ASSUME TypeOK, NEW c \in Ctx, NEW q \in Qname \cup {NoQueue},
         NEW v \in Returns, Wake(c, q, v)
  PROVE  /\ ret' \in [Ctx -> Returns]
         /\ status' \in [Ctx -> {"new", "run", "wait", "end"}]
         /\ mqWait' \in [Ctx -> Qname \cup {NoQueue}]
         /\ waits' \in [Qname -> Seq(Ctx)]
         /\ heap' \subseteq Ctx
<1>1. waits' \in [Qname -> Seq(Ctx)]
  <2>1. CASE q \in Qname
    <3>1. ChainDel(waits[q], c) \in Seq(Ctx)
      BY <2>1, ChainDelIsSeq DEF TypeOK
    <3> QED  BY <3>1 DEF TypeOK, Wake
  <2>2. CASE q \notin Qname
    BY <2>2 DEF TypeOK, Wake
  <2> QED  BY <2>1, <2>2
<1>2. QED
  BY <1>1 DEF TypeOK, Wake

(* and its suspension.                                                     *)
LEMMA SuspendTypes ==
  ASSUME TypeOK, NEW c \in Ctx, NEW q \in Qname, Suspend(c, q)
  PROVE  /\ mqs' \subseteq Qname
         /\ waits' \in [Qname -> Seq(Ctx)]
         /\ mqWait' \in [Ctx -> Qname \cup {NoQueue}]
         /\ status' \in [Ctx -> {"new", "run", "wait", "end"}]
         /\ ret' \in [Ctx -> Returns]
<1>1. Append(waits[q], c) \in Seq(Ctx) /\ Nil \in Returns
  BY DEF TypeOK, Returns
<1> QED  BY <1>1 DEF TypeOK, Suspend

(* The message list and the counter after a send.                          *)
LEMMA AppendedTypes ==
  ASSUME TypeOK, NEW q \in Qname
  PROVE  /\ Appended(q) \in Seq(Nat) /\ Appended(q) # <<>>
         /\ [msgs EXCEPT ![q] = Appended(q)] \in [Qname -> Seq(Nat)]
         /\ [sent EXCEPT ![q] = @ + 1] \in [Qname -> Nat]
<1>1. msgs[q] \in Seq(Nat) /\ sent[q] + 1 \in Nat
  BY DEF TypeOK
<1>2. Appended(q) \in Seq(Nat) /\ Appended(q) # <<>>
  BY <1>1 DEF Appended
<1> QED  BY <1>1, <1>2 DEF TypeOK

(* Every step keeps the types.                                             *)
LEMMA TypeStep == TypeOK /\ [Next]_vars => TypeOK'
<1> SUFFICES ASSUME TypeOK, [Next]_vars PROVE TypeOK'
  OBVIOUS
<1> USE ConstAssumption
<1> USE DEF ctxVars, queueVars, timerVars, loopVars, Resources, Live
<1>1. ASSUME NEW c \in Ctx, Import(c) PROVE TypeOK'
  BY <1>1 DEF TypeOK, Import
<1>2. ASSUME NEW c \in Ctx, ImportFails(c) PROVE TypeOK'
  BY <1>2, FinishTypes DEF TypeOK, ImportFails
<1>3. ASSUME NEW c \in Ctx, End(c) PROVE TypeOK'
  BY <1>3, FinishTypes DEF TypeOK, End
<1>4. ASSUME NEW c \in Ctx, NEW k \in Ctx, Eval(k, c) PROVE TypeOK'
  BY <1>4 DEF TypeOK, Eval
<1>5. ASSUME NEW c \in Ctx, NEW k \in Ctx, Kill(k, c) PROVE TypeOK'
  BY <1>5, FinishTypes DEF TypeOK, Kill
<1>6. ASSUME NEW c \in Ctx, NEW k \in Ctx, KillWaiting(k, c) PROVE TypeOK'
  BY <1>6 DEF TypeOK, KillWaiting, Abort
<1>7. ASSUME NEW c \in Ctx, NEW q \in Qname, RecvTopic(c, q) PROVE TypeOK'
  <2>1. tmsgs[c][q] \in Seq(Nat) /\ tmsgs[c][q] # <<>>
    BY <1>7 DEF TypeOK, RecvTopic, HasTopicMsg
  <2>2. Head(tmsgs[c][q]) \in Nat /\ Tail(tmsgs[c][q]) \in Seq(Nat)
    BY <2>1
  <2>3. FromTopic(q, Head(tmsgs[c][q])) \in Returns
    BY <2>2 DEF Returns, FromTopic
  <2>4. ret' \in [Ctx -> Returns]
    BY <1>7, <2>3 DEF TypeOK, RecvTopic
  <2>5. tmsgs' \in [Ctx -> [Qname -> Seq(Nat)]]
    BY <1>7, <2>2 DEF TypeOK, RecvTopic
  <2>6. seen' \in [Ctx -> [Qname -> SUBSET Nat]]
    <3>1. seen \in [Ctx -> [Qname -> SUBSET Nat]]
      BY DEF TypeOK
    <3>2. seen' = [seen EXCEPT ![c][q] = @ \cup {Head(tmsgs[c][q])}]
      BY <1>7 DEF RecvTopic
    <3>3. seen[c][q] \cup {Head(tmsgs[c][q])} \in SUBSET Nat
      BY <2>2, <3>1
    <3> QED  BY <3>1, <3>2, <3>3
  <2> QED  BY <1>7, <2>1, <2>2, <2>3, <2>4, <2>5, <2>6 DEF TypeOK, RecvTopic
<1>8. ASSUME NEW c \in Ctx, NEW q \in Qname, RecvTakes(c, q) PROVE TypeOK'
  <2>0. msgs[q] \in Seq(Nat) /\ msgs[q] # <<>>
    BY <1>8 DEF TypeOK, RecvTakes
  <2>1. Head(msgs[q]) \in Nat /\ Tail(msgs[q]) \in Seq(Nat)
    BY <2>0
  <2>2. FromQueue(q, Head(msgs[q])) \in Returns
    BY <2>1 DEF Returns, FromQueue
  <2>3. ret' \in [Ctx -> Returns]
    BY <1>8, <2>2 DEF TypeOK, RecvTakes
  <2>4. msgs' \in [Qname -> Seq(Nat)]
    BY <1>8, <2>1 DEF TypeOK, RecvTakes
  <2>5. taken' \in [Qname -> Nat] /\ mqs' \subseteq Qname
    BY <1>8, CountUp DEF TypeOK, RecvTakes
  <2> QED  BY <1>8, <2>1, <2>2, <2>3, <2>4, <2>5 DEF TypeOK, RecvTakes
<1>9. ASSUME NEW c \in Ctx, NEW q \in Qname, RecvBlocks(c, q) PROVE TypeOK'
  BY <1>9, SuspendTypes DEF TypeOK, RecvBlocks, Suspend
<1>10. ASSUME NEW c \in Ctx, NEW q \in Qname, NEW timeout \in Timeouts, RecvBlocksTimed(c, q, timeout) PROVE TypeOK'
  <2>1. timeout \in Nat /\ now + timeout \in Nat /\ armed + 1 \in Nat
    BY DEF TypeOK
  <2>2. Suspend(c, q)
    BY <1>10 DEF RecvBlocksTimed
  <2>3. deadline' \in [Ctx -> Nat] /\ armed' \in Nat /\ heap' \subseteq Ctx
    BY <1>10, <2>1 DEF TypeOK, RecvBlocksTimed
  <2> QED  BY <2>2, <2>3, SuspendTypes DEF TypeOK, Suspend
<1>11. ASSUME NEW c \in Ctx, NEW q \in Qname, RecvFails(c, q) PROVE TypeOK'
  BY <1>11, FinishTypes DEF TypeOK, RecvFails
<1>12. ASSUME NEW c \in Ctx, NEW q \in Qname, RecvAborts(c, q) PROVE TypeOK'
  BY <1>12 DEF TypeOK, RecvAborts, Abort
<1>13. ASSUME NEW c \in Ctx, RecvRejects(c) PROVE TypeOK'
  BY <1>13, FinishTypes DEF TypeOK, RecvRejects, Returns
<1>14. ASSUME NEW c \in Ctx, NEW q \in Qname, SendQueues(c, q) PROVE TypeOK'
  BY <1>14, AppendedTypes DEF TypeOK, SendQueues, AppendsOnly
<1>15. ASSUME NEW c \in Ctx, NEW q \in Qname, SendLeavesBoth(c, q) PROVE TypeOK'
  BY <1>15, AppendedTypes DEF TypeOK, SendLeavesBoth, AppendsOnly
<1>16. ASSUME NEW c \in Ctx, NEW q \in Qname, SendFails(c, q) PROVE TypeOK'
  BY <1>16, FinishTypes, AppendedTypes DEF TypeOK, SendFails
<1>17. ASSUME NEW c \in Ctx, NEW q \in Qname, SendAborts(c, q) PROVE TypeOK'
  BY <1>17 DEF TypeOK, SendAborts, Abort
<1>18. ASSUME NEW c \in Ctx, NEW q \in Qname, SendHandsOver(c, q) PROVE TypeOK'
  <2>1. Appended(q) \in Seq(Nat) /\ Appended(q) # <<>>
    BY AppendedTypes
  <2>2. FromQueue(q, Head(Appended(q))) \in Returns
    BY <2>1 DEF Returns, FromQueue
  <2>3. Head(waits[q]) \in Ctx
    BY <1>18 DEF TypeOK, SendHandsOver
  <2>4. Wake(Head(waits[q]), q, FromQueue(q, Head(Appended(q))))
    BY <1>18 DEF SendHandsOver
  <2>5. Tail(Appended(q)) \in Seq(Nat)
    BY <2>1
  <2>6. msgs' \in [Qname -> Seq(Nat)] /\ taken' \in [Qname -> Nat]
    BY <1>18, <2>5, CountUp DEF TypeOK, SendHandsOver
  <2> QED  BY <1>18, <2>2, <2>3, <2>4, <2>6, WakeTypes, AppendedTypes
           DEF TypeOK, SendHandsOver
<1>19. ASSUME NEW c \in Ctx, NEW t \in Qname, Subscribe(c, t) PROVE TypeOK'
  BY <1>19 DEF TypeOK, Subscribe
<1>20. ASSUME NEW c \in Ctx, NEW t \in Qname, Unsubscribe(c, t) PROVE TypeOK'
  BY <1>20, FreeTopicsTypes DEF TypeOK, Unsubscribe
<1>21. ASSUME NEW c \in Ctx, NEW t \in Qname, Broadcast(c, t) PROVE TypeOK'
  BY <1>21, CountUp DEF TypeOK, Broadcast
<1>22. ASSUME NEW c \in Ctx, VisitSkips(c) PROVE TypeOK'
  BY <1>22 DEF TypeOK, VisitSkips, Visit, Subscribes
<1>23. ASSUME NEW c \in Ctx, VisitQueues(c) PROVE TypeOK'
  <2>1. btopic \in Qname /\ pub[btopic] \in Nat
    BY <1>23 DEF TypeOK, VisitQueues, Subscribes
  <2>2. Append(tmsgs[c][btopic], pub[btopic]) \in Seq(Nat)
    BY <2>1 DEF TypeOK
  <2>3. tmsgs' \in [Ctx -> [Qname -> Seq(Nat)]]
    BY <1>23, <2>1, <2>2 DEF TypeOK, VisitQueues
  <2>4. todo' \subseteq Ctx
    BY <1>23 DEF TypeOK, VisitQueues, Visit
  <2> QED  BY <1>23, <2>3, <2>4 DEF TypeOK, VisitQueues, Visit
<1>24. ASSUME NEW c \in Ctx, VisitWakes(c) PROVE TypeOK'
  <2>1. btopic \in Qname /\ pub[btopic] \in Nat
    BY <1>24 DEF TypeOK, VisitWakes, Subscribes
  <2>2. FromTopic(btopic, pub[btopic]) \in Returns
    BY <2>1 DEF Returns, FromTopic
  <2>3. mqWait[c] \in Qname \cup {NoQueue}
    BY DEF TypeOK
  <2>4. Wake(c, mqWait[c], FromTopic(btopic, pub[btopic]))
    BY <1>24 DEF VisitWakes, Subscribes
  <2>5. seen[c][btopic] \cup {pub[btopic]} \in SUBSET Nat
    BY <2>1 DEF TypeOK
  <2>6. seen' \in [Ctx -> [Qname -> SUBSET Nat]]
    BY <1>24, <2>1, <2>5 DEF TypeOK, VisitWakes, Subscribes
  <2> QED  BY <1>24, <2>2, <2>3, <2>4, <2>6, WakeTypes
           DEF TypeOK, VisitWakes, Visit, Subscribes
<1>25. ASSUME NEW c \in Ctx, VisitAborts(c) PROVE TypeOK'
  BY <1>25 DEF TypeOK, VisitAborts, Abort
<1>26. ASSUME NEW c \in Ctx, BroadcastFails(c) PROVE TypeOK'
  <2>1. btopic \in Qname /\ pub[btopic] \in Nat
    BY <1>26 DEF TypeOK, BroadcastFails, Subscribes
  <2>2. CASE Finish(sender)
    BY <1>26, <2>2, FinishTypes DEF TypeOK, BroadcastFails, Subscribes
  <2>3. CASE ~Finish(sender)
    <3>1. /\ [t \in Qname |-> 0] \in [Qname -> Nat]
          /\ [t \in Qname |-> {}] \in [Qname -> SUBSET Nat]
      OBVIOUS
    <3>2. [t \in Qname |-> <<>>] \in [Qname -> Seq(Nat)]
      OBVIOUS
    <3>3. tmsgs' \in [Ctx -> [Qname -> Seq(Nat)]]
      <4> DEFINE f == [tmsgs EXCEPT ![sender] = [t \in Qname |-> <<>>]]
      <4>1. f \in [Ctx -> [Qname -> Seq(Nat)]]
        BY <3>2 DEF TypeOK
      <4>2. Append(f[c][btopic], pub[btopic]) \in Seq(Nat)
        BY <2>1, <4>1
      <4>3. tmsgs' = [f EXCEPT ![c][btopic] = Append(@, pub[btopic])]
        BY <1>26, <2>3 DEF BroadcastFails, Subscribes
      <4> HIDE DEF f
      <4> QED  BY <2>1, <4>1, <4>2, <4>3
    <3>4. /\ since' \in [Ctx -> [Qname -> Nat]]
          /\ seen' \in [Ctx -> [Qname -> SUBSET Nat]]
      <4>1. /\ since' = [since EXCEPT ![sender] = [t \in Qname |-> 0]]
            /\ seen' = [seen EXCEPT ![sender] = [t \in Qname |-> {}]]
        BY <1>26, <2>3 DEF BroadcastFails, Subscribes
      <4> QED  BY <3>1, <4>1 DEF TypeOK
    <3> QED  BY <1>26, <2>3, <3>3, <3>4 DEF TypeOK, BroadcastFails, Subscribes
  <2> QED  BY <2>2, <2>3
<1>27. CASE BroadcastDone
  BY <1>27 DEF TypeOK, BroadcastDone
<1>28. CASE TimerFires
  BY <1>28 DEF TypeOK, TimerFires
<1>29. CASE TimerAborts
  BY <1>29 DEF TypeOK, TimerAborts, Abort
<1>30. CASE TimerDone
  <2>1. armed' \in Nat /\ loop' = "none"
    BY <1>30 DEF TypeOK, TimerDone, Rearmed
  <2> QED  BY <1>30, <2>1 DEF TypeOK, TimerDone
<1>31. CASE TimerNotSet
  BY <1>31 DEF TypeOK, TimerNotSet
<1>32. ASSUME NEW c \in Ctx, Expire(c) PROVE TypeOK'
  <2>1. mqWait[c] \in Qname \cup {NoQueue} /\ ret[c] \in Returns
    BY DEF TypeOK
  <2> QED  BY <1>32, <2>1, WakeTypes DEF TypeOK, Expire, Emptied
<1>33. CASE Tick
  BY <1>33 DEF TypeOK, Tick
<1>34. CASE UNCHANGED vars
  BY <1>34 DEF TypeOK, vars
<1> QED
  BY <1>1, <1>2, <1>3, <1>4, <1>5, <1>6, <1>7, <1>8, <1>9, <1>10, <1>11,
     <1>12, <1>13, <1>14, <1>15, <1>16, <1>17, <1>18, <1>19, <1>20, <1>21,
     <1>22, <1>23, <1>24, <1>25, <1>26, <1>27, <1>28, <1>29, <1>30, <1>31,
     <1>32, <1>33, <1>34
     DEF Next, Lifecycle, Receive, Send, Topic, Timer

(* Every variable keeps its type.                                          *)
THEOREM TypeCorrect == Spec => []TypeOK
BY TypeInit, TypeStep, PTL DEF Spec

-----------------------------------------------------------------------------
(* The records of a suspended receiver agree.                              *)

(* The coroutine whose broadcast is under way runs: it waits on nothing.   *)
SenderRuns ==
  loop = "bcast" => sender \in Ctx /\ status[sender] = "run"

WaitInv == TypeOK /\ WaitRecordsAgree /\ SenderRuns

(* Steps that leave the wait lists alone and end or start only coroutines  *)
(* that are not suspended.                                                 *)
LEMMA WaitsUntouched ==
  ASSUME WaitRecordsAgree, UNCHANGED <<waits, mqWait, heap>>,
         \A d \in Ctx : mqWait[d] # NoQueue => status'[d] = "wait" /\ d \in lcm',
         \A d \in Ctx : status'[d] = "wait" => mqWait[d] # NoQueue
  PROVE  WaitRecordsAgree'
BY DEF WaitRecordsAgree, InWaitList

(* Steps that leave the coroutines alone too.                              *)
LEMMA WaitsSame ==
  ASSUME WaitRecordsAgree, UNCHANGED <<status, lcm, waits, mqWait, heap>>
  PROVE  WaitRecordsAgree'
<1>1. \A d \in Ctx : mqWait[d] # NoQueue => status'[d] = "wait" /\ d \in lcm'
  BY DEF WaitRecordsAgree
<1>2. \A d \in Ctx : status'[d] = "wait" => mqWait[d] # NoQueue
  BY DEF WaitRecordsAgree
<1> QED  BY <1>1, <1>2, WaitsUntouched

(* The end of a coroutine that is not suspended is such a step.            *)
LEMMA FinishWaits ==
  ASSUME TypeOK, WaitRecordsAgree, NEW c \in Ctx,
         status' = [status EXCEPT ![c] = "end"], lcm' = lcm \ {c},
         mqWait[c] = NoQueue, UNCHANGED <<waits, mqWait, heap>>
  PROVE  WaitRecordsAgree'
<1>1. \A d \in Ctx : mqWait[d] # NoQueue => status'[d] = "wait" /\ d \in lcm'
  BY DEF WaitRecordsAgree, TypeOK
<1>2. \A d \in Ctx : status'[d] = "wait" => mqWait[d] # NoQueue
  BY DEF WaitRecordsAgree, TypeOK
<1> QED  BY <1>1, <1>2, WaitsUntouched

(* A woken receiver leaves all three records at once.                      *)
LEMMA WakeWaits ==
  ASSUME TypeOK, WaitRecordsAgree, NEW c \in Ctx, NEW q \in Qname,
         mqWait[c] = q, NEW v, Wake(c, q, v), lcm' = lcm
  PROVE  WaitRecordsAgree'
<1> USE ConstAssumption
<1> DEFINE s == waits[q]
           d == ChainDel(s, c)
<1>1. s \in Seq(Ctx)
  BY DEF TypeOK
<1>2. \E k \in DOMAIN s : s[k] = c
  <2>1. InWaitList(c, q)
    <3>1. \A e \in Ctx, p \in Qname : mqWait[e] = p <=> InWaitList(e, p)
      BY DEF WaitRecordsAgree
    <3> QED  BY <3>1
  <2> QED  BY <2>1 DEF InWaitList
<1>3. \A i, j \in DOMAIN s : s[i] = s[j] => i = j
  BY DEF WaitRecordsAgree
<1>4. /\ \A e : (\E k \in DOMAIN d : d[k] = e)
                  <=> e # c /\ \E k \in DOMAIN s : s[k] = e
      /\ \A i, j \in DOMAIN d : d[i] = d[j] => i = j
  <2> HIDE DEF s
  <2>1. /\ \A e : (\E k \in DOMAIN ChainDel(s, c) : ChainDel(s, c)[k] = e)
                    <=> e # c /\ \E k \in DOMAIN s : s[k] = e
        /\ \A i, j \in DOMAIN ChainDel(s, c) :
             ChainDel(s, c)[i] = ChainDel(s, c)[j] => i = j
    BY <1>1, <1>2, <1>3, ChainDelRemoves
  <2> QED  BY <2>1
<1>5. waits' = [waits EXCEPT ![q] = d] /\ waits \in [Qname -> Seq(Ctx)]
  BY DEF Wake, TypeOK
<1>6. mqWait' = [mqWait EXCEPT ![c] = NoQueue]
      /\ mqWait \in [Ctx -> Qname \cup {NoQueue}]
  BY DEF Wake, TypeOK
<1> HIDE DEF d
<1>7. ASSUME NEW e \in Ctx, NEW p \in Qname
      PROVE  mqWait'[e] = p <=> \E i \in DOMAIN waits'[p] : waits'[p][i] = e
  <2>1. mqWait[e] = p <=> \E i \in DOMAIN waits[p] : waits[p][i] = e
    BY DEF WaitRecordsAgree, InWaitList
  <2>2. CASE p = q
    <3>1. waits'[p] = d
      BY <1>5, <2>2
    <3>2. mqWait'[e] = p <=> e # c /\ mqWait[e] = p
      BY <1>6
    <3> QED  BY <1>4, <2>1, <2>2, <3>1, <3>2
  <2>3. CASE p # q
    BY <1>5, <1>6, <2>1, <2>3
  <2> QED  BY <2>2, <2>3
<1>8. ASSUME NEW p \in Qname, NEW i \in DOMAIN waits'[p],
             NEW j \in DOMAIN waits'[p], waits'[p][i] = waits'[p][j]
      PROVE  i = j
  BY <1>4, <1>5, <1>8 DEF WaitRecordsAgree
<1>9. ASSUME NEW e \in Ctx
      PROVE  /\ mqWait'[e] # NoQueue => status'[e] = "wait" /\ e \in lcm'
             /\ status'[e] = "wait" => mqWait'[e] # NoQueue
  BY DEF WaitRecordsAgree, TypeOK, Wake
<1>10. \A e \in heap' : mqWait'[e] # NoQueue
  BY DEF WaitRecordsAgree, TypeOK, Wake
<1> QED  BY <1>7, <1>8, <1>9, <1>10 DEF WaitRecordsAgree, InWaitList

(* A suspended receiver enters all three records at once.                  *)
LEMMA SuspendWaits ==
  ASSUME TypeOK, WaitRecordsAgree, NEW c \in Ctx, NEW q \in Qname,
         Suspend(c, q), heap' \subseteq heap \cup {c}
  PROVE  WaitRecordsAgree'
<1> USE ConstAssumption
<1>1. mqWait[c] = NoQueue /\ c \in lcm /\ lcm' = lcm
  BY DEF WaitRecordsAgree, TypeOK, Suspend, CanGet, Calls, Running, ctxVars
<1>2. waits' = [waits EXCEPT ![q] = Append(waits[q], c)]
      /\ waits \in [Qname -> Seq(Ctx)]
  BY DEF Suspend, TypeOK
<1>3. mqWait' = [mqWait EXCEPT ![c] = q]
      /\ mqWait \in [Ctx -> Qname \cup {NoQueue}]
  BY DEF Suspend, TypeOK
<1>4. waits[q] \in Seq(Ctx)
  BY <1>2
<1>5. /\ DOMAIN Append(waits[q], c) = 1 .. Len(waits[q]) + 1
      /\ \A i \in 1 .. Len(waits[q]) : Append(waits[q], c)[i] = waits[q][i]
      /\ Append(waits[q], c)[Len(waits[q]) + 1] = c
      /\ Len(waits[q]) \in Nat /\ DOMAIN waits[q] = 1 .. Len(waits[q])
  BY <1>4
<1>6. \A i \in DOMAIN waits[q] : waits[q][i] # c
  BY <1>1 DEF WaitRecordsAgree, InWaitList
<1>7. ASSUME NEW e \in Ctx, NEW p \in Qname
      PROVE  mqWait'[e] = p <=> \E i \in DOMAIN waits'[p] : waits'[p][i] = e
  <2>1. mqWait[e] = p <=> \E i \in DOMAIN waits[p] : waits[p][i] = e
    BY DEF WaitRecordsAgree, InWaitList
  <2>2. CASE p = q
    <3>1. waits'[p] = Append(waits[q], c)
      BY <1>2, <2>2
    <3>2. (\E i \in DOMAIN waits'[p] : waits'[p][i] = e)
            <=> e = c \/ \E i \in DOMAIN waits[p] : waits[p][i] = e
      <4> DEFINE w == waits[q]
                 a == Append(w, c)
      <4>1. /\ DOMAIN a = DOMAIN w \cup {Len(w) + 1}
            /\ \A i \in DOMAIN w : a[i] = w[i]
            /\ a[Len(w) + 1] = c
        BY <1>5
      <4> HIDE DEF w, a
      <4>2. (\E i \in DOMAIN a : a[i] = e) <=> e = c \/ \E i \in DOMAIN w : w[i] = e
        BY <4>1
      <4> QED  BY <2>2, <3>1, <4>2 DEF w, a
    <3> QED  BY <1>3, <2>1, <2>2, <3>2
  <2>3. CASE p # q
    BY <1>1, <1>2, <1>3, <2>1, <2>3
  <2> QED  BY <2>2, <2>3
<1>8. ASSUME NEW p \in Qname, NEW i \in DOMAIN waits'[p],
             NEW j \in DOMAIN waits'[p], waits'[p][i] = waits'[p][j]
      PROVE  i = j
  <2>1. CASE p = q
    <3> DEFINE w == waits[q]
               a == Append(w, c)
    <3>1. \A m, n \in 1 .. Len(w) : w[m] = w[n] => m = n
      BY <1>5 DEF WaitRecordsAgree
    <3>2. i \in 1 .. Len(w) + 1 /\ j \in 1 .. Len(w) + 1 /\ a[i] = a[j]
      BY <1>2, <1>5, <1>8, <2>1
    <3>3. \A m \in 1 .. Len(w) : w[m] # c /\ a[m] = w[m]
      BY <1>5, <1>6
    <3>4. a[Len(w) + 1] = c /\ Len(w) \in Nat
      BY <1>5
    <3> HIDE DEF w, a
    <3> QED  BY <3>1, <3>2, <3>3, <3>4
  <2>2. CASE p # q
    BY <1>2, <1>8, <2>2 DEF WaitRecordsAgree
  <2> QED  BY <2>1, <2>2
<1>9. ASSUME NEW e \in Ctx
      PROVE  /\ mqWait'[e] # NoQueue => status'[e] = "wait" /\ e \in lcm'
             /\ status'[e] = "wait" => mqWait'[e] # NoQueue
  <2>1. status' = [status EXCEPT ![c] = "wait"] /\ q # NoQueue
    BY DEF Suspend
  <2>2. /\ mqWait[e] # NoQueue => status[e] = "wait" /\ e \in lcm
        /\ status[e] = "wait" => mqWait[e] # NoQueue
    BY DEF WaitRecordsAgree
  <2>3. status'[e] = (IF e = c THEN "wait" ELSE status[e])
    BY <2>1 DEF TypeOK
  <2>4. CASE e = c
    BY <1>1, <1>3, <2>1, <2>3, <2>4
  <2>5. CASE e # c
    BY <1>1, <1>3, <2>2, <2>3, <2>5
  <2> QED  BY <2>4, <2>5
<1>10. \A e \in heap' : mqWait'[e] # NoQueue
  <2>1. \A e \in heap : e \in Ctx /\ mqWait[e] # NoQueue
    BY DEF WaitRecordsAgree, TypeOK
  <2>2. q # NoQueue
    OBVIOUS
  <2> QED  BY <1>3, <2>1, <2>2
<1> QED  BY <1>7, <1>8, <1>9, <1>10 DEF WaitRecordsAgree, InWaitList

(* Nobody waits at the start.                                              *)
LEMMA WaitInit == Init => WaitInv
<1> SUFFICES ASSUME Init PROVE WaitRecordsAgree /\ SenderRuns
  BY TypeInit DEF WaitInv
<1> QED  BY ConstAssumption DEF Init, WaitRecordsAgree, InWaitList, SenderRuns

(* Every step keeps the wait records in agreement.                         *)
LEMMA WaitStep == WaitInv /\ [Next]_vars => WaitInv'
<1> SUFFICES ASSUME WaitInv, [Next]_vars PROVE WaitInv'
  OBVIOUS
<1> DEFINE Goal == WaitRecordsAgree' /\ SenderRuns'
<1> USE ConstAssumption DEF ctxVars, queueVars, timerVars, loopVars, Live
<1>0. TypeOK /\ WaitRecordsAgree /\ SenderRuns
  BY DEF WaitInv
<1>1. ASSUME NEW c \in Ctx,
             Import(c)
      PROVE  Goal
  BY <1>0, <1>1, WaitsUntouched
  DEF Import, WaitRecordsAgree, SenderRuns
<1>2. ASSUME NEW c \in Ctx,
             ImportFails(c)
      PROVE  Goal
  <2>1. mqWait[c] = NoQueue /\ loop' = "none"
    BY <1>0, <1>2 DEF ImportFails, Calls, Running, Idle, WaitRecordsAgree, CanSend, CanGet
  <2> QED  BY <1>0, <1>2, <2>1, FinishWaits DEF ImportFails, Finish, SenderRuns
<1>3. ASSUME NEW c \in Ctx,
             End(c)
      PROVE  Goal
  <2>1. mqWait[c] = NoQueue /\ loop' = "none"
    BY <1>0, <1>3 DEF End, Calls, Running, Idle, WaitRecordsAgree, CanSend, CanGet
  <2> QED  BY <1>0, <1>3, <2>1, FinishWaits DEF End, Finish, SenderRuns
<1>4. ASSUME NEW c \in Ctx, NEW k \in Ctx,
             Eval(k, c)
      PROVE  Goal
  <2>1. loop' = "none"
    BY <1>4 DEF Eval, Running, Idle
  <2> QED  BY <1>0, <1>4, <2>1, WaitsUntouched
           DEF Eval, WaitRecordsAgree, TypeOK, SenderRuns
<1>5. ASSUME NEW c \in Ctx, NEW k \in Ctx,
             Kill(k, c)
      PROVE  Goal
  <2>1. mqWait[c] = NoQueue /\ loop' = "none"
    BY <1>0, <1>5 DEF Kill, Calls, Running, Idle, WaitRecordsAgree, CanSend, CanGet
  <2> QED  BY <1>0, <1>5, <2>1, FinishWaits DEF Kill, Finish, SenderRuns
<1>6. ASSUME NEW c \in Ctx, NEW k \in Ctx,
             KillWaiting(k, c)
      PROVE  Goal
  BY <1>0, <1>6, WaitsSame DEF SenderRuns, KillWaiting, Abort
<1>7. ASSUME NEW c \in Ctx, NEW q \in Qname,
             RecvTopic(c, q)
      PROVE  Goal
  BY <1>0, <1>7, WaitsSame DEF SenderRuns, RecvTopic
<1>8. ASSUME NEW c \in Ctx, NEW q \in Qname,
             RecvTakes(c, q)
      PROVE  Goal
  BY <1>0, <1>8, WaitsSame DEF SenderRuns, RecvTakes
<1>9. ASSUME NEW c \in Ctx, NEW q \in Qname,
             RecvBlocks(c, q)
      PROVE  Goal
  <2>1. Suspend(c, q) /\ heap' \subseteq heap \cup {c}
    BY <1>9 DEF RecvBlocks
  <2>2. loop' = "none"
    BY <2>1 DEF Suspend, CanGet, Calls, Running, Idle
  <2> QED  BY <1>0, <2>1, <2>2, SuspendWaits DEF SenderRuns
<1>10. ASSUME NEW c \in Ctx, NEW q \in Qname, NEW timeout \in Timeouts,
             RecvBlocksTimed(c, q, timeout)
      PROVE  Goal
  <2>1. Suspend(c, q) /\ heap' \subseteq heap \cup {c}
    BY <1>10 DEF RecvBlocksTimed
  <2>2. loop' = "none"
    BY <2>1 DEF Suspend, CanGet, Calls, Running, Idle
  <2> QED  BY <1>0, <2>1, <2>2, SuspendWaits DEF SenderRuns
<1>11. ASSUME NEW c \in Ctx, NEW q \in Qname,
             RecvFails(c, q)
      PROVE  Goal
  <2>1. mqWait[c] = NoQueue /\ loop' = "none"
    BY <1>0, <1>11 DEF RecvFails, Calls, Running, Idle, WaitRecordsAgree, CanSend, CanGet
  <2> QED  BY <1>0, <1>11, <2>1, FinishWaits DEF RecvFails, Finish, SenderRuns
<1>12. ASSUME NEW c \in Ctx, NEW q \in Qname,
             RecvAborts(c, q)
      PROVE  Goal
  BY <1>0, <1>12, WaitsSame DEF SenderRuns, RecvAborts, Abort
<1>13. ASSUME NEW c \in Ctx,
             RecvRejects(c)
      PROVE  Goal
  <2>1. mqWait[c] = NoQueue /\ loop' = "none"
    BY <1>0, <1>13 DEF RecvRejects, Calls, Running, Idle, WaitRecordsAgree, CanSend, CanGet
  <2> QED  BY <1>0, <1>13, <2>1, FinishWaits DEF RecvRejects, Finish, SenderRuns
<1>14. ASSUME NEW c \in Ctx, NEW q \in Qname,
             SendQueues(c, q)
      PROVE  Goal
  BY <1>0, <1>14, WaitsSame DEF SenderRuns, SendQueues, AppendsOnly
<1>15. ASSUME NEW c \in Ctx, NEW q \in Qname,
             SendLeavesBoth(c, q)
      PROVE  Goal
  BY <1>0, <1>15, WaitsSame DEF SenderRuns, SendLeavesBoth, AppendsOnly
<1>16. ASSUME NEW c \in Ctx, NEW q \in Qname,
             SendFails(c, q)
      PROVE  Goal
  <2>1. mqWait[c] = NoQueue /\ loop' = "none"
    BY <1>0, <1>16 DEF SendFails, Calls, Running, Idle, WaitRecordsAgree, CanSend, CanGet
  <2> QED  BY <1>0, <1>16, <2>1, FinishWaits DEF SendFails, Finish, SenderRuns
<1>17. ASSUME NEW c \in Ctx, NEW q \in Qname,
             SendAborts(c, q)
      PROVE  Goal
  BY <1>0, <1>17, WaitsSame DEF SenderRuns, SendAborts, Abort
<1>18. ASSUME NEW c \in Ctx, NEW q \in Qname,
             SendHandsOver(c, q)
      PROVE  Goal
  <2> DEFINE w == Head(waits[q])
             v == FromQueue(q, Head(Appended(q)))
  <2>1. w \in Ctx /\ w = waits[q][1] /\ 1 \in DOMAIN waits[q]
    BY <1>0, <1>18 DEF TypeOK, SendHandsOver
  <2>2. mqWait[w] = q
    BY <1>0, <2>1 DEF WaitRecordsAgree, InWaitList
  <2>3. Wake(w, q, v) /\ lcm' = lcm /\ loop' = "none"
    BY <1>18 DEF SendHandsOver, CanSend, Calls, Running, Idle
  <2> HIDE DEF w, v
  <2> QED  BY <1>0, <2>1, <2>2, <2>3, WakeWaits DEF SenderRuns
<1>19. ASSUME NEW c \in Ctx, NEW t \in Qname,
             Subscribe(c, t)
      PROVE  Goal
  BY <1>0, <1>19, WaitsSame DEF SenderRuns, Subscribe
<1>20. ASSUME NEW c \in Ctx, NEW t \in Qname,
             Unsubscribe(c, t)
      PROVE  Goal
  BY <1>0, <1>20, WaitsSame DEF SenderRuns, Unsubscribe
<1>21. ASSUME NEW c \in Ctx, NEW t \in Qname,
             Broadcast(c, t)
      PROVE  Goal
  BY <1>0, <1>21, WaitsUntouched
  DEF WaitRecordsAgree, SenderRuns, Broadcast, Calls, Running
<1>22. ASSUME NEW c \in Ctx,
             VisitSkips(c)
      PROVE  Goal
  BY <1>0, <1>22, WaitsSame DEF SenderRuns, VisitSkips, Visit, Subscribes
<1>23. ASSUME NEW c \in Ctx,
             VisitQueues(c)
      PROVE  Goal
  BY <1>0, <1>23, WaitsSame DEF SenderRuns, VisitQueues, Visit, Subscribes
<1>24. ASSUME NEW c \in Ctx,
             VisitWakes(c)
      PROVE  Goal
  <2>1. mqWait[c] \in Qname /\ lcm' = lcm
    BY <1>0, <1>24 DEF TypeOK, WaitRecordsAgree, VisitWakes, Visit, Subscribes
  <2>2. Wake(c, mqWait[c], FromTopic(btopic, pub[btopic]))
    BY <1>24 DEF VisitWakes, Visit, Subscribes
  <2>3. WaitRecordsAgree'
    BY <1>0, <2>1, <2>2, WakeWaits
  <2>4. SenderRuns'
    BY <1>0, <1>24, <2>2 DEF SenderRuns, TypeOK, Wake, VisitWakes, Visit, Subscribes
  <2> QED  BY <2>3, <2>4
<1>25. ASSUME NEW c \in Ctx,
             VisitAborts(c)
      PROVE  Goal
  BY <1>0, <1>25, WaitsSame DEF SenderRuns, VisitAborts, Abort
<1>26. ASSUME NEW c \in Ctx,
             BroadcastFails(c)
      PROVE  Goal
  <2>1. sender \in Ctx /\ mqWait[sender] = NoQueue
    BY <1>0, <1>26 DEF SenderRuns, WaitRecordsAgree, BroadcastFails, Subscribes
  <2> QED  BY <1>0, <1>26, <2>1, FinishWaits
           DEF BroadcastFails, Finish, SenderRuns, Subscribes
<1>27. ASSUME BroadcastDone PROVE Goal
  BY <1>0, <1>27, WaitsSame DEF SenderRuns, BroadcastDone
<1>28. ASSUME TimerFires PROVE Goal
  BY <1>0, <1>28, WaitsSame DEF SenderRuns, TimerFires
<1>29. ASSUME TimerAborts PROVE Goal
  BY <1>0, <1>29, WaitsSame DEF SenderRuns, TimerAborts, Abort
<1>30. ASSUME TimerDone PROVE Goal
  BY <1>0, <1>30, WaitsSame DEF SenderRuns, TimerDone, Rearmed
<1>31. ASSUME TimerNotSet PROVE Goal
  BY <1>0, <1>31, WaitsSame DEF SenderRuns, TimerNotSet
<1>32. ASSUME NEW c \in Ctx,
             Expire(c)
      PROVE  Goal
  <2>1. mqWait[c] \in Qname /\ lcm' = lcm
    BY <1>0, <1>32 DEF TypeOK, WaitRecordsAgree, Expire, Due, Emptied
  <2>2. Wake(c, mqWait[c], ret[c])
    BY <1>32 DEF Expire, Due, Emptied
  <2>3. WaitRecordsAgree'
    BY <1>0, <2>1, <2>2, WakeWaits
  <2>4. SenderRuns'
    BY <1>0, <1>32, <2>2 DEF SenderRuns, TypeOK, Wake, Expire, Due, Emptied
  <2> QED  BY <2>3, <2>4
<1>33. ASSUME Tick PROVE Goal
  BY <1>0, <1>33, WaitsSame DEF SenderRuns, Tick
<1>34. ASSUME UNCHANGED vars PROVE Goal
  BY <1>0, <1>34, WaitsSame DEF SenderRuns, vars
<1>35. Goal
  BY <1>1, <1>2, <1>3, <1>4, <1>5, <1>6, <1>7, <1>8, <1>9, <1>10, <1>11,
     <1>12, <1>13, <1>14, <1>15, <1>16, <1>17, <1>18, <1>19, <1>20, <1>21,
     <1>22, <1>23, <1>24, <1>25, <1>26, <1>27, <1>28, <1>29, <1>30, <1>31,
     <1>32, <1>33, <1>34
     DEF Next, Lifecycle, Receive, Send, Topic, Timer
<1> QED  BY <1>0, <1>35, TypeStep DEF WaitInv

(* The wait lists, lcm->mq_wait, the scheduler's lists and the timeout     *)
(* heap agree on who is suspended where.                                   *)
THEOREM WaitRecordsCorrect == Spec => []WaitRecordsAgree
<1>1. WaitInv => WaitRecordsAgree
  BY DEF WaitInv
<1> QED  BY <1>1, WaitInit, WaitStep, PTL DEF Spec

-----------------------------------------------------------------------------
(* Queues.                                                                 *)

QueueInv ==
  WaitInv /\ QueueIsFifo /\ NoStarvedReceiver /\ NoOrphanedQueue

(* Steps that leave the queues alone.                                      *)
LEMMA QueuesSame ==
  ASSUME QueueIsFifo, NoStarvedReceiver, NoOrphanedQueue,
         UNCHANGED <<mqs, msgs, waits, sent, taken>>
  PROVE  QueueIsFifo' /\ NoStarvedReceiver' /\ NoOrphanedQueue'
BY DEF QueueIsFifo, NoStarvedReceiver, NoOrphanedQueue

(* A message that is sent is the next of its queue.                        *)
LEMMA AppendKeepsFifo ==
  ASSUME TypeOK, QueueIsFifo, NEW q \in Qname,
         sent' = [sent EXCEPT ![q] = @ + 1], taken' = taken,
         msgs' = [msgs EXCEPT ![q] = Appended(q)]
  PROVE  QueueIsFifo'
<1>1. /\ msgs \in [Qname -> Seq(Nat)] /\ msgs[q] \in Seq(Nat)
      /\ sent \in [Qname -> Nat] /\ taken \in [Qname -> Nat]
      /\ sent[q] \in Nat /\ taken[q] \in Nat
  BY DEF TypeOK
<1>2. /\ Len(Appended(q)) = Len(msgs[q]) + 1 /\ Len(msgs[q]) \in Nat
      /\ DOMAIN Appended(q) = 1 .. Len(msgs[q]) + 1
      /\ \A i \in 1 .. Len(msgs[q]) : Appended(q)[i] = msgs[q][i]
      /\ Appended(q)[Len(msgs[q]) + 1] = sent[q] + 1
      /\ DOMAIN msgs[q] = 1 .. Len(msgs[q])
  BY <1>1 DEF Appended
<1>3. /\ sent[q] = taken[q] + Len(msgs[q])
      /\ \A i \in 1 .. Len(msgs[q]) : msgs[q][i] = taken[q] + i
  BY <1>2 DEF QueueIsFifo
<1>4. ASSUME NEW p \in Qname
      PROVE  /\ sent'[p] = taken'[p] + Len(msgs'[p])
             /\ \A i \in DOMAIN msgs'[p] : msgs'[p][i] = taken'[p] + i
  <2>1. CASE p = q
    <3>1. msgs'[p] = Appended(q) /\ sent'[p] = sent[q] + 1 /\ taken'[p] = taken[q]
      BY <1>1, <2>1
    <3>2. sent'[p] = taken'[p] + Len(msgs'[p])
      BY <1>1, <1>2, <1>3, <3>1
    <3>3. ASSUME NEW i \in 1 .. Len(msgs[q]) + 1
          PROVE  Appended(q)[i] = taken[q] + i
      <4>1. CASE i = Len(msgs[q]) + 1
        BY <1>1, <1>2, <1>3, <4>1
      <4>2. CASE i \in 1 .. Len(msgs[q])
        BY <1>2, <1>3, <4>2
      <4> QED  BY <1>2, <4>1, <4>2
    <3> QED  BY <1>2, <3>1, <3>2, <3>3
  <2>2. CASE p # q
    BY <1>1, <2>2 DEF QueueIsFifo
  <2> QED  BY <2>1, <2>2
<1> QED  BY <1>4 DEF QueueIsFifo

(* The message that is received is the next one.                           *)
LEMMA TakeKeepsFifo ==
  ASSUME TypeOK, QueueIsFifo, NEW q \in Qname, msgs[q] # <<>>,
         sent' = sent, taken' = [taken EXCEPT ![q] = @ + 1],
         msgs' = [msgs EXCEPT ![q] = Tail(@)]
  PROVE  QueueIsFifo'
<1>1. /\ msgs \in [Qname -> Seq(Nat)] /\ msgs[q] \in Seq(Nat)
      /\ sent \in [Qname -> Nat] /\ taken \in [Qname -> Nat]
      /\ sent[q] \in Nat /\ taken[q] \in Nat
  BY DEF TypeOK
<1>2. /\ Len(Tail(msgs[q])) = Len(msgs[q]) - 1
      /\ Len(msgs[q]) \in Nat /\ Len(msgs[q]) > 0
      /\ DOMAIN Tail(msgs[q]) = 1 .. Len(msgs[q]) - 1
      /\ \A i \in 1 .. Len(msgs[q]) - 1 : Tail(msgs[q])[i] = msgs[q][i + 1]
      /\ DOMAIN msgs[q] = 1 .. Len(msgs[q])
  BY <1>1
<1>3. /\ sent[q] = taken[q] + Len(msgs[q])
      /\ \A i \in 1 .. Len(msgs[q]) : msgs[q][i] = taken[q] + i
  BY <1>2 DEF QueueIsFifo
<1>4. ASSUME NEW p \in Qname
      PROVE  /\ sent'[p] = taken'[p] + Len(msgs'[p])
             /\ \A i \in DOMAIN msgs'[p] : msgs'[p][i] = taken'[p] + i
  <2>1. CASE p = q
    <3>1. /\ msgs'[p] = Tail(msgs[q]) /\ sent'[p] = sent[q]
          /\ taken'[p] = taken[q] + 1
      BY <1>1, <2>1
    <3>2. sent'[p] = taken'[p] + Len(msgs'[p])
      BY <1>1, <1>2, <1>3, <3>1
    <3>3. \A i \in 1 .. Len(msgs[q]) - 1 : Tail(msgs[q])[i] = taken[q] + 1 + i
      BY <1>1, <1>2, <1>3
    <3> QED  BY <1>2, <3>1, <3>2, <3>3
  <2>2. CASE p # q
    BY <1>1, <2>2 DEF QueueIsFifo
  <2> QED  BY <2>1, <2>2
<1> QED  BY <1>4 DEF QueueIsFifo

(* A message that is handed over goes through the list in one step.        *)
LEMMA HandOverKeepsFifo ==
  ASSUME TypeOK, QueueIsFifo, NEW q \in Qname,
         sent' = [sent EXCEPT ![q] = @ + 1],
         taken' = [taken EXCEPT ![q] = @ + 1],
         msgs' = [msgs EXCEPT ![q] = Tail(Appended(q))]
  PROVE  QueueIsFifo'
<1>1. /\ msgs \in [Qname -> Seq(Nat)] /\ msgs[q] \in Seq(Nat)
      /\ sent \in [Qname -> Nat] /\ taken \in [Qname -> Nat]
      /\ sent[q] \in Nat /\ taken[q] \in Nat
  BY DEF TypeOK
<1>2. /\ Len(Appended(q)) = Len(msgs[q]) + 1 /\ Len(msgs[q]) \in Nat
      /\ \A i \in 1 .. Len(msgs[q]) : Appended(q)[i] = msgs[q][i]
      /\ Appended(q)[Len(msgs[q]) + 1] = sent[q] + 1
      /\ DOMAIN msgs[q] = 1 .. Len(msgs[q])
      /\ Appended(q) \in Seq(Nat)
  BY <1>1 DEF Appended
<1>3. /\ Len(Tail(Appended(q))) = Len(msgs[q])
      /\ DOMAIN Tail(Appended(q)) = 1 .. Len(msgs[q])
      /\ \A i \in 1 .. Len(msgs[q]) : Tail(Appended(q))[i] = Appended(q)[i + 1]
  BY <1>2
<1>4. /\ sent[q] = taken[q] + Len(msgs[q])
      /\ \A i \in 1 .. Len(msgs[q]) : msgs[q][i] = taken[q] + i
  BY <1>2 DEF QueueIsFifo
<1>5. \A i \in 1 .. Len(msgs[q]) : Tail(Appended(q))[i] = taken[q] + 1 + i
  <2> SUFFICES ASSUME NEW i \in 1 .. Len(msgs[q])
               PROVE  Appended(q)[i + 1] = taken[q] + 1 + i
    BY <1>3
  <2>1. CASE i + 1 \in 1 .. Len(msgs[q])
    BY <1>1, <1>2, <1>4, <2>1
  <2>2. CASE i = Len(msgs[q])
    BY <1>1, <1>2, <1>4, <2>2
  <2> QED  BY <1>2, <2>1, <2>2
<1>6. ASSUME NEW p \in Qname
      PROVE  /\ sent'[p] = taken'[p] + Len(msgs'[p])
             /\ \A i \in DOMAIN msgs'[p] : msgs'[p][i] = taken'[p] + i
  <2>1. CASE p = q
    <3>1. /\ msgs'[p] = Tail(Appended(q)) /\ sent'[p] = sent[q] + 1
          /\ taken'[p] = taken[q] + 1
      BY <1>1, <2>1
    <3>2. sent'[p] = taken'[p] + Len(msgs'[p])
      BY <1>1, <1>2, <1>3, <1>4, <3>1
    <3> QED  BY <1>3, <1>5, <3>1, <3>2
  <2>2. CASE p # q
    BY <1>1, <2>2 DEF QueueIsFifo
  <2> QED  BY <2>1, <2>2
<1> QED  BY <1>6 DEF QueueIsFifo

(* Waking a receiver otherwise than by a send leaves the messages alone.   *)
LEMMA WakeKeepsQueues ==
  ASSUME QueueInv, NEW c \in Ctx, mqWait[c] \in Qname, NEW v,
         Wake(c, mqWait[c], v), UNCHANGED <<msgs, sent, taken>>,
         \/ mqs' = mqs
         \/ /\ mqs' = mqs \ {mqWait[c]}
            /\ msgs[mqWait[c]] = <<>> /\ waits'[mqWait[c]] = <<>>
  PROVE  QueueIsFifo' /\ NoStarvedReceiver' /\ NoOrphanedQueue'
<1> DEFINE q == mqWait[c]
<1>1. waits[q] # <<>>
  <2>1. \E k \in DOMAIN waits[q] : waits[q][k] = c
    BY DEF QueueInv, WaitInv, WaitRecordsAgree, InWaitList
  <2> QED  BY <2>1
<1>2. \A p \in Qname : p # q => waits'[p] = waits[p]
  BY DEF Wake, QueueInv, WaitInv, TypeOK
<1>3. QueueIsFifo'
  BY DEF QueueInv, QueueIsFifo
<1>4. NoStarvedReceiver'
  BY <1>1, <1>2 DEF QueueInv, NoStarvedReceiver
<1>5. NoOrphanedQueue'
  BY <1>1, <1>2 DEF QueueInv, NoOrphanedQueue
<1> QED  BY <1>3, <1>4, <1>5

(* So does suspending one, which happens when there is no message.         *)
LEMMA SuspendKeepsQueues ==
  ASSUME QueueInv, NEW c \in Ctx, NEW q \in Qname, Suspend(c, q)
  PROVE  QueueIsFifo' /\ NoStarvedReceiver' /\ NoOrphanedQueue'
<1>1. \A p \in Qname : p # q => waits'[p] = waits[p]
  BY DEF Suspend, QueueInv, WaitInv, TypeOK
<1>2. UNCHANGED <<msgs, sent, taken>> /\ mqs' = mqs \cup {q}
      /\ (waits[q] # <<>> \/ msgs[q] = <<>>)
  BY DEF Suspend
<1>3. QueueIsFifo'
  BY <1>2 DEF QueueInv, QueueIsFifo
<1>4. NoStarvedReceiver'
  BY <1>1, <1>2 DEF QueueInv, NoStarvedReceiver
<1>5. NoOrphanedQueue'
  BY <1>1, <1>2 DEF QueueInv, NoOrphanedQueue
<1> QED  BY <1>3, <1>4, <1>5

(* The queues start empty.                                                 *)
LEMMA QueueInit == Init => QueueInv
BY WaitInit DEF Init, QueueInv, QueueIsFifo, NoStarvedReceiver, NoOrphanedQueue

(* Every step keeps the queues in order.                                   *)
LEMMA QueueStep == QueueInv /\ [Next]_vars => QueueInv'
<1> SUFFICES ASSUME QueueInv, [Next]_vars PROVE QueueInv'
  OBVIOUS
<1> DEFINE Goal == QueueIsFifo' /\ NoStarvedReceiver' /\ NoOrphanedQueue'
<1> USE DEF ctxVars, queueVars, timerVars, loopVars
<1>0. TypeOK /\ WaitRecordsAgree /\ QueueIsFifo /\ NoStarvedReceiver
      /\ NoOrphanedQueue
  BY DEF QueueInv, WaitInv
<1>1. ASSUME NEW c \in Ctx,
             Import(c)
      PROVE  Goal
  BY <1>0, <1>1, QueuesSame DEF Import
<1>2. ASSUME NEW c \in Ctx,
             ImportFails(c)
      PROVE  Goal
  BY <1>0, <1>2, QueuesSame DEF ImportFails
<1>3. ASSUME NEW c \in Ctx,
             End(c)
      PROVE  Goal
  BY <1>0, <1>3, QueuesSame DEF End
<1>4. ASSUME NEW c \in Ctx, NEW k \in Ctx,
             Eval(k, c)
      PROVE  Goal
  BY <1>0, <1>4, QueuesSame DEF Eval
<1>5. ASSUME NEW c \in Ctx, NEW k \in Ctx,
             Kill(k, c)
      PROVE  Goal
  BY <1>0, <1>5, QueuesSame DEF Kill
<1>6. ASSUME NEW c \in Ctx, NEW k \in Ctx,
             KillWaiting(k, c)
      PROVE  Goal
  BY <1>0, <1>6, QueuesSame DEF KillWaiting, Abort
<1>7. ASSUME NEW c \in Ctx, NEW q \in Qname,
             RecvTopic(c, q)
      PROVE  Goal
  BY <1>0, <1>7, QueuesSame DEF RecvTopic
<1>8. ASSUME NEW c \in Ctx, NEW q \in Qname,
             RecvAborts(c, q)
      PROVE  Goal
  BY <1>0, <1>8, QueuesSame DEF RecvAborts, Abort
<1>9. ASSUME NEW c \in Ctx,
             RecvRejects(c)
      PROVE  Goal
  BY <1>0, <1>9, QueuesSame DEF RecvRejects
<1>10. ASSUME NEW c \in Ctx, NEW q \in Qname,
             SendAborts(c, q)
      PROVE  Goal
  BY <1>0, <1>10, QueuesSame DEF SendAborts, Abort
<1>11. ASSUME NEW c \in Ctx, NEW t \in Qname,
             Subscribe(c, t)
      PROVE  Goal
  BY <1>0, <1>11, QueuesSame DEF Subscribe
<1>12. ASSUME NEW c \in Ctx, NEW t \in Qname,
             Unsubscribe(c, t)
      PROVE  Goal
  BY <1>0, <1>12, QueuesSame DEF Unsubscribe
<1>13. ASSUME NEW c \in Ctx, NEW t \in Qname,
             Broadcast(c, t)
      PROVE  Goal
  BY <1>0, <1>13, QueuesSame DEF Broadcast
<1>14. ASSUME NEW c \in Ctx,
             VisitSkips(c)
      PROVE  Goal
  BY <1>0, <1>14, QueuesSame DEF VisitSkips, Visit, Subscribes
<1>15. ASSUME NEW c \in Ctx,
             VisitQueues(c)
      PROVE  Goal
  BY <1>0, <1>15, QueuesSame DEF VisitQueues, Visit, Subscribes
<1>16. ASSUME NEW c \in Ctx,
             VisitAborts(c)
      PROVE  Goal
  BY <1>0, <1>16, QueuesSame DEF VisitAborts, Abort
<1>17. ASSUME NEW c \in Ctx,
             BroadcastFails(c)
      PROVE  Goal
  BY <1>0, <1>17, QueuesSame DEF BroadcastFails, Subscribes
<1>18. ASSUME BroadcastDone PROVE Goal
  BY <1>0, <1>18, QueuesSame DEF BroadcastDone
<1>19. ASSUME TimerFires PROVE Goal
  BY <1>0, <1>19, QueuesSame DEF TimerFires
<1>20. ASSUME TimerAborts PROVE Goal
  BY <1>0, <1>20, QueuesSame DEF TimerAborts, Abort
<1>21. ASSUME TimerDone PROVE Goal
  BY <1>0, <1>21, QueuesSame DEF TimerDone, Rearmed
<1>22. ASSUME TimerNotSet PROVE Goal
  BY <1>0, <1>22, QueuesSame DEF TimerNotSet
<1>23. ASSUME Tick PROVE Goal
  BY <1>0, <1>23, QueuesSame DEF Tick
<1>24. ASSUME UNCHANGED vars PROVE Goal
  BY <1>0, <1>24, QueuesSame DEF vars
<1>25. ASSUME NEW c \in Ctx, NEW q \in Qname,
             RecvTakes(c, q)
      PROVE  Goal
  <2>1. QueueIsFifo'
    BY <1>0, <1>25, TakeKeepsFifo DEF RecvTakes
  <2>2. \A p \in Qname : p # q => msgs'[p] = msgs[p]
    BY <1>0, <1>25 DEF TypeOK, RecvTakes
  <2>3. msgs'[q] = Tail(msgs[q]) /\ waits' = waits /\ waits[q] = <<>>
    BY <1>0, <1>25 DEF TypeOK, RecvTakes
  <2>4. NoStarvedReceiver'
    BY <1>0, <2>2, <2>3 DEF NoStarvedReceiver
  <2>5. NoOrphanedQueue'
    BY <1>0, <1>25, <2>2, <2>3 DEF RecvTakes, NoOrphanedQueue
  <2> QED  BY <2>1, <2>4, <2>5
<1>26. ASSUME NEW c \in Ctx, NEW q \in Qname,
             RecvBlocks(c, q)
      PROVE  Goal
  BY <1>26, SuspendKeepsQueues DEF RecvBlocks
<1>27. ASSUME NEW c \in Ctx, NEW q \in Qname, NEW timeout \in Timeouts,
             RecvBlocksTimed(c, q, timeout)
      PROVE  Goal
  BY <1>27, SuspendKeepsQueues DEF RecvBlocksTimed
<1>28. ASSUME NEW c \in Ctx, NEW q \in Qname,
             RecvFails(c, q)
      PROVE  Goal
  BY <1>0, <1>28
  DEF RecvFails, QueueIsFifo, NoStarvedReceiver, NoOrphanedQueue
<1>29. ASSUME NEW c \in Ctx, NEW q \in Qname,
             SendQueues(c, q)
      PROVE  Goal
  <2>1. QueueIsFifo'
    BY <1>0, <1>29, AppendKeepsFifo DEF SendQueues, AppendsOnly
  <2>2. (\A p \in Qname : p # q => msgs'[p] = msgs[p]) /\ waits' = waits
    BY <1>0, <1>29 DEF TypeOK, SendQueues, AppendsOnly
  <2>3. NoStarvedReceiver'
    BY <1>0, <1>29, <2>2 DEF NoStarvedReceiver, SendQueues, AppendsOnly
  <2>4. NoOrphanedQueue'
    BY <1>0, <1>29, <2>2 DEF NoOrphanedQueue, SendQueues, AppendsOnly
  <2> QED  BY <2>1, <2>3, <2>4
<1>30. ASSUME NEW c \in Ctx, NEW q \in Qname,
             SendLeavesBoth(c, q)
      PROVE  Goal
  <2>1. QueueIsFifo'
    BY <1>0, <1>30, AppendKeepsFifo DEF SendLeavesBoth, AppendsOnly
  <2>2. (\A p \in Qname : p # q => msgs'[p] = msgs[p]) /\ waits' = waits
    BY <1>0, <1>30 DEF TypeOK, SendLeavesBoth, AppendsOnly
  <2>3. NoStarvedReceiver'
    BY <1>0, <1>30, <2>2 DEF NoStarvedReceiver, SendLeavesBoth, AppendsOnly
  <2>4. NoOrphanedQueue'
    BY <1>0, <1>30, <2>2 DEF NoOrphanedQueue, SendLeavesBoth, AppendsOnly
  <2> QED  BY <2>1, <2>3, <2>4
<1>31. ASSUME NEW c \in Ctx, NEW q \in Qname,
             SendFails(c, q)
      PROVE  Goal
  <2>1. QueueIsFifo'
    BY <1>0, <1>31, AppendKeepsFifo DEF SendFails
  <2>2. (\A p \in Qname : p # q => msgs'[p] = msgs[p]) /\ waits' = waits
    BY <1>0, <1>31 DEF TypeOK, SendFails
  <2>3. NoStarvedReceiver'
    BY <1>0, <1>31, <2>2 DEF NoStarvedReceiver, SendFails
  <2>4. NoOrphanedQueue'
    BY <1>0, <1>31, <2>2 DEF NoOrphanedQueue, SendFails
  <2> QED  BY <2>1, <2>3, <2>4
<1>32. ASSUME NEW c \in Ctx, NEW q \in Qname,
             SendHandsOver(c, q)
      PROVE  Goal
  <2>1. QueueIsFifo'
    BY <1>0, <1>32, HandOverKeepsFifo DEF SendHandsOver
  <2>2. \A p \in Qname : p # q => msgs'[p] = msgs[p] /\ waits'[p] = waits[p]
    BY <1>0, <1>32 DEF TypeOK, SendHandsOver, Wake
  <2>3. ~AllocFailures => msgs'[q] = <<>>
    <3> SUFFICES ASSUME ~AllocFailures PROVE msgs'[q] = <<>>
      OBVIOUS
    <3>1. msgs[q] = <<>>
      BY <1>0, <1>32 DEF NoStarvedReceiver, SendHandsOver
    <3>2. Tail(Appended(q)) = <<>>
      BY <3>1 DEF Appended
    <3> QED  BY <1>0, <1>32, <3>2 DEF TypeOK, SendHandsOver
  <2>4. NoStarvedReceiver'
    BY <1>0, <2>2, <2>3 DEF NoStarvedReceiver
  <2>5. NoOrphanedQueue'
    BY <1>0, <1>32, <2>2 DEF NoOrphanedQueue, SendHandsOver
  <2> QED  BY <2>1, <2>4, <2>5
<1>33. ASSUME NEW c \in Ctx,
             VisitWakes(c)
      PROVE  Goal
  <2>1. mqWait[c] \in Qname
    BY <1>0, <1>33 DEF TypeOK, VisitWakes, Subscribes
  <2> QED  BY <1>33, <2>1, WakeKeepsQueues DEF VisitWakes, Visit, Subscribes
<1>34. ASSUME NEW c \in Ctx,
             Expire(c)
      PROVE  Goal
  <2>1. mqWait[c] \in Qname
    BY <1>0, <1>34 DEF TypeOK, WaitRecordsAgree, Expire, Due, Emptied
  <2> QED  BY <1>34, <2>1, WakeKeepsQueues DEF Expire, Emptied
<1>35. Goal
  BY <1>1, <1>2, <1>3, <1>4, <1>5, <1>6, <1>7, <1>8, <1>9, <1>10, <1>11,
     <1>12, <1>13, <1>14, <1>15, <1>16, <1>17, <1>18, <1>19, <1>20, <1>21,
     <1>22, <1>23, <1>24, <1>25, <1>26, <1>27, <1>28, <1>29, <1>30, <1>31,
     <1>32, <1>33, <1>34
     DEF Next, Lifecycle, Receive, Send, Topic, Timer
<1> QED  BY <1>35, WaitStep DEF QueueInv

(* Every queue is a FIFO from which each message is taken once.            *)
THEOREM QueuesAreFifo == Spec => []QueueIsFifo
<1>1. QueueInv => QueueIsFifo
  BY DEF QueueInv
<1> QED  BY <1>1, QueueInit, QueueStep, PTL DEF Spec

(* Without allocation failures nobody sleeps on a queue with a message.    *)
THEOREM NoLostWakeup == Spec => []NoStarvedReceiver
<1>1. QueueInv => NoStarvedReceiver
  BY DEF QueueInv
<1> QED  BY <1>1, QueueInit, QueueStep, PTL DEF Spec

(* The entry of a queue is never deleted under a message or a receiver.    *)
THEOREM QueueEntriesKept == Spec => []NoOrphanedQueue
<1>1. QueueInv => NoOrphanedQueue
  BY DEF QueueInv
<1> QED  BY <1>1, QueueInit, QueueStep, PTL DEF Spec

-----------------------------------------------------------------------------
(* Timers.                                                                 *)

(* Steps that leave the timers alone.                                      *)
LEMMA TimersSame ==
  ASSUME TimerCoversHeap, heap' \subseteq heap, armed' = armed, loop' = loop
  PROVE  TimerCoversHeap'
BY DEF TimerCoversHeap

(* Every step keeps a timer for the receivers in the heap.                 *)
LEMMA TimerStep == TypeOK /\ TimerCoversHeap /\ [Next]_vars => TimerCoversHeap'
<1> SUFFICES ASSUME TypeOK, TimerCoversHeap, [Next]_vars
             PROVE  TimerCoversHeap'
  OBVIOUS
<1> USE DEF timerVars, loopVars
<1>1. CASE Lifecycle
  BY <1>1, TimersSame
  DEF Lifecycle, Import, ImportFails, End, Eval, Kill, KillWaiting, Abort
<1>2. CASE Receive
  <2>1. ASSUME NEW c \in Ctx, NEW q \in Qname, NEW timeout \in Timeouts,
               RecvBlocksTimed(c, q, timeout)
        PROVE  TimerCoversHeap'
    <3>1. loop = "none" /\ loop' = "none"
      BY <2>1 DEF RecvBlocksTimed, Suspend, CanGet, Calls, Running, Idle
    <3>2. CASE heap = {}
      BY <2>1, <3>2 DEF TypeOK, RecvBlocksTimed, TimerCoversHeap
    <3>3. CASE heap # {}
      BY <2>1, <3>1, <3>3 DEF RecvBlocksTimed, TimerCoversHeap
    <3> QED  BY <3>2, <3>3
  <2>2. CASE \E c \in Ctx, q \in Qname :
               \/ RecvTopic(c, q) \/ RecvTakes(c, q) \/ RecvBlocks(c, q)
               \/ RecvFails(c, q) \/ RecvAborts(c, q) \/ RecvRejects(c)
    BY <2>2, TimersSame
    DEF RecvTopic, RecvTakes, RecvBlocks, Suspend, RecvFails, RecvAborts,
        RecvRejects, Abort
  <2> QED  BY <1>2, <2>1, <2>2 DEF Receive
<1>3. CASE Send
  BY <1>3, TimersSame
  DEF Send, SendQueues, SendHandsOver, Wake, SendLeavesBoth, SendFails,
      SendAborts, Abort, AppendsOnly
<1>4. CASE Topic
  <2>1. ASSUME NEW c \in Ctx, NEW t \in Qname, Broadcast(c, t)
        PROVE  TimerCoversHeap'
    BY <2>1 DEF Broadcast, Calls, Running, Idle, TimerCoversHeap
  <2>2. ASSUME NEW c \in Ctx, BroadcastFails(c)
        PROVE  TimerCoversHeap'
    BY <2>2 DEF BroadcastFails, TimerCoversHeap, Subscribes
  <2>3. CASE \E c \in Ctx :
               \/ \E t \in Qname : Subscribe(c, t) \/ Unsubscribe(c, t)
               \/ VisitSkips(c) \/ VisitQueues(c) \/ VisitWakes(c)
               \/ VisitAborts(c)
    BY <2>3, TimersSame
    DEF Subscribe, Unsubscribe, VisitSkips, VisitQueues, VisitWakes, Visit,
        Wake, VisitAborts, Abort, Subscribes
  <2> QED  BY <1>4, <2>1, <2>2, <2>3 DEF Topic
<1>5. CASE BroadcastDone
  BY <1>5 DEF BroadcastDone, TimerCoversHeap
<1>6. CASE Timer
  <2>1. CASE TimerFires
    BY <2>1 DEF TimerFires, TimerCoversHeap
  <2>2. CASE TimerAborts
    BY <2>2, TimersSame DEF TimerAborts, Abort
  <2>3. CASE TimerDone
    <3>1. heap' = heap /\ armed' = IF heap = {} THEN armed ELSE armed + 1
      BY <2>3 DEF TimerDone, Rearmed
    <3> QED  BY <3>1 DEF TypeOK, TimerCoversHeap
  <2>4. CASE TimerNotSet
    BY <2>4 DEF TimerNotSet, TimerCoversHeap
  <2>5. CASE \E c \in Ctx : Expire(c)
    BY <2>5, TimersSame DEF Expire, Wake, Emptied
  <2> QED  BY <1>6, <2>1, <2>2, <2>3, <2>4, <2>5 DEF Timer
<1>7. CASE Tick
  BY <1>7, TimersSame DEF Tick
<1>8. CASE UNCHANGED vars
  BY <1>8, TimersSame DEF vars
<1> QED  BY <1>1, <1>2, <1>3, <1>4, <1>5, <1>6, <1>7, <1>8 DEF Next

(* No receiver with a deadline is forgotten by the timers.                 *)
THEOREM TimersCorrect == Spec => []TimerCoversHeap
<1>1. Init => TimerCoversHeap
  BY DEF Init, TimerCoversHeap
<1> QED  BY <1>1, TypeInit, TypeStep, TimerStep, PTL DEF Spec

-----------------------------------------------------------------------------
(* What recv returns.                                                      *)

(* The value recv returns when nothing arrives is set when it suspends.    *)
WaitersHoldNil == \A c \in Ctx : mqWait[c] # NoQueue => ret[c] = Nil

ReturnInv == QueueInv /\ WaitersHoldNil

(* The steps by which the value or the wait of a coroutine changes.        *)
Returning ==
  \E c \in Ctx :
    \/ RecvRejects(c) \/ VisitWakes(c) \/ Expire(c)
    \/ \E q \in Qname : RecvTopic(c, q) \/ RecvTakes(c, q) \/ Suspend(c, q)
                        \/ SendHandsOver(c, q)

(* Every other step leaves the results of recv and the wait lists alone.   *)
LEMMA NotReturning ==
  [Next]_vars => Returning \/ UNCHANGED <<ret, mqWait>>
<1> SUFFICES ASSUME [Next]_vars, ~Returning PROVE UNCHANGED <<ret, mqWait>>
  OBVIOUS
<1> USE DEF queueVars
<1>1. CASE Lifecycle
  BY <1>1 DEF Lifecycle, Import, ImportFails, End, Eval, Kill, KillWaiting, Abort
<1>2. CASE Receive
  BY <1>2 DEF Receive, Returning, RecvBlocks, RecvBlocksTimed, RecvFails,
              RecvAborts, Abort
<1>3. CASE Send
  BY <1>3 DEF Send, Returning, SendQueues, SendLeavesBoth, SendFails,
              SendAborts, Abort, AppendsOnly
<1>4. CASE Topic
  BY <1>4 DEF Topic, Returning, Subscribe, Unsubscribe, Broadcast, VisitSkips,
              VisitQueues, VisitAborts, BroadcastFails, Abort, Subscribes
<1>5. CASE BroadcastDone
  BY <1>5 DEF BroadcastDone
<1>6. CASE Timer
  BY <1>6 DEF Timer, Returning, TimerFires, TimerAborts, TimerDone, TimerNotSet,
              Abort, Rearmed
<1>7. CASE Tick
  BY <1>7 DEF Tick
<1>8. CASE UNCHANGED vars
  BY <1>8 DEF vars
<1> QED  BY <1>1, <1>2, <1>3, <1>4, <1>5, <1>6, <1>7, <1>8 DEF Next

(* A coroutine that calls recv waits on nothing.                           *)
LEMMA CallerIsFree ==
  ASSUME WaitInv, NEW c \in Ctx, Calls(c)
  PROVE  mqWait[c] = NoQueue
BY DEF WaitInv, WaitRecordsAgree, Calls, Running

(* The head of a wait list waits on that queue.                            *)
LEMMA HeadWaits ==
  ASSUME WaitInv, NEW q \in Qname, waits[q] # <<>>
  PROVE  Head(waits[q]) \in Ctx /\ mqWait[Head(waits[q])] = q
<1>1. waits[q] \in Seq(Ctx) /\ 1 \in DOMAIN waits[q]
      /\ Head(waits[q]) = waits[q][1]
  BY DEF WaitInv, TypeOK
<1> QED  BY <1>1 DEF WaitInv, WaitRecordsAgree, InWaitList

(* A suspended receiver holds nil until it is woken.                       *)
LEMMA NilStep == WaitInv /\ WaitersHoldNil /\ [Next]_vars => WaitersHoldNil'
<1> SUFFICES ASSUME WaitInv, WaitersHoldNil, [Next]_vars, Returning
             PROVE  WaitersHoldNil'
  BY NotReturning DEF WaitersHoldNil
<1> USE DEF queueVars
<1>1. TypeOK
  BY DEF WaitInv
<1>2. ASSUME NEW c \in Ctx, NEW q \in Qname, NEW v, Wake(c, q, v)
      PROVE  WaitersHoldNil'
  BY <1>1, <1>2 DEF Wake, WaitersHoldNil, TypeOK
<1>3. ASSUME NEW c \in Ctx, RecvRejects(c)
      PROVE  WaitersHoldNil'
  BY <1>1, <1>3, CallerIsFree DEF RecvRejects, WaitersHoldNil, TypeOK
<1>4. ASSUME NEW c \in Ctx, NEW q \in Qname, RecvTopic(c, q) \/ RecvTakes(c, q)
      PROVE  WaitersHoldNil'
  BY <1>1, <1>4, CallerIsFree
  DEF RecvTopic, RecvTakes, CanGet, WaitersHoldNil, TypeOK
<1>5. ASSUME NEW c \in Ctx, NEW q \in Qname, Suspend(c, q)
      PROVE  WaitersHoldNil'
  BY <1>1, <1>5 DEF Suspend, WaitersHoldNil, TypeOK
<1>6. ASSUME NEW c \in Ctx, VisitWakes(c) \/ Expire(c)
      PROVE  WaitersHoldNil'
  <2>1. mqWait[c] \in Qname
    BY <1>1, <1>6
    DEF TypeOK, VisitWakes, Expire, Due, WaitInv, WaitRecordsAgree, Subscribes
  <2> QED  BY <1>2, <1>6, <2>1 DEF VisitWakes, Expire, Emptied, Subscribes
<1>7. ASSUME NEW c \in Ctx, NEW q \in Qname, SendHandsOver(c, q)
      PROVE  WaitersHoldNil'
  BY <1>2, <1>7, HeadWaits DEF SendHandsOver
<1> QED  BY <1>3, <1>4, <1>5, <1>6, <1>7 DEF Returning

(* Both invariants hold of every behaviour.                                *)
LEMMA ReturnInductive == Spec => []ReturnInv
<1>1. Init => ReturnInv
  BY QueueInit DEF Init, ReturnInv, WaitersHoldNil
<1>2. ReturnInv /\ [Next]_vars => ReturnInv'
  BY QueueStep, NilStep DEF ReturnInv, QueueInv
<1> QED  BY <1>1, <1>2, PTL DEF Spec

(* What the head of the message list is, also at the moment of a send.     *)
LEMMA HeadIsNext ==
  ASSUME TypeOK, QueueIsFifo, NEW q \in Qname
  PROVE  /\ Head(Appended(q)) = taken[q] + 1
         /\ msgs[q] # <<>> => Head(msgs[q]) = taken[q] + 1
<1>1. msgs[q] \in Seq(Nat) /\ sent[q] \in Nat /\ taken[q] \in Nat
      /\ DOMAIN msgs[q] = 1 .. Len(msgs[q])
  BY DEF TypeOK
<1>2. sent[q] = taken[q] + Len(msgs[q])
      /\ \A i \in 1 .. Len(msgs[q]) : msgs[q][i] = taken[q] + i
  BY <1>1 DEF QueueIsFifo
<1>3. msgs[q] # <<>> => Head(msgs[q]) = taken[q] + 1
  BY <1>1, <1>2
<1>4. CASE msgs[q] = <<>>
  BY <1>1, <1>2, <1>4 DEF Appended
<1>5. CASE msgs[q] # <<>>
  <2>1. Head(Appended(q)) = Head(msgs[q])
    BY <1>1, <1>5 DEF Appended
  <2> QED  BY <1>3, <1>5, <2>1
<1> QED  BY <1>3, <1>4, <1>5

WokenStep ==
  \A c \in Ctx :
    mqWait[c] # NoQueue /\ mqWait'[c] = NoQueue =>
      \/ /\ ret'[c] = FromQueue(mqWait[c], taken[mqWait[c]] + 1)
         /\ taken'[mqWait[c]] = taken[mqWait[c]] + 1
      \/ \E t \in topics[c] : ret'[c] = FromTopic(t, pub[t])
      \/ ret'[c] = Nil /\ c \in heap /\ deadline[c] <= now

(* Only the three ways of waking end a wait.                               *)
LEMMA WokenByWake == ReturnInv /\ [Next]_vars => WokenStep
<1> SUFFICES ASSUME ReturnInv, [Next]_vars, Returning,
                    NEW d \in Ctx, mqWait[d] # NoQueue, mqWait'[d] = NoQueue
             PROVE  \/ /\ ret'[d] = FromQueue(mqWait[d], taken[mqWait[d]] + 1)
                       /\ taken'[mqWait[d]] = taken[mqWait[d]] + 1
                    \/ \E t \in topics[d] : ret'[d] = FromTopic(t, pub[t])
                    \/ ret'[d] = Nil /\ d \in heap /\ deadline[d] <= now
  BY NotReturning DEF WokenStep
<1> USE DEF queueVars
<1>1. TypeOK /\ WaitInv /\ QueueIsFifo /\ WaitersHoldNil
  BY DEF ReturnInv, QueueInv, WaitInv
<1>2. ASSUME NEW c \in Ctx, NEW q \in Qname \cup {NoQueue}, NEW v, Wake(c, q, v)
      PROVE  d = c /\ ret'[d] = v
  BY <1>1, <1>2 DEF TypeOK, Wake
<1>3. ASSUME NEW c \in Ctx, RecvRejects(c)
      PROVE  FALSE
  BY <1>3 DEF RecvRejects
<1>4. ASSUME NEW c \in Ctx, NEW q \in Qname, RecvTopic(c, q) \/ RecvTakes(c, q)
      PROVE  FALSE
  BY <1>4 DEF RecvTopic, RecvTakes
<1>5. ASSUME NEW c \in Ctx, NEW q \in Qname, Suspend(c, q)
      PROVE  FALSE
  <2>1. mqWait[c] = NoQueue
    BY <1>1, <1>5, CallerIsFree DEF Suspend, CanGet
  <2> QED  BY <1>1, <1>5, <2>1 DEF Suspend, TypeOK
<1>6. ASSUME NEW c \in Ctx, VisitWakes(c)
      PROVE  \E t \in topics[d] : ret'[d] = FromTopic(t, pub[t])
  <2>1. d = c /\ ret'[d] = FromTopic(btopic, pub[btopic])
    BY <1>1, <1>2, <1>6 DEF TypeOK, VisitWakes, Subscribes
  <2> QED  BY <1>6, <2>1 DEF VisitWakes, Subscribes
<1>7. ASSUME NEW c \in Ctx, Expire(c)
      PROVE  ret'[d] = Nil /\ d \in heap /\ deadline[d] <= now
  <2>1. d = c /\ ret'[d] = ret[c]
    BY <1>1, <1>2, <1>7 DEF TypeOK, Expire, Emptied
  <2> QED  BY <1>1, <1>7, <2>1 DEF Expire, Due, WaitersHoldNil, Emptied
<1>8. ASSUME NEW c \in Ctx, NEW q \in Qname, SendHandsOver(c, q)
      PROVE  /\ ret'[d] = FromQueue(mqWait[d], taken[mqWait[d]] + 1)
             /\ taken'[mqWait[d]] = taken[mqWait[d]] + 1
  <2>1. Head(waits[q]) \in Ctx /\ mqWait[Head(waits[q])] = q
    BY <1>1, <1>8, HeadWaits DEF SendHandsOver
  <2>2. d = Head(waits[q]) /\ ret'[d] = FromQueue(q, Head(Appended(q)))
    BY <1>2, <1>8, <2>1 DEF SendHandsOver
  <2>3. taken'[q] = taken[q] + 1
    BY <1>1, <1>8 DEF SendHandsOver, TypeOK
  <2> QED  BY <1>1, <2>1, <2>2, <2>3, HeadIsNext
<1> QED  BY <1>3, <1>4, <1>5, <1>6, <1>7, <1>8 DEF Returning

(* A suspended receiver is only ever woken with the next message of its    *)
(* queue, the newest message of a topic it subscribes, or nil at its own   *)
(* deadline.                                                               *)
THEOREM WakeUpsJustified == Spec => WokenForAReason
<1>1. ReturnInv /\ [Next]_vars => [WokenStep]_vars
  BY WokenByWake
<1>2. Spec => [][WokenStep]_vars
  BY <1>1, ReturnInductive, PTL DEF Spec
<1> QED  BY <1>2 DEF WokenForAReason, WokenStep

-----------------------------------------------------------------------------
(* The refinement of Mailbox.                                              *)

(* A new result of one coroutine changes what Mailbox sees of that         *)
(* coroutine only.                                                         *)
LEMMA GotAfterReturn ==
  ASSUME TypeOK, NEW c \in Ctx, NEW v, ret' = [ret EXCEPT ![c] = v]
  PROVE  Got' = [Got EXCEPT ![c] = Message(v)]
BY DEF Got, TypeOK

(* What Mailbox sees of the values that recv returns.                      *)
LEMMA MessageOf ==
  /\ Message(Nil) = Nothing /\ Message(Rejected) = Nothing
  /\ \A q, n : /\ Message(FromQueue(q, n)) = <<q, n>>
               /\ Message(FromTopic(q, n)) = Nothing
BY DEF Message, Nil, Rejected, FromQueue, FromTopic

(* A name that no coroutine waits on is free in the sense of Mailbox.      *)
LEMMA FreeWhenNobodyWaits ==
  ASSUME WaitInv, NEW q \in Qname, waits[q] = <<>>
  PROVE  Promise!Free(q)
BY DEF WaitInv, WaitRecordsAgree, InWaitList, Promise!Free

(* All that was sent to a queue without messages was received.             *)
LEMMA ReceivedWhenEmpty ==
  ASSUME TypeOK, QueueIsFifo, NEW q \in Qname, msgs[q] = <<>>
  PROVE  taken[q] = sent[q]
BY DEF TypeOK, QueueIsFifo

(* The initial states are those of Mailbox.                                *)
LEMMA MailboxInit == Init => Promise!Init
<1> SUFFICES ASSUME Init PROVE Promise!Init
  OBVIOUS
<1>1. Got = [c \in Ctx |-> Nothing]
  BY MessageOf DEF Init, Got
<1> QED  BY <1>1 DEF Init, Promise!Init

(* The steps that neither return from recv nor send change nothing that    *)
(* Mailbox sees.                                                           *)
LEMMA OthersStutter ==
  ASSUME [Next]_vars, ~Returning, ~AllocFailures,
         ~\E c \in Ctx, q \in Qname : SendQueues(c, q)
  PROVE  UNCHANGED Promise!vars
<1> USE DEF queueVars
<1>1. UNCHANGED <<sent, taken>>
  <2>1. CASE Lifecycle
    BY <2>1 DEF Lifecycle, Import, ImportFails, End, Eval, Kill, KillWaiting,
                Abort
  <2>2. CASE Receive
    BY <2>2 DEF Receive, Returning, RecvBlocks, RecvBlocksTimed, RecvFails,
                RecvAborts, Abort
  <2>3. CASE Send
    BY <2>3 DEF Send, Returning, SendLeavesBoth, SendFails, SendAborts, Abort
  <2>4. CASE Topic
    BY <2>4 DEF Topic, Returning, Subscribe, Unsubscribe, Broadcast,
                VisitSkips, VisitQueues, Visit, VisitAborts, BroadcastFails,
                Abort
  <2>5. CASE BroadcastDone
    BY <2>5 DEF BroadcastDone
  <2>6. CASE Timer
    BY <2>6 DEF Timer, Returning, TimerFires, TimerAborts, TimerDone,
                TimerNotSet, Abort
  <2>7. CASE Tick
    BY <2>7 DEF Tick
  <2>8. CASE UNCHANGED vars
    BY <2>8 DEF vars
  <2> QED  BY <2>1, <2>2, <2>3, <2>4, <2>5, <2>6, <2>7, <2>8 DEF Next
<1>2. UNCHANGED <<ret, mqWait>>
  BY NotReturning
<1>3. UNCHANGED Got
  BY <1>2 DEF Got
<1> QED  BY <1>1, <1>2, <1>3 DEF Promise!vars

(* Every step is a step of Mailbox or changes nothing that it sees.        *)
LEMMA MailboxStep ==
  ASSUME ReturnInv, [Next]_vars, ~AllocFailures, NoStarvedReceiver
  PROVE  [Promise!Next]_Promise!vars
<1> USE DEF queueVars
<1>1. TypeOK /\ WaitInv /\ QueueIsFifo
  BY DEF ReturnInv, QueueInv, WaitInv
<1>2. ASSUME NEW c \in Ctx, NEW q \in Qname, SendQueues(c, q)
      PROVE  Promise!Next
  <2>1. UNCHANGED Got
    BY <1>2 DEF SendQueues, AppendsOnly, Got
  <2>2. Promise!Free(q)
    BY <1>1, <1>2, FreeWhenNobodyWaits DEF SendQueues
  <2>3. Promise!Put(q)
    BY <1>2, <2>1, <2>2 DEF SendQueues, AppendsOnly, Promise!Put
  <2> QED  BY <2>3 DEF Promise!Next
<1>3. ASSUME NEW c \in Ctx, NEW q \in Qname, SendHandsOver(c, q)
      PROVE  Promise!Next
  <2> DEFINE r == Head(waits[q])
             v == FromQueue(q, Head(Appended(q)))
  <2>1. r \in Ctx /\ mqWait[r] = q
    BY <1>1, <1>3, HeadWaits DEF SendHandsOver
  <2>2. taken[q] = sent[q]
    BY <1>1, <1>3, ReceivedWhenEmpty DEF SendHandsOver, NoStarvedReceiver
  <2>3. Wake(r, q, v)
    BY <1>3 DEF SendHandsOver
  <2>4. Message(v) = <<q, taken[q] + 1>>
    BY <1>1, HeadIsNext, MessageOf
  <2>5. Got' = [Got EXCEPT ![r] = Message(v)]
    <3>1. ret' = [ret EXCEPT ![r] = v]
      BY <2>3 DEF Wake
    <3> QED  BY <1>1, <2>1, <3>1, GotAfterReturn
  <2>6. /\ sent' = [sent EXCEPT ![q] = @ + 1]
        /\ taken' = [taken EXCEPT ![q] = @ + 1]
        /\ mqWait' = [mqWait EXCEPT ![r] = NoQueue]
    BY <1>3, <2>3 DEF SendHandsOver, Wake
  <2> HIDE DEF r, v
  <2>7. Promise!HandOver(r, q)
    BY <2>1, <2>2, <2>4, <2>5, <2>6 DEF Promise!HandOver, Promise!Gets
  <2> QED  BY <2>1, <2>7 DEF Promise!Next
<1>4. ASSUME NEW c \in Ctx, NEW q \in Qname, RecvTakes(c, q)
      PROVE  Promise!Next
  <2>1. mqWait[c] = NoQueue
    BY <1>1, <1>4, CallerIsFree DEF RecvTakes, CanGet
  <2>2. Promise!Free(q)
    BY <1>1, <1>4, FreeWhenNobodyWaits DEF RecvTakes
  <2>3. taken[q] < sent[q]
    BY <1>1, <1>4 DEF RecvTakes, QueueIsFifo, TypeOK
  <2>4. Got' = [Got EXCEPT ![c] = <<q, taken[q] + 1>>]
    <3> DEFINE v == FromQueue(q, Head(msgs[q]))
    <3>1. ret' = [ret EXCEPT ![c] = v]
      BY <1>4 DEF RecvTakes
    <3>2. Message(v) = <<q, taken[q] + 1>>
      <4>1. Head(msgs[q]) = taken[q] + 1
        BY <1>1, <1>4, HeadIsNext DEF RecvTakes
      <4> QED  BY <4>1, MessageOf
    <3> HIDE DEF v
    <3> QED  BY <1>1, <3>1, <3>2, GotAfterReturn
  <2>5. Promise!Take(c, q)
    BY <1>4, <2>1, <2>2, <2>3, <2>4
    DEF RecvTakes, Promise!Take, Promise!Gets
  <2> QED  BY <2>5 DEF Promise!Next
<1>5. ASSUME NEW c \in Ctx, NEW q \in Qname, Suspend(c, q)
      PROVE  Promise!Next
  <2>1. mqWait[c] = NoQueue
    BY <1>1, <1>5, CallerIsFree DEF Suspend, CanGet
  <2>2. taken[q] = sent[q]
    BY <1>1, <1>5, ReceivedWhenEmpty DEF Suspend, NoStarvedReceiver
  <2>3. Got' = [Got EXCEPT ![c] = Nothing]
    <3>1. ret' = [ret EXCEPT ![c] = Nil]
      BY <1>5 DEF Suspend
    <3>2. Message(Nil) = Nothing
      BY MessageOf
    <3> QED  BY <1>1, <3>1, <3>2, GotAfterReturn
  <2>4. Promise!Block(c, q)
    BY <1>5, <2>1, <2>2, <2>3 DEF Suspend, Promise!Block
  <2> QED  BY <2>4 DEF Promise!Next
<1>6. ASSUME NEW c \in Ctx, NEW v, Message(v) = Nothing,
             ret' = [ret EXCEPT ![c] = v],
             mqWait' = [mqWait EXCEPT ![c] = NoQueue],
             UNCHANGED <<sent, taken>>
      PROVE  Promise!Next
  <2>1. Got' = [Got EXCEPT ![c] = Nothing]
    BY <1>1, <1>6, GotAfterReturn
  <2>2. Promise!GoWithout(c)
    BY <1>6, <2>1 DEF Promise!GoWithout
  <2> QED  BY <2>2 DEF Promise!Next
<1>7. ASSUME NEW c \in Ctx, RecvRejects(c)
      PROVE  Promise!Next
  <2>1. mqWait[c] = NoQueue
    BY <1>1, <1>7, CallerIsFree DEF RecvRejects
  <2>2. mqWait' = [mqWait EXCEPT ![c] = NoQueue]
    BY <1>1, <1>7, <2>1 DEF RecvRejects, TypeOK
  <2> QED  BY <1>6, <1>7, <2>2, MessageOf DEF RecvRejects
<1>8. ASSUME NEW c \in Ctx, NEW q \in Qname, RecvTopic(c, q)
      PROVE  Promise!Next
  <2>1. mqWait[c] = NoQueue
    BY <1>1, <1>8, CallerIsFree DEF RecvTopic
  <2>2. mqWait' = [mqWait EXCEPT ![c] = NoQueue]
    BY <1>1, <1>8, <2>1 DEF RecvTopic, TypeOK
  <2> QED  BY <1>6, <1>8, <2>2, MessageOf DEF RecvTopic
<1>9. ASSUME NEW c \in Ctx, VisitWakes(c)
      PROVE  Promise!Next
  BY <1>6, <1>9, MessageOf DEF VisitWakes, Visit, Wake
<1>10. ASSUME NEW c \in Ctx, Expire(c)
       PROVE  Promise!Next
  <2>1. mqWait[c] # NoQueue /\ ret[c] = Nil
    BY <1>1, <1>10
    DEF Expire, Due, WaitInv, WaitRecordsAgree, ReturnInv, WaitersHoldNil
  <2> QED  BY <1>6, <1>10, <2>1, MessageOf DEF Expire, Wake
<1>11. CASE Returning
  BY <1>3, <1>4, <1>5, <1>7, <1>8, <1>9, <1>10, <1>11 DEF Returning
<1>12. CASE ~Returning
  BY <1>2, <1>12, OthersStutter
<1> QED  BY <1>11, <1>12

(* When no allocation fails, the queues of the library are the channels of *)
(* Mailbox: whatever the interleaving of sends, receives, topics, timers,  *)
(* script errors and ends of coroutines.                                   *)
THEOREM QueuesAreMailboxes ==
  ASSUME ~AllocFailures
  PROVE  Spec => IsMailbox
<1>1. ReturnInv /\ NoStarvedReceiver /\ [Next]_vars
        => [Promise!Next]_Promise!vars
  BY MailboxStep
<1>2. Spec => []NoStarvedReceiver
  BY NoLostWakeup
<1>3. Spec => []ReturnInv
  BY ReturnInductive
<1> QED
  BY MailboxInit, <1>1, <1>2, <1>3, PTL DEF Spec, IsMailbox, Promise!Spec

-----------------------------------------------------------------------------
(* Topics.                                                                 *)

Queued(s) == {s[i] : i \in DOMAIN s}

(* The last message of topic t that the loop of a broadcast has given to c *)
Last(c, t) ==
  IF loop = "bcast" /\ btopic = t /\ c \in todo THEN pub[t] - 1 ELSE pub[t]

(* The messages in the list s and those got are low + 1 .. high, once each *)
Exact(s, got, low, high) ==
  /\ low <= high
  /\ Queued(s) \cap got = {}
  /\ Queued(s) \cup got = low + 1 .. high
  /\ \A i, j \in DOMAIN s : i < j => s[i] < s[j]

(* Only a coroutine that is alive owns topics, what it does not subscribe  *)
(* is empty, and a broadcast has a message to publish.                     *)
OwnersAlive == \A c \in lcm : status[c] \in {"run", "wait"}
TopicsOwned == \A c \in Ctx : topics[c] # {} => c \in lcm
OthersEmpty ==
  \A c \in Ctx, t \in Qname :
    t \notin topics[c] => tmsgs[c][t] = <<>> /\ seen[c][t] = {}
Published == loop = "bcast" => btopic \in Qname /\ pub[btopic] > 0

(* TopicExactlyOnce and the order of the numbers it speaks of              *)
AllExact ==
  ~AllocFailures =>
    \A c \in Ctx, t \in Qname :
      t \in topics[c] => Exact(tmsgs[c][t], seen[c][t], since[c][t], Last(c, t))

TopicParts ==
  OwnersAlive /\ TopicsOwned /\ OthersEmpty /\ Published /\ AllExact
    /\ DrainedBeforeWaiting

TopicInv == WaitInv /\ TopicParts

(* Nothing is missing while nothing is published.                          *)
LEMMA ExactNone ==
  ASSUME NEW n \in Nat
  PROVE  Exact(<<>>, {}, n, n)
<1>1. n + 1 .. n = {} /\ n <= n
  OBVIOUS
<1>2. DOMAIN <<>> = {}
  OBVIOUS
<1> QED  BY <1>1, <1>2 DEF Exact, Queued

(* A message that is received leaves the list and is got.                  *)
LEMMA ExactReceive ==
  ASSUME NEW s \in Seq(Nat), s # <<>>, NEW got \in SUBSET Nat,
         NEW low \in Nat, NEW high \in Int, Exact(s, got, low, high)
  PROVE  Exact(Tail(s), got \cup {Head(s)}, low, high)
<1> DEFINE n == Len(s)
           r == Tail(s)
<1>1. /\ n \in Nat \ {0} /\ DOMAIN s = 1 .. n /\ DOMAIN r = 1 .. n - 1
      /\ \A i \in 1 .. n - 1 : r[i] = s[i + 1]
      /\ \A i \in 1 .. n : s[i] \in Nat
      /\ Head(s) = s[1]
  OBVIOUS
<1> HIDE DEF n, r
<1>2. \A i, j \in 1 .. n : i < j => s[i] < s[j]
  BY <1>1 DEF Exact
<1>3. \A i, j \in DOMAIN r : i < j => r[i] < r[j]
  BY <1>1, <1>2
<1>4. Queued(s) = Queued(r) \cup {s[1]}
  <2>1. ASSUME NEW i \in 1 .. n PROVE s[i] \in Queued(r) \cup {s[1]}
    <3>1. CASE i = 1
      BY <3>1
    <3>2. CASE i # 1
      <4>1. i - 1 \in 1 .. n - 1 /\ r[i - 1] = s[i]
        BY <1>1, <3>2
      <4> QED  BY <1>1, <4>1 DEF Queued
    <3> QED  BY <3>1, <3>2
  <2>2. ASSUME NEW i \in 1 .. n - 1 PROVE r[i] \in Queued(s)
    <3>1. i + 1 \in 1 .. n
      BY <1>1
    <3> QED  BY <1>1, <3>1 DEF Queued
  <2>3. s[1] \in Queued(s)
    BY <1>1 DEF Queued
  <2> QED  BY <1>1, <2>1, <2>2, <2>3 DEF Queued
<1>5. s[1] \notin Queued(r)
  <2> SUFFICES ASSUME NEW i \in 1 .. n - 1, r[i] = s[1] PROVE FALSE
    BY <1>1 DEF Queued
  <2>1. i + 1 \in 1 .. n /\ 1 < i + 1 /\ 1 \in 1 .. n
    BY <1>1
  <2>2. s[1] < s[i + 1] /\ s[1] \in Nat
    BY <1>1, <1>2, <2>1
  <2> QED  BY <1>1, <2>2
<1> QED  BY <1>1, <1>3, <1>4, <1>5 DEF Exact, r

(* The next message is queued behind the others,                           *)
LEMMA ExactQueue ==
  ASSUME NEW s \in Seq(Nat), NEW got \in SUBSET Nat,
         NEW low \in Nat, NEW high \in Nat, Exact(s, got, low, high - 1)
  PROVE  Exact(Append(s, high), got, low, high)
<1> DEFINE n == Len(s)
           r == Append(s, high)
<1>1. /\ n \in Nat /\ DOMAIN s = 1 .. n /\ DOMAIN r = 1 .. n + 1
      /\ \A i \in 1 .. n : r[i] = s[i] /\ s[i] \in Nat
      /\ r[n + 1] = high
  OBVIOUS
<1> HIDE DEF n, r
<1>2. /\ low <= high - 1 /\ Queued(s) \cap got = {}
      /\ Queued(s) \cup got = low + 1 .. high - 1
      /\ \A i, j \in 1 .. n : i < j => s[i] < s[j]
  BY <1>1 DEF Exact
<1>3. Queued(r) = Queued(s) \cup {high}
  <2>1. \A i \in 1 .. n + 1 : i = n + 1 \/ i \in 1 .. n
    BY <1>1
  <2>2. 1 .. n \subseteq 1 .. n + 1 /\ n + 1 \in 1 .. n + 1
    BY <1>1
  <2> QED  BY <1>1, <2>1, <2>2 DEF Queued
<1>4. \A i \in 1 .. n : s[i] < high
  <2> SUFFICES ASSUME NEW i \in 1 .. n PROVE s[i] < high
    OBVIOUS
  <2>1. s[i] \in low + 1 .. high - 1
    BY <1>1, <1>2 DEF Queued
  <2> QED  BY <2>1
<1>5. \A i, j \in DOMAIN r : i < j => r[i] < r[j]
  <2> SUFFICES ASSUME NEW i \in 1 .. n + 1, NEW j \in 1 .. n + 1, i < j
               PROVE  r[i] < r[j]
    BY <1>1
  <2>1. i \in 1 .. n
    BY <1>1
  <2>2. CASE j = n + 1
    BY <1>1, <1>4, <2>1, <2>2
  <2>3. CASE j # n + 1
    <3>1. j \in 1 .. n
      BY <1>1, <2>3
    <3> QED  BY <1>1, <1>2, <2>1, <3>1
  <2> QED  BY <2>2, <2>3
<1>6. high \notin got /\ low + 1 .. high = (low + 1 .. high - 1) \cup {high}
  BY <1>2
<1>7. Queued(r) \cap got = {} /\ Queued(r) \cup got = low + 1 .. high
  BY <1>2, <1>3, <1>6
<1>8. low <= high
  BY <1>2
<1> QED  BY <1>5, <1>7, <1>8 DEF Exact, r

(* or is received at once.                                                 *)
LEMMA ExactWake ==
  ASSUME NEW s, NEW got \in SUBSET Nat,
         NEW low \in Nat, NEW high \in Nat, Exact(s, got, low, high - 1)
  PROVE  Exact(s, got \cup {high}, low, high)
<1>1. /\ low <= high - 1 /\ Queued(s) \cap got = {}
      /\ Queued(s) \cup got = low + 1 .. high - 1
  BY DEF Exact
<1>2. high \notin Queued(s) /\ low <= high
      /\ low + 1 .. high = (low + 1 .. high - 1) \cup {high}
  BY <1>1
<1> QED  BY <1>1, <1>2 DEF Exact

(* The topics start empty.                                                 *)
LEMMA TopicInit == Init => TopicInv
<1> SUFFICES ASSUME Init PROVE TopicParts
  BY WaitInit DEF TopicInv
<1> QED
  BY ConstAssumption
     DEF Init, TopicParts, OwnersAlive, TopicsOwned, OthersEmpty, Published,
         AllExact, DrainedBeforeWaiting

(* Steps that leave the topics alone, may stop no owner of topics and may  *)
(* suspend a coroutine only on a name whose topic it has drained.          *)
LEMMA TopicsSame ==
  ASSUME TypeOK, TopicParts,
         UNCHANGED <<topics, tmsgs, since, seen, lcm, todo, btopic, pub>>,
         loop' = loop \/ (loop # "bcast" /\ loop' # "bcast"),
         \A d \in lcm : status'[d] \in {"run", "wait"},
         \A d \in Ctx : \/ mqWait'[d] = mqWait[d]
                        \/ mqWait'[d] \notin topics[d]
                        \/ tmsgs[d][mqWait'[d]] = <<>>
  PROVE  TopicParts'
<1>1. OwnersAlive' /\ TopicsOwned' /\ OthersEmpty' /\ Published'
  BY DEF TopicParts, OwnersAlive, TopicsOwned, OthersEmpty, Published
<1>2. \A c \in Ctx, t \in Qname : Last(c, t)' = Last(c, t)
  BY DEF Last
<1>3. AllExact'
  BY <1>2 DEF TopicParts, AllExact
<1>4. DrainedBeforeWaiting'
  BY DEF TopicParts, DrainedBeforeWaiting
<1> QED  BY <1>1, <1>3, <1>4 DEF TopicParts

(* Steps that leave the coroutines and the topics alone.                   *)
LEMMA TopicsUntouched ==
  ASSUME TypeOK, TopicParts,
         UNCHANGED <<topics, tmsgs, since, seen, lcm, todo, btopic, pub,
                     status, mqWait>>,
         loop' = loop \/ (loop # "bcast" /\ loop' # "bcast")
  PROVE  TopicParts'
<1>1. \A d \in lcm : status'[d] \in {"run", "wait"}
  BY DEF TopicParts, OwnersAlive
<1>2. \A d \in Ctx : mqWait'[d] = mqWait[d]
  OBVIOUS
<1> QED  BY <1>1, <1>2, TopicsSame

(* The topics of c in T are empty, the others as they were.                *)
OnlyFreed(c, T) ==
  /\ \A d \in Ctx, t \in Qname :
       IF d = c /\ t \in T
       THEN t \notin topics'[d] /\ tmsgs'[d][t] = <<>> /\ seen'[d][t] = {}
       ELSE /\ t \in topics'[d] <=> t \in topics[d]
            /\ tmsgs'[d][t] = tmsgs[d][t] /\ seen'[d][t] = seen[d][t]
            /\ since'[d][t] = since[d][t]
  /\ \A d \in Ctx : topics'[d] = IF d = c THEN topics[d] \ T ELSE topics[d]

(* That is what FreeTopics does.                                           *)
LEMMA FreedTopics ==
  ASSUME TypeOK, NEW c \in Ctx, NEW T, FreeTopics(c, T)
  PROVE  OnlyFreed(c, T)
<1>1. /\ topics' = [topics EXCEPT ![c] = @ \ T]
      /\ tmsgs' = [tmsgs EXCEPT ![c] =
                     [t \in Qname |-> IF t \in T THEN <<>> ELSE tmsgs[c][t]]]
      /\ since' = [since EXCEPT ![c] =
                     [t \in Qname |-> IF t \in T THEN 0 ELSE since[c][t]]]
      /\ seen' = [seen EXCEPT ![c] =
                    [t \in Qname |-> IF t \in T THEN {} ELSE seen[c][t]]]
  BY DEF FreeTopics
<1>2. \A d \in Ctx : topics'[d] = IF d = c THEN topics[d] \ T ELSE topics[d]
  BY <1>1 DEF TypeOK
<1>3. ASSUME NEW d \in Ctx, NEW t \in Qname
      PROVE  IF d = c /\ t \in T
              THEN t \notin topics'[d] /\ tmsgs'[d][t] = <<>> /\ seen'[d][t] = {}
              ELSE /\ t \in topics'[d] <=> t \in topics[d]
                   /\ tmsgs'[d][t] = tmsgs[d][t] /\ seen'[d][t] = seen[d][t]
                   /\ since'[d][t] = since[d][t]
  <2>1. CASE d = c
    BY <1>1, <1>2, <2>1 DEF TypeOK
  <2>2. CASE d # c
    BY <1>1, <1>2, <2>2 DEF TypeOK
  <2> QED  BY <2>1, <2>2
<1> QED  BY <1>2, <1>3 DEF OnlyFreed

(* Topics that are freed, at the wish of the coroutine or at its end, take *)
(* their messages along.                                                   *)
LEMMA FreeKeepsTopics ==
  ASSUME TypeOK, TopicParts, NEW c \in Ctx, NEW T, FreeTopics(c, T),
         UNCHANGED <<pub, mqWait, loop, todo, btopic>>,
         \/ lcm' = lcm /\ status' = status
         \/ T = Qname /\ Finish(c)
  PROVE  TopicParts'
<1>1. OnlyFreed(c, T)
  BY FreedTopics
<1>2. OwnersAlive'
  BY DEF TopicParts, OwnersAlive, Finish, TypeOK
<1>3. TopicsOwned'
  <2>1. CASE lcm' = lcm
    BY <1>1, <2>1 DEF TopicParts, TopicsOwned, OnlyFreed
  <2>2. CASE T = Qname /\ lcm' = lcm \ {c}
    <3>1. topics'[c] = {}
      BY <1>1, <2>2 DEF TypeOK, OnlyFreed
    <3> QED  BY <1>1, <2>2, <3>1 DEF TopicParts, TopicsOwned, OnlyFreed
  <2> QED  BY <2>1, <2>2 DEF Finish
<1>4. OthersEmpty'
  BY <1>1 DEF TopicParts, OthersEmpty, OnlyFreed
<1>5. Published'
  BY DEF TopicParts, Published
<1>6. AllExact'
  <2>1. \A d \in Ctx, t \in Qname : Last(d, t)' = Last(d, t)
    BY DEF Last
  <2> QED  BY <1>1, <2>1 DEF TopicParts, AllExact, OnlyFreed
<1>7. DrainedBeforeWaiting'
  <2> SUFFICES ASSUME ~AllocFailures, NEW d \in Ctx, mqWait[d] \in topics'[d]
               PROVE  tmsgs'[d][mqWait[d]] = <<>>
    BY DEF DrainedBeforeWaiting
  <2>1. topics'[d] \subseteq topics[d]
    BY <1>1 DEF OnlyFreed
  <2>2. mqWait[d] \in topics[d] /\ mqWait[d] \in Qname
    BY <2>1 DEF TypeOK
  <2>3. tmsgs[d][mqWait[d]] = <<>>
    BY <2>2 DEF TopicParts, DrainedBeforeWaiting
  <2> QED  BY <1>1, <2>2, <2>3 DEF OnlyFreed
<1> QED  BY <1>2, <1>3, <1>4, <1>5, <1>6, <1>7 DEF TopicParts

(* So does the end of a coroutine.                                         *)
LEMMA FinishTopics ==
  ASSUME TypeOK, TopicParts, NEW c \in Ctx, Finish(c),
         UNCHANGED <<pub, mqWait, loop, todo, btopic>>
  PROVE  TopicParts'
<1>1. FreeTopics(c, Qname)
  BY DEF Finish
<1> QED  BY <1>1, FreeKeepsTopics

(* A coroutine that calls the library is not suspended.                    *)
LEMMA CallerWaitsNot ==
  ASSUME WaitInv, NEW c \in Ctx, Running(c)
  PROVE  mqWait[c] = NoQueue /\ loop = "none" /\ c \in Live
BY DEF WaitInv, WaitRecordsAgree, Running, Idle, Live

(* A topic that is subscribed begins empty, behind what was published.     *)
LEMMA SubscribeKeepsTopics ==
  ASSUME TopicInv, NEW c \in Ctx, NEW t \in Qname, Subscribe(c, t)
  PROVE  TopicParts'
<1> USE ConstAssumption DEF queueVars, timerVars, loopVars
<1>1. WaitInv /\ TypeOK /\ TopicParts
  BY DEF TopicInv, WaitInv
<1>2. /\ mqWait[c] = NoQueue /\ loop = "none" /\ c \in lcm /\ t \notin topics[c]
      /\ topics' = [topics EXCEPT ![c] = @ \cup {t}]
      /\ since' = [since EXCEPT ![c][t] = pub[t]]
      /\ UNCHANGED <<status, lcm, tmsgs, seen, mqWait, loop, todo, btopic, pub>>
  BY <1>1, CallerWaitsNot DEF Subscribe, Calls
<1>3. \A d \in Ctx, u \in Qname :
        /\ u \in topics'[d] <=> u \in topics[d] \/ (d = c /\ u = t)
        /\ since'[d][u] = IF d = c /\ u = t THEN pub[t] ELSE since[d][u]
  BY <1>1, <1>2 DEF TypeOK
<1>4. OwnersAlive' /\ OthersEmpty' /\ Published'
  BY <1>1, <1>2, <1>3 DEF TopicParts, OwnersAlive, OthersEmpty, Published
<1>5. TopicsOwned'
  BY <1>1, <1>2 DEF TypeOK, TopicParts, TopicsOwned
<1>6. AllExact'
  <2> SUFFICES ASSUME ~AllocFailures, NEW d \in Ctx, NEW u \in Qname,
                      u \in topics'[d]
               PROVE  Exact(tmsgs[d][u], seen[d][u], since'[d][u], Last(d, u)')
    BY <1>2 DEF AllExact
  <2>1. Last(d, u)' = pub[u] /\ Last(d, u) = pub[u] /\ pub[u] \in Nat
    BY <1>1, <1>2 DEF Last, TypeOK
  <2>2. CASE d = c /\ u = t
    <3>1. tmsgs[d][u] = <<>> /\ seen[d][u] = {} /\ since'[d][u] = pub[u]
      BY <1>1, <1>2, <1>3, <2>2 DEF TopicParts, OthersEmpty
    <3> QED  BY <2>1, <3>1, ExactNone
  <2>3. CASE ~(d = c /\ u = t)
    BY <1>1, <1>3, <2>1, <2>3 DEF TopicParts, AllExact
  <2> QED  BY <2>2, <2>3
<1>7. DrainedBeforeWaiting'
  <2> SUFFICES ASSUME ~AllocFailures, NEW d \in Ctx, mqWait[d] \in topics'[d]
               PROVE  tmsgs[d][mqWait[d]] = <<>>
    BY <1>2 DEF DrainedBeforeWaiting
  <2>1. NoQueue \notin topics'[d]
    BY <1>1, <1>2 DEF TypeOK
  <2>2. d # c
    BY <1>2, <2>1
  <2>3. topics'[d] = topics[d]
    BY <1>1, <1>2, <2>2 DEF TypeOK
  <2> QED  BY <1>1, <2>3 DEF TopicParts, DrainedBeforeWaiting
<1> QED  BY <1>4, <1>5, <1>6, <1>7 DEF TopicParts

(* The oldest message of a topic is received.                              *)
LEMMA ReceiveKeepsTopics ==
  ASSUME TopicInv, NEW c \in Ctx, NEW q \in Qname, RecvTopic(c, q)
  PROVE  TopicParts'
<1> USE ConstAssumption DEF queueVars, timerVars, loopVars
<1>1. WaitInv /\ TypeOK /\ TopicParts
  BY DEF TopicInv, WaitInv
<1>2. /\ mqWait[c] = NoQueue /\ q \in topics[c] /\ tmsgs[c][q] # <<>>
      /\ seen' = [seen EXCEPT ![c][q] = @ \cup {Head(tmsgs[c][q])}]
      /\ tmsgs' = [tmsgs EXCEPT ![c][q] = Tail(@)]
      /\ UNCHANGED <<status, lcm, topics, since, mqWait, loop, todo, btopic, pub>>
  BY <1>1, CallerWaitsNot DEF RecvTopic, Calls, HasTopicMsg
<1>3. \A d \in Ctx, u \in Qname :
        IF d = c /\ u = q
        THEN /\ tmsgs'[d][u] = Tail(tmsgs[d][u])
             /\ seen'[d][u] = seen[d][u] \cup {Head(tmsgs[d][u])}
        ELSE tmsgs'[d][u] = tmsgs[d][u] /\ seen'[d][u] = seen[d][u]
  BY <1>1, <1>2 DEF TypeOK
<1>4. OwnersAlive' /\ TopicsOwned' /\ Published'
  BY <1>1, <1>2 DEF TopicParts, OwnersAlive, TopicsOwned, Published
<1>5. OthersEmpty'
  BY <1>1, <1>2, <1>3 DEF TopicParts, OthersEmpty
<1>6. AllExact'
  <2> SUFFICES ASSUME ~AllocFailures, NEW d \in Ctx, NEW u \in Qname,
                      u \in topics[d]
               PROVE  Exact(tmsgs'[d][u], seen'[d][u], since[d][u], Last(d, u)')
    BY <1>2 DEF AllExact
  <2>1. Last(d, u)' = Last(d, u) /\ Last(d, u) \in Int
    BY <1>1, <1>2 DEF Last, TypeOK
  <2>2. Exact(tmsgs[d][u], seen[d][u], since[d][u], Last(d, u))
    BY <1>1 DEF TopicParts, AllExact
  <2>3. tmsgs[d][u] \in Seq(Nat) /\ seen[d][u] \in SUBSET Nat /\ since[d][u] \in Nat
    BY <1>1 DEF TypeOK
  <2>4. CASE d = c /\ u = q
    <3>1. Exact(Tail(tmsgs[d][u]), seen[d][u] \cup {Head(tmsgs[d][u])},
                since[d][u], Last(d, u))
      BY <1>2, <2>1, <2>2, <2>3, <2>4, ExactReceive
    <3> QED  BY <1>3, <2>1, <2>4, <3>1
  <2>5. CASE ~(d = c /\ u = q)
    BY <1>3, <2>1, <2>2, <2>5
  <2> QED  BY <2>4, <2>5
<1>7. DrainedBeforeWaiting'
  <2> SUFFICES ASSUME ~AllocFailures, NEW d \in Ctx, mqWait[d] \in topics[d]
               PROVE  tmsgs'[d][mqWait[d]] = <<>>
    BY <1>2 DEF DrainedBeforeWaiting
  <2>1. mqWait[d] \in Qname
    BY <1>1 DEF TypeOK
  <2>2. d # c
    BY <1>2, <2>1
  <2> QED  BY <1>1, <1>3, <2>1, <2>2 DEF TopicParts, DrainedBeforeWaiting
<1> QED  BY <1>4, <1>5, <1>6, <1>7 DEF TopicParts

(* A broadcast has all the coroutines that are alive to visit, so every    *)
(* one that owns a topic.                                                  *)
LEMMA BroadcastKeepsTopics ==
  ASSUME TopicInv, NEW c \in Ctx, NEW t \in Qname, Broadcast(c, t)
  PROVE  TopicParts'
<1> USE DEF ctxVars, queueVars, timerVars
<1>1. WaitInv /\ TypeOK /\ TopicParts
  BY DEF TopicInv, WaitInv
<1>2. /\ loop = "none" /\ loop' = "bcast" /\ todo' = Live /\ btopic' = t
      /\ pub' = [pub EXCEPT ![t] = @ + 1]
      /\ UNCHANGED <<status, lcm, topics, tmsgs, since, seen, mqWait>>
  BY <1>1, CallerWaitsNot DEF Broadcast, Calls
<1>3. pub \in [Qname -> Nat]
  BY <1>1 DEF TypeOK
<1>4. OwnersAlive' /\ TopicsOwned' /\ OthersEmpty' /\ DrainedBeforeWaiting'
  BY <1>1, <1>2
     DEF TopicParts, OwnersAlive, TopicsOwned, OthersEmpty, DrainedBeforeWaiting
<1>5. Published'
  BY <1>2, <1>3 DEF Published
<1>6. AllExact'
  <2> SUFFICES ASSUME ~AllocFailures, NEW d \in Ctx, NEW u \in Qname,
                      u \in topics[d]
               PROVE  Exact(tmsgs[d][u], seen[d][u], since[d][u], Last(d, u)')
    BY <1>2 DEF AllExact
  <2>1. d \in Live
    BY <1>1 DEF TopicParts, TopicsOwned, OwnersAlive, Live
  <2>2. Last(d, u)' = Last(d, u)
    BY <1>2, <1>3, <2>1 DEF Last
  <2> QED  BY <1>1, <2>2 DEF TopicParts, AllExact
<1> QED  BY <1>4, <1>5, <1>6 DEF TopicParts

(* The visit of c brings c, and nobody else, up to the message published.  *)
LEMMA VisitLast ==
  ASSUME TypeOK, NEW c \in Ctx, Visit(c), NEW d \in Ctx, NEW u \in Qname
  PROVE  IF d = c /\ u = btopic
         THEN Last(d, u)' = pub[u] /\ Last(d, u) = pub[u] - 1
         ELSE Last(d, u)' = Last(d, u)
BY DEF Visit, Last

(* A coroutine that does not subscribe the topic of the broadcast is       *)
(* passed over,                                                            *)
LEMMA SkipKeepsTopics ==
  ASSUME TopicInv, NEW c \in Ctx, VisitSkips(c)
  PROVE  TopicParts'
<1>1. TypeOK /\ TopicParts
  BY DEF TopicInv, WaitInv
<1>2. /\ Visit(c) /\ btopic \notin topics[c]
      /\ UNCHANGED <<status, lcm, topics, tmsgs, since, seen, mqWait, loop,
                     btopic, pub>>
  BY DEF VisitSkips, Visit, Subscribes
<1>3. OwnersAlive' /\ TopicsOwned' /\ OthersEmpty' /\ Published'
      /\ DrainedBeforeWaiting'
  BY <1>1, <1>2
     DEF TopicParts, OwnersAlive, TopicsOwned, OthersEmpty, Published,
         DrainedBeforeWaiting
<1>4. AllExact'
  <2>1. \A d \in Ctx, u \in Qname : u \in topics[d] => Last(d, u)' = Last(d, u)
    BY <1>1, <1>2, VisitLast
  <2> QED  BY <1>1, <1>2, <2>1 DEF TopicParts, AllExact
<1> QED  BY <1>3, <1>4 DEF TopicParts

(* a subscriber that runs gets the message into its list,                  *)
LEMMA QueueKeepsTopics ==
  ASSUME TopicInv, NEW c \in Ctx, VisitQueues(c)
  PROVE  TopicParts'
<1> USE ConstAssumption
<1>1. WaitInv /\ TypeOK /\ TopicParts
  BY DEF TopicInv, WaitInv
<1>2. /\ Visit(c) /\ btopic \in topics[c] /\ mqWait[c] = NoQueue
      /\ tmsgs' = [tmsgs EXCEPT ![c][btopic] = Append(@, pub[btopic])]
      /\ UNCHANGED <<status, lcm, topics, since, seen, mqWait, loop, btopic, pub>>
  BY DEF VisitQueues, Visit, Subscribes
<1>3. btopic \in Qname
  BY <1>1, <1>2 DEF TypeOK
<1>4. \A d \in Ctx, u \in Qname :
        tmsgs'[d][u] = IF d = c /\ u = btopic THEN Append(tmsgs[d][u], pub[u])
                                              ELSE tmsgs[d][u]
  BY <1>1, <1>2, <1>3 DEF TypeOK
<1>5. OwnersAlive' /\ TopicsOwned' /\ Published'
  BY <1>1, <1>2 DEF TopicParts, OwnersAlive, TopicsOwned, Published
<1>6. OthersEmpty'
  BY <1>1, <1>2, <1>4 DEF TopicParts, OthersEmpty
<1>7. AllExact'
  <2> SUFFICES ASSUME ~AllocFailures, NEW d \in Ctx, NEW u \in Qname,
                      u \in topics[d]
               PROVE  Exact(tmsgs'[d][u], seen[d][u], since[d][u], Last(d, u)')
    BY <1>2 DEF AllExact
  <2>1. Exact(tmsgs[d][u], seen[d][u], since[d][u], Last(d, u))
    BY <1>1 DEF TopicParts, AllExact
  <2>2. /\ tmsgs[d][u] \in Seq(Nat) /\ seen[d][u] \in SUBSET Nat
        /\ since[d][u] \in Nat /\ pub[u] \in Nat
    BY <1>1 DEF TypeOK
  <2>3. CASE d = c /\ u = btopic
    <3>1. Last(d, u)' = pub[u] /\ Last(d, u) = pub[u] - 1
      BY <1>1, <1>2, <2>3, VisitLast
    <3>2. Exact(Append(tmsgs[d][u], pub[u]), seen[d][u], since[d][u], pub[u])
      BY <2>1, <2>2, <3>1, ExactQueue
    <3> QED  BY <1>4, <2>3, <3>1, <3>2
  <2>4. CASE ~(d = c /\ u = btopic)
    <3>1. Last(d, u)' = Last(d, u)
      BY <1>1, <1>2, <2>4, VisitLast
    <3> QED  BY <1>4, <2>1, <2>4, <3>1
  <2> QED  BY <2>3, <2>4
<1>8. DrainedBeforeWaiting'
  <2> SUFFICES ASSUME ~AllocFailures, NEW d \in Ctx, mqWait[d] \in topics[d]
               PROVE  tmsgs'[d][mqWait[d]] = <<>>
    BY <1>2 DEF DrainedBeforeWaiting
  <2>1. mqWait[d] \in Qname
    BY <1>1 DEF TypeOK
  <2>2. d # c
    BY <1>2, <2>1
  <2> QED  BY <1>1, <1>4, <2>1, <2>2 DEF TopicParts, DrainedBeforeWaiting
<1> QED  BY <1>5, <1>6, <1>7, <1>8 DEF TopicParts

(* and one that is suspended returns with it.                              *)
LEMMA WakeKeepsTopics ==
  ASSUME TopicInv, NEW c \in Ctx, VisitWakes(c)
  PROVE  TopicParts'
<1> USE ConstAssumption
<1>1. WaitInv /\ TypeOK /\ TopicParts
  BY DEF TopicInv, WaitInv
<1>2. /\ Visit(c) /\ btopic \in topics[c]
      /\ seen' = [seen EXCEPT ![c][btopic] = @ \cup {pub[btopic]}]
      /\ status' = [status EXCEPT ![c] = "run"]
      /\ mqWait' = [mqWait EXCEPT ![c] = NoQueue]
      /\ UNCHANGED <<lcm, topics, since, tmsgs, loop, btopic, pub>>
  BY DEF VisitWakes, Visit, Subscribes, Wake
<1>3. btopic \in Qname
  BY <1>1, <1>2 DEF TypeOK
<1>4. \A d \in Ctx, u \in Qname :
        seen'[d][u] = IF d = c /\ u = btopic THEN seen[d][u] \cup {pub[u]}
                                             ELSE seen[d][u]
  BY <1>1, <1>2, <1>3 DEF TypeOK
<1>5. OwnersAlive'
  BY <1>1, <1>2 DEF TypeOK, TopicParts, OwnersAlive
<1>6. TopicsOwned' /\ Published'
  BY <1>1, <1>2 DEF TopicParts, TopicsOwned, Published
<1>7. OthersEmpty'
  BY <1>1, <1>2, <1>4 DEF TopicParts, OthersEmpty
<1>8. AllExact'
  <2> SUFFICES ASSUME ~AllocFailures, NEW d \in Ctx, NEW u \in Qname,
                      u \in topics[d]
               PROVE  Exact(tmsgs[d][u], seen'[d][u], since[d][u], Last(d, u)')
    BY <1>2 DEF AllExact
  <2>1. Exact(tmsgs[d][u], seen[d][u], since[d][u], Last(d, u))
    BY <1>1 DEF TopicParts, AllExact
  <2>2. seen[d][u] \in SUBSET Nat /\ since[d][u] \in Nat /\ pub[u] \in Nat
    BY <1>1 DEF TypeOK
  <2>3. CASE d = c /\ u = btopic
    <3>1. Last(d, u)' = pub[u] /\ Last(d, u) = pub[u] - 1
      BY <1>1, <1>2, <2>3, VisitLast
    <3>2. Exact(tmsgs[d][u], seen[d][u] \cup {pub[u]}, since[d][u], pub[u])
      BY <2>1, <2>2, <3>1, ExactWake
    <3> QED  BY <1>4, <2>3, <3>1, <3>2
  <2>4. CASE ~(d = c /\ u = btopic)
    <3>1. Last(d, u)' = Last(d, u)
      BY <1>1, <1>2, <2>4, VisitLast
    <3> QED  BY <1>4, <2>1, <2>4, <3>1
  <2> QED  BY <2>3, <2>4
<1>9. DrainedBeforeWaiting'
  <2> SUFFICES ASSUME ~AllocFailures, NEW d \in Ctx, mqWait'[d] \in topics[d]
               PROVE  tmsgs[d][mqWait'[d]] = <<>>
    BY <1>2 DEF DrainedBeforeWaiting
  <2>1. d # c /\ mqWait'[d] = mqWait[d]
    BY <1>1, <1>2 DEF TypeOK
  <2> QED  BY <1>1, <2>1 DEF TopicParts, DrainedBeforeWaiting
<1> QED  BY <1>5, <1>6, <1>7, <1>8, <1>9 DEF TopicParts

(* A coroutine is suspended on the name of no topic that has messages.     *)
LEMMA SuspendKeepsTopics ==
  ASSUME TopicInv, NEW c \in Ctx, NEW q \in Qname, Suspend(c, q)
  PROVE  TopicParts'
<1> USE DEF ctxVars, loopVars
<1>1. TypeOK /\ TopicParts
  BY DEF TopicInv, WaitInv
<1>2. /\ ~HasTopicMsg(c, q) /\ mqWait' = [mqWait EXCEPT ![c] = q]
      /\ status' = [status EXCEPT ![c] = "wait"]
      /\ UNCHANGED <<topics, tmsgs, since, seen, lcm, todo, btopic, pub, loop>>
  BY DEF Suspend, CanGet
<1>3. \A d \in lcm : status'[d] \in {"run", "wait"}
  BY <1>1, <1>2 DEF TypeOK, TopicParts, OwnersAlive
<1>4. \A d \in Ctx : \/ mqWait'[d] = mqWait[d]
                     \/ mqWait'[d] \notin topics[d]
                     \/ tmsgs[d][mqWait'[d]] = <<>>
  BY <1>1, <1>2 DEF TypeOK, HasTopicMsg
<1> QED  BY <1>1, <1>2, <1>3, <1>4, TopicsSame

(* A receiver woken by a message of its queue or by the timer.             *)
LEMMA WokenKeepsTopics ==
  ASSUME TopicInv, NEW c \in Ctx, NEW q, NEW v, Wake(c, q, v),
         UNCHANGED <<topics, tmsgs, since, seen, lcm, todo, btopic, pub, loop>>
  PROVE  TopicParts'
<1> USE ConstAssumption
<1>1. TypeOK /\ TopicParts
  BY DEF TopicInv, WaitInv
<1>2. /\ mqWait' = [mqWait EXCEPT ![c] = NoQueue]
      /\ status' = [status EXCEPT ![c] = "run"]
  BY DEF Wake
<1>3. \A d \in lcm : status'[d] \in {"run", "wait"}
  BY <1>1, <1>2 DEF TypeOK, TopicParts, OwnersAlive
<1>4. \A d \in Ctx : mqWait'[d] = mqWait[d] \/ mqWait'[d] \notin topics[d]
  BY <1>1, <1>2 DEF TypeOK
<1> QED  BY <1>1, <1>3, <1>4, TopicsSame

(* A broadcast that runs out of memory ends its sender.                    *)
LEMMA BroadcastFailsTopics ==
  ASSUME TopicInv, NEW c \in Ctx, BroadcastFails(c)
  PROVE  TopicParts'
<1>1. TypeOK /\ WaitRecordsAgree /\ SenderRuns /\ TopicParts
  BY DEF TopicInv, WaitInv
<1>2. /\ AllocFailures /\ sender \in Ctx /\ status[sender] = "run"
      /\ loop' = "none" /\ lcm' = lcm \ {sender}
      /\ status' = [status EXCEPT ![sender] = "end"]
      /\ c \in lcm /\ btopic \in topics[c]
  BY <1>1 DEF BroadcastFails, Subscribes, SenderRuns, Finish
<1>3. /\ \A d \in Ctx \ {sender} : topics'[d] = topics[d]
      /\ topics'[sender] = {}
      /\ \A d \in Ctx, t \in Qname :
           t \notin topics'[d] => tmsgs'[d][t] = <<>> /\ seen'[d][t] = {}
  <2>1. CASE Finish(sender)
    <3>1. OnlyFreed(sender, Qname)
      <4>1. TypeOK /\ sender \in Ctx /\ FreeTopics(sender, Qname)
        BY <1>1, <1>2, <2>1 DEF Finish
      <4> QED  BY <4>1, FreedTopics
    <3>2. topics'[sender] = {} /\ \A d \in Ctx \ {sender} : topics'[d] = topics[d]
      BY <1>1, <1>2, <3>1 DEF OnlyFreed, TypeOK
    <3>3. OthersEmpty
      BY <1>1 DEF TopicParts
    <3>4. ASSUME NEW d \in Ctx, NEW t \in Qname, t \notin topics'[d]
          PROVE  tmsgs'[d][t] = <<>> /\ seen'[d][t] = {}
      <4>1. CASE d = sender
        BY <3>1, <4>1 DEF OnlyFreed
      <4>2. CASE d # sender
        <5>1. tmsgs'[d][t] = tmsgs[d][t] /\ seen'[d][t] = seen[d][t]
          BY <3>1, <4>2 DEF OnlyFreed
        <5>2. t \notin topics[d]
          BY <3>2, <3>4, <4>2
        <5> QED  BY <3>3, <5>1, <5>2 DEF OthersEmpty
      <4> QED  BY <4>1, <4>2
    <3> QED  BY <3>2, <3>4
  <2>2. CASE ~Finish(sender)
    <3>1. /\ mqWait[c] # NoQueue
          /\ topics' = [topics EXCEPT ![sender] = {}]
          /\ tmsgs' = [tmsgs EXCEPT ![sender] = [t \in Qname |-> <<>>],
                                    ![c][btopic] = Append(@, pub[btopic])]
          /\ seen' = [seen EXCEPT ![sender] = [t \in Qname |-> {}]]
      BY <2>2 DEF BroadcastFails
    <3>2. c # sender
      BY <1>1, <1>2, <3>1 DEF WaitRecordsAgree
    <3>3. topics'[sender] = {} /\ \A d \in Ctx \ {sender} : topics'[d] = topics[d]
      BY <1>1, <1>2, <3>1 DEF TypeOK
    <3>4. ASSUME NEW t \in Qname
          PROVE  tmsgs'[sender][t] = <<>> /\ seen'[sender][t] = {}
      BY <1>1, <1>2, <3>1, <3>2 DEF TypeOK
    <3>5. ASSUME NEW d \in Ctx \ {sender}, NEW t \in Qname, t \notin topics[d]
          PROVE  tmsgs'[d][t] = tmsgs[d][t] /\ seen'[d][t] = seen[d][t]
      <4>1. d # c \/ t # btopic
        BY <1>2, <3>5
      <4>2. DOMAIN tmsgs = Ctx /\ DOMAIN seen = Ctx
            /\ \A e \in Ctx : DOMAIN tmsgs[e] = Qname
        BY <1>1 DEF TypeOK
      <4> QED  BY <3>1, <4>1, <4>2
    <3> QED  BY <1>1, <3>3, <3>4, <3>5 DEF TopicParts, OthersEmpty
  <2> QED  BY <2>1, <2>2
<1>4. OwnersAlive'
  BY <1>1, <1>2 DEF TypeOK, TopicParts, OwnersAlive
<1>5. TopicsOwned'
  BY <1>1, <1>2, <1>3 DEF TopicParts, TopicsOwned
<1>6. OthersEmpty' /\ Published'
  BY <1>2, <1>3 DEF OthersEmpty, Published
<1>7. AllExact' /\ DrainedBeforeWaiting'
  BY <1>2 DEF AllExact, DrainedBeforeWaiting
<1> QED  BY <1>4, <1>5, <1>6, <1>7 DEF TopicParts

(* Every step keeps the topics in order.                                   *)
LEMMA TopicStep == TopicInv /\ [Next]_vars => TopicInv'
<1> SUFFICES ASSUME TopicInv, [Next]_vars PROVE TopicInv'
  OBVIOUS
<1> USE DEF ctxVars, queueVars, timerVars, loopVars
<1>0. WaitInv /\ TypeOK /\ TopicParts
  BY DEF TopicInv, WaitInv
<1>1. ASSUME NEW c \in Ctx, Import(c)
      PROVE  TopicParts'
  <2>1. c \in Live /\ loop = "none"
    BY <1>0, <1>1, CallerWaitsNot DEF Import
  <2>2. OwnersAlive' /\ TopicsOwned' /\ OthersEmpty' /\ Published'
    BY <1>0, <1>1, <2>1
       DEF Import, Live, TopicParts, OwnersAlive, TopicsOwned, OthersEmpty, Published
  <2>3. \A d \in Ctx, t \in Qname : Last(d, t)' = Last(d, t)
    BY <1>1 DEF Import, Last
  <2>4. AllExact' /\ DrainedBeforeWaiting'
    BY <1>0, <1>1, <2>3 DEF Import, TopicParts, AllExact, DrainedBeforeWaiting
  <2> QED  BY <2>2, <2>4 DEF TopicParts
<1>2. ASSUME NEW c \in Ctx, ImportFails(c)
      PROVE  TopicParts'
  BY <1>0, <1>2, FinishTopics DEF ImportFails
<1>3. ASSUME NEW c \in Ctx, End(c)
      PROVE  TopicParts'
  BY <1>0, <1>3, FinishTopics DEF End
<1>4. ASSUME NEW c \in Ctx, NEW k \in Ctx, Eval(k, c)
      PROVE  TopicParts'
  <2>1. \A d \in lcm : status'[d] \in {"run", "wait"}
    BY <1>0, <1>4 DEF Eval, TypeOK, TopicParts, OwnersAlive
  <2> QED  BY <1>0, <1>4, <2>1, TopicsSame DEF Eval
<1>5. ASSUME NEW c \in Ctx, NEW k \in Ctx, Kill(k, c)
      PROVE  TopicParts'
  BY <1>0, <1>5, FinishTopics DEF Kill
<1>6. ASSUME NEW c \in Ctx, NEW k \in Ctx, KillWaiting(k, c)
      PROVE  TopicParts'
  BY <1>0, <1>6, TopicsUntouched DEF KillWaiting, Abort
<1>7. ASSUME NEW c \in Ctx, NEW q \in Qname, RecvTopic(c, q)
      PROVE  TopicParts'
  BY <1>7, ReceiveKeepsTopics
<1>8. ASSUME NEW c \in Ctx, NEW q \in Qname, RecvTakes(c, q)
      PROVE  TopicParts'
  BY <1>0, <1>8, TopicsUntouched DEF RecvTakes
<1>9. ASSUME NEW c \in Ctx, NEW q \in Qname, RecvBlocks(c, q)
      PROVE  TopicParts'
  BY <1>9, SuspendKeepsTopics DEF RecvBlocks
<1>10. ASSUME NEW c \in Ctx, NEW q \in Qname, NEW timeout \in Timeouts,
              RecvBlocksTimed(c, q, timeout)
       PROVE  TopicParts'
  BY <1>10, SuspendKeepsTopics DEF RecvBlocksTimed
<1>11. ASSUME NEW c \in Ctx, NEW q \in Qname, RecvFails(c, q)
       PROVE  TopicParts'
  BY <1>0, <1>11, FinishTopics DEF RecvFails
<1>12. ASSUME NEW c \in Ctx, NEW q \in Qname, RecvAborts(c, q)
       PROVE  TopicParts'
  BY <1>0, <1>12, TopicsUntouched DEF RecvAborts, Abort
<1>13. ASSUME NEW c \in Ctx, RecvRejects(c)
       PROVE  TopicParts'
  BY <1>0, <1>13, FinishTopics DEF RecvRejects
<1>14. ASSUME NEW c \in Ctx, NEW q \in Qname, AppendsOnly(c, q)
       PROVE  TopicParts'
  BY <1>0, <1>14, TopicsUntouched DEF AppendsOnly
<1>15. ASSUME NEW c \in Ctx, NEW q \in Qname, SendFails(c, q)
       PROVE  TopicParts'
  BY <1>0, <1>15, FinishTopics DEF SendFails
<1>16. ASSUME NEW c \in Ctx, NEW q \in Qname, SendAborts(c, q)
       PROVE  TopicParts'
  BY <1>0, <1>16, TopicsUntouched DEF SendAborts, Abort
<1>17. ASSUME NEW c \in Ctx, NEW q \in Qname, SendHandsOver(c, q)
       PROVE  TopicParts'
  <2>1. Head(waits[q]) \in Ctx
    BY <1>0, <1>17 DEF TypeOK, SendHandsOver
  <2> QED  BY <1>17, <2>1, WokenKeepsTopics DEF SendHandsOver
<1>18. ASSUME NEW c \in Ctx, NEW t \in Qname, Subscribe(c, t)
       PROVE  TopicParts'
  BY <1>18, SubscribeKeepsTopics
<1>19. ASSUME NEW c \in Ctx, NEW t \in Qname, Unsubscribe(c, t)
       PROVE  TopicParts'
  <2> DEFINE T == {t}
  <2>1. /\ FreeTopics(c, T)
        /\ UNCHANGED <<status, lcm, pub, mqWait, loop, todo, btopic>>
    BY <1>19 DEF Unsubscribe
  <2>2. (lcm' = lcm /\ status' = status) \/ (T = Qname /\ Finish(c))
    BY <2>1
  <2> HIDE DEF T
  <2> QED  BY <1>0, <2>1, <2>2, FreeKeepsTopics
<1>20. ASSUME NEW c \in Ctx, NEW t \in Qname, Broadcast(c, t)
       PROVE  TopicParts'
  BY <1>20, BroadcastKeepsTopics
<1>21. ASSUME NEW c \in Ctx,
              VisitSkips(c) \/ VisitQueues(c) \/ VisitWakes(c)
       PROVE  TopicParts'
  BY <1>21, SkipKeepsTopics, QueueKeepsTopics, WakeKeepsTopics
<1>22. ASSUME NEW c \in Ctx, VisitAborts(c)
       PROVE  TopicParts'
  BY <1>0, <1>22, TopicsUntouched DEF VisitAborts, Abort
<1>23. ASSUME NEW c \in Ctx, BroadcastFails(c)
       PROVE  TopicParts'
  BY <1>23, BroadcastFailsTopics
<1>24. ASSUME BroadcastDone
       PROVE  TopicParts'
  <2>1. /\ todo = {} /\ loop' = "none"
        /\ UNCHANGED <<status, lcm, topics, tmsgs, since, seen, mqWait, pub>>
    BY <1>24 DEF BroadcastDone
  <2>2. OwnersAlive' /\ TopicsOwned' /\ OthersEmpty' /\ Published'
        /\ DrainedBeforeWaiting'
    BY <1>0, <2>1
       DEF TopicParts, OwnersAlive, TopicsOwned, OthersEmpty, Published,
           DrainedBeforeWaiting
  <2>3. \A d \in Ctx, t \in Qname : Last(d, t)' = Last(d, t)
    BY <2>1 DEF Last
  <2>4. AllExact'
    BY <1>0, <2>1, <2>3 DEF TopicParts, AllExact
  <2> QED  BY <2>2, <2>4 DEF TopicParts
<1>25. ASSUME TimerFires \/ TimerAborts \/ TimerDone \/ TimerNotSet \/ Tick
       PROVE  TopicParts'
  BY <1>0, <1>25, TopicsUntouched
     DEF TimerFires, Idle, TimerAborts, Abort, TimerDone, TimerNotSet, Tick
<1>26. ASSUME NEW c \in Ctx, Expire(c)
       PROVE  TopicParts'
  BY <1>26, WokenKeepsTopics DEF Expire
<1>27. ASSUME UNCHANGED vars
       PROVE  TopicParts'
  BY <1>0, <1>27, TopicsUntouched DEF vars
<1>28. TopicParts'
  BY <1>1, <1>2, <1>3, <1>4, <1>5, <1>6, <1>7, <1>8, <1>9, <1>10, <1>11,
     <1>12, <1>13, <1>14, <1>15, <1>16, <1>17, <1>18, <1>19, <1>20, <1>21,
     <1>22, <1>23, <1>24, <1>25, <1>26, <1>27
     DEF Next, Lifecycle, Receive, Send, SendQueues, SendLeavesBoth, Topic, Timer
<1> QED  BY <1>0, <1>28, WaitStep DEF TopicInv

(* The invariant, from the first state on.                                 *)
LEMMA TopicInductive == Spec => []TopicInv
BY TopicInit, TopicStep, PTL DEF Spec

(* However subscriptions, broadcasts and receives interleave, a subscriber *)
(* gets each message published since it subscribed exactly once.           *)
THEOREM TopicsAreExact == Spec => []TopicExactlyOnce
<1>1. TopicInv => TopicExactlyOnce
  <2> SUFFICES ASSUME TopicInv, ~AllocFailures, NEW c \in lcm, NEW t \in topics[c]
               PROVE  /\ Queued(tmsgs[c][t]) \cap seen[c][t] = {}
                      /\ Queued(tmsgs[c][t]) \cup seen[c][t]
                           = since[c][t] + 1 .. Last(c, t)
                      /\ \A i, j \in DOMAIN tmsgs[c][t] :
                           i < j => tmsgs[c][t][i] < tmsgs[c][t][j]
    BY DEF TopicExactlyOnce, Queued, Last
  <2>1. c \in Ctx /\ t \in Qname /\ TopicParts
    BY DEF TopicInv, WaitInv, TypeOK
  <2> QED  BY <2>1 DEF TopicParts, AllExact, Exact
<1> QED  BY <1>1, TopicInductive, PTL

(* A message that wakes a subscriber waiting on the topic's name overtakes *)
(* no other message of the topic.                                          *)
THEOREM WaitersAreDrained == Spec => []DrainedBeforeWaiting
<1>1. TopicInv => DrainedBeforeWaiting
  BY DEF TopicInv, TopicParts
<1> QED  BY <1>1, TopicInductive, PTL

=============================================================================
