-------------------------- MODULE UdpSocketProofs ---------------------------
(***************************************************************************)
(* Proofs about UdpSocket for any set of coroutines and descriptors, one   *)
(* thread or several, with sufficient memory or without.                   *)
(***************************************************************************)
EXTENDS UdpSocket, TLAPS

DirectionOf(handler) == IF handler \in {"send", "rearm"} THEN "send" ELSE "recv"

(* What is armed or called belongs to the marked direction, there is one   *)
(* of them at most, and a send has no timeout.                             *)
MarksOfEvents ==
  \A fd \in Fd :
    /\ event[fd] # "none" => pending[fd] = "none" /\ fd \in busy[DirectionOf(event[fd])]
    /\ event[fd] = "send" => ~timed[fd]
    /\ pending[fd] # "none" /\ fd \in udpSet => fd \in busy[DirectionOf(pending[fd])]

(* Both halves of WaitersWakeable.                                         *)
UsersWakeable ==
  \A fd \in Fd : owner[fd] # NoCtx => event[fd] # "none" \/ pending[fd] # "none"
WaitersAreUsers ==
  \A c \in Ctx : status[c] = "wait" => \E fd \in Fd : owner[fd] = c

SockInv ==
  /\ SockTypes
  /\ UsersAgree
  /\ MarksOfEvents
  /\ UsersWakeable
  /\ WaitersAreUsers

-----------------------------------------------------------------------------
(* How the parts of the actions preserve it.                               *)

(* It holds at the start.                                                  *)
LEMMA InitSock == Init => SockInv
BY ConstAssumption
DEF Init, SockInv, SockTypes, UsersAgree, MarksOfEvents, UsersWakeable,
    WaitersAreUsers, Dir

(* A coroutine that runs is the user of no socket, and an unmarked socket  *)
(* has no user, event or handler.                                          *)
LEMMA RunnerUsesNone ==
  ASSUME SockInv, NEW c \in Ctx, status[c] = "run", NEW fd \in Fd
  PROVE  owner[fd] # c
BY ConstAssumption DEF SockInv, UsersAgree

(* An unmarked socket has no event and no handler either.                  *)
LEMMA UnusedIsQuiet ==
  ASSUME SockInv, NEW fd \in Fd, Unused(fd)
  PROVE  /\ owner[fd] = NoCtx /\ event[fd] = "none"
         /\ fd \in udpSet => pending[fd] = "none"
BY DEF SockInv, UsersAgree, MarksOfEvents, Unused, DirectionOf

(* Suspending a coroutine on a usable socket preserves it.                 *)
LEMMA SuspendSock ==
  ASSUME SockInv, NEW c \in Ctx, NEW fd \in Fd, NEW d \in Dir,
         NEW timeout \in BOOLEAN, d = "send" => ~timeout,
         Usable(c, fd), Suspend(c, fd, d, timeout),
         data' \subseteq udpSet
  PROVE  SockInv'
<1> USE DEF Dir, Usable, Running
<1>1. \A gd \in Fd : owner[gd] # c
  BY RunnerUsesNone
<1>2. owner[fd] = NoCtx /\ pending[fd] = "none"
  BY UnusedIsQuiet
<1>3. SockTypes'
  BY DEF SockInv, SockTypes, Suspend
<1>4. UsersAgree'
  BY <1>1, <1>2, ConstAssumption DEF SockInv, SockTypes, UsersAgree, Suspend, Unused
<1>5. MarksOfEvents'
  BY <1>2 DEF SockInv, SockTypes, MarksOfEvents, Suspend, DirectionOf
<1>6. UsersWakeable'
  BY DEF SockInv, SockTypes, UsersWakeable, Suspend
<1>7. WaitersAreUsers'
  <2> SUFFICES ASSUME NEW e \in Ctx, status'[e] = "wait"
               PROVE  \E gd \in Fd : owner'[gd] = e
    BY DEF WaitersAreUsers
  <2>1. CASE e = c
    BY <2>1 DEF SockInv, SockTypes, Suspend
  <2>2. CASE e # c
    <3>1. PICK gd \in Fd : owner[gd] = e
      BY <2>2 DEF SockInv, SockTypes, WaitersAreUsers, Suspend
    <3>2. gd # fd
      BY <1>2, <3>1, ConstAssumption
    <3> QED  BY <3>1, <3>2 DEF SockInv, SockTypes, Suspend
  <2> QED  BY <2>1, <2>2
<1> QED  BY <1>3, <1>4, <1>5, <1>6, <1>7 DEF SockInv

(* Whoever waits when the user of a socket is woken is the user of another *)
(* socket.                                                                 *)
LEMMA ReleaseWaiters ==
  ASSUME SockInv, NEW fd \in Fd, Release(fd)
  PROVE  WaitersAreUsers'
<1> SUFFICES ASSUME NEW e \in Ctx, status'[e] = "wait"
             PROVE  \E gd \in Fd : owner'[gd] = e
  BY DEF WaitersAreUsers
<1>1. e # owner[fd] /\ status[e] = "wait"
  BY DEF Release
<1>2. PICK gd \in Fd : owner[gd] = e
  BY <1>1 DEF SockInv, WaitersAreUsers
<1> QED  BY <1>1, <1>2 DEF Release, SockInv, SockTypes

(* A handler answers.                                                      *)
LEMMA FinishSock ==
  ASSUME SockInv, NEW fd \in Fd, NEW d \in Dir,
         fd \in udpSet, pending[fd] # "none", d = DirectionOf(pending[fd]),
         Finish(fd, d), data' \subseteq data
  PROVE  SockInv'
<1> USE DEF Dir, Finish, Release, Cleared, Unmarked
<1>1. SockTypes'
  BY DEF SockInv, SockTypes
<1>2. UsersAgree'
  BY ConstAssumption DEF SockInv, SockTypes, UsersAgree
<1>3. MarksOfEvents'
  BY DEF SockInv, SockTypes, MarksOfEvents, DirectionOf
<1>4. UsersWakeable'
  BY DEF SockInv, SockTypes, UsersWakeable
<1>5. WaitersAreUsers'
  BY ReleaseWaiters
<1> QED  BY <1>1, <1>2, <1>3, <1>4, <1>5 DEF SockInv

(* A socket is closed.                                                     *)
LEMMA CloseSock ==
  ASSUME SockInv, NEW c \in Ctx, NEW fd \in Fd, Close(c, fd)
  PROVE  SockInv'
<1> USE DEF Dir, Close, Release, Cleared
<1>1. SockTypes'
  BY ConstAssumption DEF SockInv, SockTypes
<1>2. UsersAgree'
  BY ConstAssumption DEF SockInv, SockTypes, UsersAgree
<1>3. MarksOfEvents'
  BY DEF SockInv, SockTypes, MarksOfEvents, DirectionOf
<1>4. UsersWakeable'
  BY DEF SockInv, SockTypes, UsersWakeable
<1>5. WaitersAreUsers'
  BY ReleaseWaiters
<1> QED  BY <1>1, <1>2, <1>3, <1>4, <1>5 DEF SockInv

(* An event becomes a handler, or a handler an event or another handler of *)
(* the same direction.                                                     *)
LEMMA EventSock ==
  ASSUME SockInv, NEW fd \in Fd, NEW e \in {"none", "send", "recv"},
         NEW h \in {"none", "send", "recv", "timeout", "rearm"},
         NEW t \in BOOLEAN,
         event' = [event EXCEPT ![fd] = e],
         pending' = [pending EXCEPT ![fd] = h],
         timed' = [timed EXCEPT ![fd] = t],
         data' \subseteq data,
         UNCHANGED <<status, trees, udpSet, busy, owner, fault>>,
         e # "none" => h = "none" /\ fd \in busy[DirectionOf(e)],
         h # "none" /\ fd \in udpSet => fd \in busy[DirectionOf(h)],
         e = "send" => ~t,
         owner[fd] # NoCtx => e # "none" \/ h # "none"
  PROVE  SockInv'
<1>1. SockTypes'
  BY DEF SockInv, SockTypes, DirectionOf, Dir
<1>2. UsersAgree'
  BY DEF SockInv, SockTypes, UsersAgree
<1>3. MarksOfEvents'
  BY DEF SockInv, SockTypes, MarksOfEvents
<1>4. UsersWakeable'
  BY DEF SockInv, SockTypes, UsersWakeable
<1>5. WaitersAreUsers'
  BY DEF SockInv, SockTypes, WaitersAreUsers
<1> QED  BY <1>1, <1>2, <1>3, <1>4, <1>5 DEF SockInv

(* Kill takes the events of the coroutine with it.                         *)
LEMMA KillSock ==
  ASSUME SockInv, NEW k \in Ctx, NEW c \in Ctx, Kill(k, c)
  PROVE  SockInv'
<1> USE DEF Kill, Ends, Disarmed
<1>1. SockTypes'
  BY DEF SockInv, SockTypes
<1>2. UsersAgree'
  BY ConstAssumption DEF SockInv, SockTypes, UsersAgree
<1>3. MarksOfEvents'
  BY DEF SockInv, SockTypes, MarksOfEvents
<1>4. UsersWakeable'
  BY DEF SockInv, SockTypes, UsersWakeable
<1>5. WaitersAreUsers'
  BY ConstAssumption DEF SockInv, SockTypes, WaitersAreUsers
<1> QED  BY <1>1, <1>2, <1>3, <1>4, <1>5 DEF SockInv

(* A new socket has no handler, event or mark.                             *)
LEMMA CreateSock ==
  ASSUME SockInv, NEW c \in Ctx, NEW fd \in Fd, Create(c, fd)
  PROVE  SockInv'
<1> USE DEF Create
<1>0. Unused(fd)
  BY DEF SockInv, SockTypes, Unused, Dir
<1>1. SockTypes'
  BY DEF SockInv, SockTypes, Dir
<1>2. UsersAgree'
  BY DEF SockInv, SockTypes, UsersAgree
<1>3. MarksOfEvents'
  BY DEF SockInv, SockTypes, MarksOfEvents
<1>4. UsersWakeable'
  BY <1>0, UnusedIsQuiet DEF SockInv, SockTypes, UsersWakeable
<1>5. WaitersAreUsers'
  BY DEF SockInv, SockTypes, WaitersAreUsers
<1> QED  BY <1>1, <1>2, <1>3, <1>4, <1>5 DEF SockInv

(* Steps that leave the sockets alone but for data.                        *)
LEMMA QuietSock ==
  ASSUME SockInv, UNCHANGED <<udpSet, busy, owner, event, timed, pending>>,
         data' \subseteq udpSet,
         status' = status \/ \E c \in Ctx : status[c] = "run"
                              /\ status' = [status EXCEPT ![c] = "end"],
         trees' \in BOOLEAN, fault' \in {"none", "assert", "handler", "data"}
  PROVE  SockInv'
<1>1. SockTypes'
  BY DEF SockInv, SockTypes
<1>2. UsersAgree'
  BY RunnerUsesNone DEF SockInv, SockTypes, UsersAgree
<1>3. MarksOfEvents'
  BY DEF SockInv, SockTypes, MarksOfEvents
<1>4. UsersWakeable'
  BY DEF SockInv, SockTypes, UsersWakeable
<1>5. WaitersAreUsers'
  BY DEF SockInv, SockTypes, WaitersAreUsers
<1> QED  BY <1>1, <1>2, <1>3, <1>4, <1>5 DEF SockInv

(* An abort is one of them.                                                *)
LEMMA AbortSock ==
  ASSUME SockInv, NEW why \in {"assert", "handler", "data"}, Abort(why)
  PROVE  SockInv'
BY QuietSock DEF Abort, SockInv, SockTypes, loopVars

-----------------------------------------------------------------------------
(* The calls of the scripts preserve it.                                   *)
LEMMA ScriptSock == SockInv /\ Script => SockInv'
<1> SUFFICES ASSUME SockInv, Script PROVE SockInv'
  OBVIOUS
<1>0. SockTypes
  BY DEF SockInv
<1> PICK c \in Ctx :
      \/ End(c) \/ Import(c) \/ ImportFails(c) \/ TreeAborts(c)
      \/ \E k \in Ctx : Kill(k, c)
      \/ \E fd \in Fd :
           \/ Create(c, fd) \/ Close(c, fd)
           \/ Send(c, fd) \/ SendFails(c, fd) \/ SendAborts(c, fd)
           \/ \E timeout \in BOOLEAN : Recv(c, fd, timeout)
           \/ CallRaces(c, fd)
  BY DEF Script
<1>1. CASE End(c) \/ Import(c) \/ ImportFails(c)
  BY <1>0, <1>1, QuietSock 
  DEF End, Import, ImportFails, Ends, Running, SockTypes, loopVars
<1>2. CASE TreeAborts(c)
  BY <1>2, AbortSock DEF TreeAborts
<1>3. CASE \E k \in Ctx : Kill(k, c)
  BY <1>3, KillSock
<1>4. ASSUME NEW fd \in Fd, Create(c, fd) PROVE SockInv'
  BY <1>4, CreateSock
<1>5. ASSUME NEW fd \in Fd, Close(c, fd) PROVE SockInv'
  BY <1>5, CloseSock
<1>6. ASSUME NEW fd \in Fd, Send(c, fd) PROVE SockInv'
  <2>1. data' \subseteq udpSet /\ "send" \in Dir
    BY <1>0, <1>6 DEF Send, Usable, SockTypes, Dir
  <2> QED  BY <1>6, <2>1, SuspendSock DEF Send
<1>7. ASSUME NEW fd \in Fd, SendFails(c, fd) PROVE SockInv'
  BY <1>0, <1>7, QuietSock 
  DEF SendFails, Usable, Ends, Running, SockTypes, loopVars
<1>8. ASSUME NEW fd \in Fd, SendAborts(c, fd) \/ CallRaces(c, fd) PROVE SockInv'
  BY <1>8, AbortSock DEF SendAborts, CallRaces
<1>9. ASSUME NEW fd \in Fd, NEW timeout \in BOOLEAN, Recv(c, fd, timeout)
      PROVE  SockInv'
  <2>1. data' \subseteq udpSet /\ "recv" \in Dir
    BY <1>0, <1>9 DEF Recv, SockTypes, Dir
  <2> QED  BY <1>9, <2>1, SuspendSock DEF Recv
<1> QED  BY <1>1, <1>2, <1>3, <1>4, <1>5, <1>6, <1>7, <1>8, <1>9

(* The event loop calls a handler of the direction that is marked.         *)
LEMMA CallSock ==
  ASSUME SockInv, NEW fd \in Fd, Fire(fd) \/ FireTimeout(fd)
  PROVE  SockInv'
<1>1. PICK h \in {event[fd], "timeout"} : Call(fd, h) /\ (h = event[fd] \/ timed[fd])
  BY DEF Fire, FireTimeout
<1>2. /\ event[fd] \in {"send", "recv"}
      /\ timed[fd] \in BOOLEAN /\ timed = [timed EXCEPT ![fd] = timed[fd]]
  BY <1>1 DEF Call, SockInv, SockTypes
<1>3. fd \in busy[DirectionOf(h)]
  BY <1>1, <1>2 DEF SockInv, MarksOfEvents, DirectionOf
<1>4. h # "none" /\ h \in {"none", "send", "recv", "timeout", "rearm"}
  BY <1>1, <1>2
<1> QED  BY <1>1, <1>2, <1>3, <1>4, EventSock DEF Call

(* A handler that arms the event again, or will.                           *)
LEMMA AgainSock ==
  ASSUME SockInv, NEW fd \in Fd,
         SendInterrupted(fd) \/ Rearm(fd) \/ RecvInterrupted(fd)
  PROVE  SockInv'
<1>1. /\ timed[fd] \in BOOLEAN /\ timed = [timed EXCEPT ![fd] = timed[fd]]
      /\ event = [event EXCEPT ![fd] = event[fd]]
      /\ owner[fd] # NoCtx => fd \in udpSet
  BY DEF SockInv, SockTypes, UsersAgree, Dir
<1>2. pending[fd] # "none"
  BY DEF SendInterrupted, Rearm, RecvInterrupted, Locked
<1>3. event[fd] = "none"
  BY <1>2 DEF SockInv, MarksOfEvents
<1>4. fd \in udpSet => fd \in busy[DirectionOf(pending[fd])]
  BY <1>2 DEF SockInv, MarksOfEvents
<1>5. CASE SendInterrupted(fd)
  <2>1. fd \in busy[DirectionOf("rearm")] /\ data' \subseteq data
    BY <1>4, <1>5 DEF SendInterrupted, Locked, Sent, DirectionOf
  <2> QED  BY <1>1, <1>3, <1>5, <2>1, EventSock DEF SendInterrupted
<1>6. CASE RecvInterrupted(fd)
  <2>1. fd \in busy[DirectionOf("recv")]
    BY <1>4, <1>6 DEF RecvInterrupted, Locked, DirectionOf
  <2> QED  BY <1>1, <1>6, <2>1, EventSock DEF RecvInterrupted, Rearmed
<1>7. CASE Rearm(fd)
  <2> DEFINE e == IF fd \in udpSet THEN "send" ELSE "none"
  <2>1. e # "none" => fd \in busy[DirectionOf(e)]
    BY <1>4, <1>7 DEF Rearm, DirectionOf
  <2>2. event' = [event EXCEPT ![fd] = e]
    BY <1>1, <1>3, <1>7 DEF Rearm
  <2>3. owner[fd] # NoCtx => e # "none"
    BY <1>1
  <2>4. e \in {"none", "send", "recv"}
    OBVIOUS
  <2> HIDE DEF e
  <2> QED  BY <1>7, <2>1, <2>2, <2>3, <2>4, EventSock DEF Rearm
<1> QED  BY <1>5, <1>6, <1>7

(* A handler that answers.                                                 *)
LEMMA AnswerSock ==
  ASSUME SockInv, NEW fd \in Fd, SendEnds(fd) \/ RecvEnds(fd) \/ TimesOut(fd)
  PROVE  SockInv'
<1> USE DEF Answers, Locked, Dir, DirectionOf
<1>1. CASE SendEnds(fd)
  <2>1. data' \subseteq data
    BY <1>1 DEF SendEnds, Sent
  <2> QED  BY <1>1, <2>1, FinishSock DEF SendEnds
<1>2. CASE RecvEnds(fd) \/ TimesOut(fd)
  BY <1>2, FinishSock DEF RecvEnds, TimesOut
<1> QED  BY <1>1, <1>2

(* Every step preserves it.                                                *)
LEMMA SockStep == SockInv /\ [Next]_vars => SockInv'
<1> SUFFICES ASSUME SockInv, [Next]_vars PROVE SockInv'
  OBVIOUS
<1>1. CASE Script
  BY <1>1, ScriptSock
<1>2. ASSUME NEW fd \in Fd, Fire(fd) \/ FireTimeout(fd) PROVE SockInv'
  BY <1>2, CallSock
<1>3. ASSUME NEW fd \in Fd, Handler(fd) PROVE SockInv'
  <2>1. CASE SendFindsNoData(fd) \/ TimeoutAborts(fd) \/ HandlerAborts(fd)
    BY <2>1, AbortSock DEF SendFindsNoData, TimeoutAborts, HandlerAborts
  <2> QED  BY <1>3, <2>1, AgainSock, AnswerSock DEF Handler
<1>4. CASE UNCHANGED vars
  BY <1>4, QuietSock DEF vars, SockInv, SockTypes, loopVars
<1>5. CASE StaleAborts
  BY <1>5, AbortSock DEF StaleAborts
<1> QED  BY <1>1, <1>2, <1>3, <1>4, <1>5 DEF Next

(* It holds of every behaviour.                                            *)
LEMMA SockAlways == Spec => []SockInv
BY InitSock, SockStep, PTL DEF Spec

-----------------------------------------------------------------------------
(* The variables keep their types, and nothing is known of a closed        *)
(* descriptor (mln_lang_udp_free and all handlers).                        *)
THEOREM TypeCorrect == Spec => []TypeOK
<1>1. Init => options \in BOOLEAN \X BOOLEAN
  BY DEF Init, options
<1>2. options \in BOOLEAN \X BOOLEAN /\ [Next]_vars
        => (options \in BOOLEAN \X BOOLEAN)'
  BY DEF Next, vars
<1>3. Init => stale \in BOOLEAN
  BY DEF Init
<1>4. stale \in BOOLEAN /\ [Next]_vars => (stale \in BOOLEAN)'
  <2>1. Next => UNCHANGED stale \/ \E c \in Ctx, fd \in Fd : Create(c, fd)
    <3>1. Script => UNCHANGED stale \/ \E c \in Ctx, fd \in Fd : Create(c, fd)
      BY DEF Script, End, Import, ImportFails, TreeAborts, Kill, Send, SendFails,
             SendAborts, Recv, CallRaces, Close, Suspend, Abort, loopVars
    <3>2. ASSUME NEW fd \in Fd, Fire(fd) \/ FireTimeout(fd) \/ Handler(fd)
          PROVE  UNCHANGED stale
      BY <3>2
      DEF Fire, FireTimeout, Call, Handler, SendEnds, SendInterrupted, Rearm,
          SendFindsNoData, RecvEnds, RecvInterrupted, TimesOut, TimeoutAborts,
          HandlerAborts, Finish, Abort, loopVars
    <3>3. StaleAborts => UNCHANGED stale
      BY DEF StaleAborts, Abort, loopVars
    <3> QED  BY <3>1, <3>2, <3>3 DEF Next
  <2>2. ASSUME NEW c \in Ctx, NEW fd \in Fd, Create(c, fd) PROVE stale' \in BOOLEAN
    BY <2>2, Zenon DEF Create
  <2> QED  BY <2>1, <2>2, Zenon DEF vars, loopVars
<1>5. SockInv /\ options \in BOOLEAN \X BOOLEAN /\ stale \in BOOLEAN => TypeOK
  BY DEF SockInv, TypeOK
<1> QED  BY <1>1, <1>2, <1>3, <1>4, <1>5, SockAlways, PTL DEF Spec

(* A socket has one user at most and one mark at most, and a coroutine     *)
(* waits for one socket (the checks of udp_send and udp_recv, and what     *)
(* close, kill and the handlers undo).                                     *)
THEOREM UsersCorrect == Spec => []UsersAgree
<1>1. SockInv => UsersAgree
  BY DEF SockInv
<1> QED  BY <1>1, SockAlways, PTL

(* No coroutine is left suspended without an event or a handler that will  *)
(* wake it, with any number of threads, through interruptions, timeouts,   *)
(* close and kill.                                                         *)
THEOREM WaitersCorrect == Spec => []WaitersWakeable
<1>1. SockInv => WaitersWakeable
  BY ConstAssumption
  DEF SockInv, WaitersWakeable, UsersWakeable, WaitersAreUsers
<1> QED  BY <1>1, SockAlways, PTL

(* Whoever wakes a coroutine, a handler or udp_close, leaves its socket    *)
(* without user, mark, event and unsent data.                              *)
THEOREM WokenCorrect == Spec => WokenLeavesClean
<1> DEFINE Clean(c) ==
      \E fd \in Fd :
        /\ owner[fd] = c /\ owner'[fd] = NoCtx
        /\ fd \notin busy'["send"] \cup busy'["recv"]
        /\ event'[fd] = "none"
        /\ fd \in busy["send"] => fd \notin data'
<1>1. ASSUME SockInv, [Next]_vars, NEW c \in Ctx,
             status[c] = "wait", status'[c] = "run"
      PROVE  Clean(c)
  <2>0. SockTypes /\ UsersAgree
    BY <1>1 DEF SockInv
  <2>1. ASSUME NEW fd \in Fd, Release(fd) PROVE owner[fd] = c /\ owner'[fd] = NoCtx
                                              /\ event'[fd] = "none"
    BY <1>1, <2>0, <2>1 DEF Release, Cleared, SockTypes
  <2>2. ASSUME NEW k \in Ctx, NEW fd \in Fd, Close(k, fd) PROVE Clean(c)
    BY <2>0, <2>1, <2>2 DEF Close, SockTypes, Dir
  <2>3. ASSUME NEW fd \in Fd, SendEnds(fd) PROVE Clean(c)
    <3>1. fd \in busy["send"] /\ fd \notin busy["recv"]
      BY <1>1, <2>0, <2>3
      DEF SendEnds, Answers, Locked, SockInv, MarksOfEvents, UsersAgree, DirectionOf
    <3> QED
      BY <2>0, <2>1, <2>3, <3>1 DEF SendEnds, Finish, Unmarked, Sent, SockTypes, Dir
  <2>4. ASSUME NEW fd \in Fd, RecvEnds(fd) \/ TimesOut(fd) PROVE Clean(c)
    <3>1. fd \in busy["recv"] /\ fd \notin busy["send"]
      BY <1>1, <2>0, <2>4
      DEF RecvEnds, TimesOut, Answers, Locked, SockInv, MarksOfEvents, UsersAgree,
          DirectionOf
    <3> QED
      BY <2>0, <2>1, <2>4, <3>1
      DEF RecvEnds, TimesOut, Finish, Unmarked, SockTypes, Dir
  <2>5. ASSUME status' = status \/ \E k \in Ctx : Ends(k) PROVE FALSE
    BY <1>1, <2>0, <2>5 DEF Ends, SockTypes
  <2>6. ASSUME NEW k \in Ctx, NEW fd \in Fd, NEW d \in Dir, NEW t,
               Running(k), Suspend(k, fd, d, t)
        PROVE  FALSE
    BY <1>1, <2>0, <2>6 DEF Suspend, SockTypes
  <2>7. CASE Script
    <3>1. "send" \in Dir /\ "recv" \in Dir
      BY DEF Dir
    <3> QED
      BY <2>2, <2>5, <2>6, <2>7, <3>1
      DEF Script, End, Import, ImportFails, TreeAborts, Kill, Create, Send, SendFails,
          SendAborts, Recv, CallRaces, Abort, Usable
  <2>8. ASSUME NEW fd \in Fd, Fire(fd) \/ FireTimeout(fd) \/ Handler(fd)
        PROVE  Clean(c)
    BY <2>3, <2>4, <2>5, <2>8
    DEF Fire, FireTimeout, Call, Handler, SendInterrupted, Rearm, SendFindsNoData,
        RecvInterrupted, TimeoutAborts, HandlerAborts, Abort
  <2>9. CASE UNCHANGED vars
    BY <2>5, <2>9 DEF vars
  <2>10. CASE StaleAborts
    BY <2>5, <2>10 DEF StaleAborts, Abort
  <2> QED  BY <1>1, <2>7, <2>8, <2>9, <2>10 DEF Next
<1>2. SockInv /\ [Next]_vars
        => [\A c \in Ctx : status[c] = "wait" /\ status'[c] = "run" => Clean(c)]_vars
  BY <1>1
<1> QED  BY <1>2, SockAlways, PTL DEF Spec, WokenLeavesClean

-----------------------------------------------------------------------------
(* With memory the data of a socket is that of a send in progress, or of   *)
(* one that was killed, and no assertion fails.                            *)
DataInv ==
  ~lowmem => /\ trees
             /\ data \subseteq busy["send"]
             /\ fault # "assert"

(* The calls of the scripts keep it.                                       *)
LEMMA ScriptData ==
  SockInv /\ DataInv /\ Script /\ UNCHANGED options => DataInv'
<1> SUFFICES ASSUME SockInv, DataInv, Script, ~lowmem PROVE DataInv'
  BY DEF DataInv, options
<1>0. SockTypes
  BY DEF SockInv
<1> USE DEF DataInv
<1>1. ASSUME UNCHANGED <<trees, data, busy, fault>> PROVE DataInv'
  BY <1>1
<1>2. ASSUME NEW c \in Ctx, NEW fd \in Fd, Send(c, fd) PROVE DataInv'
  BY <1>0, <1>2 DEF Send, Suspend, SockTypes, Dir
<1>3. ASSUME NEW c \in Ctx, NEW fd \in Fd, NEW t \in BOOLEAN, Recv(c, fd, t)
      PROVE  DataInv'
  BY <1>0, <1>3 DEF Recv, Suspend, SockTypes, Dir
<1>4. ASSUME NEW c \in Ctx, NEW fd \in Fd, Close(c, fd) PROVE DataInv'
  BY <1>0, <1>4 DEF Close, SockTypes, Dir
<1>5. ASSUME NEW c \in Ctx, NEW fd \in Fd, SendAborts(c, fd) PROVE FALSE
  BY <1>5 DEF SendAborts, Usable, Unused
<1>6. ASSUME NEW c \in Ctx, NEW fd \in Fd, CallRaces(c, fd) PROVE DataInv'
  BY <1>6 DEF CallRaces, Abort
<1>7. ASSUME NEW c \in Ctx, Import(c) PROVE DataInv'
  BY <1>7 DEF Import
<1> QED
  BY <1>1, <1>2, <1>3, <1>4, <1>5, <1>6, <1>7
  DEF Script, End, ImportFails, TreeAborts, Kill, Create, SendFails

(* So do the handlers.                                                     *)
LEMMA HandlerData ==
  ASSUME SockInv, DataInv, NEW fd \in Fd,
         Fire(fd) \/ FireTimeout(fd) \/ Handler(fd), UNCHANGED options
  PROVE  DataInv'
<1> SUFFICES ASSUME ~lowmem PROVE DataInv'
  BY DEF DataInv, options
<1>0. SockTypes
  BY DEF SockInv
<1> USE DEF DataInv
<1>1. ASSUME UNCHANGED <<trees, data, busy, fault>> PROVE DataInv'
  BY <1>1
<1>2. CASE SendEnds(fd)
  BY <1>0, <1>2 DEF SendEnds, Sent, Finish, Unmarked, SockTypes, Dir
<1>3. CASE SendInterrupted(fd)
  BY <1>3 DEF SendInterrupted, Sent
<1>4. CASE RecvEnds(fd) \/ TimesOut(fd)
  BY <1>0, <1>4 DEF RecvEnds, TimesOut, Finish, Unmarked, SockTypes, Dir
<1>5. CASE TimeoutAborts(fd)
  BY <1>5
  DEF TimeoutAborts, Answers, Locked, SockInv, UsersAgree, MarksOfEvents, DirectionOf
<1>6. CASE SendFindsNoData(fd) \/ HandlerAborts(fd)
  BY <1>6 DEF SendFindsNoData, HandlerAborts, Abort
<1> QED
  BY <1>1, <1>2, <1>3, <1>4, <1>5, <1>6
  DEF Fire, FireTimeout, Call, Handler, Rearm, RecvInterrupted

(* It holds of every behaviour too.                                        *)
LEMMA DataAlways == Spec => []DataInv
<1>1. Init => DataInv
  BY DEF Init, DataInv
<1>2. SockInv /\ DataInv /\ [Next]_vars => DataInv'
  <2>1. DataInv /\ UNCHANGED vars => DataInv'
    BY DEF DataInv, vars, options
  <2>2. DataInv /\ StaleAborts /\ UNCHANGED options => DataInv'
    BY DEF DataInv, StaleAborts, Abort, options
  <2> QED  BY <2>1, <2>2, ScriptData, HandlerData DEF Next
<1> QED  BY <1>1, <1>2, SockAlways, PTL DEF Spec

(* With memory a socket that is not marked as sending holds no data.       *)
THEOREM DataCorrect == Spec => []DataOfSender
<1>1. DataInv => DataOfSender
  BY DEF DataInv, DataOfSender
<1> QED  BY <1>1, DataAlways, PTL

(* With memory no assertion of udp_send, of the timeout handler or on the  *)
(* trees of the library fails, with any number of threads.                 *)
THEOREM AssertsCorrect == Spec => []AssertsHold
<1>1. DataInv => AssertsHold
  BY DEF DataInv, AssertsHold
<1> QED  BY <1>1, DataAlways, PTL

-----------------------------------------------------------------------------
(* With one thread, what is armed or called has a user.                    *)
SingleInv ==
  ~threads => /\ \A fd \in Fd : event[fd] # "none" \/ pending[fd] # "none"
                                  => owner[fd] # NoCtx
              /\ ~stale
              /\ fault # "handler"

(* The calls of the scripts keep it: no handler is on its way.             *)
LEMMA ScriptSingle ==
  SockInv /\ SingleInv /\ Script /\ UNCHANGED options => SingleInv'
<1> SUFFICES ASSUME SockInv, SingleInv, Script, ~threads PROVE SingleInv'
  BY DEF SingleInv, options
<1>0. SockTypes
  BY DEF SockInv
<1> USE DEF Running, Idle, loopVars
<1>1. ASSUME NEW c \in Ctx, NEW fd \in Fd, NEW d, NEW t,
             Running(c), Suspend(c, fd, d, t)
      PROVE  SingleInv'
  BY <1>0, <1>1, ConstAssumption DEF Suspend, SingleInv, SockTypes
<1>2. ASSUME NEW c \in Ctx, NEW fd \in Fd, Close(c, fd) PROVE SingleInv'
  BY <1>0, <1>2 DEF Close, Release, Cleared, SingleInv, SockTypes
<1>3. ASSUME UNCHANGED <<owner, event, pending, stale>>, fault' \in {fault, "assert"}
      PROVE  SingleInv'
  BY <1>3 DEF SingleInv
<1>4. ASSUME NEW k \in Ctx, NEW c \in Ctx, Kill(k, c) PROVE SingleInv'
  BY <1>0, <1>4 DEF Kill, Disarmed, SingleInv, SockTypes
<1>5. ASSUME NEW c \in Ctx, NEW fd \in Fd, Create(c, fd) PROVE SingleInv'
  BY <1>0, <1>5 DEF Create, SingleInv, SockTypes
<1> QED
  BY <1>1, <1>2, <1>3, <1>4, <1>5
  DEF Script, End, Import, ImportFails, TreeAborts, Send, SendFails, SendAborts,
      Recv, CallRaces, Abort, Usable

(* So do the handlers.                                                     *)
LEMMA HandlerSingle ==
  ASSUME SockInv, SingleInv, NEW fd \in Fd,
         Fire(fd) \/ FireTimeout(fd) \/ Handler(fd), UNCHANGED options
  PROVE  SingleInv'
<1> SUFFICES ASSUME ~threads PROVE SingleInv'
  BY DEF SingleInv, options
<1>0. SockTypes
  BY DEF SockInv
<1>1. CASE Fire(fd) \/ FireTimeout(fd)
  BY <1>0, <1>1 DEF Fire, FireTimeout, Call, SingleInv, SockTypes
<1>2. CASE SendEnds(fd) \/ RecvEnds(fd) \/ TimesOut(fd)
  BY <1>0, <1>2
  DEF SendEnds, RecvEnds, TimesOut, Finish, Release, Cleared, SingleInv, SockTypes
<1>3. CASE SendInterrupted(fd) \/ Rearm(fd) \/ RecvInterrupted(fd)
  BY <1>0, <1>3
  DEF SendInterrupted, Rearm, RecvInterrupted, Rearmed, Locked, SingleInv, SockTypes
<1>4. CASE SendFindsNoData(fd) \/ TimeoutAborts(fd)
  BY <1>4 DEF SendFindsNoData, TimeoutAborts, Abort, SingleInv, loopVars
<1>5. CASE HandlerAborts(fd)
  BY <1>5 DEF HandlerAborts, SingleInv, SockInv, SockTypes, UsersAgree, Dir
<1> QED  BY <1>1, <1>2, <1>3, <1>4, <1>5 DEF Handler

(* It holds of every behaviour too.                                        *)
LEMMA SingleAlways == Spec => []SingleInv
<1>1. Init => SingleInv
  BY DEF Init, SingleInv
<1>2. SockInv /\ SingleInv /\ [Next]_vars => SingleInv'
  <2>1. SingleInv /\ UNCHANGED vars => SingleInv'
    BY DEF SingleInv, vars, options, loopVars
  <2>2. SingleInv /\ StaleAborts /\ UNCHANGED options => SingleInv'
    BY DEF SingleInv, StaleAborts, Abort, options, loopVars
  <2> QED  BY <2>1, <2>2, ScriptSingle, HandlerSingle DEF Next
<1> QED  BY <1>1, <1>2, SockAlways, PTL DEF Spec

(* With one thread every handler finds the socket it was armed for, used   *)
(* by a coroutine in the handler's direction.                              *)
THEOREM ArmedCorrect == Spec => []ArmedIsUsed
<1>1. SockInv /\ SingleInv => ArmedIsUsed
  BY DEF SockInv, SockTypes, SingleInv, ArmedIsUsed, UsersAgree, MarksOfEvents,
         DirectionOf, Dir
<1> QED  BY <1>1, SockAlways, SingleAlways, PTL

(* With one thread no handler uses a null udp->ctx or a freed socket.      *)
THEOREM HandlersCorrect == Spec => []HandlersFindUser
<1>1. SingleInv => HandlersFindUser
  BY DEF SingleInv, HandlersFindUser
<1> QED  BY <1>1, SingleAlways, PTL

(* Whoever waits on a socket is served.                                    *)
THEOREM ServedCorrect == Spec => []WaitersServed
<1>1. UsersAgree /\ WaitersWakeable /\ ArmedIsUsed /\ HandlersFindUser
        /\ DataOfSender /\ AssertsHold => WaitersServed
  BY DEF WaitersServed
<1> QED
  BY <1>1, UsersCorrect, WaitersCorrect, ArmedCorrect, HandlersCorrect,
     DataCorrect, AssertsCorrect, PTL

=============================================================================
