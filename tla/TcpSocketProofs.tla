-------------------------- MODULE TcpSocketProofs ---------------------------
(***************************************************************************)
(* Proofs about TcpSocket for any set of coroutines and descriptors, any   *)
(* number of retries, one thread or several.                               *)
(***************************************************************************)
EXTENDS TcpSocket, TLAPS

(* A closed descriptor has no marks.                                       *)
MarksOfOpen == busy["send"] \subseteq tcpSet /\ busy["recv"] \subseteq tcpSet

(* An armed event or a handler on its way belongs to the direction that is *)
(* marked, there is one of them at most, and a send has no timeout.        *)
MarksOfEvents ==
  \A fd \in Fd :
    /\ event[fd] # "none" =>
         fd \in tcpSet /\ pending[fd] = "none"
         /\ fd \in busy[Direction(event[fd])]
    /\ event[fd] = "send" => ~timed[fd]
    /\ pending[fd] # "none" /\ fd \in tcpSet =>
         fd \in busy[Direction(pending[fd])]

(* Both halves of WaitersWakeable.                                         *)
UsersWakeable ==
  \A fd \in Fd : owner[fd] # NoCtx => event[fd] # "none" \/ pending[fd] # "none"
WaitersAreUsers ==
  \A c \in Ctx : status[c] = "wait" => \E fd \in Fd : owner[fd] = c

SockInv ==
  /\ SockTypes
  /\ UsersAgree
  /\ MarksOfOpen
  /\ MarksOfEvents
  /\ UsersWakeable
  /\ WaitersAreUsers

-----------------------------------------------------------------------------
(* How the parts of the actions preserve it.                               *)

(* Every handler has a direction.                                          *)
LEMMA DirectionIsDir == \A h : Direction(h) \in Dir
BY DEF Direction, Dir

(* It holds at the start.                                                  *)
LEMMA InitSock == Init => SockInv
BY ConstAssumption
DEF Init, SockInv, SockTypes, UsersAgree, MarksOfOpen, MarksOfEvents,
    UsersWakeable, WaitersAreUsers, Handlers, Dir

(* A coroutine that runs is the user of no socket.                         *)
LEMMA RunnerUsesNone ==
  ASSUME SockInv, NEW c \in Ctx, status[c] = "run", NEW fd \in Fd
  PROVE  owner[fd] # c
BY ConstAssumption DEF SockInv, UsersAgree

(* A socket without marks has no user, event or handler.                   *)
LEMMA UnusedIsQuiet ==
  ASSUME SockInv, NEW fd \in Fd, Unused(fd)
  PROVE  /\ owner[fd] = NoCtx /\ event[fd] = "none"
         /\ fd \in tcpSet => pending[fd] = "none"
BY DEF SockInv, UsersAgree, MarksOfEvents, Unused, Direction

(* Nor has a descriptor that the system has just given.                    *)
LEMMA FreshIsUnused ==
  ASSUME SockInv, NEW fd \in Fd, Fresh(fd)
  PROVE  Unused(fd)
BY DEF SockInv, MarksOfOpen, Fresh, Unused

(* Suspending a coroutine on a socket that nobody uses preserves it.       *)
LEMMA SuspendSock ==
  ASSUME SockInv, NEW c \in Ctx, status[c] = "run", NEW fd \in Fd,
         NEW d \in Dir, NEW h \in Handlers \ {"none"}, d = Direction(h),
         NEW timeout \in BOOLEAN, h = "send" => ~timeout,
         Unused(fd), tcpSet' = tcpSet \cup {fd},
         pending' = [pending EXCEPT ![fd] = "none"],
         Suspend(c, fd, d, h, timeout)
  PROVE  SockInv'
<1> USE DEF Dir
<1>1. \A gd \in Fd : owner[gd] # c
  BY RunnerUsesNone
<1>2. owner[fd] = NoCtx
  BY UnusedIsQuiet
<1>3. SockTypes'
  BY DEF SockInv, SockTypes, Handlers, Suspend
<1>4. UsersAgree'
  BY <1>1, <1>2, ConstAssumption DEF SockInv, SockTypes, UsersAgree, Suspend, Unused
<1>5. MarksOfOpen'
  BY DEF SockInv, SockTypes, MarksOfOpen, Suspend
<1>6. MarksOfEvents'
  BY DirectionIsDir DEF SockInv, SockTypes, MarksOfEvents, Suspend
<1>7. UsersWakeable'
  BY DEF SockInv, SockTypes, UsersWakeable, Suspend
<1>8. WaitersAreUsers'
  <2> SUFFICES ASSUME NEW e \in Ctx, status'[e] = "wait"
               PROVE  \E gd \in Fd : owner'[gd] = e
    BY DEF WaitersAreUsers
  <2>1. CASE e = c
    BY <2>1 DEF SockInv, SockTypes, Suspend
  <2>2. CASE e # c
    <3>1. PICK gd \in Fd : owner[gd] = e
      BY <2>2 DEF SockInv, SockTypes, WaitersAreUsers, Suspend
    <3>2. gd # fd
      BY <1>2, <3>1, ConstAssumption
    <3> QED  BY <3>1, <3>2 DEF SockInv, SockTypes, Suspend
  <2> QED  BY <2>1, <2>2
<1> QED  BY <1>3, <1>4, <1>5, <1>6, <1>7, <1>8 DEF SockInv

(* Whoever waits when the user of a socket is woken is the user of another *)
(* socket.                                                                 *)
LEMMA DetachWaiters ==
  ASSUME SockInv, NEW fd \in Fd, Detach(fd)
  PROVE  WaitersAreUsers'
<1> SUFFICES ASSUME NEW e \in Ctx, status'[e] = "wait"
             PROVE  \E gd \in Fd : owner'[gd] = e
  BY DEF WaitersAreUsers
<1>1. e # owner[fd] /\ status[e] = "wait"
  BY DEF Detach
<1>2. PICK gd \in Fd : owner[gd] = e
  BY <1>1 DEF SockInv, WaitersAreUsers
<1> QED  BY <1>1, <1>2 DEF Detach, SockInv, SockTypes

(* The socket is left by its user, with d the direction its mark is        *)
(* cleared of; a handler of another socket is none of its business.        *)
LEMMA FinishSock ==
  ASSUME SockInv, NEW fd \in Fd, NEW d \in Dir, NEW T \in SUBSET Fd,
         fd \in tcpSet, owner[fd] # NoCtx,
         pending[fd] # "none", d = Direction(pending[fd]),
         \A gd \in T : Unused(gd),
         tcpSet' = tcpSet \cup T,
         pending' = [gd \in Fd |-> IF gd \in T \cup {fd} THEN "none"
                                  ELSE pending[gd]],
         Answer(fd, d)
  PROVE  SockInv'
<1> USE DEF Dir, Answer, Detach
<1>1. SockTypes'
  BY DEF SockInv, SockTypes, Handlers
<1>2. UsersAgree'
  BY ConstAssumption DEF SockInv, SockTypes, UsersAgree
<1>3. MarksOfOpen'
  BY DEF SockInv, SockTypes, MarksOfOpen
<1>4. MarksOfEvents'
  BY DirectionIsDir, UnusedIsQuiet DEF SockInv, SockTypes, MarksOfEvents
<1>5. UsersWakeable'
  BY UnusedIsQuiet DEF SockInv, SockTypes, UsersWakeable
<1>6. WaitersAreUsers'
  BY DetachWaiters DEF SockInv
<1> QED  BY <1>1, <1>2, <1>3, <1>4, <1>5, <1>6 DEF SockInv

(* So does freeing the socket.                                             *)
LEMMA RemoveSock ==
  ASSUME SockInv, NEW fd \in Fd, fd \in tcpSet, Remove(fd),
         pending' = pending \/ Done(fd),
         UNCHANGED <<timed, fault>>
  PROVE  SockInv'
<1> USE DEF Dir, Remove, Detach, Done
<1>1. SockTypes'
  BY ConstAssumption DEF SockInv, SockTypes, Handlers
<1>2. UsersAgree'
  BY ConstAssumption DEF SockInv, SockTypes, UsersAgree
<1>3. MarksOfOpen'
  BY DEF SockInv, SockTypes, MarksOfOpen
<1>4. MarksOfEvents'
  BY DirectionIsDir DEF SockInv, SockTypes, MarksOfEvents
<1>5. UsersWakeable'
  BY DEF SockInv, SockTypes, UsersWakeable
<1>6. WaitersAreUsers'
  BY DetachWaiters DEF SockInv
<1> QED  BY <1>1, <1>2, <1>3, <1>4, <1>5, <1>6 DEF SockInv

(* An event becomes a handler, or a handler another handler or an event,   *)
(* of the same direction.                                                  *)
LEMMA EventSock ==
  ASSUME SockInv, NEW fd \in Fd,
         NEW h, NEW e \in Handlers, NEW t \in BOOLEAN, NEW r \in 0 .. MaxRetry,
         event' = [event EXCEPT ![fd] = e],
         pending' = [pending EXCEPT ![fd] = h],
         timed' = [timed EXCEPT ![fd] = t],
         retry' = [retry EXCEPT ![fd] = r],
         UNCHANGED <<status, tcpSet, busy, closed, owner, fault>>,
         h \in Handlers \cup {"connect_timeout", "timeout", "recv_unlocked",
                              "rearm_send", "rearm_recv"},
         e = "none" \/ (h = "none" /\ fd \in tcpSet),
         h # "none" => (fd \in tcpSet => fd \in busy[Direction(h)]),
         e # "none" => fd \in busy[Direction(e)],
         e = "send" => ~t,
         owner[fd] # NoCtx => e # "none" \/ h # "none"
  PROVE  SockInv'
<1>1. SockTypes'
  BY DEF SockInv, SockTypes
<1>2. UsersAgree'
  BY DEF SockInv, SockTypes, UsersAgree
<1>3. MarksOfOpen'
  BY DEF SockInv, SockTypes, MarksOfOpen
<1>4. MarksOfEvents'
  BY DEF SockInv, SockTypes, MarksOfEvents
<1>5. UsersWakeable'
  BY DEF SockInv, SockTypes, UsersWakeable
<1>6. WaitersAreUsers'
  BY DEF SockInv, SockTypes, WaitersAreUsers
<1> QED  BY <1>1, <1>2, <1>3, <1>4, <1>5, <1>6 DEF SockInv

(* Kill takes the events of the coroutine with it.                         *)
LEMMA KillSock ==
  ASSUME SockInv, NEW k \in Ctx, NEW c \in Ctx, Kill(k, c)
  PROVE  SockInv'
<1> USE DEF Kill, Disarmed, sockVars
<1>1. SockTypes'
  BY DEF SockInv, SockTypes, Handlers
<1>2. UsersAgree'
  BY ConstAssumption DEF SockInv, SockTypes, UsersAgree
<1>3. MarksOfOpen'
  BY DEF SockInv, SockTypes, MarksOfOpen
<1>4. MarksOfEvents'
  BY DEF SockInv, SockTypes, MarksOfEvents
<1>5. UsersWakeable'
  BY DEF SockInv, SockTypes, UsersWakeable
<1>6. WaitersAreUsers'
  BY ConstAssumption DEF SockInv, SockTypes, WaitersAreUsers
<1> QED  BY <1>1, <1>2, <1>3, <1>4, <1>5, <1>6 DEF SockInv

(* A shutdown wakes the user of the direction, or finds none.              *)
LEMMA ShutdownSock ==
  ASSUME SockInv, NEW c \in Ctx, NEW fd \in Fd, NEW d \in Dir,
         ShutdownMarks(c, fd, d) \/ ShutdownWakes(c, fd, d)
  PROVE  SockInv'
<1> USE DEF Dir, sockVars, Detach, Shutdown, ShutdownMarks, ShutdownWakes
<1>0. ShutdownMarks(c, fd, d) => fd \notin busy[d] /\ busy' = busy /\ event' = event
  BY DEF SockInv, SockTypes, UsersAgree, Other
<1>1. SockTypes'
  BY <1>0 DEF SockInv, SockTypes, Handlers
<1>2. UsersAgree'
  BY <1>0, ConstAssumption DEF SockInv, SockTypes, UsersAgree
<1>3. MarksOfOpen'
  BY <1>0 DEF SockInv, SockTypes, MarksOfOpen
<1>4. MarksOfEvents'
  BY <1>0 DEF SockInv, SockTypes, MarksOfEvents
<1>5. UsersWakeable'
  BY <1>0 DEF SockInv, SockTypes, UsersWakeable
<1>6. WaitersAreUsers'
  BY <1>0, ConstAssumption DEF SockInv, SockTypes, WaitersAreUsers
<1> QED  BY <1>1, <1>2, <1>3, <1>4, <1>5, <1>6 DEF SockInv

(* A socket that only listens has no handler.                              *)
LEMMA ListenSock ==
  ASSUME SockInv, NEW c \in Ctx, NEW fd \in Fd, Listen(c, fd)
  PROVE  SockInv'
<1> USE DEF Listen, Done, sockVars
<1>0. tcpSet' = tcpSet \cup {fd} /\ Unused(fd)
  BY FreshIsUnused DEF Opened
<1>1. SockTypes'
  BY <1>0 DEF SockInv, SockTypes, Handlers
<1>2. UsersAgree'
  BY <1>0 DEF SockInv, SockTypes, UsersAgree
<1>3. MarksOfOpen'
  BY <1>0 DEF SockInv, SockTypes, MarksOfOpen
<1>4. MarksOfEvents'
  BY <1>0 DEF SockInv, SockTypes, MarksOfEvents
<1>5. UsersWakeable'
  BY <1>0, UnusedIsQuiet DEF SockInv, SockTypes, UsersWakeable
<1>6. WaitersAreUsers'
  BY DEF SockInv, SockTypes, WaitersAreUsers
<1> QED  BY <1>1, <1>2, <1>3, <1>4, <1>5, <1>6 DEF SockInv

(* Steps that leave the sockets alone.                                     *)
LEMMA QuietSock ==
  ASSUME SockInv, UNCHANGED <<tcpSet, busy, closed, retry, owner>>,
         UNCHANGED <<event, timed, pending>>,
         status' = status \/ \E c \in Ctx : status[c] = "run"
                              /\ status' = [status EXCEPT ![c] = "end"],
         fault' \in {"none", "shutdown", "handler", "connect"}
  PROVE  SockInv'
<1>1. SockTypes'
  BY DEF SockInv, SockTypes
<1>2. UsersAgree'
  BY RunnerUsesNone DEF SockInv, SockTypes, UsersAgree
<1>3. MarksOfOpen'
  BY DEF SockInv, SockTypes, MarksOfOpen
<1>4. MarksOfEvents'
  BY DEF SockInv, SockTypes, MarksOfEvents
<1>5. UsersWakeable'
  BY DEF SockInv, SockTypes, UsersWakeable
<1>6. WaitersAreUsers'
  BY DEF SockInv, SockTypes, WaitersAreUsers
<1> QED  BY <1>1, <1>2, <1>3, <1>4, <1>5, <1>6 DEF SockInv

-----------------------------------------------------------------------------
(* The calls of the scripts preserve it.                                   *)
LEMMA ScriptSock == SockInv /\ Script => SockInv'
<1> SUFFICES ASSUME SockInv, Script PROVE SockInv'
  OBVIOUS
<1> PICK c \in Ctx :
      \/ End(c)
      \/ \E k \in Ctx : Kill(k, c)
      \/ \E fd \in Fd :
           \/ Listen(c, fd) \/ ConnectRaces(c, fd) \/ Send(c, fd) \/ Close(c, fd)
           \/ \E timeout \in BOOLEAN :
                Connect(c, fd, timeout) \/ Accept(c, fd, timeout)
                  \/ Recv(c, fd, timeout)
           \/ \E d \in Dir :
                ShutdownFrees(c, fd, d) \/ ShutdownMarks(c, fd, d)
                  \/ ShutdownWakes(c, fd, d) \/ ShutdownAborts(c, fd, d)
  BY DEF Script
<1>1. CASE End(c)
  BY <1>1, QuietSock DEF End, Running, SockInv, SockTypes, sockVars, loopVars
<1>2. CASE \E k \in Ctx : Kill(k, c)
  BY <1>2, KillSock
<1>3. ASSUME NEW fd \in Fd, Listen(c, fd) PROVE SockInv'
  BY <1>3, ListenSock
<1>4. ASSUME NEW fd \in Fd, ConnectRaces(c, fd) PROVE SockInv'
  BY <1>4, QuietSock DEF ConnectRaces, Abort, SockInv, SockTypes, sockVars, loopVars
<1>5. ASSUME NEW fd \in Fd, Send(c, fd) PROVE SockInv'
  <2>1. Unused(fd) /\ tcpSet' = tcpSet \cup {fd}
        /\ pending' = [pending EXCEPT ![fd] = "none"]
    BY <1>5, UnusedIsQuiet DEF Send, SockInv, SockTypes
  <2>2. "send" \in Handlers \ {"none"} /\ "send" \in Dir /\ Direction("send") = "send"
    BY DEF Handlers, Dir, Direction
  <2> QED  BY <1>5, <2>1, <2>2, SuspendSock DEF Send, Running
<1>6. ASSUME NEW fd \in Fd, Close(c, fd) PROVE SockInv'
  BY <1>6, RemoveSock DEF Close
<1>7. ASSUME NEW fd \in Fd, NEW timeout \in BOOLEAN, Connect(c, fd, timeout)
      PROVE  SockInv'
  <2>1. "connect" \in Handlers \ {"none"} /\ "send" \in Dir
        /\ Direction("connect") = "send"
    BY DEF Handlers, Dir, Direction
  <2>2. Unused(fd) /\ tcpSet' = tcpSet \cup {fd}
        /\ pending' = [pending EXCEPT ![fd] = "none"]
    BY <1>7, FreshIsUnused DEF Connect, Opened, Done
  <2> QED  BY <1>7, <2>1, <2>2, SuspendSock DEF Connect, Running
<1>8. ASSUME NEW fd \in Fd, NEW timeout \in BOOLEAN,
             Accept(c, fd, timeout) \/ Recv(c, fd, timeout)
      PROVE  SockInv'
  <2>1. Unused(fd) /\ tcpSet' = tcpSet \cup {fd}
        /\ pending' = [pending EXCEPT ![fd] = "none"]
    BY <1>8, UnusedIsQuiet DEF Accept, Recv, SockInv, SockTypes
  <2>2. {"accept", "recv"} \subseteq Handlers \ {"none"} /\ "recv" \in Dir
        /\ Direction("accept") = "recv" /\ Direction("recv") = "recv"
    BY DEF Handlers, Dir, Direction
  <2>3. CASE Accept(c, fd, timeout)
    BY <2>1, <2>2, <2>3, SuspendSock DEF Accept, Running
  <2>4. CASE Recv(c, fd, timeout)
    BY <2>1, <2>2, <2>4, SuspendSock DEF Recv, Running
  <2> QED  BY <1>8, <2>3, <2>4
<1>9. ASSUME NEW fd \in Fd, NEW d \in Dir, ShutdownFrees(c, fd, d) PROVE SockInv'
  BY <1>9, RemoveSock DEF ShutdownFrees, Shutdown
<1>10. ASSUME NEW fd \in Fd, NEW d \in Dir,
              ShutdownMarks(c, fd, d) \/ ShutdownWakes(c, fd, d)
       PROVE  SockInv'
  BY <1>10, ShutdownSock
<1>11. ASSUME NEW fd \in Fd, NEW d \in Dir, ShutdownAborts(c, fd, d) PROVE SockInv'
  BY <1>11, QuietSock DEF ShutdownAborts, Abort, SockInv, SockTypes, sockVars, loopVars
<1> QED
  BY <1>1, <1>2, <1>3, <1>4, <1>5, <1>6, <1>7, <1>8, <1>9, <1>10, <1>11

(* The event loop calls a handler of the direction that is marked.         *)
LEMMA CallSock ==
  ASSUME SockInv, NEW fd \in Fd, Fire(fd) \/ FireTimeout(fd)
  PROVE  SockInv'
<1> DEFINE late == IF event[fd] = "connect" THEN "connect_timeout" ELSE "timeout"
           h == IF pending' = [pending EXCEPT ![fd] = event[fd]]
                THEN event[fd] ELSE late
<1>1. /\ event[fd] # "none" /\ event' = [event EXCEPT ![fd] = "none"]
      /\ pending' = [pending EXCEPT ![fd] = h]
      /\ UNCHANGED <<status, tcpSet, busy, closed, retry, owner, timed, fault>>
      /\ h = event[fd] \/ (timed[fd] /\ h = late)
  BY DEF Fire, FireTimeout, Call, sockVars
<1>2. event[fd] \in Handlers /\ timed[fd] \in BOOLEAN /\ retry[fd] \in 0 .. MaxRetry
      /\ timed = [timed EXCEPT ![fd] = timed[fd]]
      /\ retry = [retry EXCEPT ![fd] = retry[fd]]
  BY DEF SockInv, SockTypes
<1>3. h # "none" /\ fd \in tcpSet /\ fd \in busy[Direction(h)]
  BY <1>1, <1>2 DEF SockInv, MarksOfEvents, Direction, Handlers
<1>4. "none" \in Handlers
      /\ h \in Handlers \cup {"connect_timeout", "timeout", "recv_unlocked",
                              "rearm_send", "rearm_recv"}
  BY <1>1, <1>2 DEF Handlers
<1> HIDE DEF h
<1> QED  BY <1>1, <1>2, <1>3, <1>4, EventSock

(* A handler that arms the event again, or will.                           *)
LEMMA AgainSock ==
  ASSUME SockInv, NEW fd \in Fd,
         \/ ConnectRetries(fd) \/ AcceptInterrupted(fd) \/ RecvErrs(fd)
         \/ RecvRetries(fd) \/ SendContinues(fd) \/ Rearm(fd)
  PROVE  SockInv'
<1>1. /\ retry[fd] \in 0 .. MaxRetry /\ retry = [retry EXCEPT ![fd] = retry[fd]]
      /\ timed[fd] \in BOOLEAN /\ timed = [timed EXCEPT ![fd] = timed[fd]]
      /\ event[fd] \in Handlers /\ event = [event EXCEPT ![fd] = event[fd]]
      /\ {"none", "connect", "accept", "recv", "send"} \subseteq Handlers
  BY DEF SockInv, SockTypes, Handlers
<1>2. pending[fd] # "none" =>
        event[fd] = "none" /\ (fd \in tcpSet => fd \in busy[Direction(pending[fd])])
  BY DEF SockInv, MarksOfEvents
<1>3. CASE ConnectRetries(fd)
  <2>1. NextRetry(fd) \in 0 .. MaxRetry
    BY <1>1, <1>3, ConstAssumption DEF ConnectRetries, MayRetry, NextRetry
  <2>2. /\ fd \in tcpSet /\ fd \in busy[Direction("connect")]
        /\ event' = [event EXCEPT ![fd] = "connect"]
        /\ pending' = [pending EXCEPT ![fd] = "none"]
        /\ retry' = [retry EXCEPT ![fd] = NextRetry(fd)]
        /\ UNCHANGED <<status, tcpSet, busy, closed, owner, timed, fault>>
    BY <1>2, <1>3 DEF ConnectRetries, Answers, Locked, Again, Done
  <2> QED  BY <1>1, <2>1, <2>2, EventSock
<1>4. CASE AcceptInterrupted(fd)
  <2>1. /\ fd \in tcpSet /\ fd \in busy[Direction("accept")]
        /\ event' = [event EXCEPT ![fd] = "accept"]
        /\ pending' = [pending EXCEPT ![fd] = "none"]
        /\ UNCHANGED <<status, tcpSet, busy, closed, retry, owner, timed, fault>>
    BY <1>2, <1>4 DEF AcceptInterrupted, Locked, Again, Done
  <2> QED  BY <1>1, <2>1, EventSock
<1>5. ASSUME NEW h \in {"recv_unlocked", "rearm_recv", "rearm_send"},
             AgainLater(fd, h), fd \in tcpSet, pending[fd] # "none",
             Direction(pending[fd]) = Direction(h)
      PROVE  SockInv'
  <2>1. /\ fd \in busy[Direction(h)] /\ event[fd] = "none" /\ h # "none"
        /\ UNCHANGED <<status, tcpSet, busy, closed, retry, owner, event, timed>>
        /\ UNCHANGED fault
        /\ pending' = [pending EXCEPT ![fd] = h]
    BY <1>2, <1>5 DEF AgainLater, sockVars
  <2> QED  BY <1>1, <2>1, EventSock
<1>6. CASE RecvErrs(fd) \/ RecvRetries(fd) \/ SendContinues(fd)
  BY <1>5, <1>6 DEF RecvErrs, RecvRetries, SendContinues, Answers, Locked, Direction
<1>7. CASE Rearm(fd)
  <2> DEFINE e == IF fd \notin tcpSet THEN event[fd]
                  ELSE IF pending[fd] = "rearm_send" THEN "send" ELSE "recv"
  <2>1. /\ event' = [event EXCEPT ![fd] = e]
        /\ pending' = [pending EXCEPT ![fd] = "none"]
        /\ timed' = [timed EXCEPT ![fd] = FALSE]
        /\ pending[fd] \in {"rearm_send", "rearm_recv"}
        /\ UNCHANGED <<status, tcpSet, busy, closed, retry, owner, fault>>
    BY <1>7 DEF Rearm, Done, sockVars
  <2>2. e \in Handlers /\ (e = "none" \/ fd \in tcpSet)
        /\ (e # "none" => fd \in busy[Direction(e)])
    BY <1>1, <1>2, <2>1 DEF Direction
  <2>3. owner[fd] # NoCtx => e # "none"
    BY DEF SockInv, UsersAgree
  <2> HIDE DEF e
  <2> QED  BY <1>1, <2>1, <2>2, <2>3, EventSock
<1> QED  BY <1>3, <1>4, <1>6, <1>7

(* A handler that answers.                                                 *)
LEMMA AnswerSock ==
  ASSUME SockInv, NEW fd \in Fd,
         \/ ConnectEnds(fd) \/ ConnectFails(fd) \/ ConnectTimesOut(fd)
         \/ AcceptEnds(fd) \/ \E new \in Fd : AcceptTakes(fd, new)
         \/ RecvEnds(fd) \/ SendEnds(fd) \/ TimesOut(fd)
  PROVE  SockInv'
<1> USE DEF Answers, Locked
<1>1. CASE ConnectFails(fd) \/ ConnectTimesOut(fd)
  BY <1>1, RemoveSock DEF ConnectFails, ConnectTimesOut, FinishRemoved
<1>2. "send" \in Dir /\ "recv" \in Dir /\ {} \in SUBSET Fd /\ tcpSet = tcpSet \cup {}
  BY DEF Dir
<1>6. ASSUME NEW d \in Dir, Finish(fd, d)
      PROVE  /\ Answer(fd, d) /\ tcpSet' = tcpSet \cup {}
             /\ pending' = [gd \in Fd |-> IF gd \in {} \cup {fd} THEN "none"
                                         ELSE pending[gd]]
  BY <1>6 DEF Finish, Done, SockInv, SockTypes
<1>3. CASE ConnectEnds(fd) \/ SendEnds(fd)
  <2>1. /\ owner[fd] # NoCtx /\ fd \in tcpSet
        /\ Finish(fd, "send") /\ pending[fd] # "none"
        /\ "send" = Direction(pending[fd])
    BY <1>3 DEF ConnectEnds, SendEnds, Direction
  <2> QED  BY <1>2, <1>6, <2>1, FinishSock
<1>4. CASE AcceptEnds(fd) \/ RecvEnds(fd) \/ TimesOut(fd)
  <2>1. /\ owner[fd] # NoCtx /\ fd \in tcpSet
        /\ Finish(fd, "recv") /\ pending[fd] # "none"
        /\ "recv" = Direction(pending[fd])
    BY <1>4 DEF AcceptEnds, RecvEnds, TimesOut, Direction
  <2> QED  BY <1>2, <1>6, <2>1, FinishSock
<1>5. ASSUME NEW new \in Fd, AcceptTakes(fd, new) PROVE SockInv'
  <2>1. /\ owner[fd] # NoCtx /\ fd \in tcpSet /\ tcpSet' = tcpSet \cup {new}
        /\ Answer(fd, "recv") /\ pending[fd] # "none"
        /\ "recv" = Direction(pending[fd])
    BY <1>5 DEF AcceptTakes, Opened, Direction
  <2>2. \A gd \in {new} : Unused(gd)
    BY <1>5, FreshIsUnused DEF AcceptTakes
  <2>4. pending' = [gd \in Fd |-> IF gd \in {new} \cup {fd} THEN "none"
                                 ELSE pending[gd]]
    BY <1>5 DEF AcceptTakes, SockInv, SockTypes
  <2>3. {new} \in SUBSET Fd
    OBVIOUS
  <2> QED  BY <1>2, <2>1, <2>2, <2>3, <2>4, FinishSock
<1> QED  BY <1>1, <1>3, <1>4, <1>5

(* Every step preserves it.                                                *)
LEMMA SockStep == SockInv /\ [Next]_vars => SockInv'
<1> SUFFICES ASSUME SockInv, [Next]_vars PROVE SockInv'
  OBVIOUS
<1>1. CASE Script
  BY <1>1, ScriptSock
<1>2. ASSUME NEW fd \in Fd, Fire(fd) \/ FireTimeout(fd) PROVE SockInv'
  BY <1>2, CallSock
<1>3. ASSUME NEW fd \in Fd, Handler(fd) PROVE SockInv'
  <2>1. CASE HandlerAborts(fd)
    BY <2>1, QuietSock DEF HandlerAborts, Abort, SockInv, SockTypes, sockVars, loopVars
  <2> QED  BY <1>3, <2>1, AgainSock, AnswerSock DEF Handler
<1>4. CASE UNCHANGED vars
  BY <1>4, QuietSock DEF vars, sockVars, loopVars, SockInv, SockTypes
<1>5. CASE StaleAborts
  BY <1>5, QuietSock DEF StaleAborts, Abort, SockInv, SockTypes, sockVars, loopVars
<1> QED  BY <1>1, <1>2, <1>3, <1>4, <1>5 DEF Next

(* It holds of every behaviour.                                            *)
LEMMA SockAlways == Spec => []SockInv
BY InitSock, SockStep, PTL DEF Spec

-----------------------------------------------------------------------------
(* The variables keep their types; in particular no connection attempt is  *)
(* retried more than MaxRetry times.                                       *)
THEOREM TypeCorrect == Spec => []TypeOK
<1>1. Init => options \in BOOLEAN \X BOOLEAN
  BY ConstAssumption DEF Init, options
<1>2. options \in BOOLEAN \X BOOLEAN /\ [Next]_vars
        => (options \in BOOLEAN \X BOOLEAN)'
  BY DEF Next, vars
<1>3. Init => stale \in BOOLEAN
  BY DEF Init
<1>4. stale \in BOOLEAN /\ [Next]_vars => (stale \in BOOLEAN)'
  <2>1. Next => UNCHANGED stale \/ \E fd \in Fd : Opened(fd)
    <3>1. Script => UNCHANGED stale \/ \E fd \in Fd : Opened(fd)
      <4>1. ASSUME NEW c \in Ctx, NEW fd \in Fd, NEW timeout \in BOOLEAN,
                   Connect(c, fd, timeout) \/ Accept(c, fd, timeout)
                     \/ Recv(c, fd, timeout)
            PROVE  UNCHANGED stale \/ Opened(fd)
        BY <4>1 DEF Connect, Accept, Recv
      <4>2. ASSUME NEW c \in Ctx, NEW fd \in Fd, NEW d \in Dir,
                   ShutdownFrees(c, fd, d) \/ ShutdownMarks(c, fd, d)
                     \/ ShutdownWakes(c, fd, d) \/ ShutdownAborts(c, fd, d)
            PROVE  UNCHANGED stale
        BY <4>2 DEF ShutdownFrees, ShutdownMarks, ShutdownWakes, ShutdownAborts,
                    Abort, loopVars
      <4>3. ASSUME NEW c \in Ctx, NEW fd \in Fd,
                   Listen(c, fd) \/ ConnectRaces(c, fd) \/ Send(c, fd) \/ Close(c, fd)
            PROVE  UNCHANGED stale \/ Opened(fd)
        BY <4>3 DEF Listen, ConnectRaces, Send, Close, Abort, loopVars
      <4>4. ASSUME NEW c \in Ctx, End(c) \/ \E k \in Ctx : Kill(k, c)
            PROVE  UNCHANGED stale
        BY <4>4 DEF End, Kill, loopVars
      <4> QED  BY <4>1, <4>2, <4>3, <4>4 DEF Script
    <3>2. ASSUME NEW fd \in Fd, Fire(fd) \/ FireTimeout(fd) \/ Handler(fd)
          PROVE  UNCHANGED stale \/ \E gd \in Fd : Opened(gd)
      BY <3>2
      DEF Fire, FireTimeout, Call, Handler, ConnectEnds, ConnectRetries, ConnectFails,
          ConnectTimesOut, AcceptEnds, AcceptInterrupted, AcceptTakes, RecvEnds,
          RecvErrs, RecvRetries, SendEnds, SendContinues, Rearm, TimesOut,
          HandlerAborts, Abort, Finish, FinishRemoved, Again, AgainLater, loopVars
    <3>3. StaleAborts => UNCHANGED stale
      BY DEF StaleAborts, Abort, loopVars
    <3> QED  BY <3>1, <3>2, <3>3 DEF Next
  <2>2. ASSUME NEW fd \in Fd, Opened(fd) PROVE stale' \in BOOLEAN
    BY <2>2, Zenon DEF Opened
  <2> QED  BY <2>1, <2>2, Zenon DEF vars, loopVars
<1>5. SockInv /\ options \in BOOLEAN \X BOOLEAN /\ stale \in BOOLEAN => TypeOK
  BY DEF SockInv, TypeOK
<1> QED  BY <1>1, <1>2, <1>3, <1>4, <1>5, SockAlways, PTL DEF Spec

(* A socket has one user at most, marked in one direction, and a coroutine *)
(* waits for one socket (checks and marks of recv, send, accept, connect,  *)
(* and what shutdown, close, kill and the handlers undo).                  *)
THEOREM UsersCorrect == Spec => []UsersAgree
<1>1. SockInv => UsersAgree
  BY DEF SockInv
<1> QED  BY <1>1, SockAlways, PTL

(* No coroutine is left suspended without an event or a handler that will  *)
(* wake it, with any number of threads.                                    *)
THEOREM WaitersCorrect == Spec => []WaitersWakeable
<1>1. SockInv => WaitersWakeable
  BY ConstAssumption
  DEF SockInv, WaitersWakeable, UsersWakeable, WaitersAreUsers
<1> QED  BY <1>1, SockAlways, PTL

(* The assertions of the two timeout handlers hold.                        *)
THEOREM AssertsCorrect == Spec => []AssertsHold
<1>1. SockInv => AssertsHold
  BY DEF SockInv, AssertsHold, UsersAgree, MarksOfOpen, MarksOfEvents, Direction
<1> QED  BY <1>1, SockAlways, PTL

(* A socket shut down in one direction is freed by the shutdown of the     *)
(* other one, and no other code sets the marks.                            *)
THEOREM HalfClosedCorrect == Spec => []HalfClosed
<1>1. Init => HalfClosed
  BY DEF Init, HalfClosed, Dir
<1>2. SockTypes /\ HalfClosed /\ [Next]_vars => HalfClosed'
  <2> SUFFICES ASSUME SockTypes, HalfClosed, [Next]_vars PROVE HalfClosed'
    OBVIOUS
  <2>1. CASE UNCHANGED closed
    BY <2>1 DEF HalfClosed
  <2>2. ASSUME NEW fd \in Fd, Remove(fd) PROVE HalfClosed'
    BY <2>2 DEF Remove, HalfClosed, Dir
  <2>3. ASSUME NEW c \in Ctx, NEW fd \in Fd, NEW d \in Dir, ShutdownMarks(c, fd, d)
        PROVE  HalfClosed'
    BY <2>3 DEF ShutdownMarks, LastDirection, Other, HalfClosed, SockTypes, Dir
  <2>4. Script => \/ UNCHANGED closed
                  \/ \E fd \in Fd : Remove(fd)
                  \/ \E c \in Ctx, fd \in Fd, d \in Dir : ShutdownMarks(c, fd, d)
    BY DEF Script, End, Kill, Listen, ConnectRaces, Send, Close, Connect, Accept,
           Recv, ShutdownFrees, ShutdownWakes, ShutdownAborts, Suspend, Abort,
           sockVars
  <2>5. ASSUME NEW fd \in Fd, Fire(fd) \/ FireTimeout(fd) \/ Handler(fd)
        PROVE  UNCHANGED closed \/ Remove(fd)
    BY <2>5
    DEF Fire, FireTimeout, Call, Handler, ConnectEnds, ConnectRetries, ConnectFails,
        ConnectTimesOut, AcceptEnds, AcceptInterrupted, AcceptTakes, RecvEnds,
        RecvErrs, RecvRetries, SendEnds, SendContinues, Rearm, TimesOut,
        HandlerAborts, Abort, Answer, Finish, FinishRemoved, Again, AgainLater, sockVars
  <2> QED
    BY <2>1, <2>2, <2>3, <2>4, <2>5 DEF Next, StaleAborts, Abort, vars, sockVars
<1>3. SockInv => SockTypes
  BY DEF SockInv
<1> QED  BY <1>1, <1>2, <1>3, SockAlways, PTL DEF Spec

-----------------------------------------------------------------------------
(* With one thread, what is armed or called has a user.                    *)
SingleInv ==
  ~threads => /\ \A fd \in Fd : event[fd] # "none" \/ pending[fd] # "none"
                                  => owner[fd] # NoCtx
              /\ ~stale
              /\ fault # "handler"

(* The calls of the scripts keep it: no handler is on its way.             *)
LEMMA ScriptSingle ==
  SockInv /\ SingleInv /\ Script /\ UNCHANGED options => SingleInv'
<1> SUFFICES ASSUME SockInv, SingleInv, Script, ~threads PROVE SingleInv'
  BY DEF SingleInv, options
<1>0. SockTypes
  BY DEF SockInv
<1> USE DEF Running, Idle, sockVars, loopVars
<1>1. ASSUME NEW c \in Ctx, NEW fd \in Fd, NEW d \in Dir, NEW h, NEW t,
             Running(c), Suspend(c, fd, d, h, t),
             pending' = pending \/ Done(fd), ~stale'
      PROVE  SingleInv'
  BY <1>0, <1>1, ConstAssumption DEF Suspend, Done, SingleInv, SockTypes
<1>2. ASSUME NEW c \in Ctx, NEW fd \in Fd, Running(c), Detach(fd),
             UNCHANGED <<pending, stale, fault>>
      PROVE  SingleInv'
  BY <1>0, <1>2 DEF Detach, SingleInv, SockTypes
<1>3. ASSUME NEW c \in Ctx, UNCHANGED <<owner, event, pending, stale>>,
             fault' # "handler"
      PROVE  SingleInv'
  BY <1>3 DEF SingleInv
<1>4. ASSUME NEW k \in Ctx, NEW c \in Ctx, Kill(k, c) PROVE SingleInv'
  BY <1>0, <1>4 DEF Kill, Disarmed, SingleInv, SockTypes
<1>5. ASSUME NEW c \in Ctx, NEW fd \in Fd, NEW d \in Dir, ShutdownMarks(c, fd, d)
      PROVE  UNCHANGED <<owner, event, pending, stale, fault>> /\ fault = "none"
  BY <1>0, <1>5
  DEF ShutdownMarks, Shutdown, Other, SockInv, UsersAgree, SockTypes, Dir
<1> PICK c \in Ctx :
      \/ End(c)
      \/ \E k \in Ctx : Kill(k, c)
      \/ \E fd \in Fd :
           \/ Listen(c, fd) \/ ConnectRaces(c, fd) \/ Send(c, fd) \/ Close(c, fd)
           \/ \E timeout \in BOOLEAN :
                Connect(c, fd, timeout) \/ Accept(c, fd, timeout)
                  \/ Recv(c, fd, timeout)
           \/ \E d \in Dir :
                ShutdownFrees(c, fd, d) \/ ShutdownMarks(c, fd, d)
                  \/ ShutdownWakes(c, fd, d) \/ ShutdownAborts(c, fd, d)
  BY DEF Script
<1>6. CASE End(c) \/ \E fd \in Fd : ConnectRaces(c, fd)
                       \/ \E d \in Dir : ShutdownAborts(c, fd, d)
  BY <1>3, <1>6 DEF End, ConnectRaces, ShutdownAborts, Abort
<1>10. ASSUME NEW fd \in Fd, Running(c), Opened(fd) PROVE ~stale'
  BY <1>10 DEF Opened, SingleInv
<1>11. ASSUME NEW fd \in Fd, Listen(c, fd) PROVE SingleInv'
  BY <1>0, <1>10, <1>11 DEF Listen, Done, SingleInv, SockTypes
<1>7. CASE \E fd \in Fd : Send(c, fd) \/ \E timeout \in BOOLEAN :
             Connect(c, fd, timeout) \/ Accept(c, fd, timeout) \/ Recv(c, fd, timeout)
  <2>1. "send" \in Dir /\ "recv" \in Dir
    BY DEF Dir
  <2>2. ASSUME NEW fd \in Fd, Send(c, fd) PROVE SingleInv'
    BY <1>1, <2>1, <2>2 DEF Send, SingleInv
  <2>3. ASSUME NEW fd \in Fd, NEW timeout \in BOOLEAN,
               Connect(c, fd, timeout) \/ Accept(c, fd, timeout) \/ Recv(c, fd, timeout)
        PROVE  SingleInv'
    BY <1>1, <1>10, <2>1, <2>3 DEF Connect, Accept, Recv, SingleInv
  <2> QED  BY <1>7, <2>2, <2>3
<1>8. CASE \E fd \in Fd : Close(c, fd) \/ \E d \in Dir :
             ShutdownFrees(c, fd, d) \/ ShutdownWakes(c, fd, d)
  BY <1>2, <1>8 DEF Close, ShutdownFrees, ShutdownWakes, Shutdown, Remove
<1>9. CASE \E fd \in Fd, d \in Dir : ShutdownMarks(c, fd, d)
  BY <1>3, <1>5, <1>9
<1> QED  BY <1>4, <1>6, <1>7, <1>8, <1>9, <1>11

(* So do the handlers.                                                     *)
LEMMA HandlerSingle ==
  ASSUME SockInv, SingleInv, NEW fd \in Fd,
         Fire(fd) \/ FireTimeout(fd) \/ Handler(fd), UNCHANGED options
  PROVE  SingleInv'
<1> SUFFICES ASSUME ~threads PROVE SingleInv'
  BY DEF SingleInv, options
<1>0. SockTypes
  BY DEF SockInv
<1> USE DEF sockVars, Done
<1>1. CASE Fire(fd) \/ FireTimeout(fd)
  BY <1>0, <1>1 DEF Fire, FireTimeout, Call, SingleInv, SockTypes
<1>2. ASSUME Detach(fd), Done(fd), UNCHANGED <<stale, fault>> PROVE SingleInv'
  BY <1>0, <1>2 DEF Detach, SingleInv, SockTypes
<1>3. ASSUME NEW h, Again(fd, h), pending[fd] # "none" PROVE SingleInv'
  BY <1>0, <1>3 DEF Again, SingleInv, SockTypes
<1>4. ASSUME NEW h, AgainLater(fd, h), pending[fd] # "none" PROVE SingleInv'
  BY <1>0, <1>4 DEF AgainLater, SingleInv, SockTypes
<1>5. CASE Rearm(fd)
  BY <1>0, <1>5 DEF Rearm, SingleInv, SockTypes
<1>6. CASE HandlerAborts(fd)
  BY <1>6 DEF HandlerAborts, SingleInv, SockInv, UsersAgree
<1>7. CASE \/ ConnectEnds(fd) \/ ConnectFails(fd) \/ ConnectTimesOut(fd)
           \/ AcceptEnds(fd) \/ RecvEnds(fd) \/ SendEnds(fd) \/ TimesOut(fd)
  BY <1>2, <1>7
  DEF ConnectEnds, ConnectFails, ConnectTimesOut, AcceptEnds,
      RecvEnds, SendEnds, TimesOut, Answer, Finish, FinishRemoved, Remove
<1>8. CASE \/ ConnectRetries(fd) \/ AcceptInterrupted(fd) \/ RecvErrs(fd)
           \/ RecvRetries(fd) \/ SendContinues(fd)
  BY <1>3, <1>4, <1>8
  DEF ConnectRetries, AcceptInterrupted, RecvErrs, RecvRetries, SendContinues,
      Answers, Locked
<1>9. ASSUME NEW new \in Fd, AcceptTakes(fd, new) PROVE SingleInv'
  <2>1. pending[new] = "none"
    BY <1>9 DEF AcceptTakes, Fresh, SingleInv, SockInv, UsersAgree
  <2> QED
    BY <1>0, <1>9, <2>1
    DEF AcceptTakes, Opened, Answer, Detach, SingleInv, SockTypes
<1> QED  BY <1>1, <1>5, <1>6, <1>7, <1>8, <1>9 DEF Handler

(* It holds of every behaviour too.                                        *)
LEMMA SingleAlways == Spec => []SingleInv
<1>1. Init => SingleInv
  BY DEF Init, SingleInv
<1>2. SockInv /\ SingleInv /\ [Next]_vars => SingleInv'
  <2>1. SingleInv /\ UNCHANGED vars => SingleInv'
    BY DEF SingleInv, vars, options, sockVars, loopVars
  <2>2. SingleInv /\ StaleAborts /\ UNCHANGED options => SingleInv'
    BY DEF SingleInv, StaleAborts, Abort, options, loopVars
  <2> QED  BY <2>1, <2>2, ScriptSingle, HandlerSingle DEF Next
<1> QED  BY <1>1, <1>2, SockAlways, PTL DEF Spec

(* With one thread every handler finds the socket it was armed for, used   *)
(* by a coroutine in the handler's direction.                              *)
THEOREM ArmedCorrect == Spec => []ArmedIsUsed
<1>1. SockInv /\ SingleInv => ArmedIsUsed
  BY DEF SockInv, SingleInv, ArmedIsUsed, UsersAgree, MarksOfEvents
<1> QED  BY <1>1, SockAlways, SingleAlways, PTL

(* With one thread no handler uses a null or freed pointer.                *)
THEOREM HandlersCorrect == Spec => []HandlersFindUser
<1>1. SingleInv => HandlersFindUser
  BY DEF SingleInv, HandlersFindUser
<1> QED  BY <1>1, SingleAlways, PTL

(* Whoever waits on a socket is served.                                    *)
THEOREM ServedCorrect == Spec => []WaitersServed
<1>1. UsersAgree /\ WaitersWakeable /\ ArmedIsUsed /\ AssertsHold => WaitersServed
  BY DEF WaitersServed
<1> QED
  BY <1>1, UsersCorrect, WaitersCorrect, ArmedCorrect, AssertsCorrect, PTL

=============================================================================
