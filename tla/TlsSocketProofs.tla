-------------------------- MODULE TlsSocketProofs ---------------------------
(***************************************************************************)
(* Proofs about TlsSocket for any set of coroutines and descriptors, any   *)
(* number of retries and configurations, one thread or several.            *)
(***************************************************************************)
EXTENDS TlsSocket, TLAPS

Typed ==
  /\ status \in [Ctx -> {"run", "wait", "end"}]
  /\ fault \in {"none", "handler", "connect"}
  /\ ConfTypes
  /\ SockTypes

(* A closed descriptor has no marks, a listening socket never sends.       *)
MarksOfOpen ==
  /\ busy["send"] \subseteq tlsSet /\ busy["recv"] \subseteq tlsSet
  /\ listening \cap busy["send"] = {}

SockInv ==
  Typed /\ UsersAgree /\ WaitersWakeable /\ MarksOfOpen /\ Numbered

-----------------------------------------------------------------------------
(* How the parts of the actions preserve it.                               *)

(* It holds at the start.                                                  *)
LEMMA InitSock == Init => SockInv
<1> SUFFICES ASSUME Init PROVE SockInv
  OBVIOUS
<1>1. ConfTypes /\ Numbered
  <2>1. /\ trees = {} /\ nextId = 0 /\ live = {} /\ reset = FALSE
        /\ confId = [n \in Conf |-> 0]
    BY DEF Init, ConfInit
  <2>2. 0 \in 0 .. MaxConf /\ 0 \in 0 .. MaxConf + 1
    BY ConfAssumption
  <2>3. reset \in BOOLEAN
    BY <2>1, Zenon
  <2> QED  BY <2>1, <2>2, <2>3 DEF ConfTypes, Numbered
<1>2. /\ UsersAgree /\ WaitersWakeable /\ MarksOfOpen
      /\ status \in [Ctx -> {"run", "wait", "end"}] /\ fault = "none"
  BY DEF Init, UsersAgree, WaitersWakeable, MarksOfOpen, Dir
<1>3. SockTypes
  BY ConstAssumption, ConfAssumption DEF Init, SockTypes, Handlers, Dir
<1> QED  BY <1>1, <1>2, <1>3 DEF SockInv, Typed

(* A coroutine that runs is the user of no socket.                         *)
LEMMA RunnerUsesNone ==
  ASSUME SockInv, NEW c \in Ctx, status[c] = "run", NEW fd \in Fd
  PROVE  owner[fd] # c
BY ConstAssumption DEF SockInv, UsersAgree

(* Nobody waits on a socket that a call may use.                           *)
LEMMA UsableIsFree ==
  ASSUME SockInv, NEW fd \in Fd,
         Usable(fd) \/ (fd \in listening /\ NotAccepting(fd)) \/ Fresh(fd)
  PROVE  owner[fd] = NoCtx
BY DEF SockInv, UsersAgree, MarksOfOpen, Usable, NotAccepting, Fresh

(* Suspending a coroutine on a socket that nobody uses preserves it.       *)
LEMMA SuspendSock ==
  ASSUME SockInv, NEW c \in Ctx, status[c] = "run", NEW fd \in Fd,
         NEW d \in Dir, NEW h \in Handlers \ {"none"},
         NEW r \in Nat, NEW n \in 0 .. MaxConf,
         owner[fd] = NoCtx,
         fd \in listening => d = "recv",
         r # 0 <=> fd \in listening,
         tlsSet' = tlsSet \cup {fd},
         request' = [request EXCEPT ![fd] = r],
         conf' = [conf EXCEPT ![fd] = n],
         unsent' \in [Fd -> SUBSET Ctx],
         pending' = pending \/ Done(fd),
         Suspend(c, fd, d, h)
  PROVE  SockInv'
<1> USE DEF Dir, Suspend, Done, Handlers, confVars
<1>1. \A gd \in Fd : owner[gd] # c
  BY RunnerUsesNone
<1>2. Typed'
  <2>1. ConfTypes'
    BY DEF SockInv, Typed, ConfTypes
  <2>2. SockTypes'
    BY DEF SockInv, Typed, SockTypes
  <2> QED  BY <2>1, <2>2 DEF SockInv, Typed
<1>3. UsersAgree'
  BY <1>1, ConstAssumption DEF SockInv, Typed, SockTypes, UsersAgree
<1>4. WaitersWakeable'
  <2> SUFFICES ASSUME NEW e \in Ctx, status'[e] = "wait"
               PROVE  \E gd \in Fd : owner'[gd] = e
    BY DEF WaitersWakeable
  <2>1. CASE e = c
    BY <2>1 DEF SockInv, Typed, SockTypes
  <2>2. CASE e # c
    <3>1. PICK gd \in Fd : owner[gd] = e
      BY <2>2 DEF SockInv, Typed, WaitersWakeable
    <3>2. gd # fd
      BY <3>1, ConstAssumption
    <3> QED  BY <3>1, <3>2 DEF SockInv, Typed, SockTypes
  <2> QED  BY <2>1, <2>2
<1>5. MarksOfOpen'
  BY DEF SockInv, Typed, SockTypes, MarksOfOpen
<1>6. Numbered'
  BY DEF SockInv, Numbered, confVars
<1> QED  BY <1>2, <1>3, <1>4, <1>5, <1>6 DEF SockInv

(* Whoever waits when the user of a socket is woken is the user of another *)
(* socket.                                                                 *)
LEMMA DetachWaiters ==
  ASSUME SockInv, NEW fd \in Fd, Detach(fd)
  PROVE  WaitersWakeable'
<1> SUFFICES ASSUME NEW e \in Ctx, status'[e] = "wait"
             PROVE  \E gd \in Fd : owner'[gd] = e
  BY DEF WaitersWakeable
<1>1. e # owner[fd] /\ status[e] = "wait"
  BY DEF Detach
<1>2. PICK gd \in Fd : owner[gd] = e
  BY <1>1 DEF SockInv, WaitersWakeable
<1> QED  BY <1>1, <1>2 DEF Detach, SockInv, Typed, SockTypes

(* The user of a socket leaves it with the marks of some directions; the   *)
(* connection accepted, if any, is new.                                    *)
LEMMA FinishSock ==
  ASSUME SockInv, NEW fd \in Fd, NEW dirs, NEW T \in SUBSET Fd,
         T \cap tlsSet = {}, tlsSet' = tlsSet \cup T,
         conf' \in [Fd -> 0 .. MaxConf],
         unsent' \in [Fd -> SUBSET Ctx],
         UNCHANGED listening,
         pending' = [gd \in Fd |-> IF gd \in T \cup {fd} THEN "none"
                                  ELSE pending[gd]],
         Answer(fd, dirs)
  PROVE  SockInv'
<1> USE DEF Dir, Answer, Detach, confVars
<1>1. Typed'
  <2>1. ConfTypes'
    BY DEF SockInv, Typed, ConfTypes
  <2>2. SockTypes'
    BY DEF SockInv, Typed, SockTypes, Handlers
  <2> QED  BY <2>1, <2>2 DEF SockInv, Typed
<1>2. UsersAgree'
  BY ConstAssumption DEF SockInv, Typed, SockTypes, UsersAgree
<1>3. WaitersWakeable'
  BY DetachWaiters
<1>4. MarksOfOpen'
  BY DEF SockInv, Typed, SockTypes, MarksOfOpen
<1>5. Numbered'
  BY DEF SockInv, Numbered, confVars
<1> QED  BY <1>1, <1>2, <1>3, <1>4, <1>5 DEF SockInv

(* So does freeing the socket.                                             *)
LEMMA RemoveSock ==
  ASSUME SockInv, NEW fd \in Fd, Remove(fd),
         pending' = pending \/ Done(fd),
         UNCHANGED <<confVars, fault>>
  PROVE  SockInv'
<1> USE DEF Dir, Remove, Detach, Done, confVars
<1>1. Typed'
  <2>1. ConfTypes'
    BY DEF SockInv, Typed, ConfTypes
  <2>2. SockTypes'
    BY ConstAssumption, ConfAssumption
    DEF SockInv, Typed, SockTypes, Handlers
  <2> QED  BY <2>1, <2>2 DEF SockInv, Typed
<1>2. UsersAgree'
  BY ConstAssumption DEF SockInv, Typed, SockTypes, UsersAgree
<1>3. WaitersWakeable'
  BY DetachWaiters
<1>4. MarksOfOpen'
  BY DEF SockInv, Typed, SockTypes, MarksOfOpen
<1>5. Numbered'
  BY DEF SockInv, Numbered, confVars
<1> QED  BY <1>1, <1>2, <1>3, <1>4, <1>5 DEF SockInv

(* An event becomes a handler, or a handler the event.                     *)
LEMMA EventSock ==
  ASSUME SockInv, NEW fd \in Fd, NEW h, NEW e \in Handlers,
         NEW r \in 0 .. MaxRetry,
         event' = [event EXCEPT ![fd] = e],
         pending' = [pending EXCEPT ![fd] = h],
         retry' = [retry EXCEPT ![fd] = r],
         UNCHANGED <<status, confVars, tlsSet, listening, busy, owner, request,
                     conf, unsent, fault>>,
         h \in Handlers \cup {"accept_timeout", "connect_timeout", "timeout"},
         e # "none" \/ h # "none"
  PROVE  SockInv'
<1> USE DEF confVars
<1>1. Typed'
  <2>1. ConfTypes'
    BY DEF SockInv, Typed, ConfTypes
  <2>2. SockTypes'
    BY DEF SockInv, Typed, SockTypes
  <2> QED  BY <2>1, <2>2 DEF SockInv, Typed
<1>2. UsersAgree'
  BY DEF SockInv, Typed, SockTypes, UsersAgree
<1>3. WaitersWakeable'
  BY DEF SockInv, WaitersWakeable
<1>4. MarksOfOpen'
  BY DEF SockInv, MarksOfOpen
<1>5. Numbered'
  BY DEF SockInv, Numbered, confVars
<1> QED  BY <1>1, <1>2, <1>3, <1>4, <1>5 DEF SockInv

(* Kill takes the events and marks of the coroutine with it.               *)
LEMMA KillSock ==
  ASSUME SockInv, NEW k \in Ctx, NEW c \in Ctx, Kill(k, c)
  PROVE  SockInv'
<1> USE DEF Kill, Freed, Disarmed, confVars, Dir
<1>1. Typed'
  <2>1. ConfTypes'
    BY DEF SockInv, Typed, ConfTypes
  <2>2. SockTypes'
    BY DEF SockInv, Typed, SockTypes, Handlers
  <2> QED  BY <2>1, <2>2 DEF SockInv, Typed
<1>2. UsersAgree'
  BY ConstAssumption DEF SockInv, Typed, SockTypes, UsersAgree
<1>3. WaitersWakeable'
  BY ConstAssumption DEF SockInv, Typed, SockTypes, WaitersWakeable
<1>4. MarksOfOpen'
  BY DEF SockInv, Typed, SockTypes, MarksOfOpen
<1>5. Numbered'
  BY DEF SockInv, Numbered, confVars
<1> QED  BY <1>1, <1>2, <1>3, <1>4, <1>5 DEF SockInv

(* Steps that leave the users of the sockets alone.                        *)
LEMMA QuietSock ==
  ASSUME SockInv, Typed', Numbered',
         UNCHANGED <<busy, owner, request, event>>,
         pending' = pending \/ \E fd \in Fd \ tlsSet : Done(fd),
         tlsSet \subseteq tlsSet', listening \subseteq listening',
         listening' \ listening \subseteq tlsSet' \ tlsSet,
         status' = status \/ \E c \in Ctx : status[c] = "run"
                              /\ status' = [status EXCEPT ![c] = "end"]
  PROVE  SockInv'
<1>1. UsersAgree'
  BY RunnerUsesNone DEF SockInv, Typed, SockTypes, UsersAgree, Done
<1>2. WaitersWakeable'
  BY DEF SockInv, Typed, WaitersWakeable
<1>3. MarksOfOpen'
  BY DEF SockInv, MarksOfOpen
<1> QED  BY <1>1, <1>2, <1>3 DEF SockInv

-----------------------------------------------------------------------------
(* What happens to the configurations keeps numbers and types, and no      *)
(* configuration gets another number.                                      *)
LEMMA ConfKept ==
  ASSUME ConfTypes, Numbered, NEW S,
         \/ Registered \/ ImportLost(S) \/ NumberLost
         \/ \E n \in Conf : Made(n) \/ Forgotten(n)
  PROVE  /\ ConfTypes' /\ Numbered'
         /\ \A n \in Conf : confId[n] # 0 => confId'[n] = confId[n]
<1> USE ConfAssumption DEF ConfTypes, Numbered, Conf, Trees
<1>1. CASE Registered
  BY <1>1 DEF Registered
<1>2. CASE PartlyRegistered
  <2>1. UNCHANGED <<confId, live, reset>> /\ trees' \subseteq Trees
    BY <1>2 DEF PartlyRegistered
  <2>2. nextId' = nextId \/ (nextId = 0 /\ nextId' = 1)
    BY <1>2 DEF PartlyRegistered
  <2> QED  BY <2>1, <2>2
<1>3. CASE Destroyed(S)
  <2>1. trees' \subseteq Trees /\ nextId' = 0 /\ UNCHANGED <<confId, live>>
    BY <1>3 DEF Destroyed
  <2>2. reset' \in BOOLEAN /\ (~reset' => ~reset /\ ~(nextId > 1))
    BY <1>3, Zenon DEF Destroyed
  <2>3. ~reset' => \A n \in Conf : confId[n] = 0
    <3> SUFFICES ASSUME ~reset', NEW n \in Conf PROVE confId[n] = 0
      OBVIOUS
    <3>1. /\ confId[n] \in Nat /\ nextId \in Nat /\ ~(nextId > 1)
          /\ confId[n] = 0 \/ confId[n] < nextId
      BY <2>2
    <3> QED  BY <3>1
  <2> QED  BY <2>1, <2>2, <2>3
<1>4. CASE NumberLost
  BY <1>4 DEF NumberLost, CanMake
<1>5. ASSUME NEW n \in Conf, Made(n)
      PROVE  /\ ConfTypes' /\ Numbered'
             /\ \A m \in Conf : confId[m] # 0 => confId'[m] = confId[m]
  BY <1>5 DEF Made, CanMake, Number
<1>6. ASSUME NEW n \in Conf, Forgotten(n)
      PROVE  /\ ConfTypes' /\ Numbered'
             /\ \A m \in Conf : confId[m] # 0 => confId'[m] = confId[m]
  BY <1>6 DEF Forgotten, Named
<1> QED  BY <1>1, <1>2, <1>3, <1>4, <1>5, <1>6 DEF ImportLost

(* The calls on configurations, and the end of a coroutine, are such.      *)
LEMMA ConfCall ==
  ASSUME SockInv, NEW c \in Ctx,
         \/ Import(c) \/ ConfFails(c) \/ End(c)
         \/ \E n \in Conf : ConfNew(c, n) \/ ConfFree(c, n)
  PROVE  /\ ConfTypes' /\ Numbered'
         /\ \A n \in Conf : confId[n] # 0 => confId'[n] = confId[n]
         /\ UNCHANGED <<sockVars, loopVars, fault>>
         /\ \/ status' = status
            \/ status[c] = "run" /\ status' = [status EXCEPT ![c] = "end"]
<1>1. CASE End(c)
  BY <1>1 DEF SockInv, Typed, End, Running, ConfTypes, Numbered, confVars
<1>2. CASE \/ Import(c) \/ ConfFails(c)
           \/ \E n \in Conf : ConfNew(c, n) \/ ConfFree(c, n)
  <2>1. \/ Registered \/ ImportLost(tlsSet) \/ NumberLost
        \/ \E n \in Conf : Made(n) \/ Forgotten(n)
    BY <1>2 DEF Import, ConfFails, ConfNew, ConfFree
  <2>2. ConfTypes /\ Numbered
    BY DEF SockInv, Typed
  <2> QED
    BY <1>2, <2>1, <2>2, ConfKept
    DEF Import, ConfFails, ConfNew, ConfFree, Running
<1> QED  BY <1>1, <1>2

(* They preserve it.                                                       *)
LEMMA ConfSock ==
  ASSUME SockInv, NEW c \in Ctx,
         \/ Import(c) \/ ConfFails(c) \/ End(c)
         \/ \E n \in Conf : ConfNew(c, n) \/ ConfFree(c, n)
  PROVE  SockInv'
<1>1. /\ ConfTypes' /\ Numbered'
      /\ UNCHANGED <<sockVars, loopVars, fault>>
      /\ \/ status' = status
         \/ status[c] = "run" /\ status' = [status EXCEPT ![c] = "end"]
  BY ConfCall
<1>2. Typed'
  BY <1>1 DEF SockInv, Typed, SockTypes, sockVars, loopVars
<1> QED  BY <1>1, <1>2, QuietSock DEF sockVars, loopVars

(* The calls of the scripts preserve it.                                   *)
LEMMA ScriptSock == SockInv /\ Script => SockInv'
<1> SUFFICES ASSUME SockInv, Script PROVE SockInv'
  OBVIOUS
<1> PICK c \in Ctx :
      \/ Import(c) \/ ConfFails(c) \/ End(c)
      \/ \E k \in Ctx : Kill(k, c)
      \/ \E n \in Conf : ConfNew(c, n) \/ ConfFree(c, n)
      \/ \E fd \in Fd :
           \/ Listen(c, fd) \/ ConnectRaces(c, fd) \/ Handshake(c, fd)
           \/ Recv(c, fd) \/ Send(c, fd) \/ SendAtOnce(c, fd) \/ Close(c, fd)
           \/ Connect(c, fd) \/ \E n \in Conf : Accept(c, fd, n)
  BY DEF Script
<1>0. /\ Dir = {"send", "recv"} /\ {"accept", "connect", "handshake", "send", "recv"} \subseteq Handlers \ {"none"}
      /\ \A n \in Conf : n \in 0 .. MaxConf
      /\ \A fd \in Fd : /\ request[fd] \in Nat /\ conf[fd] \in 0 .. MaxConf
                        /\ request = [request EXCEPT ![fd] = request[fd]]
                        /\ conf = [conf EXCEPT ![fd] = conf[fd]]
      /\ unsent \in [Fd -> SUBSET Ctx]
      /\ \A fd \in tlsSet : tlsSet = tlsSet \cup {fd}
      /\ listening \subseteq tlsSet
  BY ConstAssumption, ConfAssumption
  DEF Dir, Handlers, Conf, SockInv, Typed, SockTypes
<1>1. CASE \/ Import(c) \/ ConfFails(c) \/ End(c)
           \/ \E n \in Conf : ConfNew(c, n) \/ ConfFree(c, n)
  BY <1>1, ConfSock
<1>2. CASE \E k \in Ctx : Kill(k, c)
  BY <1>2, KillSock
<1>3. ASSUME NEW fd \in Fd,
             Listen(c, fd) \/ ConnectRaces(c, fd) \/ SendAtOnce(c, fd)
      PROVE  SockInv'
  <2>1. Typed' /\ Numbered'
    BY <1>3 DEF SockInv, Typed, SockTypes, Handlers, ConfTypes, Numbered, Listen,
                Opened, Done, ConnectRaces, SendAtOnce, Abort, confVars, sockVars,
                loopVars
  <2> QED
    BY <1>3, <2>1, QuietSock DEF Listen, Opened, Fresh, ConnectRaces, SendAtOnce,
                                 Abort, confVars, sockVars, loopVars
<1>4. ASSUME NEW fd \in Fd, Close(c, fd) PROVE SockInv'
  BY <1>4, RemoveSock DEF Close
<1>5. ASSUME NEW fd \in Fd, Handshake(c, fd) \/ Recv(c, fd) \/ Send(c, fd)
      PROVE  SockInv'
  <2>1. /\ owner[fd] = NoCtx /\ fd \in tlsSet /\ fd \notin listening
        /\ status[c] = "run"
    BY <1>5, UsableIsFree DEF Handshake, Recv, Send, Usable, Running
  <2>2. request[fd] = 0
    BY <2>1 DEF SockInv, UsersAgree
  <2>3. UNCHANGED <<tlsSet, request, conf>> /\ unsent' \in [Fd -> SUBSET Ctx]
    BY <1>0, <1>5 DEF Handshake, Recv, Send
  <2>6. pending' = pending
    BY <1>5 DEF Handshake, Recv, Send
  <2>4. /\ tlsSet' = tlsSet \cup {fd}
        /\ request' = [request EXCEPT ![fd] = request[fd]]
        /\ conf' = [conf EXCEPT ![fd] = conf[fd]]
    BY <1>0, <2>1, <2>3
  <2>5. \E d \in Dir, h \in Handlers \ {"none"} : Suspend(c, fd, d, h)
    BY <1>0, <1>5 DEF Handshake, Recv, Send
  <2> QED  BY <1>0, <2>1, <2>2, <2>3, <2>4, <2>5, <2>6, SuspendSock
<1>6. ASSUME NEW fd \in Fd, NEW n \in Conf, Accept(c, fd, n)
      PROVE  SockInv'
  <2>1. owner[fd] = NoCtx /\ status[c] = "run"
    BY <1>6, UsableIsFree DEF Accept, Running
  <2>2. confId[n] \in Nat /\ confId[n] # 0
    BY <1>6, ConfAssumption DEF Accept, SockInv, Typed, ConfTypes, Numbered
  <2>3. /\ tlsSet' = tlsSet \cup {fd} /\ unsent' \in [Fd -> SUBSET Ctx]
        /\ fd \in listening
    BY <1>0, <1>6 DEF Accept
  <2> QED  BY <1>0, <1>6, <2>1, <2>2, <2>3, SuspendSock DEF Accept
<1>7. ASSUME NEW fd \in Fd, Connect(c, fd)
      PROVE  SockInv'
  <2>1. /\ owner[fd] = NoCtx /\ status[c] = "run" /\ fd \notin listening
    BY <1>0, <1>7, UsableIsFree DEF Connect, Running, Fresh
  <2>2. request[fd] = 0
    BY <2>1 DEF SockInv, UsersAgree
  <2>3. /\ request' = [request EXCEPT ![fd] = request[fd]]
        /\ conf' = [conf EXCEPT ![fd] = conf[fd]]
        /\ unsent' \in [Fd -> SUBSET Ctx]
    BY <1>0, <1>7 DEF Connect
  <2> QED  BY <1>0, <1>7, <2>1, <2>2, <2>3, SuspendSock DEF Connect, Opened
<1> QED  BY <1>1, <1>2, <1>3, <1>4, <1>5, <1>6, <1>7

(* The event loop calls a handler.                                         *)
LEMMA CallSock ==
  ASSUME SockInv, NEW fd \in Fd, Fire(fd) \/ FireTimeout(fd)
  PROVE  SockInv'
<1>1. PICK h : Call(fd, h) /\ h \in {event[fd], TimeoutOf(event[fd])}
  BY DEF Fire, FireTimeout
<1>2. /\ event[fd] \in Handlers /\ event[fd] # "none" /\ retry[fd] \in 0 .. MaxRetry
      /\ retry = [retry EXCEPT ![fd] = retry[fd]]
  BY <1>1 DEF SockInv, Typed, SockTypes, Call
<1>3. /\ h \in Handlers \cup {"accept_timeout", "connect_timeout", "timeout"}
      /\ h # "none" /\ "none" \in Handlers
  BY <1>1, <1>2 DEF TimeoutOf, Handlers
<1> QED  BY <1>1, <1>2, <1>3, EventSock DEF Call, sockVars

(* A handler that arms the event again.                                    *)
LEMMA AgainSock ==
  ASSUME SockInv, NEW fd \in Fd,
         \/ AcceptAgain(fd) \/ ConnectAgain(fd) \/ HandshakeAgain(fd)
         \/ SendAgain(fd) \/ RecvAgain(fd)
  PROVE  SockInv'
<1>1. PICK h \in Handlers \ {"none"} : Again(fd, h)
  BY DEF AcceptAgain, ConnectAgain, HandshakeAgain, SendAgain, RecvAgain, Handlers
<1>2. PICK r \in 0 .. MaxRetry : retry' = [retry EXCEPT ![fd] = r]
  <2>1. retry[fd] \in 0 .. MaxRetry /\ retry = [retry EXCEPT ![fd] = retry[fd]]
    BY DEF SockInv, Typed, SockTypes
  <2>2. CASE ConnectAgain(fd)
    <3>1. retry[fd] + 1 \in 0 .. MaxRetry
      BY <2>1, <2>2, ConstAssumption DEF ConnectAgain, MayRetry
    <3> QED  BY <2>2, <3>1 DEF ConnectAgain, NextRetry
  <2>3. CASE UNCHANGED retry
    BY <2>1, <2>3
  <2> QED
    BY <2>2, <2>3 DEF AcceptAgain, HandshakeAgain, SendAgain, RecvAgain
<1>3. "none" \in Handlers  BY DEF Handlers
<1> QED  BY <1>1, <1>2, <1>3, EventSock DEF Again, Done

(* A handler that answers.                                                 *)
Answering(fd) ==
  \/ AcceptEnds(fd) \/ AcceptTimesOut(fd) \/ ConnectEnds(fd)
  \/ HandshakeEnds(fd) \/ SendEnds(fd) \/ RecvEnds(fd) \/ TimesOut(fd)

(* It preserves the invariant.                                             *)
LEMMA AnswerSock ==
  ASSUME SockInv, NEW fd \in Fd,
         \/ Answering(fd) \/ ConnectFails(fd)
         \/ \E new \in Fd, n \in Conf : AcceptTakes(fd, new, n)
  PROVE  SockInv'
<1>1. CASE ConnectFails(fd)
  BY <1>1, RemoveSock DEF ConnectFails, FinishRemoved
<1>2. conf \in [Fd -> 0 .. MaxConf] /\ unsent \in [Fd -> SUBSET Ctx]
  BY DEF SockInv, Typed, SockTypes
<1>3. CASE Answering(fd)
  <2>1. /\ \E dirs : Answer(fd, dirs)
        /\ Done(fd)
        /\ UNCHANGED <<tlsSet, listening, conf>>
        /\ unsent' \in [Fd -> SUBSET Ctx]
    BY <1>2, <1>3 DEF Answering, AcceptEnds, AcceptTimesOut, ConnectEnds,
                      HandshakeEnds, SendEnds, RecvEnds, TimesOut, Dropped,
                      Finish
  <2>2. {} \in SUBSET Fd /\ {} \cap tlsSet = {} /\ tlsSet' = tlsSet \cup {}
    BY <2>1
  <2>3. pending' = [gd \in Fd |-> IF gd \in {} \cup {fd} THEN "none"
                                 ELSE pending[gd]]
    BY <2>1 DEF Done, SockInv, Typed, SockTypes
  <2> QED  BY <1>2, <2>1, <2>2, <2>3, FinishSock
<1>4. ASSUME NEW new \in Fd, NEW n \in Conf, AcceptTakes(fd, new, n)
      PROVE  SockInv'
  <2>1. n \in 0 .. MaxConf
    BY ConfAssumption DEF Conf
  <2>2. /\ conf' \in [Fd -> 0 .. MaxConf] /\ unsent' \in [Fd -> SUBSET Ctx]
        /\ UNCHANGED listening /\ tlsSet' = tlsSet \cup {new}
        /\ {new} \in SUBSET Fd /\ {new} \cap tlsSet = {}
        /\ Answer(fd, {"recv"})
    BY <1>2, <1>4, <2>1 DEF AcceptTakes, Opened, Fresh
  <2>3. pending' = [gd \in Fd |-> IF gd \in {new} \cup {fd} THEN "none"
                                 ELSE pending[gd]]
    BY <1>4 DEF AcceptTakes, SockInv, Typed, SockTypes
  <2> QED  BY <2>2, <2>3, FinishSock
<1> QED  BY <1>1, <1>3, <1>4

(* A handler that finds nobody changes only fault.                         *)
LEMMA AbortSock ==
  ASSUME SockInv, Abort("handler") PROVE SockInv'
<1>1. Typed' /\ Numbered'
  BY DEF Abort, SockInv, Typed, ConfTypes, SockTypes, Numbered,
         confVars, sockVars, loopVars
<1> QED  BY <1>1, QuietSock DEF Abort, confVars, sockVars, loopVars

(* A handler is one of these.                                              *)
LEMMA HandlerCases ==
  ASSUME NEW fd \in Fd, Handler(fd)
  PROVE  \/ AcceptAgain(fd) \/ ConnectAgain(fd) \/ HandshakeAgain(fd)
         \/ SendAgain(fd) \/ RecvAgain(fd)
         \/ Answering(fd) \/ ConnectFails(fd)
         \/ \E new \in Fd, n \in Conf : AcceptTakes(fd, new, n)
         \/ HandlerAborts(fd)
BY DEF Handler, Answering

(* Every step preserves it.                                                *)
LEMMA SockStep == SockInv /\ [Next]_vars => SockInv'
<1> SUFFICES ASSUME SockInv, [Next]_vars PROVE SockInv'
  OBVIOUS
<1>1. CASE Script
  BY <1>1, ScriptSock
<1>2. ASSUME NEW fd \in Fd, Fire(fd) \/ FireTimeout(fd) PROVE SockInv'
  BY <1>2, CallSock
<1>3. ASSUME NEW fd \in Fd, Handler(fd) PROVE SockInv'
  BY <1>3, HandlerCases, AgainSock, AnswerSock, AbortSock DEF HandlerAborts
<1>4. CASE UNCHANGED vars
  <2>1. Typed' /\ Numbered'
    BY <1>4 DEF SockInv, Typed, ConfTypes, SockTypes, Numbered, vars,
                confVars, sockVars, loopVars
  <2> QED  BY <1>4, <2>1, QuietSock DEF vars, sockVars, loopVars
<1>5. CASE StaleAborts
  BY <1>5, AbortSock DEF StaleAborts
<1> QED  BY <1>1, <1>2, <1>3, <1>4, <1>5 DEF Next

(* It holds of every behaviour.                                            *)
LEMMA SockAlways == Spec => []SockInv
BY InitSock, SockStep, PTL DEF Spec

(* The build, what it may run out of, and whether a handler is stale.      *)
OptionsTyped == threads \in BOOLEAN /\ lowmem \in BOOLEAN
StaleTyped == stale \in BOOLEAN

(* They keep their type.                                                   *)
LEMMA OptionsAlways == Spec => []OptionsTyped
<1>1. Init => OptionsTyped
  <2> SUFFICES ASSUME Init PROVE OptionsTyped
    OBVIOUS
  <2>1. PICK o \in Options : threads = o[1] /\ lowmem = o[2]
    BY DEF Init
  <2>2. o \in BOOLEAN \X BOOLEAN
    BY ConstAssumption
  <2> QED  BY <2>1, <2>2 DEF OptionsTyped
<1>2. OptionsTyped /\ [Next]_vars => OptionsTyped'
  BY DEF OptionsTyped, Next, vars, options
<1> QED  BY <1>1, <1>2, PTL DEF Spec

(* So does stale.                                                          *)
LEMMA StaleAlways == Spec => []StaleTyped
<1> USE DEF StaleTyped
<1>1. Init => StaleTyped
  BY DEF Init
<1>2. Next => \/ UNCHANGED stale
              \/ \E fd \in Fd : Opened(fd)
              \/ \E k, c \in Ctx : Kill(k, c)
  <2>1. Script => \/ UNCHANGED stale
                  \/ \E fd \in Fd : Opened(fd)
                  \/ \E k, c \in Ctx : Kill(k, c)
    <3>1. ASSUME NEW c \in Ctx,
                 \/ Import(c) \/ ConfFails(c) \/ End(c)
                 \/ \E n \in Conf : ConfNew(c, n) \/ ConfFree(c, n)
          PROVE  UNCHANGED stale
      BY <3>1 DEF Import, ConfFails, End, ConfNew, ConfFree, loopVars
    <3>2. ASSUME NEW c \in Ctx, NEW fd \in Fd,
                 \/ Listen(c, fd) \/ ConnectRaces(c, fd) \/ Handshake(c, fd)
                 \/ Recv(c, fd) \/ Send(c, fd) \/ SendAtOnce(c, fd) \/ Close(c, fd)
                 \/ Connect(c, fd) \/ \E n \in Conf : Accept(c, fd, n)
          PROVE  UNCHANGED stale \/ Opened(fd)
      BY <3>2 DEF Listen, ConnectRaces, Abort, Handshake, Recv, Send, SendAtOnce,
                  Close, Accept, Connect, loopVars
    <3> QED  BY <3>1, <3>2 DEF Script
  <2>2. ASSUME NEW fd \in Fd, Fire(fd) \/ FireTimeout(fd) \/ Handler(fd)
        PROVE  UNCHANGED stale \/ \E gd \in Fd : Opened(gd)
    BY <2>2
    DEF Fire, FireTimeout, Call, Handler, AcceptEnds, AcceptAgain, AcceptTimesOut,
        AcceptTakes, ConnectEnds, ConnectAgain, ConnectFails, HandshakeEnds,
        HandshakeAgain, SendEnds, SendAgain, RecvEnds, RecvAgain, TimesOut,
        HandlerAborts, Abort, Finish, FinishRemoved, Again, loopVars
  <2>3. StaleAborts => UNCHANGED stale
    BY DEF StaleAborts, Abort, loopVars
  <2> QED  BY <2>1, <2>2, <2>3 DEF Next
<1>3. ASSUME NEW fd \in Fd, Opened(fd) PROVE StaleTyped'
  BY <1>3, Zenon DEF Opened
<1>4. ASSUME NEW k \in Ctx, NEW c \in Ctx, Kill(k, c) PROVE StaleTyped'
  BY <1>4, Zenon DEF Kill
<1>5. StaleTyped /\ [Next]_vars => StaleTyped'
  BY <1>2, <1>3, <1>4, Zenon DEF vars, loopVars
<1> QED  BY <1>1, <1>5, PTL DEF Spec

(* The variables keep their types; in particular no connection attempt is  *)
(* retried more than MaxRetry times.                                       *)
THEOREM TypeCorrect == Spec => []TypeOK
<1>1. SockInv /\ OptionsTyped /\ StaleTyped => TypeOK
  BY DEF SockInv, Typed, TypeOK, OptionsTyped, StaleTyped
<1> QED  BY <1>1, SockAlways, OptionsAlways, StaleAlways, PTL

-----------------------------------------------------------------------------
(* What one thread guarantees: an event or a handler has its socket and a  *)
(* user; only a connection that is open has data queued; and a handler     *)
(* that does not empty the queue finds no send in progress.                *)
EventOfUser ==
  \A fd \in Fd : event[fd] # "none" \/ pending[fd] # "none" =>
                   fd \in tlsSet /\ owner[fd] # NoCtx
QueueOfOpen == \A fd \in Fd : unsent[fd] # {} => fd \in tlsSet
NoSendBehind ==
  \A fd \in Fd :
    /\ {event[fd], pending[fd]} \cap
         {"recv", "handshake", "accept", "accept_timeout"} # {}
         => fd \notin busy["send"]
    /\ {event[fd], pending[fd]} \cap {"connect", "connect_timeout"} # {}
         => unsent[fd] = {}
DataOfSender ==
  \A fd \in Fd : \A c \in unsent[fd] :
    status[c] = "end" \/ (owner[fd] = c /\ fd \in busy["send"])
SingleInv ==
  ~threads => /\ fault = "none" /\ ~stale
              /\ EventOfUser /\ QueueOfOpen /\ NoSendBehind /\ DataOfSender

(* It holds at the start.                                                  *)
LEMMA InitSingle == Init => SingleInv
BY DEF Init, SingleInv, EventOfUser, QueueOfOpen, NoSendBehind, DataOfSender

(* A suspended coroutine preserves it.                                     *)
LEMMA SuspendSingle ==
  ASSUME SockInv, SingleInv, ~threads, ~threads', Idle,
         NEW c \in Ctx, status[c] = "run", NEW fd \in Fd,
         NEW d \in Dir, NEW h \in Handlers \ {"none"},
         owner[fd] = NoCtx, fd \notin busy["send"],
         tlsSet' = tlsSet \cup {fd},
         \/ UNCHANGED unsent
         \/ unsent' = [unsent EXCEPT ![fd] = @ \cup {c}] /\ h = "send" /\ d = "send",
         h = "send" => d = "send",
         h \in {"recv", "handshake", "accept"} => d = "recv",
         h = "connect" => unsent[fd] = {},
         pending' = pending \/ Done(fd), ~stale',
         Suspend(c, fd, d, h)
  PROVE  SingleInv'
<1> USE DEF Dir, Suspend, confVars, SockInv, Typed, SockTypes
<1>1. \A gd \in Fd : owner[gd] # c
  BY RunnerUsesNone
<1>2. pending[fd] = "none" /\ fault' = "none" /\ pending' = pending
  BY DEF Idle, Done
<1>3. EventOfUser'
  BY <1>2, ConstAssumption DEF SingleInv, EventOfUser
<1>4. QueueOfOpen'
  BY DEF SingleInv, QueueOfOpen
<1>5. NoSendBehind'
  BY <1>2 DEF SingleInv, NoSendBehind, Handlers
<1>6. DataOfSender'
  <2> SUFFICES ASSUME NEW gd \in Fd, NEW e \in unsent'[gd]
               PROVE  \/ status'[e] = "end"
                      \/ owner'[gd] = e /\ gd \in busy'["send"]
    BY DEF DataOfSender
  <2>1. CASE e \in unsent[gd]
    <3>1. e \in Ctx
      BY <2>1
    <3>2. status[e] = "end" \/ (owner[gd] = e /\ gd \in busy["send"])
      BY <2>1 DEF SingleInv, DataOfSender
    <3> QED  BY <1>1, <3>1, <3>2, ConstAssumption
  <2>2. CASE e \notin unsent[gd]
    BY <2>2
  <2> QED  BY <2>1, <2>2
<1> QED  BY <1>2, <1>3, <1>4, <1>5, <1>6 DEF SingleInv

(* A wait that ends, or a socket that is closed, preserves it.             *)
LEMMA DetachSingle ==
  ASSUME SockInv, SingleInv, ~threads, ~threads', NEW fd \in Fd,
         NEW T \in SUBSET Fd,
         Detach(fd),
         fault' = fault, ~stale', pending'[fd] = "none",
         \A gd \in Fd \ {fd} : /\ pending'[gd] = pending[gd]
                               /\ unsent'[gd] = unsent[gd]
                               /\ gd \in tlsSet' <=> gd \in tlsSet \cup T
                               /\ gd \in busy'["send"] <=> gd \in busy["send"],
         \/ unsent'[fd] = {}
         \/ unsent'[fd] = unsent[fd] /\ fd \in tlsSet'
              /\ fd \notin busy["send"],
         DOMAIN pending' = Fd
  PROVE  SingleInv'
<1> USE DEF Detach, Dir, SockInv, Typed, SockTypes
<1>1. EventOfUser'
  BY ConstAssumption DEF SingleInv, EventOfUser
<1>2. QueueOfOpen'
  BY DEF SingleInv, QueueOfOpen
<1>3. NoSendBehind'
  <2> SUFFICES ASSUME NEW gd \in Fd, gd # fd
               PROVE  /\ {event'[gd], pending'[gd]} \cap
                           {"recv", "handshake", "accept", "accept_timeout"} # {}
                           => gd \notin busy'["send"]
                      /\ {event'[gd], pending'[gd]} \cap
                           {"connect", "connect_timeout"} # {}
                           => unsent'[gd] = {}
    BY DEF NoSendBehind
  <2> QED  BY DEF SingleInv, NoSendBehind
<1>4. DataOfSender'
  <2> SUFFICES ASSUME NEW gd \in Fd, NEW e \in unsent'[gd]
               PROVE  \/ status'[e] = "end"
                      \/ owner'[gd] = e /\ gd \in busy'["send"]
    BY DEF DataOfSender
  <2>1. e \in unsent[gd] /\ e \in Ctx
    BY DEF SingleInv
  <2>2. status[e] = "end" \/ (owner[gd] = e /\ gd \in busy["send"])
    BY <2>1 DEF SingleInv, DataOfSender
  <2>3. CASE status[e] = "end"
    BY <2>1, <2>3, ConstAssumption DEF UsersAgree
  <2>4. CASE owner[gd] = e /\ gd \in busy["send"]
    BY <2>1, <2>4, ConstAssumption
  <2> QED  BY <2>2, <2>3, <2>4
<1> QED  BY <1>1, <1>2, <1>3, <1>4 DEF SingleInv

(* The calls of the scripts preserve it.                                   *)
LEMMA ScriptSingle ==
  ASSUME SockInv, SingleInv, ~threads, ~threads', Script
  PROVE  SingleInv'
<1> USE DEF Running
<1>0. PICK c \in Ctx :
      \/ Import(c) \/ ConfFails(c) \/ End(c)
      \/ \E k \in Ctx : Kill(k, c)
      \/ \E n \in Conf : ConfNew(c, n) \/ ConfFree(c, n)
      \/ \E fd \in Fd :
           \/ Listen(c, fd) \/ ConnectRaces(c, fd) \/ Handshake(c, fd)
           \/ Recv(c, fd) \/ Send(c, fd) \/ SendAtOnce(c, fd) \/ Close(c, fd)
           \/ Connect(c, fd) \/ \E n \in Conf : Accept(c, fd, n)
  BY DEF Script
<1>a. fault = "none" /\ ~stale /\ \A fd \in Fd : pending[fd] = "none"
  BY <1>0 DEF SingleInv, Idle, Import, ConfFails, End, Kill, ConfNew, ConfFree, Listen,
              ConnectRaces, Handshake, Recv, Send, SendAtOnce, Close, Accept, Connect
<1>b. /\ Dir = {"send", "recv"}
      /\ {"accept", "connect", "handshake", "send", "recv"}
           \subseteq Handlers \ {"none"}
      /\ Idle
      /\ listening \subseteq tlsSet
      /\ \A fd \in tlsSet : tlsSet = tlsSet \cup {fd}
  BY <1>a DEF Dir, Handlers, Idle, SockInv, Typed, SockTypes
<1>c. ASSUME NEW fd \in Fd, Opened(fd) PROVE ~stale'
  BY <1>a, <1>c DEF Opened
<1>1. CASE \/ Import(c) \/ ConfFails(c) \/ End(c)
           \/ \E n \in Conf : ConfNew(c, n) \/ ConfFree(c, n)
  <2>1. UNCHANGED sockVars /\ UNCHANGED loopVars /\ UNCHANGED fault
    BY <1>1, ConfCall
  <2>2. status' = status \/ status' = [status EXCEPT ![c] = "end"]
    BY <1>1, ConfCall
  <2>3. status \in [Ctx -> {"run", "wait", "end"}] /\ unsent \in [Fd -> SUBSET Ctx]
    BY DEF SockInv, Typed, SockTypes
  <2> QED
    BY <2>1, <2>2, <2>3 DEF SingleInv, EventOfUser, QueueOfOpen, NoSendBehind,
                       DataOfSender, sockVars, loopVars
<1>2. ASSUME NEW k \in Ctx, Kill(k, c) PROVE SingleInv'
  <2>0. Freed(c) = {} /\ pending' = pending
    BY <1>2, <1>a DEF Kill, Freed, SockInv, Typed, SockTypes
  <2>5. ~stale'
    BY <1>2, <1>a, <2>0 DEF Kill
  <2> USE <2>0 DEF Kill, Disarmed, SockInv, Typed, SockTypes, Dir, SingleInv
  <2>1. EventOfUser'
    BY <1>2, <1>a, ConstAssumption DEF EventOfUser
  <2>2. QueueOfOpen'
    BY <1>2 DEF QueueOfOpen
  <2>3. NoSendBehind'
    BY <1>2, <1>a DEF NoSendBehind
  <2>4. DataOfSender'
    BY <1>2, ConstAssumption DEF DataOfSender
  <2> QED  BY <1>2, <2>1, <2>2, <2>3, <2>4, <2>5
<1>3. ASSUME NEW fd \in Fd, Listen(c, fd) \/ SendAtOnce(c, fd)
      PROVE  SingleInv'
  BY <1>3, <1>a, <1>c, ConstAssumption
  DEF Listen, Opened, Done, SendAtOnce, SingleInv, EventOfUser, QueueOfOpen, NoSendBehind,
      DataOfSender, SockInv, Typed, SockTypes, loopVars, confVars
<1>4. ASSUME NEW fd \in Fd, ConnectRaces(c, fd) PROVE SingleInv'
  BY <1>4 DEF ConnectRaces
<1>5. ASSUME NEW fd \in Fd, Close(c, fd) PROVE SingleInv'
  <2>1. {} \in SUBSET Fd
    OBVIOUS
  <2>2. /\ Detach(fd) /\ fault' = fault /\ ~stale' /\ pending' = pending
        /\ unsent'[fd] = {} /\ DOMAIN pending = Fd
        /\ \A gd \in Fd \ {fd} : /\ unsent'[gd] = unsent[gd]
                                 /\ gd \in tlsSet' <=> gd \in tlsSet \cup {}
                                 /\ gd \in busy'["send"] <=> gd \in busy["send"]
    BY <1>5, <1>a, <1>b DEF Close, Remove, SockInv, Typed, SockTypes
  <2> QED  BY <1>a, <2>1, <2>2, DetachSingle
<1>6. ASSUME NEW fd \in Fd, Handshake(c, fd) \/ Recv(c, fd) \/ Send(c, fd)
      PROVE  SingleInv'
  <2>1. owner[fd] = NoCtx /\ fd \in tlsSet /\ fd \notin busy["send"]
    BY <1>6, UsableIsFree DEF Handshake, Recv, Send, Usable
  <2>2. CASE Handshake(c, fd)
    BY <1>a, <1>b, <2>1, <2>2, SuspendSingle DEF Handshake
  <2>3. CASE Recv(c, fd)
    BY <1>a, <1>b, <2>1, <2>3, SuspendSingle DEF Recv
  <2>4. CASE Send(c, fd)
    BY <1>a, <1>b, <2>1, <2>4, SuspendSingle DEF Send
  <2> QED  BY <1>6, <2>2, <2>3, <2>4
<1>7. ASSUME NEW fd \in Fd, NEW n \in Conf, Accept(c, fd, n)
      PROVE  SingleInv'
  <2>1. owner[fd] = NoCtx /\ fd \notin busy["send"] /\ fd \in tlsSet
    BY <1>7, <1>b, UsableIsFree DEF Accept, SockInv, MarksOfOpen
  <2> QED  BY <1>7, <1>a, <1>b, <2>1, SuspendSingle DEF Accept
<1>8. ASSUME NEW fd \in Fd, Connect(c, fd)
      PROVE  SingleInv'
  <2>1. /\ owner[fd] = NoCtx /\ fd \notin busy["send"]
        /\ unsent[fd] = {}
    BY <1>8, UsableIsFree
    DEF Connect, Fresh, SockInv, MarksOfOpen, SingleInv, QueueOfOpen
  <2>2. ~stale' /\ tlsSet' = tlsSet \cup {fd}
    BY <1>8, <1>c DEF Connect, Opened
  <2> QED  BY <1>8, <1>b, <2>1, <2>2, SuspendSingle DEF Connect
<1> QED  BY <1>0, <1>1, <1>3, <1>4, <1>5, <1>6, <1>7, <1>8, <1>2

(* The event loop calls a handler.                                         *)
LEMMA CallSingle ==
  ASSUME SockInv, SingleInv, ~threads, ~threads',
         NEW fd \in Fd, Fire(fd) \/ FireTimeout(fd)
  PROVE  SingleInv'
<1>1. PICK h : Call(fd, h) /\ h \in {event[fd], TimeoutOf(event[fd])}
  BY DEF Fire, FireTimeout
<1>2. event[fd] # "none" /\ UNCHANGED <<status, sockVars, stale, fault>>
  BY <1>1 DEF Call
<1>3. EventOfUser'
  BY <1>1, <1>2 DEF SingleInv, EventOfUser, Call, sockVars, SockInv, Typed, SockTypes
<1>4. NoSendBehind'
  <2>1. /\ h \in {"recv", "handshake", "accept", "accept_timeout"}
            => event[fd] \in {"recv", "handshake", "accept"}
        /\ h \in {"connect", "connect_timeout"} => event[fd] = "connect"
    <3>1. event[fd] \in Handlers
      BY DEF SockInv, Typed, SockTypes
    <3> QED  BY <1>1, <3>1 DEF TimeoutOf, Handlers
  <2>2. /\ event' = [event EXCEPT ![fd] = "none"]
        /\ pending' = [pending EXCEPT ![fd] = h]
        /\ busy' = busy /\ unsent' = unsent
    BY <1>1 DEF Call, sockVars
  <2> QED
    BY <2>1, <2>2 DEF SingleInv, NoSendBehind, SockInv, Typed, SockTypes
<1> QED
  BY <1>2, <1>3, <1>4 DEF SingleInv, QueueOfOpen, DataOfSender, sockVars

(* A handler that arms the event again.                                    *)
LEMMA AgainSingle ==
  ASSUME SockInv, SingleInv, ~threads, ~threads', NEW fd \in Fd,
         \/ AcceptAgain(fd) \/ ConnectAgain(fd) \/ HandshakeAgain(fd)
         \/ SendAgain(fd) \/ RecvAgain(fd)
  PROVE  SingleInv'
<1>1. PICK h : Again(fd, h) /\ h = pending[fd] /\ h # "none"
  BY DEF AcceptAgain, ConnectAgain, HandshakeAgain, SendAgain, RecvAgain,
         Answers, Locked
<1>2. /\ event' = [event EXCEPT ![fd] = h]
      /\ pending' = [pending EXCEPT ![fd] = "none"]
      /\ UNCHANGED <<status, tlsSet, busy, owner, unsent, stale, fault>>
  BY <1>1 DEF Again, Done
<1> QED
  BY <1>1, <1>2 DEF SingleInv, EventOfUser, QueueOfOpen, NoSendBehind,
                    DataOfSender, SockInv, Typed, SockTypes

(* A handler that answers.                                                 *)
LEMMA AnswerSingle ==
  ASSUME SockInv, SingleInv, ~threads, ~threads', NEW fd \in Fd,
         \/ Answering(fd) \/ ConnectFails(fd)
         \/ \E new \in Fd, n \in Conf : AcceptTakes(fd, new, n)
  PROVE  SingleInv'
<1> USE DEF SockInv, Typed, SockTypes, Dir
<1>1. CASE ConnectFails(fd)
  <2>1. {} \in SUBSET Fd
    OBVIOUS
  <2>2. /\ Detach(fd) /\ fault' = fault /\ ~stale'
        /\ pending' = [pending EXCEPT ![fd] = "none"]
        /\ unsent'[fd] = {}
        /\ \A gd \in Fd \ {fd} : /\ unsent'[gd] = unsent[gd]
                                 /\ gd \in tlsSet' <=> gd \in tlsSet \cup {}
                                 /\ gd \in busy'["send"] <=> gd \in busy["send"]
    BY <1>1 DEF ConnectFails, FinishRemoved, Remove, Done, SingleInv
  <2> QED  BY <2>1, <2>2, DetachSingle
<1>2. ASSUME NEW dirs, NEW T \in SUBSET Fd,
             Answer(fd, dirs), Done(fd), ~stale',
             tlsSet' = tlsSet \cup T, fd \in tlsSet,
             \/ unsent' = [unsent EXCEPT ![fd] = {}]
             \/ unsent' = unsent /\ unsent[fd] = {}
             \/ unsent' = unsent /\ fd \notin busy["send"]
      PROVE  SingleInv'
  <2>1. /\ Detach(fd) /\ fault' = fault
        /\ pending' = [pending EXCEPT ![fd] = "none"]
        /\ \A gd \in Fd \ {fd} : gd \in busy'["send"] <=> gd \in busy["send"]
    BY <1>2 DEF Answer, Done
  <2>2. \A gd \in Fd \ {fd} : unsent'[gd] = unsent[gd]
    BY <1>2
  <2>3. \/ unsent'[fd] = {}
        \/ unsent'[fd] = unsent[fd] /\ fd \in tlsSet' /\ fd \notin busy["send"]
    BY <1>2
  <2>4. pending'[fd] = "none" /\ DOMAIN pending' = Fd
        /\ \A gd \in Fd \ {fd} : pending'[gd] = pending[gd]
    BY <2>1
  <2> QED  BY <1>2, <2>1, <2>2, <2>3, <2>4, DetachSingle
<1>3. CASE Answering(fd)
  <2>1. CASE \/ AcceptEnds(fd) \/ AcceptTimesOut(fd) \/ HandshakeEnds(fd)
             \/ RecvEnds(fd)
    <3>1. fd \notin busy["send"]
      BY <2>1 DEF AcceptEnds, AcceptTimesOut, HandshakeEnds, RecvEnds, Answers,
                  Locked, SingleInv, NoSendBehind
    <3>2. /\ \E dirs : Answer(fd, dirs) /\ Done(fd) /\ ~stale'
          /\ tlsSet' = tlsSet \cup {} /\ unsent' = unsent /\ fd \in tlsSet
      BY <2>1 DEF AcceptEnds, AcceptTimesOut, HandshakeEnds, RecvEnds, Answers,
                  Locked, Finish, SingleInv
    <3>3. {} \in SUBSET Fd
      OBVIOUS
    <3> QED  BY <1>2, <3>1, <3>2, <3>3
  <2>2. CASE ConnectEnds(fd)
    <3>1. unsent[fd] = {}
      BY <2>2 DEF ConnectEnds, Answers, Locked, SingleInv, NoSendBehind
    <3>2. /\ \E dirs : Answer(fd, dirs) /\ Done(fd) /\ ~stale'
          /\ tlsSet' = tlsSet \cup {} /\ unsent' = unsent /\ fd \in tlsSet
      BY <2>2 DEF ConnectEnds, Answers, Locked, Finish, SingleInv
    <3>3. {} \in SUBSET Fd
      OBVIOUS
    <3> QED  BY <1>2, <3>1, <3>2, <3>3
  <2>3. CASE SendEnds(fd) \/ TimesOut(fd)
    <3>2. /\ \E dirs : Answer(fd, dirs) /\ Done(fd) /\ ~stale'
          /\ tlsSet' = tlsSet \cup {} /\ fd \in tlsSet
          /\ unsent' = [unsent EXCEPT ![fd] = {}]
      BY <2>3 DEF SendEnds, TimesOut, Dropped, Answers, Locked, Finish, SingleInv
    <3>3. {} \in SUBSET Fd
      OBVIOUS
    <3> QED  BY <1>2, <3>2, <3>3
  <2> QED  BY <1>3, <2>1, <2>2, <2>3 DEF Answering
<1>4. ASSUME NEW new \in Fd, NEW n \in Conf, AcceptTakes(fd, new, n)
      PROVE  SingleInv'
  <2>1. /\ fd \notin busy["send"] /\ fd \in tlsSet /\ Answer(fd, {"recv"})
        /\ unsent' = unsent /\ tlsSet' = tlsSet \cup {new}
    BY <1>4 DEF AcceptTakes, Opened, Answers, Locked, SingleInv, NoSendBehind
  <2>3. pending[new] = "none"
    BY <1>4 DEF AcceptTakes, Fresh, SingleInv, EventOfUser
  <2>4. Done(fd)
    BY <1>4, <2>3 DEF AcceptTakes, Done
  <2>5. ~stale'
    BY <1>4, <2>3 DEF AcceptTakes, Opened, SingleInv
  <2>2. {new} \in SUBSET Fd
    OBVIOUS
  <2> QED  BY <1>2, <2>1, <2>2, <2>4, <2>5
<1> QED  BY <1>1, <1>3, <1>4

(* Every step preserves it.                                                *)
LEMMA SingleStep == SockInv /\ SingleInv /\ [Next]_vars => SingleInv'
<1> SUFFICES ASSUME SockInv, SingleInv, [Next]_vars, ~threads' PROVE SingleInv'
  BY DEF SingleInv
<1>0. ~threads
  BY DEF Next, vars, options
<1>1. CASE Script
  BY <1>0, <1>1, ScriptSingle
<1>2. ASSUME NEW fd \in Fd, Fire(fd) \/ FireTimeout(fd) PROVE SingleInv'
  BY <1>0, <1>2, CallSingle
<1>3. ASSUME NEW fd \in Fd, Handler(fd) PROVE SingleInv'
  <2>1. ~HandlerAborts(fd)
    BY <1>0 DEF HandlerAborts, SingleInv, EventOfUser
  <2> QED  BY <1>0, <1>3, <2>1, HandlerCases, AgainSingle, AnswerSingle
<1>4. CASE UNCHANGED vars
  BY <1>4 DEF SingleInv, EventOfUser, QueueOfOpen, NoSendBehind, DataOfSender,
              vars, options, sockVars, loopVars
<1>5. ~StaleAborts
  BY <1>0 DEF StaleAborts, SingleInv
<1> QED  BY <1>1, <1>2, <1>3, <1>4, <1>5 DEF Next

(* It holds of every behaviour.                                            *)
LEMMA SingleAlways == Spec => []SingleInv
BY InitSingle, SingleStep, SockAlways, PTL DEF Spec

(* Whoever waits is served: users, marks, events and requests agree, every *)
(* suspended coroutine can be woken, and with one thread its handler finds *)
(* it, whatever close, kill and timeouts did before.                       *)
THEOREM ServedCorrect == Spec => []WaitersServed
<1>1. SockInv /\ SingleInv => WaitersServed
  BY DEF SockInv, SingleInv, WaitersServed, HandlersFindUser
<1> QED  BY <1>1, SockAlways, SingleAlways, PTL

(* With one thread no send carries the rest of one that failed or timed    *)
(* out: mln_lang_tls_timeout_handler and the others empty the queue.       *)
THEOREM CleanCorrect == Spec => []CleanQueue
<1>1. SingleInv => CleanQueue
  BY DEF SingleInv, DataOfSender, CleanQueue
<1> QED  BY <1>1, SingleAlways, PTL

-----------------------------------------------------------------------------
(* What makes a configuration of the number that an accept is called with: *)
(* while somebody waits for an accept the request holds the number of the  *)
(* configuration, and an accept is handled on a listening socket.          *)
RequestsNamed ==
  \A fd \in listening : owner[fd] # NoCtx =>
    conf[fd] \in Conf /\ request[fd] = confId[conf[fd]]
AcceptsListen ==
  \A fd \in Fd :
    /\ event[fd] = "accept" => fd \in listening
    /\ pending[fd] = "accept" => fd \in listening \/ fd \notin tlsSet
ConfInv == AcceptsListen /\ RequestsNamed

(* It holds at the start.                                                  *)
LEMMA InitConf == Init => ConfInv
BY DEF Init, ConfInv, RequestsNamed, AcceptsListen

(* An accept is handled on a listening socket: every step preserves it.    *)
LEMMA ListenStep == SockInv /\ AcceptsListen /\ [Next]_vars => AcceptsListen'
<1> SUFFICES ASSUME SockInv, AcceptsListen, [Next]_vars PROVE AcceptsListen'
  OBVIOUS
<1> USE DEF AcceptsListen, SockInv, Typed, SockTypes, Dir, loopVars, sockVars
<1>1. CASE Script
  <2> PICK c \in Ctx :
      \/ Import(c) \/ ConfFails(c) \/ End(c)
      \/ \E k \in Ctx : Kill(k, c)
      \/ \E n \in Conf : ConfNew(c, n) \/ ConfFree(c, n)
      \/ \E fd \in Fd :
           \/ Listen(c, fd) \/ ConnectRaces(c, fd) \/ Handshake(c, fd)
           \/ Recv(c, fd) \/ Send(c, fd) \/ SendAtOnce(c, fd) \/ Close(c, fd)
           \/ Connect(c, fd) \/ \E n \in Conf : Accept(c, fd, n)
    BY <1>1 DEF Script
  <2>1. CASE \/ Import(c) \/ ConfFails(c) \/ End(c)
             \/ \E n \in Conf : ConfNew(c, n) \/ ConfFree(c, n)
    BY <2>1, ConfCall
  <2>2. ASSUME NEW k \in Ctx, Kill(k, c) PROVE AcceptsListen'
    BY <2>2 DEF Kill, Freed, Disarmed
  <2>3. ASSUME NEW fd \in Fd,
               \/ Listen(c, fd) \/ ConnectRaces(c, fd) \/ SendAtOnce(c, fd)
        PROVE  AcceptsListen'
    BY <2>3 DEF Listen, Fresh, Opened, Done, ConnectRaces, SendAtOnce, Abort
  <2>4. ASSUME NEW fd \in Fd, Close(c, fd) PROVE AcceptsListen'
    BY <2>4 DEF Close, Remove, Detach
  <2>5. ASSUME NEW fd \in Fd, Handshake(c, fd) \/ Recv(c, fd) \/ Send(c, fd)
        PROVE  AcceptsListen'
    BY <2>5 DEF Handshake, Recv, Send, Suspend
  <2>6. ASSUME NEW fd \in Fd,
               Connect(c, fd) \/ \E n \in Conf : Accept(c, fd, n)
        PROVE  AcceptsListen'
    BY <2>6 DEF Accept, Connect, Suspend, Fresh, Opened, Done
  <2> QED  BY <2>1, <2>2, <2>3, <2>4, <2>5, <2>6
<1>2. ASSUME NEW fd \in Fd, Fire(fd) \/ FireTimeout(fd) PROVE AcceptsListen'
  <2>1. PICK h : Call(fd, h) /\ h \in {event[fd], TimeoutOf(event[fd])}
    BY <1>2 DEF Fire, FireTimeout
  <2>2. h = "accept" => event[fd] = "accept"
    BY <2>1 DEF TimeoutOf
  <2> QED  BY <2>1, <2>2 DEF Call
<1>3. ASSUME NEW fd \in Fd, Handler(fd) PROVE AcceptsListen'
  <2>1. CASE \/ AcceptAgain(fd) \/ ConnectAgain(fd) \/ HandshakeAgain(fd)
             \/ SendAgain(fd) \/ RecvAgain(fd)
    BY <2>1 DEF AcceptAgain, ConnectAgain, HandshakeAgain, SendAgain, RecvAgain,
                Again, Done, Answers, Locked
  <2>2. CASE Answering(fd)
    BY <2>2 DEF Answering, AcceptEnds, AcceptTimesOut, ConnectEnds,
                HandshakeEnds, SendEnds, RecvEnds, TimesOut, Finish, Answer, Detach, Done
  <2>3. CASE ConnectFails(fd)
    BY <2>3 DEF ConnectFails, FinishRemoved, Remove, Detach, Done
  <2>4. ASSUME NEW new \in Fd, NEW n \in Conf, AcceptTakes(fd, new, n)
        PROVE  AcceptsListen'
    BY <2>4 DEF AcceptTakes, Fresh, Opened, Answer, Detach
  <2>5. CASE HandlerAborts(fd)
    BY <2>5 DEF HandlerAborts, Abort
  <2> QED  BY <1>3, <2>1, <2>2, <2>3, <2>4, <2>5, HandlerCases
<1>4. CASE UNCHANGED vars
  BY <1>4 DEF vars
<1>5. CASE StaleAborts
  BY <1>5 DEF StaleAborts, Abort
<1> QED  BY <1>1, <1>2, <1>3, <1>4, <1>5 DEF Next

(* Steps that start no accept leave numbers and requests in agreement.     *)
LEMMA QuietNamed ==
  ASSUME SockInv, RequestsNamed,
         \A n \in Conf : confId[n] # 0 => confId'[n] = confId[n],
         \A fd \in listening' : owner'[fd] # NoCtx =>
           /\ fd \in listening /\ owner[fd] # NoCtx
           /\ conf'[fd] = conf[fd] /\ request'[fd] = request[fd]
  PROVE  RequestsNamed'
<1> SUFFICES ASSUME NEW fd \in listening', owner'[fd] # NoCtx
             PROVE  conf'[fd] \in Conf /\ request'[fd] = confId'[conf'[fd]]
  BY DEF RequestsNamed
<1>1. /\ fd \in listening /\ owner[fd] # NoCtx
      /\ conf'[fd] = conf[fd] /\ request'[fd] = request[fd]
  OBVIOUS
<1>2. request[fd] # 0
  BY <1>1 DEF SockInv, Typed, SockTypes, UsersAgree
<1> QED  BY <1>1, <1>2 DEF RequestsNamed, Conf

(* Every step keeps them in agreement.                                     *)
LEMMA NamedStep ==
  ASSUME SockInv, RequestsNamed, [Next]_vars
  PROVE  RequestsNamed'
<1> USE DEF SockInv, Typed, SockTypes, loopVars, sockVars, confVars
<1>0. \A fd \in listening : fd \in Fd /\ fd \in tlsSet
  OBVIOUS
<1>1. CASE Script
  <2> PICK c \in Ctx :
      \/ Import(c) \/ ConfFails(c) \/ End(c)
      \/ \E k \in Ctx : Kill(k, c)
      \/ \E n \in Conf : ConfNew(c, n) \/ ConfFree(c, n)
      \/ \E fd \in Fd :
           \/ Listen(c, fd) \/ ConnectRaces(c, fd) \/ Handshake(c, fd)
           \/ Recv(c, fd) \/ Send(c, fd) \/ SendAtOnce(c, fd) \/ Close(c, fd)
           \/ Connect(c, fd) \/ \E n \in Conf : Accept(c, fd, n)
    BY <1>1 DEF Script
  <2>1. CASE \/ Import(c) \/ ConfFails(c) \/ End(c)
             \/ \E n \in Conf : ConfNew(c, n) \/ ConfFree(c, n)
    <3>1. /\ \A n \in Conf : confId[n] # 0 => confId'[n] = confId[n]
          /\ UNCHANGED sockVars
      BY <2>1, ConfCall
    <3> QED  BY <3>1, QuietNamed
  <2>4. ASSUME NEW k \in Ctx, Kill(k, c) PROVE RequestsNamed'
    BY <2>4, <1>0, QuietNamed DEF Kill
  <2>5. ASSUME NEW fd \in Fd,
               \/ Listen(c, fd) \/ ConnectRaces(c, fd) \/ SendAtOnce(c, fd)
        PROVE  RequestsNamed'
    <3>1. CASE Listen(c, fd)
      <4>1. owner[fd] = NoCtx
        BY <3>1, UsableIsFree DEF Listen
      <4> QED  BY <3>1, <4>1, <1>0, QuietNamed DEF Listen
    <3>2. CASE ConnectRaces(c, fd) \/ SendAtOnce(c, fd)
      BY <3>2, <1>0, QuietNamed DEF ConnectRaces, Abort, SendAtOnce
    <3> QED  BY <2>5, <3>1, <3>2
  <2>6. ASSUME NEW fd \in Fd, Close(c, fd) PROVE RequestsNamed'
    BY <2>6, <1>0, QuietNamed DEF Close, Remove, Detach
  <2>7. ASSUME NEW fd \in Fd, Handshake(c, fd) \/ Recv(c, fd) \/ Send(c, fd)
        PROVE  RequestsNamed'
    BY <2>7, <1>0, QuietNamed DEF Handshake, Recv, Send, Suspend, Usable
  <2>8. ASSUME NEW fd \in Fd, Connect(c, fd)
        PROVE  RequestsNamed'
    BY <2>8, <1>0, QuietNamed DEF Connect, Suspend, Fresh, Opened
  <2>9. ASSUME NEW fd \in Fd, NEW n \in Conf, Accept(c, fd, n)
        PROVE  RequestsNamed'
    <3>1. /\ UNCHANGED <<confId, listening>>
          /\ conf' = [conf EXCEPT ![fd] = n]
          /\ request' = [request EXCEPT ![fd] = confId[n]]
          /\ owner' = [owner EXCEPT ![fd] = c]
      BY <2>9 DEF Accept, Suspend
    <3> QED  BY <1>0, <3>1, ConstAssumption DEF RequestsNamed
  <2> QED  BY <2>1, <2>4, <2>5, <2>6, <2>7, <2>8, <2>9
<1>2. ASSUME NEW fd \in Fd, Fire(fd) \/ FireTimeout(fd) PROVE RequestsNamed'
  BY <1>2, <1>0, QuietNamed DEF Fire, FireTimeout, Call
<1>3. ASSUME NEW fd \in Fd, Handler(fd) PROVE RequestsNamed'
  <2>1. CASE \/ AcceptAgain(fd) \/ ConnectAgain(fd) \/ HandshakeAgain(fd)
             \/ SendAgain(fd) \/ RecvAgain(fd)
    BY <2>1, <1>0, QuietNamed
    DEF AcceptAgain, ConnectAgain, HandshakeAgain, SendAgain, RecvAgain, Again
  <2>2. CASE Answering(fd)
    BY <2>2, <1>0, QuietNamed
    DEF Answering, AcceptEnds, AcceptTimesOut, ConnectEnds, HandshakeEnds,
        SendEnds, RecvEnds, TimesOut, Finish, Answer, Detach
  <2>3. CASE ConnectFails(fd)
    BY <2>3, <1>0, QuietNamed DEF ConnectFails, FinishRemoved, Remove, Detach
  <2>4. ASSUME NEW new \in Fd, NEW n \in Conf, AcceptTakes(fd, new, n)
        PROVE  RequestsNamed'
    BY <2>4, <1>0, QuietNamed DEF AcceptTakes, Fresh, Opened, Answer, Detach
  <2>5. CASE HandlerAborts(fd)
    BY <2>5, <1>0, QuietNamed DEF HandlerAborts, Abort
  <2> QED  BY <1>3, <2>1, <2>2, <2>3, <2>4, <2>5, HandlerCases
<1>4. CASE UNCHANGED vars
  BY <1>4, <1>0, QuietNamed DEF vars
<1>5. CASE StaleAborts
  BY <1>5, <1>0, QuietNamed DEF StaleAborts, Abort
<1> QED  BY <1>1, <1>2, <1>3, <1>4, <1>5 DEF Next

(* It holds of every behaviour.                                            *)
LEMMA ConfAlways == Spec => [](SockInv /\ ConfInv)
<1>1. SockInv /\ ConfInv /\ [Next]_vars => ConfInv'
  BY ListenStep, NamedStep DEF ConfInv
<1> QED  BY <1>1, InitConf, InitSock, SockStep, PTL DEF Spec

(* A connection is accepted with the configuration that the accept was     *)
(* called with: the number that mln_lang_tls_accept_handler looks up names *)
(* no other configuration, although it was freed or others were made since.*)
THEOREM AcceptCorrect == Spec => AcceptUsesItsConf
<1> DEFINE Own ==
      \A new \in (tlsSet' \ listening') \ tlsSet :
        ~reset /\ owner'[new] = NoCtx =>
          \E fd \in listening :
            pending[fd] = "accept" /\ owner'[fd] # owner[fd]
              /\ conf'[fd] = conf[fd]
<1>1. SockInv /\ ConfInv /\ [Next]_vars => [Own]_vars
  <2> SUFFICES ASSUME SockInv, ConfInv, [Next]_vars,
                      NEW new \in (tlsSet' \ listening') \ tlsSet,
                      ~reset, owner'[new] = NoCtx
               PROVE  \E fd \in listening :
                        pending[fd] = "accept" /\ owner'[fd] # owner[fd]
                          /\ conf'[fd] = conf[fd]
    OBVIOUS
  <2> USE DEF SockInv, Typed, SockTypes, sockVars, confVars, loopVars
  <2>1. ASSUME NEW fd \in Fd, NEW e \in Fd, NEW n \in Conf, AcceptTakes(fd, e, n)
        PROVE  \E gd \in listening :
                 pending[gd] = "accept" /\ owner'[gd] # owner[gd]
                   /\ conf'[gd] = conf[gd]
    <3>1. /\ pending[fd] = "accept" /\ fd \in tlsSet /\ owner[fd] # NoCtx
          /\ owner'[fd] = NoCtx /\ new = e /\ conf'[fd] = n
          /\ n \in live /\ confId[n] = request[fd]
      BY <2>1 DEF AcceptTakes, Opened, Answers, Locked, Answer, Detach, Named
    <3>2. fd \in listening
      BY <3>1 DEF ConfInv, AcceptsListen
    <3>3. conf[fd] \in Conf /\ confId[n] = confId[conf[fd]] /\ confId[n] # 0
      BY <3>1, <3>2 DEF ConfInv, RequestsNamed, Numbered, ConfTypes
    <3>4. n = conf[fd]
      BY <3>1, <3>3 DEF Numbered, ConfTypes
    <3> QED  BY <3>1, <3>2, <3>4
  <2>2. CASE Script
    <3> PICK c \in Ctx :
        \/ Import(c) \/ ConfFails(c) \/ End(c)
        \/ \E k \in Ctx : Kill(k, c)
        \/ \E n \in Conf : ConfNew(c, n) \/ ConfFree(c, n)
        \/ \E fd \in Fd :
             \/ Listen(c, fd) \/ ConnectRaces(c, fd) \/ Handshake(c, fd)
             \/ Recv(c, fd) \/ Send(c, fd) \/ SendAtOnce(c, fd) \/ Close(c, fd)
             \/ Connect(c, fd) \/ \E n \in Conf : Accept(c, fd, n)
      BY <2>2 DEF Script
    <3>1. CASE \/ Import(c) \/ ConfFails(c) \/ End(c)
               \/ \E n \in Conf : ConfNew(c, n) \/ ConfFree(c, n)
      BY <3>1, ConfCall
    <3>2. CASE \E k \in Ctx : Kill(k, c)
      BY <3>2 DEF Kill
    <3>3. ASSUME NEW fd \in Fd, Listen(c, fd) PROVE FALSE
      BY <3>3 DEF Listen, Opened
    <3>4. ASSUME NEW fd \in Fd,
                 \/ ConnectRaces(c, fd) \/ Handshake(c, fd) \/ Recv(c, fd)
                 \/ Send(c, fd) \/ SendAtOnce(c, fd) \/ Close(c, fd)
          PROVE  FALSE
      BY <3>4 DEF ConnectRaces, Abort, Handshake, Recv, Send, SendAtOnce, Close,
                  Remove
    <3>5. ASSUME NEW fd \in Fd, NEW n \in Conf, Accept(c, fd, n) PROVE FALSE
      BY <3>5 DEF Accept
    <3>6. ASSUME NEW fd \in Fd, Connect(c, fd) PROVE FALSE
      BY <3>6, ConstAssumption DEF Connect, Opened, Suspend
    <3> QED  BY <3>1, <3>2, <3>3, <3>4, <3>5, <3>6
  <2>3. ASSUME NEW fd \in Fd, Fire(fd) \/ FireTimeout(fd)
        PROVE  tlsSet' = tlsSet
    BY <2>3 DEF Fire, FireTimeout, Call
  <2>4. ASSUME NEW fd \in Fd, Handler(fd),
               ~ \E e \in Fd, n \in Conf : AcceptTakes(fd, e, n)
        PROVE  tlsSet' \subseteq tlsSet
    BY <2>4, HandlerCases
    DEF AcceptAgain, ConnectAgain, HandshakeAgain, SendAgain, RecvAgain, Again,
        Answering, AcceptEnds, AcceptTimesOut, ConnectEnds, HandshakeEnds,
        SendEnds, RecvEnds, TimesOut, ConnectFails, FinishRemoved, Remove,
        HandlerAborts, Abort
  <2>5. StaleAborts => UNCHANGED tlsSet
    BY DEF StaleAborts, Abort
  <2> QED  BY <2>1, <2>2, <2>3, <2>4, <2>5 DEF Next, vars
<1> QED  BY <1>1, ConfAlways, PTL DEF Spec, AcceptUsesItsConf

=============================================================================
