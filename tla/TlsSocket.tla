----------------------------- MODULE TlsSocket ------------------------------
(***************************************************************************)
(* The TLS sockets that the coroutines of a Melang process share           *)
(* (src/lib_src/tls), which use the certificate configurations of TlsConf. *)
(* A call that has to wait marks the socket, arms the event loop and       *)
(* suspends the coroutine, as in TcpSocket; but here the end or kill of a  *)
(* coroutine clears the marks, closing a socket wakes whoever waits on it, *)
(* an accept carries a request (the listening socket and the number of a   *)
(* configuration) to its handler, and a send leaves its data in a queue of *)
(* the connection until it is written.                                     *)
(*                                                                         *)
(* A handler of handshake, send and receive works on the connection before *)
(* it takes the mutex of the mln_lang_t, the others take it first: in      *)
(* either case calling a handler and its end under the mutex are two       *)
(* steps, with nothing in between when there is one thread.                *)
(***************************************************************************)
EXTENDS TlsConf

CONSTANTS
  Ctx,           \* coroutines (mln_lang_ctx_t)
  NoCtx,         \* null pointer
  Fd,            \* file descriptors
  MaxRetry,      \* MLN_LANG_TLS_CONNECT_RETRY
  Options        \* the pairs (threads, lowmem) to start with

ASSUME ConstAssumption ==
  /\ NoCtx \notin Ctx
  /\ MaxRetry \in Nat
  /\ Options \subseteq BOOLEAN \X BOOLEAN

VARIABLES
  threads,  \* whether several threads run the event loop (-t=N)
  lowmem,   \* whether the library may run out of memory
  status,   \* "run", "wait" or "end"
  tlsSet,   \* the descriptors in the tree "tls"
  listening,\* those with lt->is_listen
  busy,     \* those with lt->sending and those with lt->recving set
  owner,    \* lt->ctx: the coroutine suspended on the socket
  retry,    \* lt->retry
  request,  \* lt->accept_req: the number of the configuration it names
  conf,     \* history, of a listening socket: the configuration that its
            \* last accept was called with, then the one its answer used
  unsent,   \* the coroutines whose data is in the queue M_C_SEND
  event,    \* the handler the event loop will call, "none" if none
  pending,  \* the handler called that has not finished yet
  stale,    \* whether a thread still has a handler of a freed request, or
            \* of a freed socket whose descriptor was given again
  fault     \* "none", or the place where the process aborted

options == <<threads, lowmem>>
sockVars == <<tlsSet, listening, busy, owner, retry, request, conf, unsent>>
loopVars == <<event, pending, stale>>
vars == <<options, status, confVars, sockVars, loopVars, fault>>

Dir == {"send", "recv"}

Init ==
  /\ \E o \in Options : threads = o[1] /\ lowmem = o[2]
  /\ status = [c \in Ctx |-> "run"]
  /\ ConfInit
  /\ tlsSet = {}
  /\ listening = {}
  /\ busy = [d \in Dir |-> {}]
  /\ owner = [fd \in Fd |-> NoCtx]
  /\ retry = [fd \in Fd |-> 0]
  /\ request = [fd \in Fd |-> 0]
  /\ conf = [fd \in Fd |-> 0]
  /\ unsent = [fd \in Fd |-> {}]
  /\ event = [fd \in Fd |-> "none"]
  /\ pending = [fd \in Fd |-> "none"]
  /\ stale = FALSE
  /\ fault = "none"

-----------------------------------------------------------------------------
(* With one thread a handler runs to its end before anything else.         *)
Idle == fault = "none" /\ (threads \/ \A fd \in Fd : pending[fd] = "none")
Running(c) == Idle /\ status[c] = "run"

(* The process uses freed memory or a null pointer.                        *)
Abort(where) ==
  /\ fault' = where
  /\ UNCHANGED <<status, confVars, sockVars, loopVars>>

(* The coroutine suspended on the socket, if any, is continued, the event  *)
(* is cleared and the request of an accept freed.                          *)
Detach(fd) ==
  /\ status' = [c \in Ctx |-> IF c = owner[fd] THEN "run" ELSE status[c]]
  /\ owner' = [owner EXCEPT ![fd] = NoCtx]
  /\ request' = [request EXCEPT ![fd] = 0]
  /\ event' = [event EXCEPT ![fd] = "none"]

(* The handler has finished.                                               *)
Done(fd) == pending' = [pending EXCEPT ![fd] = "none"]

(* mln_lang_tls_resource_remove and mln_lang_tls_free                      *)
Remove(fd) ==
  /\ Detach(fd)
  /\ tlsSet' = tlsSet \ {fd}
  /\ listening' = listening \ {fd}
  /\ busy' = [d \in Dir |-> busy[d] \ {fd}]
  /\ retry' = [retry EXCEPT ![fd] = 0]
  /\ conf' = [conf EXCEPT ![fd] = 0]
  /\ unsent' = [unsent EXCEPT ![fd] = {}]

-----------------------------------------------------------------------------
(* Calls on configurations; one that fails for want of memory ends the     *)
(* script with an error.                                                   *)
Import(c) ==
  /\ Running(c)
  /\ Registered
  /\ UNCHANGED <<status, sockVars, loopVars, fault>>

ConfNew(c, n) ==
  /\ Running(c)
  /\ Made(n)
  /\ UNCHANGED <<status, sockVars, loopVars, fault>>

ConfFree(c, id) ==
  /\ Running(c)
  /\ Forgotten(id)
  /\ UNCHANGED <<status, sockVars, loopVars, fault>>

ConfFails(c) ==
  /\ lowmem
  /\ Running(c)
  /\ ImportLost(tlsSet) \/ NumberLost
  /\ status' = [status EXCEPT ![c] = "end"]
  /\ UNCHANGED <<sockVars, loopVars, fault>>

-----------------------------------------------------------------------------
(* Calls of the scripts.  A call that the socket does not allow, or that   *)
(* is answered at once, changes nothing.                                   *)

(* The system gives the number of no open descriptor.                      *)
Fresh(fd) == "tls" \in trees /\ fd \notin tlsSet

(* Another thread may still have a handler of the socket that was freed:   *)
(* what is opened has none of its own.                                     *)
Opened(fd) ==
  /\ tlsSet' = tlsSet \cup {fd}
  /\ stale' = (stale \/ pending[fd] # "none")

Listen(c, fd) ==
  /\ Running(c)
  /\ Fresh(fd)
  /\ Opened(fd)
  /\ Done(fd)
  /\ listening' = listening \cup {fd}
  /\ UNCHANGED <<status, confVars, busy, owner, retry, request, conf, unsent,
                 event, fault>>

(* The coroutine waits for handler, in direction d.                        *)
Suspend(c, fd, d, handler) ==
  /\ busy' = [busy EXCEPT ![d] = @ \cup {fd}]
  /\ event' = [event EXCEPT ![fd] = handler]
  /\ owner' = [owner EXCEPT ![fd] = c]
  /\ status' = [status EXCEPT ![c] = "wait"]
  /\ UNCHANGED <<confVars, listening, retry, fault>>

(* A defective test, which lets a second accept in.                        *)
NotSending(fd) == fd \notin busy["send"]

(* "Listen socket already accepting in another script task."               *)
NotAccepting(fd) == fd \notin busy["recv"]

Accept(c, fd, n) ==
  /\ Running(c)
  /\ fd \in listening
  /\ n \in live
  /\ NotAccepting(fd)
  /\ request' = [request EXCEPT ![fd] = confId[n]]
  /\ conf' = [conf EXCEPT ![fd] = n]
  /\ Suspend(c, fd, "recv", "accept")
  /\ UNCHANGED <<tlsSet, unsent, pending, stale>>

Connect(c, fd) ==
  /\ Running(c)
  /\ Fresh(fd)
  /\ live # {}
  /\ Opened(fd)
  /\ Done(fd)
  /\ Suspend(c, fd, "send", "connect")
  /\ UNCHANGED <<request, conf, unsent>>

(* The event is armed before connect(): when that fails the socket is      *)
(* freed, and another thread may already be in its handler.                *)
ConnectRaces(c, fd) ==
  /\ threads
  /\ Running(c)
  /\ Fresh(fd)
  /\ live # {}
  /\ Abort("connect")

(* A defective test, blind to a send in progress.                          *)
NotRecving(fd) == fd \in tlsSet \ listening /\ fd \notin busy["recv"]

(* "Socket busy in another script task."                                   *)
Usable(fd) ==
  fd \in tlsSet \ listening /\ fd \notin busy["send"] \cup busy["recv"]

Handshake(c, fd) ==
  /\ Running(c) /\ Usable(fd)
  /\ Suspend(c, fd, "recv", "handshake")
  /\ UNCHANGED <<tlsSet, request, conf, unsent, pending, stale>>

Recv(c, fd) ==
  /\ Running(c) /\ Usable(fd)
  /\ Suspend(c, fd, "recv", "recv")
  /\ UNCHANGED <<tlsSet, request, conf, unsent, pending, stale>>

Send(c, fd) ==
  /\ Running(c) /\ Usable(fd)
  /\ unsent' = [unsent EXCEPT ![fd] = @ \cup {c}]
  /\ Suspend(c, fd, "send", "send")
  /\ UNCHANGED <<tlsSet, request, conf, pending, stale>>

(* The first attempt writes everything, what a killed coroutine left in    *)
(* the queue included, or fails and drops it.                              *)
SendAtOnce(c, fd) ==
  /\ Running(c) /\ Usable(fd)
  /\ unsent' = [unsent EXCEPT ![fd] = {}]
  /\ UNCHANGED <<status, confVars, tlsSet, listening, busy, owner, retry,
                 request, conf, loopVars, fault>>

Close(c, fd) ==
  /\ Running(c)
  /\ fd \in tlsSet
  /\ Remove(fd)
  /\ UNCHANGED <<confVars, pending, stale, fault>>

-----------------------------------------------------------------------------
(* The end of a coroutine frees its mln_lang_ctx_tls_t.                    *)

End(c) ==
  /\ Running(c)
  /\ status' = [status EXCEPT ![c] = "end"]
  /\ UNCHANGED <<confVars, sockVars, loopVars, fault>>

(* mln_lang_ctx_tls_free disarms the sockets of the coroutine; their data  *)
(* stays queued, and the requests of its accepts are freed, which another  *)
(* thread may have passed to their handlers.                               *)
Freed(c) ==
  {fd \in Fd : owner[fd] = c /\ pending[fd] \in {"accept", "accept_timeout"}}

Disarmed(c) == [fd \in Fd |-> IF owner[fd] = c THEN "none" ELSE event[fd]]

Kill(k, c) ==
  /\ Running(k) /\ k # c
  /\ status[c] # "end"
  /\ status' = [status EXCEPT ![c] = "end"]
  /\ event' = Disarmed(c)
  /\ busy' = [d \in Dir |-> {fd \in busy[d] : owner[fd] # c}]
  /\ request' = [fd \in Fd |-> IF owner[fd] = c THEN 0 ELSE request[fd]]
  /\ owner' = [fd \in Fd |-> IF owner[fd] = c THEN NoCtx ELSE owner[fd]]
  /\ pending' = [fd \in Fd |-> IF fd \in Freed(c) THEN "none" ELSE pending[fd]]
  /\ stale' = (stale \/ Freed(c) # {})
  /\ UNCHANGED <<confVars, tlsSet, listening, retry, conf, unsent, fault>>

-----------------------------------------------------------------------------
(* The event loop calls a handler.                                         *)

Call(fd, handler) ==
  /\ Idle
  /\ event[fd] # "none" /\ pending[fd] = "none"
  /\ event' = [event EXCEPT ![fd] = "none"]
  /\ pending' = [pending EXCEPT ![fd] = handler]
  /\ UNCHANGED <<status, confVars, sockVars, stale, fault>>

Fire(fd) == Call(fd, event[fd])

TimeoutOf(handler) ==
  CASE handler = "accept"  -> "accept_timeout"
    [] handler = "connect" -> "connect_timeout"
    [] OTHER               -> "timeout"

FireTimeout(fd) == Call(fd, TimeoutOf(event[fd]))

(* The handler has the mutex; it uses lt, and lt->ctx when it answers.     *)
Locked(fd, handler) ==
  fault = "none" /\ pending[fd] = handler /\ fd \in tlsSet
Answers(fd, handler) == Locked(fd, handler) /\ owner[fd] # NoCtx

(* The socket is gone, or nobody waits for the answer.                     *)
HandlerAborts(fd) ==
  /\ fault = "none"
  /\ pending[fd] # "none"
  /\ fd \notin tlsSet \/ owner[fd] = NoCtx
  /\ Abort("handler")

(* The request was freed, or the descriptor was given again since: the     *)
(* handler uses what was freed.                                            *)
StaleAborts ==
  /\ fault = "none"
  /\ stale
  /\ Abort("handler")

(* The answer is given: the directions are free and the coroutine runs.    *)
Answer(fd, dirs) ==
  /\ Detach(fd)
  /\ busy' = [d \in Dir |-> IF d \in dirs THEN busy[d] \ {fd} ELSE busy[d]]
  /\ UNCHANGED <<confVars, retry, fault>>

Finish(fd, dirs) ==
  /\ Answer(fd, dirs)
  /\ Done(fd)
  /\ UNCHANGED stale

(* The socket goes with the answer.                                        *)
FinishRemoved(fd) ==
  /\ Remove(fd)
  /\ Done(fd)
  /\ UNCHANGED <<confVars, stale, fault>>

(* mln_lang_tls_rearm, still under the mutex                               *)
Again(fd, handler) ==
  /\ event' = [event EXCEPT ![fd] = handler]
  /\ Done(fd)
  /\ UNCHANGED <<status, confVars, tlsSet, listening, busy, owner, request,
                 conf, unsent, stale, fault>>

(* mln_lang_tls_accept_handler: accept() fails, the configuration is gone, *)
(* or the event cannot be armed again.                                     *)
AcceptEnds(fd) ==
  /\ Answers(fd, "accept")
  /\ Finish(fd, {"recv"})
  /\ UNCHANGED <<tlsSet, listening, conf, unsent>>

AcceptTakes(fd, new, n) ==
  /\ Answers(fd, "accept")
  /\ Fresh(new)
  /\ n \in Named(request[fd])
  /\ Opened(new)
  /\ conf' = [conf EXCEPT ![fd] = n]
  /\ Answer(fd, {"recv"})
  /\ pending' = [pending EXCEPT ![fd] = "none", ![new] = "none"]
  /\ UNCHANGED <<listening, unsent>>

AcceptAgain(fd) ==
  /\ Answers(fd, "accept")
  /\ Again(fd, "accept")
  /\ UNCHANGED retry

AcceptTimesOut(fd) ==
  /\ Answers(fd, "accept_timeout")
  /\ Finish(fd, {"recv"})
  /\ UNCHANGED <<tlsSet, listening, conf, unsent>>

ConnectEnds(fd) ==
  /\ Answers(fd, "connect")
  /\ Finish(fd, {"send"})
  /\ UNCHANGED <<tlsSet, listening, conf, unsent>>

(* A defective count, and one too many.                                    *)
SameRetry(fd) == retry[fd]
OneMoreRetry(fd) == retry[fd] <= MaxRetry

NextRetry(fd) == retry[fd] + 1
MayRetry(fd) == retry[fd] < MaxRetry

(* The coroutine may have been killed: the handler does not look at it.    *)
ConnectAgain(fd) ==
  /\ Locked(fd, "connect")
  /\ MayRetry(fd)
  /\ retry' = [retry EXCEPT ![fd] = NextRetry(fd)]
  /\ Again(fd, "connect")

ConnectFails(fd) ==
  /\ Answers(fd, "connect") \/ Answers(fd, "connect_timeout")
  /\ FinishRemoved(fd)

HandshakeEnds(fd) ==
  /\ Answers(fd, "handshake")
  /\ Finish(fd, {"recv"})
  /\ UNCHANGED <<tlsSet, listening, conf, unsent>>

HandshakeAgain(fd) ==
  /\ Locked(fd, "handshake")
  /\ Again(fd, "handshake")
  /\ UNCHANGED retry

(* Everything is written, or the rest is dropped.                          *)
SendEnds(fd) ==
  /\ Answers(fd, "send")
  /\ unsent' = [unsent EXCEPT ![fd] = {}]
  /\ Finish(fd, {"send"})
  /\ UNCHANGED <<tlsSet, listening, conf>>

SendAgain(fd) ==
  /\ Locked(fd, "send")
  /\ Again(fd, "send")
  /\ UNCHANGED retry

RecvEnds(fd) ==
  /\ Answers(fd, "recv")
  /\ Finish(fd, {"recv"})
  /\ UNCHANGED <<tlsSet, listening, conf, unsent>>

RecvAgain(fd) ==
  /\ Locked(fd, "recv")
  /\ Again(fd, "recv")
  /\ UNCHANGED retry

(* A defective timeout handler, which leaves the data queued.              *)
LeftQueued(fd) == unsent

(* mln_lang_tls_timeout_handler drops what is still to be sent.            *)
Dropped(fd) == [unsent EXCEPT ![fd] = {}]

TimesOut(fd) ==
  /\ Answers(fd, "timeout")
  /\ unsent' = Dropped(fd)
  /\ Finish(fd, Dir)
  /\ UNCHANGED <<tlsSet, listening, conf>>

-----------------------------------------------------------------------------
Script ==
  \E c \in Ctx :
    \/ Import(c) \/ ConfFails(c) \/ End(c)
    \/ \E k \in Ctx : Kill(k, c)
    \/ \E n \in Conf : ConfNew(c, n) \/ ConfFree(c, n)
    \/ \E fd \in Fd :
         \/ Listen(c, fd) \/ Connect(c, fd) \/ ConnectRaces(c, fd)
         \/ Handshake(c, fd)
         \/ Recv(c, fd) \/ Send(c, fd) \/ SendAtOnce(c, fd) \/ Close(c, fd)
         \/ \E n \in Conf : Accept(c, fd, n)

Handler(fd) ==
  \/ AcceptEnds(fd) \/ AcceptAgain(fd) \/ AcceptTimesOut(fd)
  \/ \E new \in Fd, n \in Conf : AcceptTakes(fd, new, n)
  \/ ConnectEnds(fd) \/ ConnectAgain(fd) \/ ConnectFails(fd)
  \/ HandshakeEnds(fd) \/ HandshakeAgain(fd)
  \/ SendEnds(fd) \/ SendAgain(fd) \/ RecvEnds(fd) \/ RecvAgain(fd)
  \/ TimesOut(fd) \/ HandlerAborts(fd)

Next ==
  /\ \/ Script
     \/ \E fd \in Fd : Fire(fd) \/ FireTimeout(fd) \/ Handler(fd)
     \/ StaleAborts
  /\ UNCHANGED options

Spec == Init /\ [][Next]_vars

(* A thread that runs a handler gets the mutex.  The system reports a      *)
(* connection attempt sooner or later.                                     *)
FairSpec ==
  Spec /\ \A fd \in Fd :
            /\ WF_vars(pending[fd] # "none" /\ Handler(fd) /\ UNCHANGED options)
            /\ SF_vars(event[fd] = "connect" /\ Fire(fd) /\ UNCHANGED options)

-----------------------------------------------------------------------------
(* Types of the variables.                                                 *)
Handlers == {"none", "accept", "connect", "handshake", "send", "recv"}
SockTypes ==
  /\ tlsSet \subseteq Fd
  /\ listening \subseteq tlsSet
  /\ busy \in [Dir -> SUBSET Fd]
  /\ owner \in [Fd -> Ctx \cup {NoCtx}]
  /\ retry \in [Fd -> 0 .. MaxRetry]
  /\ request \in [Fd -> Nat]
  /\ conf \in [Fd -> 0 .. MaxConf]
  /\ unsent \in [Fd -> SUBSET Ctx]
  /\ event \in [Fd -> Handlers]
  /\ pending \in [Fd -> Handlers \cup
                          {"accept_timeout", "connect_timeout", "timeout"}]
TypeOK ==
  /\ threads \in BOOLEAN /\ lowmem \in BOOLEAN /\ stale \in BOOLEAN
  /\ status \in [Ctx -> {"run", "wait", "end"}]
  /\ fault \in {"none", "handler", "connect"}
  /\ ConfTypes
  /\ SockTypes

(* What knows of a suspended coroutine agrees: the one socket that points  *)
(* to it is open, marked, and has an event armed or a handler on its way;  *)
(* a listening socket holds the request of an accept exactly while         *)
(* somebody waits on it (the request is freed once, by the handler, the    *)
(* timeout, the close or the end of the coroutine).                        *)
UsersAgree ==
  /\ \A fd \in Fd : owner[fd] # NoCtx =>
       /\ fd \in tlsSet
       /\ fd \in busy["send"] \cup busy["recv"]
       /\ status[owner[fd]] = "wait"
       /\ event[fd] # "none" \/ pending[fd] # "none"
  /\ \A fd, gd \in Fd : owner[fd] = owner[gd] => fd = gd \/ owner[fd] = NoCtx
  /\ \A fd \in Fd :
       request[fd] # 0 <=> fd \in listening /\ owner[fd] # NoCtx
WaitersWakeable ==
  \A c \in Ctx : status[c] = "wait" => \E fd \in Fd : owner[fd] = c
(* With one thread no handler finds its socket freed or nobody waiting:    *)
(* close, kill and timeouts leave no event behind.                         *)
HandlersFindUser == ~threads => fault = "none"

(* Whoever waits is served: users, marks, events and requests agree, every *)
(* suspended coroutine can be woken, and its handler finds it.             *)
WaitersServed == UsersAgree /\ WaitersWakeable /\ HandlersFindUser

(* With one thread the queue of a connection holds only the data of the    *)
(* send in progress, and what killed coroutines left: no later send        *)
(* carries the rest of one that failed or timed out.                       *)
CleanQueue ==
  ~threads =>
    \A fd \in Fd : \A c \in unsent[fd] :
      status[c] = "end" \/ (owner[fd] = c /\ fd \in busy["send"])

(* A connection is accepted with the very configuration that the accept    *)
(* was called with, although that is named by its number and looked up     *)
(* again when the connection comes (as long as no failed Import has taken  *)
(* away the counter after it had given a number).                          *)
AcceptUsesItsConf ==
  [][\A new \in (tlsSet' \ listening') \ tlsSet :
       ~reset /\ owner'[new] = NoCtx =>
         \E fd \in listening :
           pending[fd] = "accept" /\ owner'[fd] # owner[fd]
             /\ conf'[fd] = conf[fd]]_vars

(* tls.connect ends, also when the attempt is retried.                     *)
ConnectReturns ==
  \A fd \in Fd :
    event[fd] = "connect" ~> owner[fd] = NoCtx \/ fault # "none"

=============================================================================
