----------------------------- MODULE TcpSocket ------------------------------
(***************************************************************************)
(* The TCP sockets that the coroutines of a Melang process share           *)
(* (src/lib_src/network).  A call that has to wait marks its direction of  *)
(* the socket busy, arms the event loop and suspends the coroutine; the    *)
(* handler that the event loop runs later clears the mark and wakes it.    *)
(* Meanwhile other coroutines may shut the socket down, close it, or kill  *)
(* the one that waits.                                                     *)
(*                                                                         *)
(* A handler takes the mutex of the mln_lang_t only after it was called:   *)
(* with one thread nothing happens in between, with several (-t=N) the     *)
(* coroutines go on, so that calling a handler is a step of its own.       *)
(* Whether there are several, and whether memory may run out, is fixed at  *)
(* the start.                                                              *)
(***************************************************************************)
EXTENDS Integers

CONSTANTS
  Ctx,           \* coroutines (mln_lang_ctx_t)
  NoCtx,         \* null pointer
  Fd,            \* file descriptors
  MaxRetry,      \* MLN_LANG_NETWORK_TCP_CONNECT_RETRY
  Options        \* the pairs (threads, lowmem) to start with

ASSUME ConstAssumption ==
  /\ NoCtx \notin Ctx
  /\ MaxRetry \in Nat
  /\ Options \subseteq BOOLEAN \X BOOLEAN

VARIABLES
  threads,  \* whether several threads run the event loop (-t=N)
  lowmem,   \* whether the library may run out of memory
  status,   \* "run", "wait" or "end"
  tcpSet,   \* the descriptors that have an mln_lang_tcp_t
  busy,     \* those with tcp->sending and those with tcp->recving set
  closed,   \* those with tcp->send_closed and those with tcp->recv_closed set
  owner,    \* tcp->ctx: the coroutine suspended on the socket
  retry,    \* tcp->retry
  event,    \* the handler the event loop will call, "none" if none
  timed,    \* whether it has a timeout handler too
  pending,  \* the handler called that has not yet got the mutex
  stale,    \* whether a thread still has a handler of a freed socket whose
            \* descriptor was given again
  fault     \* "none", or the place where the process aborted

options == <<threads, lowmem>>
sockVars == <<busy, closed, retry>>
loopVars == <<event, timed, pending, stale>>
vars == <<options, status, tcpSet, sockVars, owner, loopVars, fault>>

Dir == {"send", "recv"}
Other(d) == IF d = "send" THEN "recv" ELSE "send"

Init ==
  /\ \E o \in Options : threads = o[1] /\ lowmem = o[2]
  /\ status = [c \in Ctx |-> "run"]
  /\ tcpSet = {}
  /\ busy = [d \in Dir |-> {}]
  /\ closed = [d \in Dir |-> {}]
  /\ owner = [fd \in Fd |-> NoCtx]
  /\ retry = [fd \in Fd |-> 0]
  /\ event = [fd \in Fd |-> "none"]
  /\ timed = [fd \in Fd |-> FALSE]
  /\ pending = [fd \in Fd |-> "none"]
  /\ stale = FALSE
  /\ fault = "none"

-----------------------------------------------------------------------------
(* With one thread a handler runs to its end before anything else.         *)
Idle == fault = "none" /\ (threads \/ \A fd \in Fd : pending[fd] = "none")
Running(c) == Idle /\ status[c] = "run"

(* The process aborts at the use of a null or freed pointer.               *)
Abort(where) ==
  /\ fault' = where
  /\ UNCHANGED <<status, tcpSet, sockVars, owner, loopVars>>

(* The coroutine suspended on the socket, if any, is continued and the     *)
(* event is cleared.                                                       *)
Detach(fd) ==
  /\ status' = [c \in Ctx |-> IF c = owner[fd] THEN "run" ELSE status[c]]
  /\ owner' = [owner EXCEPT ![fd] = NoCtx]
  /\ event' = [event EXCEPT ![fd] = "none"]

(* The handler has finished.                                               *)
Done(fd) == pending' = [pending EXCEPT ![fd] = "none"]

(* mln_lang_network_tcp_resource_remove and mln_lang_tcp_free              *)
Remove(fd) ==
  /\ Detach(fd)
  /\ tcpSet' = tcpSet \ {fd}
  /\ busy' = [d \in Dir |-> busy[d] \ {fd}]
  /\ closed' = [d \in Dir |-> closed[d] \ {fd}]
  /\ retry' = [retry EXCEPT ![fd] = 0]

-----------------------------------------------------------------------------
(* Calls of the scripts.  A call that the socket does not allow returns    *)
(* false or nil at once and changes nothing.                               *)

(* The system gives the number of no open descriptor.                      *)
Fresh(fd) == fd \notin tcpSet

(* Another thread may still have a handler of the socket that was freed,   *)
(* or arm its event again: what is opened has none of its own.             *)
Opened(fd) ==
  /\ tcpSet' = tcpSet \cup {fd}
  /\ stale' = (stale \/ pending[fd] # "none")

Listen(c, fd) ==
  /\ Running(c)
  /\ Fresh(fd)
  /\ Opened(fd)
  /\ Done(fd)
  /\ UNCHANGED <<status, sockVars, owner, event, timed, fault>>

(* A defective test, blind to a send in progress.                          *)
NotRecving(fd) == fd \notin busy["recv"]

(* if (tcp->recving || tcp->sending) ... "Socket used in other script      *)
(* task."                                                                  *)
Unused(fd) == fd \notin busy["recv"] \cup busy["send"]

(* The coroutine waits for handler, in direction d.                        *)
Suspend(c, fd, d, handler, timeout) ==
  /\ busy' = [busy EXCEPT ![d] = @ \cup {fd}]
  /\ event' = [event EXCEPT ![fd] = handler]
  /\ timed' = [timed EXCEPT ![fd] = timeout]
  /\ owner' = [owner EXCEPT ![fd] = c]
  /\ status' = [status EXCEPT ![c] = "wait"]
  /\ UNCHANGED <<closed, retry, fault>>

Connect(c, fd, timeout) ==
  /\ Running(c)
  /\ Fresh(fd)
  /\ Opened(fd)
  /\ Done(fd)
  /\ Suspend(c, fd, "send", "connect", timeout)

(* The event is armed before tcp->ctx is set, and the handler of another   *)
(* thread reads tcp->ctx before it asks for the mutex.                     *)
ConnectRaces(c, fd) ==
  /\ threads
  /\ Running(c)
  /\ Fresh(fd)
  /\ Abort("connect")

Accept(c, fd, timeout) ==
  /\ Running(c)
  /\ fd \in tcpSet /\ Unused(fd) /\ fd \notin closed["recv"]
  /\ Suspend(c, fd, "recv", "accept", timeout)
  /\ UNCHANGED <<tcpSet, pending, stale>>

Recv(c, fd, timeout) ==
  /\ Running(c)
  /\ fd \in tcpSet /\ Unused(fd) /\ fd \notin closed["recv"]
  /\ Suspend(c, fd, "recv", "recv", timeout)
  /\ UNCHANGED <<tcpSet, pending, stale>>

Send(c, fd) ==
  /\ Running(c)
  /\ fd \in tcpSet /\ Unused(fd) /\ fd \notin closed["send"]
  /\ Suspend(c, fd, "send", "send", FALSE)
  /\ UNCHANGED <<tcpSet, pending, stale>>

Close(c, fd) ==
  /\ Running(c)
  /\ fd \in tcpSet
  /\ Remove(fd)
  /\ UNCHANGED <<timed, pending, stale, fault>>

(* A defective test, of the wrong direction.                               *)
ClosedTwice(fd, d) == fd \in closed[d]

(* The shutdown of the second direction frees the socket.                  *)
LastDirection(fd, d) == fd \in closed[Other(d)]

Shutdown(c, fd) == Running(c) /\ fd \in tcpSet

ShutdownFrees(c, fd, d) ==
  /\ Shutdown(c, fd)
  /\ LastDirection(fd, d)
  /\ Remove(fd)
  /\ UNCHANGED <<timed, pending, stale, fault>>

(* The code foresees a socket busy in both directions: it would go on with *)
(* the other one.                                                          *)
ShutdownMarks(c, fd, d) ==
  /\ Shutdown(c, fd)
  /\ ~LastDirection(fd, d)
  /\ fd \in busy[d] => fd \in busy[Other(d)]
  /\ closed' = [closed EXCEPT ![d] = @ \cup {fd}]
  /\ busy' = [busy EXCEPT ![d] = @ \ {fd}]
  /\ event' = IF fd \in busy[d] THEN [event EXCEPT ![fd] = Other(d)] ELSE event
  /\ UNCHANGED <<status, tcpSet, owner, retry, timed, pending, stale, fault>>

(* The coroutine that uses the direction is woken; the mark stays.         *)
ShutdownWakes(c, fd, d) ==
  /\ Shutdown(c, fd)
  /\ ~LastDirection(fd, d)
  /\ fd \in busy[d] /\ fd \notin busy[Other(d)]
  /\ owner[fd] # NoCtx
  /\ Detach(fd)
  /\ UNCHANGED <<tcpSet, sockVars, timed, pending, stale, fault>>

(* Nobody is suspended on a socket marked busy: tcp->ctx is null.          *)
ShutdownAborts(c, fd, d) ==
  /\ Shutdown(c, fd)
  /\ ~LastDirection(fd, d)
  /\ fd \in busy[d] /\ fd \notin busy[Other(d)]
  /\ owner[fd] = NoCtx
  /\ Abort("shutdown")

-----------------------------------------------------------------------------
(* The end of a coroutine frees its mln_lang_ctx_tcp_t.                    *)

End(c) ==
  /\ Running(c)
  /\ status' = [status EXCEPT ![c] = "end"]
  /\ UNCHANGED <<tcpSet, sockVars, owner, loopVars, fault>>

(* A defective mln_lang_ctx_tcp_free, which leaves the events armed.       *)
StillArmed(c) == event

(* mln_lang_ctx_tcp_free clears the events of the coroutine's sockets.     *)
Disarmed(c) == [fd \in Fd |-> IF owner[fd] = c THEN "none" ELSE event[fd]]

Kill(k, c) ==
  /\ Running(k) /\ k # c
  /\ status[c] # "end"
  /\ status' = [status EXCEPT ![c] = "end"]
  /\ event' = Disarmed(c)
  /\ owner' = [fd \in Fd |-> IF owner[fd] = c THEN NoCtx ELSE owner[fd]]
  /\ UNCHANGED <<tcpSet, sockVars, timed, pending, stale, fault>>

-----------------------------------------------------------------------------
(* The event loop calls a handler.                                         *)

Call(fd, handler) ==
  /\ Idle
  /\ event[fd] # "none" /\ pending[fd] = "none"
  /\ event' = [event EXCEPT ![fd] = "none"]
  /\ pending' = [pending EXCEPT ![fd] = handler]
  /\ UNCHANGED <<status, tcpSet, sockVars, owner, timed, stale, fault>>

Fire(fd) == Call(fd, event[fd])

FireTimeout(fd) ==
  /\ timed[fd]
  /\ Call(fd, IF event[fd] = "connect" THEN "connect_timeout" ELSE "timeout")

(* The handler gets the mutex; it uses tcp, and tcp->ctx when it answers.  *)
Locked(fd, handler) ==
  fault = "none" /\ pending[fd] = handler /\ fd \in tcpSet
Answers(fd, handler) == Locked(fd, handler) /\ owner[fd] # NoCtx

(* The socket is gone, or nobody waits for the answer.               *)
HandlerAborts(fd) ==
  /\ fault = "none"
  /\ pending[fd] \notin {"none", "rearm_send", "rearm_recv"}
  /\ fd \notin tcpSet \/ owner[fd] = NoCtx
  /\ Abort("handler")

(* The descriptor was given again since: the handler, or the one that is   *)
(* armed again, uses the socket that was freed.                            *)
StaleAborts ==
  /\ fault = "none"
  /\ stale
  /\ Abort("handler")

(* The answer is given: the direction is free and the coroutine runs.      *)
Answer(fd, d) ==
  /\ Detach(fd)
  /\ busy' = [busy EXCEPT ![d] = @ \ {fd}]
  /\ UNCHANGED <<closed, retry, timed, fault>>

Finish(fd, d) ==
  /\ Answer(fd, d)
  /\ Done(fd)
  /\ UNCHANGED <<tcpSet, stale>>

(* The socket goes with the answer.                                        *)
FinishRemoved(fd) ==
  /\ Remove(fd)
  /\ Done(fd)
  /\ UNCHANGED <<timed, stale, fault>>

(* The handler arms the event again before it lets go of the mutex.        *)
Again(fd, handler) ==
  /\ event' = [event EXCEPT ![fd] = handler]
  /\ Done(fd)
  /\ UNCHANGED <<status, tcpSet, busy, closed, owner, timed, stale, fault>>

(* Or after it did.                                                        *)
AgainLater(fd, what) ==
  /\ pending' = [pending EXCEPT ![fd] = what]
  /\ UNCHANGED <<status, tcpSet, sockVars, owner, event, timed, stale, fault>>

(* mln_lang_network_tcp_connect_handler: connected, or getsockopt failed.  *)
ConnectEnds(fd) ==
  /\ Answers(fd, "connect")
  /\ Finish(fd, "send")

(* Two defective retries: one is not counted, one is too many.             *)
SameRetry(fd) == retry[fd]
OneMoreRetry(fd) == retry[fd] <= MaxRetry

NextRetry(fd) == retry[fd] + 1
MayRetry(fd) == retry[fd] < MaxRetry

ConnectRetries(fd) ==
  /\ Answers(fd, "connect")
  /\ MayRetry(fd)
  /\ retry' = [retry EXCEPT ![fd] = NextRetry(fd)]
  /\ Again(fd, "connect")

ConnectFails(fd) ==
  /\ Answers(fd, "connect")
  /\ FinishRemoved(fd)

ConnectTimesOut(fd) ==
  /\ Answers(fd, "connect_timeout")
  /\ FinishRemoved(fd)

AcceptEnds(fd) ==
  /\ Answers(fd, "accept")
  /\ Finish(fd, "recv")

AcceptTakes(fd, new) ==
  /\ Answers(fd, "accept")
  /\ Fresh(new)
  /\ Opened(new)
  /\ Answer(fd, "recv")
  /\ pending' = [pending EXCEPT ![fd] = "none", ![new] = "none"]

AcceptInterrupted(fd) ==
  /\ Locked(fd, "accept")
  /\ Again(fd, "accept")
  /\ UNCHANGED retry

(* mln_lang_network_tcp_recv_handler: data, or the end of the stream.      *)
RecvEnds(fd) ==
  /\ Answers(fd, "recv") \/ Answers(fd, "recv_unlocked")
  /\ Finish(fd, "recv")

(* An error: the handler lets go of the mutex and goes on.                 *)
RecvErrs(fd) ==
  /\ Locked(fd, "recv")
  /\ AgainLater(fd, "recv_unlocked")

(* No memory for the answer: the event is armed again, without timeout.    *)
RecvRetries(fd) ==
  /\ lowmem
  /\ Answers(fd, "recv")
  /\ AgainLater(fd, "rearm_recv")

SendEnds(fd) ==
  /\ Answers(fd, "send")
  /\ Finish(fd, "send")

SendContinues(fd) ==
  /\ Locked(fd, "send")
  /\ AgainLater(fd, "rearm_send")

(* The mutex is free: the socket may be gone, and the event loop refuses   *)
(* a descriptor that is closed.                                            *)
Rearm(fd) ==
  /\ fault = "none"
  /\ pending[fd] \in {"rearm_send", "rearm_recv"}
  /\ event' = [event EXCEPT ![fd] =
                 IF fd \notin tcpSet THEN @
                 ELSE IF pending[fd] = "rearm_send" THEN "send" ELSE "recv"]
  /\ timed' = [timed EXCEPT ![fd] = FALSE]
  /\ Done(fd)
  /\ UNCHANGED <<status, tcpSet, sockVars, owner, stale, fault>>

(* mln_lang_network_tcp_timeout_handler                                    *)
TimesOut(fd) ==
  /\ Answers(fd, "timeout")
  /\ Finish(fd, "recv")

-----------------------------------------------------------------------------
Script ==
  \E c \in Ctx :
    \/ End(c)
    \/ \E k \in Ctx : Kill(k, c)
    \/ \E fd \in Fd :
         \/ Listen(c, fd) \/ ConnectRaces(c, fd) \/ Send(c, fd) \/ Close(c, fd)
         \/ \E timeout \in BOOLEAN :
              Connect(c, fd, timeout) \/ Accept(c, fd, timeout)
                \/ Recv(c, fd, timeout)
         \/ \E d \in Dir :
              ShutdownFrees(c, fd, d) \/ ShutdownMarks(c, fd, d)
                \/ ShutdownWakes(c, fd, d) \/ ShutdownAborts(c, fd, d)

Handler(fd) ==
  \/ ConnectEnds(fd) \/ ConnectRetries(fd) \/ ConnectFails(fd)
  \/ ConnectTimesOut(fd) \/ AcceptEnds(fd) \/ AcceptInterrupted(fd)
  \/ \E new \in Fd : AcceptTakes(fd, new)
  \/ RecvEnds(fd) \/ RecvErrs(fd) \/ RecvRetries(fd)
  \/ SendEnds(fd) \/ SendContinues(fd) \/ Rearm(fd)
  \/ TimesOut(fd) \/ HandlerAborts(fd)

Next ==
  /\ \/ Script
     \/ \E fd \in Fd : Fire(fd) \/ FireTimeout(fd) \/ Handler(fd)
     \/ StaleAborts
  /\ UNCHANGED options

Spec == Init /\ [][Next]_vars

(* A thread that runs a handler gets the mutex.  An event armed with a     *)
(* timeout does not stay armed: its data or its timeout comes.  (Which of  *)
(* the two is open: each retry arms the timeout afresh.)                   *)
FairSpec ==
  Spec /\ \A fd \in Fd :
            /\ WF_vars(Handler(fd) /\ UNCHANGED options)
            /\ SF_vars(timed[fd] /\ (Fire(fd) \/ FireTimeout(fd))
                             /\ UNCHANGED options)

-----------------------------------------------------------------------------
(* Types of the variables.                                                 *)
Handlers == {"none", "connect", "accept", "recv", "send"}
SockTypes ==
  /\ status \in [Ctx -> {"run", "wait", "end"}]
  /\ tcpSet \subseteq Fd
  /\ busy \in [Dir -> SUBSET Fd]
  /\ closed \in [Dir -> SUBSET Fd]
  /\ owner \in [Fd -> Ctx \cup {NoCtx}]
  /\ retry \in [Fd -> 0 .. MaxRetry]
  /\ event \in [Fd -> Handlers]
  /\ timed \in [Fd -> BOOLEAN]
  /\ pending \in [Fd -> Handlers \cup {"connect_timeout", "timeout",
                          "recv_unlocked", "rearm_send", "rearm_recv"}]
  /\ fault \in {"none", "shutdown", "handler", "connect"}
TypeOK == SockTypes /\ options \in BOOLEAN \X BOOLEAN /\ stale \in BOOLEAN

(* The coroutine a socket points to is suspended on that socket alone, and *)
(* the socket is open and marked busy in one direction; no socket is ever  *)
(* marked busy in both (so that the code which foresees it is dead).       *)
UsersAgree ==
  /\ busy["send"] \cap busy["recv"] = {}
  /\ \A fd \in Fd : owner[fd] # NoCtx =>
       /\ fd \in tcpSet
       /\ fd \in busy["send"] \cup busy["recv"]
       /\ status[owner[fd]] = "wait"
  /\ \A fd, gd \in Fd : owner[fd] = owner[gd] => fd = gd \/ owner[fd] = NoCtx

(* A suspended coroutine can be woken: the socket it waits for points to   *)
(* it and has an event armed or a handler on its way, through retries,     *)
(* partial sends, interruptions and what other coroutines do.              *)
WaitersWakeable ==
  \A c \in Ctx : status[c] = "wait" =>
    \E fd \in Fd : /\ owner[fd] = c
                   /\ event[fd] # "none" \/ pending[fd] # "none"

(* With one thread, a handler finds its socket open, somebody waiting, and *)
(* the mark of its direction: shutdown, close and kill leave no event      *)
(* behind.                                                                 *)
Direction(handler) ==
  IF handler \in {"connect", "connect_timeout", "send", "rearm_send"}
  THEN "send" ELSE "recv"
ArmedIsUsed ==
  ~threads =>
    \A fd \in Fd : \A h \in {event[fd], pending[fd]} \ {"none"} :
      owner[fd] # NoCtx /\ fd \in busy[Direction(h)]
HandlersFindUser == ~threads => fault # "handler"

(* ASSERT(!tcp->sending) of the timeout handler and ASSERT(!tcp->recving)  *)
(* of the one for connect hold, with any number of threads.                *)
AssertsHold ==
  \A fd \in Fd : /\ pending[fd] = "timeout" => fd \notin busy["send"]
                 /\ pending[fd] = "connect_timeout" => fd \notin busy["recv"]

(* Whoever waits is served: users, marks and armed events agree, every     *)
(* suspended coroutine can be woken, and the assertions hold.              *)
WaitersServed == UsersAgree /\ WaitersWakeable /\ ArmedIsUsed /\ AssertsHold

(* A socket shut down in both directions is freed.                         *)
HalfClosed == closed["send"] \cap closed["recv"] = {}

(* A tcp_connect or tcp_recv with a timeout ends, also when the connection *)
(* attempt is retried, unless memory runs out or the process aborts.       *)
TimedCallsEnd ==
  \A fd \in Fd :
    ~lowmem /\ timed[fd] /\ event[fd] \in {"connect", "recv"}
      ~> owner[fd] = NoCtx \/ fault # "none"

-----------------------------------------------------------------------------
(* What the documents and messages say, and the code does not do.          *)

(* tcp_shutdown returns nil: it does not abort.                            *)
ShutdownReturns == fault # "shutdown"

=============================================================================
