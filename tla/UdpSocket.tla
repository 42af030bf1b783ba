----------------------------- MODULE UdpSocket ------------------------------
(***************************************************************************)
(* The UDP sockets that the coroutines of a Melang process share           *)
(* (src/lib_src/network).  As for TCP a call marks the socket, arms the    *)
(* event loop and suspends the coroutine.  The differences: one coroutine  *)
(* at a time uses the whole socket, which keeps a copy of the data to send *)
(* until the handler has sent it; every handler reads udp->ctx before it   *)
(* asks for the mutex; closing the socket wakes its user, and killing the  *)
(* user leaves marks and data behind.                                      *)
(*                                                                         *)
(* Every coroutine here has imported the library once.                     *)
(***************************************************************************)
EXTENDS Integers

CONSTANTS
  Ctx,           \* coroutines (mln_lang_ctx_t)
  NoCtx,         \* null pointer
  Fd             \* file descriptors

ASSUME ConstAssumption == NoCtx \notin Ctx

VARIABLES
  threads,  \* whether several threads run the event loop (-t=N)
  lowmem,   \* whether the library may run out of memory
  status,   \* "run", "wait" or "end"
  trees,    \* whether the lang resources of the library exist
  udpSet,   \* the descriptors that have an mln_lang_udp_t
  busy,     \* those with udp->sending and those with udp->recving set
  data,     \* those with udp->data set
  owner,    \* udp->ctx: the coroutine suspended on the socket
  event,    \* the handler the event loop will call, "none" if none
  timed,    \* whether it has a timeout handler too
  pending,  \* the handler called that has not yet got the mutex
  stale,    \* whether a thread still has a handler of a freed socket whose
            \* descriptor was given again
  fault     \* "none", or why the process aborted

options == <<threads, lowmem>>
loopVars == <<event, timed, pending, stale>>
vars == <<options, status, trees, udpSet, busy, data, owner, loopVars, fault>>

Dir == {"send", "recv"}

Init ==
  /\ threads \in BOOLEAN /\ lowmem \in BOOLEAN
  /\ status = [c \in Ctx |-> "run"]
  /\ trees = TRUE
  /\ udpSet = {}
  /\ busy = [d \in Dir |-> {}]
  /\ data = {}
  /\ owner = [fd \in Fd |-> NoCtx]
  /\ event = [fd \in Fd |-> "none"]
  /\ timed = [fd \in Fd |-> FALSE]
  /\ pending = [fd \in Fd |-> "none"]
  /\ stale = FALSE
  /\ fault = "none"

-----------------------------------------------------------------------------
(* With one thread a handler runs to its end before anything else.         *)
Idle == fault = "none" /\ (threads \/ \A fd \in Fd : pending[fd] = "none")
Running(c) == Idle /\ status[c] = "run"

(* The process aborts: an assertion fails, or a handler uses a null or     *)
(* freed pointer.                                                          *)
Abort(why) ==
  /\ fault' = why
  /\ UNCHANGED <<status, trees, udpSet, busy, data, owner, loopVars>>

(* A script error, or the end of the script: the coroutine ends.           *)
Ends(c) == status' = [status EXCEPT ![c] = "end"]

(* A defective clearing, which forgets the event.                          *)
LeftArmed(fd) == event

(* mln_event_fd_set(ev, fd, M_EV_CLR, ...)                                 *)
Cleared(fd) == [event EXCEPT ![fd] = "none"]

(* The coroutine suspended on the socket, if any, goes on.                 *)
Release(fd) ==
  /\ status' = [c \in Ctx |-> IF c = owner[fd] THEN "run" ELSE status[c]]
  /\ owner' = [owner EXCEPT ![fd] = NoCtx]
  /\ event' = Cleared(fd)

-----------------------------------------------------------------------------
(* Calls of the scripts.  A call that the socket or the system does not    *)
(* allow returns false at once and changes nothing.                        *)

(* The system gives the number of no open descriptor.  Another thread may  *)
(* still have a handler of the socket that was freed, or arm its event     *)
(* again: the new socket has none of its own.                              *)
Create(c, fd) ==
  /\ Running(c)
  /\ trees
  /\ fd \notin udpSet
  /\ udpSet' = udpSet \cup {fd}
  /\ stale' = (stale \/ pending[fd] # "none")
  /\ pending' = [pending EXCEPT ![fd] = "none"]
  /\ UNCHANGED <<status, trees, busy, data, owner, event, timed, fault>>

(* if (udp->recving || udp->sending) ... "Socket used in other script      *)
(* task."                                                                  *)
Unused(fd) == fd \notin busy["recv"] \cup busy["send"]

Usable(c, fd) == Running(c) /\ trees /\ fd \in udpSet /\ Unused(fd)

(* The coroutine waits for the handler of direction d.                     *)
Suspend(c, fd, d, timeout) ==
  /\ busy' = [busy EXCEPT ![d] = @ \cup {fd}]
  /\ event' = [event EXCEPT ![fd] = d]
  /\ timed' = [timed EXCEPT ![fd] = timeout]
  /\ owner' = [owner EXCEPT ![fd] = c]
  /\ status' = [status EXCEPT ![c] = "wait"]
  /\ UNCHANGED <<trees, udpSet, pending, stale, fault>>

Send(c, fd) ==
  /\ Usable(c, fd)
  /\ fd \notin data
  /\ data' = data \cup {fd}
  /\ Suspend(c, fd, "send", FALSE)

(* The event cannot be armed: the copy of the data stays.                  *)
SendFails(c, fd) ==
  /\ lowmem
  /\ Usable(c, fd)
  /\ fd \notin data
  /\ data' = data \cup {fd}
  /\ Ends(c)
  /\ UNCHANGED <<trees, udpSet, busy, owner, loopVars, fault>>

(* ASSERT(udp->data==NULL)                                                 *)
SendAborts(c, fd) ==
  /\ Usable(c, fd)
  /\ fd \in data
  /\ Abort("assert")

Recv(c, fd, timeout) ==
  /\ Usable(c, fd)
  /\ Suspend(c, fd, "recv", timeout)
  /\ UNCHANGED data

(* Both calls arm the event before they set udp->ctx, which the handler    *)
(* of another thread reads before it asks for the mutex.                   *)
CallRaces(c, fd) ==
  /\ threads
  /\ Usable(c, fd)
  /\ Abort("handler")

(* mln_lang_network_udp_resource_remove and mln_lang_udp_free              *)
Close(c, fd) ==
  /\ Running(c)
  /\ trees
  /\ fd \in udpSet
  /\ Release(fd)
  /\ udpSet' = udpSet \ {fd}
  /\ busy' = [d \in Dir |-> busy[d] \ {fd}]
  /\ data' = data \ {fd}
  /\ UNCHANGED <<trees, timed, pending, stale, fault>>

Import(c) ==
  /\ Running(c)
  /\ trees' = TRUE
  /\ UNCHANGED <<status, udpSet, busy, data, owner, loopVars, fault>>

(* Import fails halfway and destroys the trees, if empty, that others use. *)
ImportFails(c) ==
  /\ lowmem
  /\ Running(c)
  /\ trees' = (udpSet # {})
  /\ Ends(c)
  /\ UNCHANGED <<udpSet, busy, data, owner, loopVars, fault>>

(* ASSERT(udp_set != NULL) of the next call                                *)
TreeAborts(c) ==
  /\ Running(c)
  /\ ~trees
  /\ Abort("assert")

-----------------------------------------------------------------------------
(* The end of a coroutine frees its mln_lang_ctx_udp_t.                    *)

End(c) ==
  /\ Running(c)
  /\ Ends(c)
  /\ UNCHANGED <<trees, udpSet, busy, data, owner, loopVars, fault>>

(* A defective mln_lang_ctx_udp_free, which leaves the events armed.       *)
StillArmed(c) == event

(* mln_lang_ctx_udp_free clears the events of the coroutine's sockets.     *)
Disarmed(c) == [fd \in Fd |-> IF owner[fd] = c THEN "none" ELSE event[fd]]

Kill(k, c) ==
  /\ Running(k) /\ k # c
  /\ status[c] # "end"
  /\ Ends(c)
  /\ event' = Disarmed(c)
  /\ owner' = [fd \in Fd |-> IF owner[fd] = c THEN NoCtx ELSE owner[fd]]
  /\ UNCHANGED <<trees, udpSet, busy, data, timed, pending, stale, fault>>

-----------------------------------------------------------------------------
(* The event loop calls a handler.                                         *)

Call(fd, handler) ==
  /\ Idle
  /\ event[fd] # "none" /\ pending[fd] = "none"
  /\ event' = [event EXCEPT ![fd] = "none"]
  /\ pending' = [pending EXCEPT ![fd] = handler]
  /\ UNCHANGED <<status, trees, udpSet, busy, data, owner, timed, stale, fault>>

Fire(fd) == Call(fd, event[fd])
FireTimeout(fd) == timed[fd] /\ Call(fd, "timeout")

(* The handler has got the mutex; it needs udp, and udp->ctx to answer.    *)
Locked(fd, handler) ==
  fault = "none" /\ pending[fd] = handler /\ fd \in udpSet
Answers(fd, handler) == Locked(fd, handler) /\ owner[fd] # NoCtx

(* The socket is gone, or nobody waits for the answer.                     *)
HandlerAborts(fd) ==
  /\ fault = "none"
  /\ pending[fd] \in {"send", "recv", "timeout"}
  /\ fd \notin udpSet \/ owner[fd] = NoCtx
  /\ Abort("handler")

(* The descriptor was given again since: the handler, or the one that is   *)
(* armed again, uses the socket that was freed.                            *)
StaleAborts ==
  /\ fault = "none"
  /\ stale
  /\ Abort("handler")

(* A defective clearing of the mark, of the other direction.               *)
OtherUnmarked(fd, d) == [e \in Dir |-> IF e = d THEN busy[e] ELSE busy[e] \ {fd}]

(* udp->sending = 0, or udp->recving = 0                                   *)
Unmarked(fd, d) == [busy EXCEPT ![d] = @ \ {fd}]

(* The answer is given: the socket is free and the coroutine goes on.      *)
Finish(fd, d) ==
  /\ Release(fd)
  /\ busy' = Unmarked(fd, d)
  /\ pending' = [pending EXCEPT ![fd] = "none"]
  /\ UNCHANGED <<trees, udpSet, timed, stale, fault>>

(* mln_string_free(udp->data)                                              *)
Sent(fd) == data \ {fd}

(* mln_lang_network_udp_send_handler: sent, or refused by the system.      *)
SendEnds(fd) ==
  /\ Answers(fd, "send")
  /\ fd \in data
  /\ data' = Sent(fd)
  /\ Finish(fd, "send")

(* EINTR: the data is freed, and the handler lets go of the mutex before   *)
(* it arms the event again.                                                *)
SendInterrupted(fd) ==
  /\ Locked(fd, "send")
  /\ fd \in data
  /\ data' = Sent(fd)
  /\ pending' = [pending EXCEPT ![fd] = "rearm"]
  /\ UNCHANGED <<status, trees, udpSet, busy, owner, event, timed, stale, fault>>

(* The event loop refuses a descriptor that was closed meanwhile.          *)
Rearm(fd) ==
  /\ fault = "none"
  /\ pending[fd] = "rearm"
  /\ event' = IF fd \in udpSet THEN [event EXCEPT ![fd] = "send"] ELSE event
  /\ timed' = [timed EXCEPT ![fd] = FALSE]
  /\ pending' = [pending EXCEPT ![fd] = "none"]
  /\ UNCHANGED <<status, trees, udpSet, busy, data, owner, stale, fault>>

(* The interrupted send has nothing left to send: udp->data is null.       *)
SendFindsNoData(fd) ==
  /\ Locked(fd, "send")
  /\ fd \notin data
  /\ Abort("data")

(* mln_lang_network_udp_recv_handler: a datagram, also an empty one, or    *)
(* an error.                                                               *)
RecvEnds(fd) ==
  /\ Answers(fd, "recv")
  /\ Finish(fd, "recv")
  /\ UNCHANGED data

(* A defective recv_handler, which waits for nothing when interrupted.     *)
NotRearmed(fd) == event

Rearmed(fd) == [event EXCEPT ![fd] = "recv"]

(* EINTR, or no memory for a buffer: the event is armed again, with its    *)
(* timeout.                                                                *)
RecvInterrupted(fd) ==
  /\ Locked(fd, "recv")
  /\ event' = Rearmed(fd)
  /\ pending' = [pending EXCEPT ![fd] = "none"]
  /\ UNCHANGED <<status, trees, udpSet, busy, data, owner, timed, stale, fault>>

(* mln_lang_network_udp_timeout_handler                                    *)
TimesOut(fd) ==
  /\ Answers(fd, "timeout")
  /\ fd \notin busy["send"]
  /\ Finish(fd, "recv")
  /\ UNCHANGED data

(* ASSERT(!udp->sending)                                                   *)
TimeoutAborts(fd) ==
  /\ Answers(fd, "timeout")
  /\ fd \in busy["send"]
  /\ Abort("assert")

-----------------------------------------------------------------------------
Script ==
  \E c \in Ctx :
    \/ End(c) \/ Import(c) \/ ImportFails(c) \/ TreeAborts(c)
    \/ \E k \in Ctx : Kill(k, c)
    \/ \E fd \in Fd :
         \/ Create(c, fd) \/ Close(c, fd)
         \/ Send(c, fd) \/ SendFails(c, fd) \/ SendAborts(c, fd)
         \/ \E timeout \in BOOLEAN : Recv(c, fd, timeout)
         \/ CallRaces(c, fd)

Handler(fd) ==
  \/ SendEnds(fd) \/ SendInterrupted(fd) \/ Rearm(fd) \/ SendFindsNoData(fd)
  \/ RecvEnds(fd) \/ RecvInterrupted(fd)
  \/ TimesOut(fd) \/ TimeoutAborts(fd) \/ HandlerAborts(fd)

Next ==
  /\ \/ Script
     \/ \E fd \in Fd : Fire(fd) \/ FireTimeout(fd) \/ Handler(fd)
     \/ StaleAborts
  /\ UNCHANGED options

Spec == Init /\ [][Next]_vars

(* A thread that runs a handler gets the mutex.  A UDP socket can send     *)
(* sooner or later; a receive with a timeout does not stay armed, and it   *)
(* is not interrupted forever.                                             *)
FairSpec ==
  Spec /\ \A fd \in Fd :
            /\ WF_vars(Handler(fd) /\ UNCHANGED options)
            /\ SF_vars(event[fd] = "send" /\ Fire(fd) /\ UNCHANGED options)
            /\ SF_vars(timed[fd] /\ (Fire(fd) \/ FireTimeout(fd))
                             /\ UNCHANGED options)
            /\ SF_vars(RecvEnds(fd) /\ UNCHANGED options)

-----------------------------------------------------------------------------
(* Types of the variables; what the library knows of a closed descriptor   *)
(* is gone.                                                                *)
SockTypes ==
  /\ status \in [Ctx -> {"run", "wait", "end"}]
  /\ trees \in BOOLEAN
  /\ udpSet \subseteq Fd
  /\ busy \in [Dir -> SUBSET udpSet]
  /\ data \subseteq udpSet
  /\ owner \in [Fd -> Ctx \cup {NoCtx}]
  /\ event \in [Fd -> {"none", "send", "recv"}]
  /\ \A fd \in Fd : event[fd] # "none" => fd \in udpSet
  /\ timed \in [Fd -> BOOLEAN]
  /\ pending \in [Fd -> {"none", "send", "recv", "timeout", "rearm"}]
  /\ fault \in {"none", "assert", "handler", "data"}
TypeOK == SockTypes /\ options \in BOOLEAN \X BOOLEAN /\ stale \in BOOLEAN

(* The coroutine that udp->ctx points to is suspended on that socket alone *)
(* and holds one of its marks; no socket ever has both.                    *)
UsersAgree ==
  /\ busy["send"] \cap busy["recv"] = {}
  /\ \A fd \in Fd : owner[fd] # NoCtx =>
       /\ fd \in busy["send"] \cup busy["recv"]
       /\ status[owner[fd]] = "wait"
  /\ \A fd, gd \in Fd : owner[fd] = owner[gd] => fd = gd \/ owner[fd] = NoCtx

(* A suspended coroutine can be woken: the socket that points to it has an *)
(* event armed or a handler on its way.                                    *)
WaitersWakeable ==
  \A c \in Ctx : status[c] = "wait" =>
    \E fd \in Fd : /\ owner[fd] = c
                   /\ event[fd] # "none" \/ pending[fd] # "none"

(* With one thread a handler finds its socket open and somebody waiting in *)
(* its direction: close and kill leave no event behind.                    *)
ArmedIsUsed ==
  ~threads =>
    \A fd \in Fd : \A h \in {event[fd], pending[fd]} \ {"none"} :
      /\ owner[fd] # NoCtx
      /\ fd \in busy[IF h \in {"send", "rearm"} THEN "send" ELSE "recv"]
HandlersFindUser == ~threads => fault # "handler"

(* With memory, a socket holds data only while it is marked as sending:    *)
(* who sends next finds none of another coroutine, not even of one that    *)
(* was killed.                                                             *)
DataOfSender == ~lowmem => data \subseteq busy["send"]

(* With memory no assertion fails: not that of send on the data, nor that  *)
(* of the timeout handler on the mark, nor those on the trees.             *)
AssertsHold == ~lowmem => fault # "assert"

(* Whoever waits is served: users, marks, armed events and data agree,     *)
(* every suspended coroutine can be woken, its handler finds it, and no    *)
(* assertion fails.                                                        *)
WaitersServed ==
  /\ UsersAgree /\ WaitersWakeable /\ ArmedIsUsed
  /\ HandlersFindUser /\ DataOfSender /\ AssertsHold

(* A coroutine is woken with its socket left clean: nobody on it, no mark, *)
(* no event, and no data that was to be sent for it.                       *)
WokenLeavesClean ==
  [][\A c \in Ctx : status[c] = "wait" /\ status'[c] = "run" =>
       \E fd \in Fd :
         /\ owner[fd] = c /\ owner'[fd] = NoCtx
         /\ fd \notin busy'["send"] \cup busy'["recv"]
         /\ event'[fd] = "none"
         /\ fd \in busy["send"] => fd \notin data']_vars

(* A udp_send ends, and so does a udp_recv with a timeout, unless the      *)
(* process aborts.                                                         *)
CallsEnd ==
  \A fd \in Fd :
    event[fd] = "send" \/ (timed[fd] /\ event[fd] = "recv")
      ~> owner[fd] = NoCtx \/ fault # "none"

=============================================================================
