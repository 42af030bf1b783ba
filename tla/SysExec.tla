------------------------------ MODULE SysExec -------------------------------
(***************************************************************************)
(* Waiting in the sys library (src/lib_src/sys): exec runs a shell command *)
(* in a child process and suspends its coroutine until the child closes    *)
(* its output, of which it returns the first bufsize bytes and sends all   *)
(* to a message queue; msleep suspends it until a timer fires.             *)
(*                                                                         *)
(* The bytes that a child writes are the numbers 1, 2, 3 ...  A handler    *)
(* takes the mutex of the mln_lang_t only after it was called, so that     *)
(* with several threads other steps come between.                          *)
(***************************************************************************)
EXTENDS Integers, Sequences

CONSTANTS
  Ctx,       \* coroutines (mln_lang_ctx_t)
  NoCtx,     \* null pointer
  NoOutput,  \* false
  Fd, NoFd,  \* our end of the socket pairs, and -1
  Bufsizes,  \* the values of bufsize that exec is called with
  MaxOut     \* bound on the bytes a child writes

ASSUME ConstAssumption ==
  /\ NoCtx \notin Ctx /\ NoFd \notin Fd
  /\ Bufsizes \subseteq Int
  /\ MaxOut \in Nat

VARIABLES
  threads,   \* whether several threads run the event loop (-t=N)
  lowmem,    \* whether the library may run out of memory
  mqSet,     \* whether a coroutine imported mq, so that queues exist
  status,    \* "run", "wait" or "end"
  cse,       \* cse->fd: the child a coroutine waits for
  timer,     \* coroutines with s->timer set
  tree,      \* the descriptors that have an mln_lang_sys_exec_t
  armed,     \* those the event loop watches
  user,      \* se->ctx
  limit,     \* se->size_limit
  qname,     \* those with se->qname: the output goes to a queue too
  cur,       \* se->cur_size
  out,       \* the bytes kept in se->head ...
  queued,    \* history: the bytes sent to the queue
  written,   \* what the child has written
  closed,    \* descriptors whose child has closed its end
  got,       \* what was received of it
  pending,   \* descriptors whose handler waits for the mutex
  fired,     \* coroutines whose timer handler waits for the mutex
  result,    \* what exec returned
  stray,     \* a child with its output open was left without SIGTERM
  fault      \* "none", or the place where the process aborted

options == <<threads, lowmem>>
childVars == <<written, closed>>
seVars == <<user, limit, qname, cur, out, queued, got>>
vars == <<options, mqSet, status, cse, timer, tree, armed, seVars, childVars,
          pending, fired, result, stray, fault>>

Init ==
  /\ threads \in BOOLEAN /\ lowmem \in BOOLEAN
  /\ mqSet = FALSE
  /\ status = [c \in Ctx |-> "run"]
  /\ cse = [c \in Ctx |-> NoFd]
  /\ timer = {}
  /\ tree = {} /\ armed = {}
  /\ user = [fd \in Fd |-> NoCtx]
  /\ limit = [fd \in Fd |-> 0]
  /\ qname = {}
  /\ cur = [fd \in Fd |-> 0]
  /\ out = [fd \in Fd |-> <<>>]
  /\ queued = [fd \in Fd |-> <<>>]
  /\ written = [fd \in Fd |-> 0]
  /\ closed = {}
  /\ got = [fd \in Fd |-> 0]
  /\ pending = {} /\ fired = {}
  /\ result = [c \in Ctx |-> NoOutput]
  /\ stray = FALSE
  /\ fault = "none"

-----------------------------------------------------------------------------
(* With one thread a handler runs to its end before anything else.         *)
Idle == fault = "none" /\ (threads \/ (pending = {} /\ fired = {}))
Running(c) == Idle /\ status[c] = "run"

Abort(where) ==
  /\ fault' = where
  /\ UNCHANGED <<options, mqSet, status, cse, timer, tree, armed, seVars,
                 childVars, pending, fired, result, stray>>

(* se->running as mln_lang_sys_exec_new sets it, and a defective one.      *)
NeverRunning == FALSE
StartsRunning == TRUE

(* mln_lang_sys_exec_free, of a record out of the tree: the descriptor is  *)
(* closed, and a child believed to run is sent SIGTERM.                    *)
Free(fd, running) ==
  /\ tree' = tree \ {fd}
  /\ armed' = armed \ {fd}
  /\ user' = [user EXCEPT ![fd] = NoCtx]
  /\ limit' = [limit EXCEPT ![fd] = 0]
  /\ qname' = qname \ {fd}
  /\ cur' = [cur EXCEPT ![fd] = 0]
  /\ out' = [out EXCEPT ![fd] = <<>>]
  /\ queued' = [queued EXCEPT ![fd] = <<>>]
  /\ written' = [written EXCEPT ![fd] = 0]
  /\ closed' = closed \ {fd}
  /\ got' = [got EXCEPT ![fd] = 0]
  /\ stray' = (stray \/ (~running /\ fd \notin closed))

-----------------------------------------------------------------------------
(* sys.exec(cmd, bufsize, pid, user, group, qname)                         *)

(* The system gives the number of no open descriptor.                      *)
Fresh(fd) == fd \notin tree \cup pending

Exec(c, fd, bufsize, toQueue) ==
  /\ Running(c)
  /\ Fresh(fd)
  /\ cse' = [cse EXCEPT ![c] = fd]
  /\ tree' = tree \cup {fd}
  /\ armed' = armed \cup {fd}
  /\ user' = [user EXCEPT ![fd] = c]
  /\ limit' = [limit EXCEPT ![fd] = bufsize]
  /\ qname' = IF toQueue THEN qname \cup {fd} ELSE qname
  /\ result' = [result EXCEPT ![c] = NoOutput]
  /\ status' = [status EXCEPT ![c] = "wait"]
  /\ UNCHANGED <<options, mqSet, timer, cur, out, queued, got, childVars,
                 pending, fired, stray, fault>>

(* No memory.  The child, which the record would have terminated, runs on  *)
(* when there is no record yet; another thread may have seen its output    *)
(* already when there is.  The script ends with an error.                  *)
ExecFails(c, fd) ==
  /\ lowmem
  /\ Running(c) /\ Fresh(fd)
  /\ status' = [status EXCEPT ![c] = "end"]
  /\ result' = [result EXCEPT ![c] = NoOutput]
  /\ \/ stray' = TRUE /\ UNCHANGED pending
     \/ UNCHANGED <<stray, pending>>
     \/ threads /\ pending' = pending \cup {fd} /\ UNCHANGED stray
  /\ UNCHANGED <<options, mqSet, cse, timer, tree, armed, seVars, childVars,
                 fired, fault>>

(* sys.msleep(msec)                                                        *)
Msleep(c) ==
  /\ Running(c)
  /\ c \notin timer
  /\ timer' = timer \cup {c}
  /\ result' = [result EXCEPT ![c] = NoOutput]
  /\ status' = [status EXCEPT ![c] = "wait"]
  /\ UNCHANGED <<options, mqSet, cse, tree, armed, seVars, childVars, pending,
                 fired, stray, fault>>

(* Import('mq')                                                            *)
ImportMq(c) ==
  /\ Running(c)
  /\ mqSet' = TRUE
  /\ UNCHANGED <<options, status, cse, timer, tree, armed, seVars, childVars,
                 pending, fired, result, stray, fault>>

-----------------------------------------------------------------------------
(* The end of a coroutine, by itself, by an error ("Already in sleep.")    *)
(* or by Kill.                                                             *)

End(c) ==
  /\ Running(c)
  /\ status' = [status EXCEPT ![c] = "end"]
  /\ result' = [result EXCEPT ![c] = NoOutput]
  /\ UNCHANGED <<options, mqSet, cse, timer, tree, armed, seVars, childVars,
                 pending, fired, stray, fault>>

OwnChild(c) == cse[c]
Cancelled(c) == timer \ {c}

(* mln_lang_ctx_resource_sys_exec_free and mln_sys_msleep_free             *)
Kill(k, c) ==
  /\ Running(k) /\ k # c
  /\ status[c] # "end"
  /\ status' = [status EXCEPT ![c] = "end"]
  /\ cse' = [cse EXCEPT ![c] = NoFd]
  /\ timer' = Cancelled(c)
  /\ result' = [result EXCEPT ![c] = NoOutput]
  /\ IF OwnChild(c) # NoFd
     THEN Free(OwnChild(c), StartsRunning)
     ELSE UNCHANGED <<tree, armed, seVars, childVars, stray>>
  /\ UNCHANGED <<options, mqSet, pending, fired, fault>>

-----------------------------------------------------------------------------
(* The child.                                                              *)

ChildWrites(fd) ==
  /\ Idle
  /\ fd \in tree \ closed
  /\ written[fd] < MaxOut
  /\ written' = [written EXCEPT ![fd] = @ + 1]
  /\ UNCHANGED <<options, mqSet, status, cse, timer, tree, armed, seVars,
                 closed, pending, fired, result, stray, fault>>

ChildCloses(fd) ==
  /\ Idle
  /\ fd \in tree \ closed
  /\ closed' = closed \cup {fd}
  /\ UNCHANGED <<options, mqSet, status, cse, timer, tree, armed, seVars,
                 written, pending, fired, result, stray, fault>>

-----------------------------------------------------------------------------
(* mln_lang_sys_exec_read_handler                                          *)

Fire(fd) ==
  /\ Idle
  /\ fd \in armed \ pending
  /\ written[fd] > got[fd] \/ fd \in closed
  /\ pending' = pending \cup {fd}
  /\ UNCHANGED <<options, mqSet, status, cse, timer, tree, armed, seVars,
                 childVars, fired, result, stray, fault>>

(* What can be received comes as a chain of buffers: chain[i] bytes end    *)
(* with buffer i.                                                          *)
Chains(fd) ==
  LET n == written[fd] - got[fd]
  IN  {chain \in UNION {[1 .. k -> 1 .. n] : k \in 0 .. n} :
         /\ \A i, j \in DOMAIN chain : i < j => chain[i] < chain[j]
         /\ n > 0 => chain # <<>> /\ chain[Len(chain)] = n}
Total(chain) == IF chain = <<>> THEN 0 ELSE chain[Len(chain)]
Before(chain, i) == IF i = 1 THEN 0 ELSE chain[i - 1]
BufSize(chain, i) == chain[i] - Before(chain, i)
Bytes(from, n) == [i \in 1 .. n |-> from + i]

(* se->cur_size when the loop comes to buffer i.                           *)
Size(fd, chain, i) == cur[fd] + Before(chain, i)

(* A defective test, blind to "no limit".                                  *)
FillsUnlimited(fd, chain, i) ==
  Size(fd, chain, i) + BufSize(chain, i) >= limit[fd]

(* se->size_limit >= 0 && se->cur_size + mln_buf_size >= se->size_limit    *)
Fills(fd, chain, i) ==
  limit[fd] >= 0 /\ Size(fd, chain, i) + BufSize(chain, i) >= limit[fd]

(* The loop stops at buffer s, past the last one if none fills the limit.  *)
StopsAt(fd, chain, s) ==
  /\ s \in 1 .. Len(chain) + 1
  /\ s <= Len(chain) => Fills(fd, chain, s)
  /\ \A i \in 1 .. s - 1 : ~Fills(fd, chain, i)

(* How many bytes are kept: those of the buffers before, and the beginning *)
(* of the one that fills the limit; none if no output is wanted.           *)
Kept(fd, chain, s) ==
  IF s > Len(chain) THEN Total(chain)
  ELSE IF limit[fd] = 0 THEN Before(chain, s)
  ELSE Before(chain, s) + (limit[fd] - Size(fd, chain, s))

NewSize(fd, chain, s) ==
  IF s > Len(chain) THEN cur[fd] + Total(chain) ELSE limit[fd]
NewOut(fd, chain, s) == out[fd] \o Bytes(got[fd], Kept(fd, chain, s))

(* A defective order: the output is cut before it is sent.                 *)
CutFirst(fd, chain, s) == Kept(fd, chain, s)

(* The queue gets the chain as it was received.                            *)
ToQueue(fd, chain, s) == Total(chain)

(* mln_lang_mq_msg_set is called.                                          *)
Sends(fd, chain) == fd \in qname /\ chain # <<>>

Received(fd, chain) ==
  /\ fault = "none"
  /\ fd \in pending \cap tree
  /\ chain \in Chains(fd)
  /\ pending' = pending \ {fd}
  /\ UNCHANGED <<options, mqSet, timer, fired, fault>>

(* The event is not a one-shot: it stays armed.  (A defective one.)        *)
OneShot(fd) == armed \ {fd}
StaysArmed(fd) == armed

CanForward(fd, chain) == Sends(fd, chain) => mqSet \/ lowmem

ReadData(fd, chain, s) ==
  /\ Received(fd, chain) /\ StopsAt(fd, chain, s)
  /\ fd \notin closed
  /\ CanForward(fd, chain)
  /\ armed' = StaysArmed(fd)
  /\ cur' = [cur EXCEPT ![fd] = NewSize(fd, chain, s)]
  /\ out' = [out EXCEPT ![fd] = NewOut(fd, chain, s)]
  /\ got' = [got EXCEPT ![fd] = written[fd]]
  /\ \/ /\ Sends(fd, chain) /\ mqSet
        /\ queued' = [queued EXCEPT ![fd] =
                        @ \o Bytes(got[fd], ToQueue(fd, chain, s))]
     \/ /\ ~Sends(fd, chain) \/ lowmem
        /\ UNCHANGED queued
  /\ UNCHANGED <<status, cse, tree, user, limit, qname, childVars, result,
                 stray>>

NoExec(c) == [cse EXCEPT ![c] = NoFd]

(* The coroutine is continued and the record freed.                        *)
ExecEnds(fd, value) ==
  /\ result' = [result EXCEPT ![user[fd]] = value]
  /\ status' = [status EXCEPT ![user[fd]] = "run"]
  /\ cse' = NoExec(user[fd])
  /\ Free(fd, FALSE)

(* A defective copy, without what came with the end.                       *)
KeptBefore(fd, chain, s) == out[fd]

(* M_C_CLOSED: the string is made of all that was kept.                    *)
Output(fd, chain, s) == NewOut(fd, chain, s)

ReadClosed(fd, chain, s) ==
  /\ Received(fd, chain) /\ StopsAt(fd, chain, s)
  /\ fd \in closed
  /\ CanForward(fd, chain)
  /\ \/ ExecEnds(fd, Output(fd, chain, s))
     \/ lowmem /\ ExecEnds(fd, result[user[fd]])

(* M_C_ERROR: no memory to receive.                                        *)
ReadErrs(fd) ==
  /\ lowmem
  /\ \E chain \in Chains(fd) : Received(fd, chain)
  /\ ExecEnds(fd, result[user[fd]])

(* ASSERT(mq_set != NULL) of mln_lang_mq_msg_set: nobody imported mq.      *)
ReadAborts(fd, chain) ==
  /\ fault = "none"
  /\ fd \in pending \cap tree
  /\ chain \in Chains(fd)
  /\ Sends(fd, chain) /\ ~mqSet
  /\ Abort("mq_set")

(* The handler of another thread finds its record freed.                   *)
HandlerAborts(fd) ==
  /\ fault = "none"
  /\ fd \in pending \ tree
  /\ Abort("handler")

-----------------------------------------------------------------------------
(* mln_lang_sys_msleep_timeout_handler                                     *)

TimerFires(c) ==
  /\ Idle
  /\ c \in timer \ fired
  /\ fired' = fired \cup {c}
  /\ UNCHANGED <<options, mqSet, status, cse, timer, tree, armed, seVars,
                 childVars, pending, result, stray, fault>>

TimerOut(c) == timer \ {c}

Wakes(c) ==
  /\ fault = "none"
  /\ c \in fired /\ status[c] # "end"
  /\ fired' = fired \ {c}
  /\ timer' = TimerOut(c)
  /\ status' = [status EXCEPT ![c] = "run"]
  /\ UNCHANGED <<options, mqSet, cse, tree, armed, seVars, childVars, pending,
                 result, stray, fault>>

(* The coroutine was killed while another thread had taken the timer out:  *)
(* it is cancelled once more, and the handler uses freed memory.           *)
WakeAborts(c) ==
  /\ fault = "none"
  /\ c \in fired /\ status[c] = "end"
  /\ Abort("timer")

-----------------------------------------------------------------------------
Script ==
  \E c \in Ctx :
    \/ \E fd \in Fd :
         \/ \E bufsize \in Bufsizes, toQueue \in BOOLEAN :
              Exec(c, fd, bufsize, toQueue)
         \/ ExecFails(c, fd)
    \/ Msleep(c) \/ ImportMq(c) \/ End(c)
    \/ \E k \in Ctx : Kill(k, c)

Child == \E fd \in Fd : ChildWrites(fd) \/ ChildCloses(fd)

Handler(fd) ==
  \/ \E chain \in Chains(fd) :
       \/ \E s \in 1 .. Len(chain) + 1 :
            ReadData(fd, chain, s) \/ ReadClosed(fd, chain, s)
       \/ ReadAborts(fd, chain)
  \/ ReadErrs(fd) \/ HandlerAborts(fd)

Next ==
  \/ Script \/ Child
  \/ \E fd \in Fd : Fire(fd) \/ Handler(fd)
  \/ \E c \in Ctx : TimerFires(c) \/ Wakes(c) \/ WakeAborts(c)

Spec == Init /\ [][Next]_vars

(* A thread that runs a handler gets the mutex, and the event loop looks   *)
(* at its descriptors and timers between the slices of the coroutines.     *)
FairSpec ==
  /\ Spec
  /\ \A fd \in Fd : SF_vars(Fire(fd)) /\ WF_vars(Handler(fd))
  /\ \A c \in Ctx : SF_vars(TimerFires(c)) /\ WF_vars(Wakes(c))

-----------------------------------------------------------------------------
(* Types of the variables.                                                 *)
TypeOK ==
  /\ threads \in BOOLEAN /\ lowmem \in BOOLEAN /\ mqSet \in BOOLEAN
  /\ status \in [Ctx -> {"run", "wait", "end"}]
  /\ cse \in [Ctx -> Fd \cup {NoFd}]
  /\ timer \subseteq Ctx /\ fired \subseteq Ctx
  /\ tree \subseteq Fd /\ armed \subseteq Fd /\ qname \subseteq Fd
  /\ closed \subseteq Fd /\ pending \subseteq Fd
  /\ user \in [Fd -> Ctx \cup {NoCtx}]
  /\ limit \in [Fd -> Bufsizes \cup {0}] /\ cur \in [Fd -> Nat]
  /\ out \in [Fd -> Seq(Nat)] /\ queued \in [Fd -> Seq(Nat)]
  /\ written \in [Fd -> Nat] /\ got \in [Fd -> Nat]
  /\ result \in [Ctx -> Seq(Nat) \cup {NoOutput}]
  /\ stray \in BOOLEAN
  /\ fault \in {"none", "mq_set", "handler", "timer"}

(* The four places that know of a child agree: cse->fd of the coroutine,   *)
(* se->ctx, the tree and the event loop.  A coroutine is suspended for one *)
(* child or one timer, and one that runs has neither (ASSERT(cse->fd ==    *)
(* -1)); sys.exec(nil) finds no coroutine that has ended.                  *)
Waiting(c) == cse[c] # NoFd \/ c \in timer
RecordsAgree ==
  /\ armed = tree
  /\ \A fd \in tree : user[fd] \in Ctx /\ cse[user[fd]] = fd
  /\ \A c \in Ctx : cse[c] # NoFd => cse[c] \in tree /\ user[cse[c]] = c
  /\ \A c \in Ctx : status[c] = "wait" <=> Waiting(c)
  /\ \A c \in timer : cse[c] = NoFd
  /\ \A c \in fired : c \in timer \/ (threads /\ status[c] = "end")

(* What is kept are the first bytes of the output, in order, and no more   *)
(* than bufsize; se->cur_size is their number (the copy at the end fits    *)
(* the string allocated), whatever buffers they came in.                   *)
Limited(l, n) == IF l >= 0 /\ l < n THEN l ELSE n
OutputIsPrefix ==
  \A fd \in tree :
    /\ cur[fd] = Limited(limit[fd], got[fd])
    /\ out[fd] = Bytes(0, cur[fd])

(* exec returns the first bufsize bytes of all that its child wrote,       *)
(* including what came with the end (or false, when memory was short).     *)
Returned ==
  \A fd \in tree :
    tree' = tree \ {fd} /\ status'[user[fd]] = "run" =>
      \/ result'[user[fd]] = Bytes(0, Limited(limit[fd], written[fd]))
      \/ lowmem /\ result'[user[fd]] = NoOutput
ReturnsOutput == [][Returned]_vars

(* The queue gets the whole output received, in order, also what exec cuts *)
(* off (unless memory was short).                                          *)
QueueGetsAll ==
  ~lowmem => \A fd \in tree \cap qname : queued[fd] = Bytes(0, got[fd])

(* No child whose output is open runs on without a coroutine that waits    *)
(* for it, unless it was sent SIGTERM or memory was short.  (One that has  *)
(* closed its output may: with that exec is done and forgets the child.)   *)
NoStrayChild == ~lowmem => ~stray

(* With one thread, no handler finds its record freed, and no timer is     *)
(* cancelled that fired.                                                   *)
HandlersFindRecord == ~threads => fault \notin {"handler", "timer"}

(* Every child is known to its coroutine, to the tree and to the event     *)
(* loop alike, none runs on without them, and no handler misses its record.*)
ChildrenKept == RecordsAgree /\ NoStrayChild /\ HandlersFindRecord

(* exec returns when its child has closed its output, and msleep returns.  *)
ExecReturns == \A fd \in Fd : fd \in closed ~> fd \notin tree \/ fault # "none"
MsleepReturns == \A c \in Ctx : c \in timer ~> c \notin timer \/ fault # "none"
CallsEnd == ExecReturns /\ MsleepReturns

=============================================================================
