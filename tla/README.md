# Melang in TLA+

Melang is a preemptive coroutine scripting language on one event loop.
This directory holds its formal specifications: TLA+ modules translated from
the C sources, the TLC configurations that check them, and proofs that TLAPS
checks.

## The system

A process runs the coroutines (`mln_lang_ctx_t`) of one `mln_lang_t`: one for
each script on the command line and those that `Eval` starts. The scheduler
keeps the coroutines that can run in one list and those that wait in another.
A library call that must wait registers a handler or timer with the event loop,
suspends its coroutine (`mln_lang_ctx_suspend`) and leaves a record that tells
the handler whom to continue (`mln_lang_ctx_continue`) and what the call
returns (`mln_lang_ctx_set_ret_var`). With `-t=N` several threads run the event
loop; one mutex per `mln_lang_t` protects the coroutines and the libraries.
Scheduler, interpreter, event loop and mutex belong to the Melon library, which
is not part of this repository. `lib_src` holds the libraries and `melang.c` the
launcher.

| Component | Its state | Its operations | What makes it correct |
|---|---|---|---|
| Message queue (`lib_src/msgqueue`) | tree of queues, each with a list of messages and a list of suspended receivers; timeout heap and 10 ms timer; for each coroutine its topics with their messages, and the record of its wait | `send`, `recv`, `subscribe`, `unsubscribe`, broadcast, timer handler; end and kill of coroutines | FIFO, no loss or duplication; nobody asleep on a message; every wait record cleared on every way out; deadlines kept |
| TCP sockets (`lib_src/network`) | for each socket its user, busy marks, closed marks, retries; armed event | `tcp_listen`, `tcp_connect`, `tcp_accept`, `tcp_recv`, `tcp_send`, `tcp_shutdown`, `tcp_close`; a handler for each; timeouts | one user per socket; a suspended coroutine is always woken; no handler meets a freed socket; bounded retries |
| UDP sockets (`lib_src/network`) | for each socket its user, busy marks, the data and the script variables of the call | `udp_create`, `udp_send`, `udp_recv`, `udp_close` and handlers | as for TCP; who is woken leaves the socket clean; data of one coroutine never meets the send of another |
| Sub-processes, `msleep` (`lib_src/sys`) | for each coroutine its process or timer; output read so far | `exec`, its read handler, `msleep`, kill | `exec` returns the first `bufsize` bytes however they arrive, a queue gets all; no child is forgotten; no handler meets a freed record |
| TLS sockets (`lib_src/tls`) | as TCP; certificate configurations with their numbers; the request of an accept; the queue of what is to be sent | `conf_new`, `conf_free`, `listen`, `accept`, `connect`, `handshake`, `send`, `recv`, `close`, a handler for each, timeouts | one user per socket, always woken; the request of an accept freed once; an accept uses the configuration it named; no send carries the rest of another |
| HTTP client (`lib_src/http`) | one state per request, driven from connect to receive | `https_request`, `parse`, `create` | each request ends exactly once and frees its state; the configuration it uses is the one the call named; bounded retries |
| MySQL client (`lib_src/mysql`) | the handle of a connection, its result and rows; the call in progress | `connect`, `execute`, `close`, handlers that poll | a result does not outlive its query; rows do not reach the next query; every call ends |
| Launcher (`melang.c`) | list of starting threads; messages; task-check timer | start of the threads, message to them, task check | every waiting thread is let in; the process ends when no task is left and not before |
| Data libraries (`lib_src/json`, `string`, `matrix`, arrays of `sys`) | none shared | one call each | documents keep their meaning; string and matrix buffers are large enough |
| Files, digests, ciphers | none shared | one call of the system or of Melon each | functional |

Components meet in four places: the scheduler (a coroutine is suspended by one
library only, and its end or kill frees its resources in all of them), the event
loop (one handler at a time for a descriptor), `exec` with a queue name, whose
handler sends the output of the process through the message queue, and the
certificate configurations, which HTTPS requests name and TLS scripts free.

The hard behaviours are listed, at their lines, under "hazards" in
`PROJECT.json`: coroutines that end, are killed, or close what others wait for;
deadlines that race with messages; handlers that run between two steps of
other threads; and allocations that fail halfway.

## Modules

| Module | What it is |
|---|---|
| `MsgQueue` | the message queue, `mln_lang_msgqueue_impl.c` |
| `Mailbox` | what its queues promise, without lists, timers, topics |
| `MsgQueueProofs` | theorems about both |
| `MCMsgQueue` | small instances |
| `TcpSocket` | the TCP part of `mln_lang_network.c` |
| `TcpSocketProofs` | theorems about it |
| `MCTcpSocket` | small instances |
| `UdpSocket` | the UDP part of `mln_lang_network.c` |
| `UdpSocketProofs` | theorems about it |
| `MCUdpSocket` | small instances |
| `SysExec` | `exec` and `msleep` of `mln_lang_sys.c` |
| `SysExecProofs` | theorems about it |
| `MCSysExec` | small instances |
| `TlsConf` | the certificate configurations of `mln_lang_tls.c` and their numbers, for `TlsSocket` and `HttpsRequest` |
| `TlsSocket` | the sockets of `mln_lang_tls.c` |
| `TlsSocketProofs` | theorems about it |
| `MCTlsSocket` | small instances |
| `Coroutines` | what a call of a suspended coroutine, its event and its handler are, for the next two |
| `HttpsRequest` | `https_request` of `mln_lang_http.c` |
| `Mysql` | `mln_lang_mysql.c` |
| `Launcher` | `melang.c` |
| `Process` | the four together: threads, coroutines and their calls |
| `ProcessProofs` | theorems about them |
| `MCProcess` | small instances |
| `Arrays`, `Json`, `Strings`, `Matrix` | the functions of the data libraries |
| `Libraries` | calls of them, each with an answer |
| `StringsProofs` | theorems about `Strings`, and about loops over lists |
| `LibrariesProofs` | theorems about `Matrix`, `Arrays`, `Json` and the calls |
| `MCLibraries` | small instances |

### MsgQueue

All the code runs under the mutex, so a C function is one step; the broadcast
and the timer handler, which loop, take a step per turn of the loop, and `loop`
keeps other actions out meanwhile, as the mutex does.

| In the model | In the code |
|---|---|
| `mqs`, `msgs`, `waits` | the lang resource "mq": entries, `msg_head`, `wait_head` |
| `heap`, `deadline`, `armed` | the lang resource "mq_timeout", `timestamp`, what `lang->wait` counts |
| `lcm`, `topics`, `tmsgs`, `mqWait` | the context resource "mq": its topics, their messages, `mq_wait` |
| `status`, `ret` | the scheduler's lists; the value `recv` returns |
| `RecvTopic`, `RecvTakes`, `RecvBlocks`, `RecvBlocksTimed`, `RecvRejects`, `RecvFails` | `mq.recv`: a topic message, a queue message, suspension, errors |
| `SendQueues`, `SendHandsOver`, `SendLeavesBoth`, `SendFails` | `mln_lang_mq_msg_set` |
| `Broadcast`, `VisitSkips`, `VisitQueues`, `VisitWakes`, `BroadcastDone`, `BroadcastFails` | `mln_lang_mq_msg_broadcast` and `..._broadcast_ctx` |
| `TimerFires`, `Expire`, `TimerDone`, `TimerNotSet` | `mln_lang_msgqueue_timeout_handler` |
| `Import`, `ImportFails`, `End`, `Kill`, `Eval` | registration and release of the resources |
| `Abort` and the actions named `...Aborts`, `KillWaiting` | failed assertions, null pointers |

A message is its number in the order of sending, so that FIFO, loss and
duplication show. `sent`, `taken`, `pub`, `since` and `seen` are history
variables. Calls that fail before they change anything else than ending their
coroutine are `End`. The branch of the timeout handler for a `mln_lang_t` that quits
(`mln_lang_msgqueue_impl.c:549`) is left out: nothing in `src` sets `lang->quit`.

Seen while modelling, without a run of their own: a timer that was armed for a
receiver stays armed when a send empties the heap, and the next receiver arms a
second one, so that timers multiply; a coroutine that waits on one name may be
woken with a message of a topic of another name, before older messages of that
topic; the entry of a queue stays after a hand-over empties it; `recv(q, 0)` is
an error of the script (`RecvRejects`), where `docs/lib/msgqueue.md:97` promises
`nil`; an `Import` that fails halfway destroys the tree that other coroutines
use, so that their next call fails `ASSERT(mq_set != NULL)` (`SendAborts`,
`RecvAborts`, `TimerAborts`).

### TcpSocket

A call is one step, and so is a handler, but the start of a handler (the event
loop has called it, and disarmed the one-shot event) and its work under the
mutex are two: `pending` holds the handlers in between. With one thread nothing
comes in between, with several any call may. Whether there are several
(`threads`) and whether memory may run out (`lowmem`) is chosen in `Init` from
the pairs in `Options`, so that one run covers the cases. The handlers that let
go of the mutex before they arm the event again or go on (`RecvErrs`,
`RecvRetries`, `SendContinues`) take a further step.

With several threads a handler may be on its way, or about to arm its event
again, for a socket that was freed, and the system may give its descriptor again.
The new socket has no such handler (`Opened`), but the process has, which `stale`
remembers: from then on it may abort at any time (`StaleAborts`).  So it is in
`UdpSocket` and `TlsSocket`.

| In the model | In the code |
|---|---|
| `tcpSet`, `owner`, `busy`, `closed`, `retry` | the lang resource "tcp"; `ctx`, `sending`/`recving`, `send_closed`/`recv_closed`, `retry` of `mln_lang_tcp_t` |
| `event`, `timed`, `pending` | the event loop: armed handler, timeout handler, handler called |
| `Listen`, `Connect`, `Accept`, `Recv`, `Send`, `Close`, `Shutdown...` | the functions `..._process` |
| `Connect...`, `Accept...`, `Recv...`, `Send...`, `TimesOut` with only a descriptor | the functions `..._handler` |
| `Kill`, `End` | `mln_lang_ctx_tcp_free` |
| `HandlerAborts`, `StaleAborts`, `ShutdownAborts`, `ConnectRaces` | a null or freed pointer is used |

Bytes, addresses and the buffers of the connection are left out: a handler may
find any result the system can give.

Seen while modelling, without a run of their own: after an error `recv_handler`
unlocks the mutex twice; a connection whose `getsockopt` fails stays open under
a descriptor the script never learns; `tcp_shutdown` of an unknown descriptor is
an error of the script; after a shutdown of a direction in use, or a kill, the
mark stays with nobody on the socket, which refuses every later call as "used in
other script task".

### UdpSocket

The steps are those of `TcpSocket`. A UDP socket has one user for both
directions, keeps a copy of the data while a send is in progress, and is never
half closed; `udp_close` wakes its user.

| In the model | In the code |
|---|---|
| `udpSet`, `owner`, `busy`, `data` | the lang resource "udp"; `ctx`, `sending`/`recving`, `data` of `mln_lang_udp_t` |
| `trees` | whether the lang resources "tcp" and "udp" exist |
| `event`, `timed`, `pending` | the event loop, as for TCP |
| `Create`, `Send`, `SendFails`, `SendAborts`, `Recv`, `Close` | the functions `..._process` |
| `SendEnds`, `SendInterrupted`, `Rearm`, `SendFindsNoData`, `RecvEnds`, `RecvInterrupted`, `TimesOut`, `TimeoutAborts` | the handlers |
| `Import`, `ImportFails`, `TreeAborts` | `mln_lang_network_resource_register`, `destroy`, the assertions on the tree |
| `Kill` | `mln_lang_ctx_udp_free` |
| `HandlerAborts`, `StaleAborts` | a null or freed pointer is used |

Datagrams and addresses are left out: a handler may find any result of the
system. Every coroutine has imported the library before.

Seen while modelling, without a run of their own: a send interrupted by a signal
frees its data and tries again with a null pointer (`SendFindsNoData`); killing
the user of a socket leaves the mark, so that the socket is refused as "used in
other script task" until it is closed; when the event cannot be armed the data
stays and the next send fails its assertion; an import that fails halfway
destroys the trees others use (both are why `AssertsHold` is about sufficient
memory); an IPv6 destination is cut to 16 bytes.

### SysExec

A call is one step; a handler is two, as in `TcpSocket`: the event loop calls it
(`Fire`, `TimerFires`), and it works under the mutex. With one thread nothing
comes in between. `threads` and `lowmem` are chosen in `Init` here too.

| In the model | In the code |
|---|---|
| `cse`, `timer` | `cse->fd` of `mln_lang_ctx_sys_exec_t`, `s->timer` of `mln_sys_msleep_t` |
| `tree`, `user`, `limit`, `qname`, `cur`, `out` | the tree of `mln_lang_sys_exec_t` and their `ctx`, `size_limit`, `qname`, `cur_size`, buffers |
| `armed`, `pending`, `fired` | the event loop: descriptors watched, handlers called, timers called |
| `mqSet` | whether the lang resource "mq" exists |
| `written`, `closed`, `got` | the child and its end of the socket pair |
| `Exec`, `ExecFails`, `Msleep` | `mln_lang_sys_exec_process`, `mln_lang_sys_msleep_process` |
| `ReadData`, `ReadClosed`, `ReadErrs`, `ReadAborts`, `HandlerAborts` | `mln_lang_sys_exec_read_handler` |
| `Wakes`, `WakeAborts` | `mln_lang_sys_msleep_timeout_handler` |
| `Kill`, `Free` | `mln_lang_ctx_resource_sys_exec_free`, `mln_sys_msleep_free`, `mln_lang_sys_exec_free` |

The bytes a child writes are numbered, so that a lost, doubled or moved byte
shows. What a handler receives is cut into buffers in every possible way: a
chain is the sequence of the offsets where its buffers end. `StopsAt`, `Kept`
and `NewSize` are the loop of the handler over that chain: the buffer where it
stops, the bytes it keeps, the `cur_size` it leaves. The parameters `user` and
`group`, the variable for the process number and the other functions of `sys`,
which are single calls of the system, are left out.

Seen while modelling, without a run of their own: when memory for the record is
short after the fork, the child runs on (`stray`, which is about children whose
output is open: one that closes its output and runs on is forgotten, as `exec` is
done with it, and gets no SIGTERM); SIGTERM goes to a number that
may belong to another process when the child has ended and its end was not read
yet; a child inherits our ends of the pairs of the children before it, so that
closing ours does not tell them.

Also: with a queue name the handler of the output calls the message queue,
whose `ASSERT(mq_set != NULL)` (`mln_lang_msgqueue_impl.c:675`) fails when no
coroutine has imported `mq` (`ReadAborts`), where `docs/lib/sys.md:1224` says
that the output can be retrieved from the queue.

### TlsSocket

The steps are those of `TcpSocket`. Three things differ: the end or kill of a
coroutine clears the marks of its socket, `close` wakes whoever waits, and an
accept leaves a request, with the number of a certificate configuration, for its
handler. A kill frees the request, and the handler of another thread that was on
its way for it is `stale` from then on, even if the socket has a new accept.

Certificate configurations are in `TlsConf`, for HTTPS requests use them too. An
`Import` that fails late runs `destroy()`, which drops the counter of the numbers
although configurations may be in use (`Destroyed`); the next `Import` counts from
one again. `reset` remembers that this has happened after a number was given.

| In the model | In the code |
|---|---|
| `trees`, `nextId` | the lang resources "tls", "tls_conf" and "tls_conf_next_id" |
| `confId`, `live` | the number of a configuration; those in the tree |
| `Registered`, `PartlyRegistered`, `Destroyed` | `mln_lang_tls_resource_register`, `destroy` |
| `Made`, `NumberLost`, `Forgotten`, `Named` | `conf_new`, `conf_new` without memory, `conf_free`, `mln_lang_tls_conf_lookup` |
| `tlsSet`, `listening`, `busy`, `owner`, `retry`, `request` | the tree "tls"; `is_listen`, `sending`/`recving`, `ctx`, `retry`, `accept_req` of `mln_lang_tls_t` |
| `unsent` | whose data is in the queue `M_C_SEND` of the connection |
| `event`, `pending` | the event loop, as for TCP |
| `Listen`, `Accept`, `Connect`, `Handshake`, `Send`, `SendAtOnce`, `Recv`, `Close`, `Conf...` | the functions `..._process` |
| `AcceptEnds`, `AcceptTakes`, `...Again`, `...Ends`, `TimesOut`, `ConnectFails` | the handlers |
| `Kill` | `mln_lang_ctx_tls_free` |
| `HandlerAborts`, `StaleAborts`, `ConnectRaces` | a null or freed pointer is used |

`conf` is a history variable: the configuration that the last accept of a listening
socket was called with, and once it has its answer the one that the lookup by number
found for the connection. Records, bytes and names of hosts are left out; a handler
may find any result of the system and of the TLS library.

Seen while modelling, without a run of their own: with several threads a handler
uses a socket that was closed, or a context that was cleared, before it had the
mutex; a failed `connect()` frees a socket whose event is already armed; each
wake-up that finds the connection not ready arms the whole timeout afresh. After an
`Import` that failed (`mln_lang_tls.c:166`) the numbers of configurations start at 1
again (line 232), while configurations, requests and accepts from before may still
be there: a number may then stand for another configuration, although
`mln_lang_tls.h:65` says that "freed ids are not reused so that a stale script-side
handle never aliases a different conf".

### Coroutines, HttpsRequest, Mysql, Launcher, Process

`Coroutines` is what HTTPS and MySQL have in common: a coroutine has one call,
in one step of it, whose event is armed (`armed`), or whose handler is on its way
(`pending`). A handler goes on to a step and arms the event (`Continue`), or
answers (`Return`); a coroutine that is killed takes its call along (`Freed`).
`imports`, chosen in `Init` like `threads` and `lowmem`, says which libraries the
script of each coroutine uses.

| In the model | In the code |
|---|---|
| `step` | `st->state` of `mln_lang_https_state_t`; which handler of MySQL is registered |
| `retry`, `asked` | `st->retry`, `st->conf_id` |
| `trees`, `nextId`, `confId`, `live`; `ConfCall`, `ConfFails` | as in `TlsConf`: what other coroutines do with configurations, or the one of the request does before |
| `Request`, `RequestRaces`, `ConnectAgain`, `Connected`, `Drive`, `Responds`, `Fails`, `TimesOut` | `mln_lang_https_request_process` and the handlers of the request |
| `object`, `result`, `rows` | the member `fd` of the object; `lm->result`, `lm->ret_var` |
| `Login`, `Execute`, `Close`; `QueryDone`, `ResultStored`, `RowFetched`, `LastRow`, `ResultFreed` ... | the functions `..._process`; `..._query_test`, `..._result_test`, `..._fetch_test`, `..._free_test` |
| `lost`, `LoseServer` | external: the server answers no more, the client library reports errors |
| `main`, `worker`, `listed`, `mail`, `timer`, `broken` | the threads, the list from `head` to `tail`, the messages to threads, `mln_task_checker` and the break of the event loop |

`mixed` is a history variable: whose last `execute` returned rows of another.
`conf` is one too: the configuration that the call of a request named, and from
`Connected` on the one that the lookup by number has found.
`Connected` and `Drive` take the steps a handler may go through at one time (it builds, sends
and turns to receiving without a wait in between) as one. The own configuration
of a request, its text, and the rows' contents are left out.

`Process` composes them: a step is one of the threads, or one of a coroutine
while some thread runs the event loop. Ends and kills free the calls of both
libraries.

Seen while modelling, without a run of their own. HTTPS: with several threads a
handler uses a request that was freed while it waited for the mutex, and a
failed `connect()` frees one whose event is armed. MySQL: `connect` overwrites
the handle of the object, which is then lost, and a handle without a call is not
freed with its coroutine; an error while rows are fetched is taken for "not
ready" (the test at `mln_lang_mysql.c:906` comes before the one at 908), so that
the call does not end; without memory for a row the rows fetched before stay
and reach the next query; a kill while rows are fetched fails
`ASSERT(lm->result == NULL)`; no handler looks at whether its event could be armed
again. Launcher: a thread that puts itself on the list after the main thread
looked at it waits forever; a thread that fails to register may stay on the list,
and the main thread then sends messages forever.

### Arrays, Json, Strings, Matrix, Libraries

The functions are operators, and `Libraries` is the script that calls one with
arguments chosen in `Init`. An array is a function from the indices of its
elements to pairs of a key and a value, as `mln_lang_array_t` finds them.

| In the model | In the code |
|---|---|
| `Arrays` | the merge and difference of arrays in `mln_lang_sys.c` and their helpers |
| `Json` | `encode` and `decode` between values and documents; `EncodeInside` and its like are the calls in which they come back to themselves |
| `Strings` | `replace`: first the length of the result, then the copy |
| `Matrix` | the checks of `mln_lang_array2matrix` and the memory it allocates, modulo the width of `mln_size_t` |

Text, numbers in decimal, escapes and the other functions on strings are left out.
`Json` has no `RECURSIVE` operator, so that it can be proved about: what
`mln_lang_json_encode_generate` and `mln_lang_json_decode_process` do with a value
inside another is a constant operator, and the configuration gives it the operator
of the outside. `ValueLevels` and `DocumentLevels` are the values and documents by
how deep they nest.

Seen while modelling, without a run of their own: `replace` with keys that
overlap copies what it has already replaced (of `abcd`, with `abc` to `X` and `b`
to `Y`, it makes `XYcd`); reading an array as a matrix adds a nil element for each
one that is missing to the array of the caller; integers beyond 2^53 and reals
without a fraction come back from JSON as something else, and keys that are not
strings are dropped.

## Runs

`CHECK_DEADLOCK FALSE` everywhere: a receiver without a timeout may wait forever,
all coroutines may have ended, the process may have aborted, and the bounds stop
the rest.

| Run | Instance | It shows |
|---|---|---|
| `queue` | 3 coroutines (one started by `Eval`), 1 queue, 2 messages, timeouts 1 and 2, clock to 2 | `TypeOK`, `NoStarvedReceiver`, `NoOrphanedQueue`, and the refinement `IsMailbox` |
| `topic` | 2 coroutines, 1 name, 2 publications and a message, fair, no symmetry | `TopicExactlyOnce`, `DrainedBeforeWaiting`, `WokenForAReason`, `TimedRecvEnds` |
| `alloc` | 2 coroutines, any allocation may fail | what survives failures: `WaitRecordsAgree`, `QueueIsFifo` |
| `tcp` | 2 coroutines, 2 descriptors, 1 retry; one thread with memory or short of it, or several short of it; fair | `TypeOK`, `WaitersServed`, `HandlersFindUser`, `HalfClosed`, `TimedCallsEnd` |
| `udp` | 3 coroutines, 2 descriptors, one thread or several, memory short or not, fair | `TypeOK`, `WaitersServed`, `WokenLeavesClean`, `CallsEnd` |
| `exec` | 2 coroutines, 1 descriptor, no limit or 0 or 2, children write up to 3 bytes, one thread or several, memory short or not, fair | `TypeOK`, `ChildrenKept`, `QueueGetsAll`, `ReturnsOutput`, `CallsEnd` |
| `tls` | 2 coroutines, 2 descriptors, 2 configurations, 1 retry; one thread or several, short memory; fair | `TypeOK`, `WaitersServed`, `CleanQueue`, `AcceptUsesItsConf`, `ConnectReturns` |
| `process` | a coroutine for HTTPS and one for MySQL, in several threads with memory or in one short of it; or one for HTTPS and `tls` and one for `tls`, in one thread short of memory, 2 configurations; 2 threads besides the main one, 1 retry; fair | `TypeOK`, `CallsServed`, `HandlersFindCall`, `HandlesClean`, `RequestUsesItsConf`, `CallsEnd`, `StartsAndEnds` |
| `libraries` | arrays of up to 3 elements, documents two levels deep, texts of up to 5 letters, machine words of 4 bits | `JsonRoundTrip`, `MergeDiffAgree`, `ReplaceFits`, `BuiltMatrixFits` |

A property may be the conjunction of several: `WaitersServed` is, for each kind of
socket, that users, marks and events agree, that a suspended coroutine has an
event or handler that will wake it, and that assertions and handlers meet no null
or freed pointer; `CallsServed` adds to this that the event loop outlives its
coroutines; `ChildrenKept` is the same for children and timers; `CallsEnd`
in `SysExec` is that `exec` and `msleep` end.

Bounds: three receivers make the order of the wait list matter and let one be
woken in the middle of it; two messages can be out of order, lost or doubled;
with two timeouts a later receiver expires first; a topic and a queue of one name
show a receiver that waits on one and is woken by the other; two descriptors show an accepted
socket and a descriptor that is used again; two coroutines are a user and
whoever closes, shuts down or kills; with three bytes the limit of two
is reached inside a buffer, at the end of one, in a later call of the handler,
and again after it was reached. Two children at a time run only in the proofs of
`SysExec`; in the run the descriptor of one is used again for the next. Two
configurations show a number that is used up, freed and looked up again; two
threads besides the main one are one that takes the message sent for the other.
In `process` the two configurations are the one the request named and one made
since, by the other coroutine.
In `tcp`, `tls` and `process` nothing is explored beyond an abort (`CONSTRAINT
Alive`): an aborted process takes no step. The invariants are checked in the
states where it has aborted too; of the behaviours that end there the liveness
properties say nothing, since they are about processes that go on.
Words of 4 bits wrap where those of 64 do, and the theorem `AcceptedFits` is for
any width. Three elements are a hole between two others. An array inside the array
to encode, and a list or object inside that of a document, make `encode` and
`decode` come back to themselves; the theorems are for any depth. `MaxTime`, `MaxSend` and `MaxPub`
stop the clock and the counters in the guards of `Tick`, `RecvBlocksTimed`,
`CanSend` and `Broadcast`, `MaxOut` in `ChildWrites`, `MaxConf` in `CanMake`,
`MaxMail` in `SendMail`; a stopped clock is sound for `TimedRecvEnds` because
`RecvBlocksTimed` accepts only deadlines the clock can reach.

Fairness. `TimerFires` and `Tick` are strongly fair: the event loop looks at its
timers between any two slices of the coroutines, and time passes, but both are
disabled while a loop holds the mutex. The turns of a loop are weakly fair: a C
loop runs on. In `TcpSocket` a handler that was called gets the mutex
(weak fairness of `Handler`), and an event armed with a timeout does not stay
armed: it fires or times out. A retry arms the timeout afresh, so that it is the
count of the retries that ends a connection attempt whose events keep coming.
In `UdpSocket` the same holds; in addition a socket can send sooner or later, and
a receive is not interrupted forever (strong fairness of `RecvEnds`), since each
interruption arms the timeout afresh.
In `SysExec` handlers get the mutex (weak fairness of `Handler` and
`Wakes`), and the event loop calls them between the slices of the coroutines
(strong fairness of `Fire` and `TimerFires`, which another handler at work
disables). Nothing is assumed of the scripts or of the children: a child that
never closes its output keeps its coroutine suspended.
In `TlsSocket` a handler gets the mutex, and the system reports an attempt to
connect sooner or later (strong fairness of `Fire` for "connect", as other
handlers at work disable it); nothing is assumed of handshakes and data.
In `Process` threads run (weak fairness of `Threads`), a handler gets the mutex,
the event loop calls the handlers of connection attempts and of MySQL, whose
pipe is always ready, and the database answers in the end (strong fairness of
`Progress`, since "not ready" may come first any number of times). Nothing is
assumed of HTTPS peers once connected.

### Runs that find a violation

Each checks one statement of the code or its documents that the code does not
keep; `PROJECT.json` quotes them.

| Run | Statement | What happens |
|---|---|---|
| `broadcast_assert` | `ASSERT(lcm != NULL)` | a broadcast meets a coroutine that never imported `mq` |
| `kill_returns` | `Kill` always returns `nil` | killing a suspended receiver uses the pointer just cleared |
| `shutdown_returns` | `tcp_shutdown` always returns `nil` | the second one of a direction in use uses a null context |

## Proofs

TLC checks the instances above; TLAPS proves the following for all values of the
constants that satisfy the assumptions of the modules (`ConstAssumption`,
`OptionsAssumption`, `ConfAssumption`, `HttpsAssumption`, `LauncherAssumption`, `SizeAssumption`,
`LibrariesAssumption`, `KeysAssumption`, `NestingAssumption`, `InsideAssumption`);
TLC evaluates the assumptions in the runs of the modules that make them.

`MsgQueueProofs`: `WaitInv` joins `TypeOK`, `WaitRecordsAgree` and the fact that
a broadcasting coroutine runs; `ChainDelRemoves` (unlinking a coroutine from a
list that holds it once removes it and nothing else) carries its induction.
`QueueInv` adds the three properties of the queues: FIFO is inductive by itself,
but that a hand-over gives the message just sent needs `NoStarvedReceiver`, and
that one needs the wait records. `TimerCoversHeap` is inductive with the types.
`WokenForAReason` and the refinement need in addition that a suspended receiver
holds `nil` (`WaitersHoldNil`), since the timer handler sets no result; the
refinement maps every step to a step of `Mailbox` or to a stutter, action by
action. `TopicInv` is for the topics: `TopicExactlyOnce` and `DrainedBeforeWaiting`
become inductive together with the facts that only a coroutine that is alive owns
topics (`OwnersAlive`, without which a broadcast would miss it, as it visits the
coroutines that are alive), that what is not subscribed is empty, and that the
topic of a broadcast has a message. The centre are the lemmas on `Exact`, one for
each thing that happens to the list of a topic: the oldest message leaves it, the
newest joins it, or goes at once to a coroutine that waits, which is in order only
because that coroutine had drained its topic.

`TcpSocketProofs`: `SockInv` adds to `TypeOK` and `UsersAgree` that the marks of
closed descriptors are clear, that an armed event or pending handler belongs to
the marked direction and excludes the other, and that users and waiters are the
same. It is inductive with any number of threads and gives `UsersAgree`,
`WaitersWakeable` and `AssertsHold`. `ServedCorrect` joins them. `SingleInv` (with one thread, what is armed
or called has a user) gives `ArmedIsUsed` and `HandlersFindUser`; `HalfClosed` is
inductive with the types.

`UdpSocketProofs`: `SockInv` is built in the same way and gives `UsersAgree`,
`WaitersWakeable` and the action property `WokenLeavesClean`, whose proof needs
that a handler's direction is the only one marked. `DataInv` (with memory, the
trees exist, data is marked as sending, no assertion has failed) gives
`DataOfSender` and `AssertsHold`: that the assertion on the data holds follows
from `Unused` only because data implies the mark. `SingleInv` is as for TCP, and so
is `ServedCorrect`.

`SysExecProofs`: `ExecInv` has three parts beside `TypeOK`. `Records`: the four
places that know of a child agree; what was called is still waited for (with one
thread). `Data`: a descriptor without a record has no data, nothing is received
that was not written, what is kept is a prefix of the output, the queue has it
all. `Unanswered`: a coroutine that waits has no result yet. Each part is kept by
every action, and the release of a record (`FreeIsTyped`, `FreeKeepsData`) is
proved once. The centre is `ChainIsKept`: for every chain of buffers and every
limit the loop of the handler leaves the first `min(limit, received)` bytes. That
what was kept before is such a prefix is needed, since the loop goes on from
`cur_size`. With `Bytes(0, a) \o Bytes(a, n) = Bytes(0, a + n)` it gives
`OutputIsPrefix`, `QueueGetsAll` and, at the end of the child, `ReturnsOutput`.

`TlsSocketProofs`: `SockInv` adds to the types, `UsersAgree` and
`WaitersWakeable` that closed descriptors have no marks, that listening sockets
never send, and that configurations in the tree have a number; it is kept with
any number of threads, in one lemma for each way a step treats a socket
(`SuspendSock`, `FinishSock`, `RemoveSock`, `EventSock`, `KillSock`, `QuietSock`).
`SingleInv`, with one thread: an event or a handler has an open socket and a
user; a handler that leaves the queue of the connection alone finds no send in
progress. The second part is needed for `CleanQueue`: who stops waiting without
emptying the queue must not have been the sender. `ConfInv` is for
`AcceptUsesItsConf`: as long as no failed import took the counter away (`~reset`)
it is above all numbers (`Numbered`), so that no two configurations have the same,
and the request of an accept holds that of its configuration; an accept is handled
on a listening socket, even if another thread has closed it meanwhile.

`ProcessProofs`: `CoInv` joins `CallsServed` with two facts about handlers on
their way: their coroutine does not run, and with one thread its call is there.
It is kept by each step of `Coroutines` (`BeginCo`, `ContinueCo`, `ReturnCo`, ...),
whichever library takes it. `RowsOfCall`, with memory, is why `HandlesClean` holds:
the rows on a handle are of one query because every way out of "fetch" takes
them. `ConfCorrect` is for `RequestUsesItsConf`: `ConfInv` joins `Numbered` with
`RequestsNamed`, that while a request connects, its number is that of the
configuration its call named, which was freed perhaps but, as the counter has
gone on, is the only one ever to have it. The property excepts what follows a
reset, because there it fails: without `~reset` TLC finds a failed `Import`, a number
given again, and a request that connects with a configuration its call did not name.
Of the threads it is proved (`EndInv`) that the event loop is broken, and left, only when no coroutine
is; the rest about them is liveness.

`StringsProofs`: `ReplaceIsRight` is for all strings, and all dictionaries without
an empty key: `replace` writes as many bytes as it has counted, overlaps or not,
and without overlaps the text is the string read from left to right with each key
replaced. The folds of the model are loops: `FoldRuns` gives the states a fold
goes through, and `UpTo`, which follows from the least number of a set, is the
induction over them; with both the loops over the string, over the dictionary and
over the list of occurrences get an invariant each (`FoundOccurrences`,
`InsertedOrdered`, `PositionsOrdered`, `TextHasSize`, `TextIsReplaced`).

`LibrariesProofs`, matrix: `AcceptedFits`, what the checks of
`mln_lang_array2matrix` accept is neither truncated nor larger than the memory
allocated, for any width and any size of a double; it rests on `QuotientBound`,
since the checks divide.

Arrays: `MergeAgrees`, for all arrays, whatever holes the indexes have. The
iteration in the order of the indexes is a sequence (`InOrderLists`), a run of
`Put`s keeps what an array is, and what it leaves is told by the entries
(`PutsEntries`) and by the values without a key (`MergePlain`), apart from each
other.

Json: `ValueReturns` and `DocumentSettles` say of a value and of a document that it
survives the way there and back. They hold of scalars (`ScalarReturns`,
`ScalarSettles`: integers up to `Exact`, numbers that are doubles), and of what is
made of others when they hold of those (`ArraysReturn`, `MadeSettles`), so by
induction over the levels of nesting of all (`ValuesReturn`, `DocumentsSettle`).
What is assumed: `NestingAssumption`, each level has scalars and what is made of
the level below; `InsideAssumption`, on these values and documents the operators
for the inside are those of the outside; `KeysAssumption`, a key that is a string
is one of `Names`. There may be any number of levels.

What calls do (`CallsInv`: an answer is that of the arguments) gives
`JsonAlwaysReturns`, `MergesAlwaysAgree`, `ReplaceAlwaysFits` and
`MatrixAlwaysFits`.

Every invariant and every property of single steps that a run checks is proved.
Only model-checked are the liveness properties, which TLAPS cannot prove:
`TimedRecvEnds`, `TimedCallsEnd`, `ConnectReturns`, `StartsAndEnds` and the three
`CallsEnd`.

## Not modelled, and the plan

1. The composition of `SysExec` and `MsgQueue` through the queue name of `exec`:
   `SysExec` has the queue as the sequence of what was sent to it.
2. `http.parse` and `http.create`, which translate a message into an array
   and back; the functions of `string` besides `replace`, of `sys` besides `exec`,
   `msleep` and those on arrays: one call each, without state.
3. Several requests at a time through `Process`, several threads that are short of
   memory, and TLS sockets in it: the state space is too large for a run. The
   theorems are for any number of coroutines, any threads and any memory.
4. Theorems: the steps of the liveness properties that are safety, such as that
   each retry brings a connection attempt closer to its end.

Melon (scheduler, interpreter, event loop, memory, TLS and HTTP protocols) and
the client library of MySQL are external: they are modelled where the libraries
use them. Files, digests and ciphers are one call each of the system or of
Melon, and keep no state between calls that coroutines share. The scripts under
`tests` and the build are not part of the program.
