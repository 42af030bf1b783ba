------------------------------ MODULE Process -------------------------------
(***************************************************************************)
(* A Melang process: its threads (Launcher) and its coroutines, each of    *)
(* which makes one call at a time, of the HTTPS client (HttpsRequest) or   *)
(* of the MySQL client (Mysql).  The components meet in the coroutines:    *)
(* whoever continues one, or kills it, must leave nothing behind that the  *)
(* event loop would call later, and the process ends when none is left.    *)
(***************************************************************************)
EXTENDS HttpsRequest, Mysql, Launcher

vars == <<coVars, httpsVars, mysqlVars, launchVars>>

Init == CoInit /\ HttpsInit /\ MysqlInit /\ LaunchInit

-----------------------------------------------------------------------------
(* A coroutine ends by itself, or by an error of its script.               *)
End(c) ==
  /\ Running(c)
  /\ Freed(c) /\ StateFree(c) /\ MysqlFreed(c)
  /\ UNCHANGED confVars

Kill(k, c) ==
  /\ Running(k) /\ k # c
  /\ status[c] # "end"
  /\ Freed(c) /\ StateFree(c) /\ MysqlFreed(c)
  /\ UNCHANGED confVars

(* Import('tls') or tls.conf_new has no memory: the script ends with an    *)
(* error.  (No script of this process opens a TLS socket.)                 *)
ConfFails(c) ==
  /\ lowmem
  /\ Uses(c, "tls")
  /\ ImportLost({}) \/ NumberLost
  /\ Freed(c) /\ StateFree(c) /\ MysqlFreed(c)

Fire(c) == Call(c, "handler") /\ UNCHANGED <<httpsVars, mysqlVars>>

HandlerFails(c) == HandlerAborts(c) /\ UNCHANGED <<httpsVars, mysqlVars>>

Https(c) == (HttpsScript(c) \/ FireTimeout(c)) /\ UNCHANGED mysqlVars
Database(c) == (MysqlScript(c) \/ LoseServer(c)) /\ UNCHANGED httpsVars

(* The handlers, which also run while the last message is handed over.     *)
Handler(c) ==
  /\ pending[c] # "none"
  /\ \/ UNCHANGED mysqlVars /\ HttpsHandler(c)
     \/ UNCHANGED httpsVars /\ MysqlHandler(c)
     \/ HandlerFails(c)

Progress(c) ==
  pending[c] # "none" /\ UNCHANGED httpsVars /\ MysqlProgress(c)

Client(A) == Dispatching /\ UNCHANGED <<options, launchVars>> /\ A

Threads == UNCHANGED <<coVars, httpsVars, mysqlVars>> /\ Launch

Next ==
  \/ Threads
  \/ \E c \in Ctx :
       \/ Client(End(c)) \/ Client(ConfFails(c))
       \/ Client(Https(c)) \/ Client(Database(c))
       \/ Client(Fire(c)) \/ Client(Handler(c))
       \/ \E k \in Ctx : Client(Kill(k, c))

Spec == Init /\ [][Next]_vars

(* A thread that runs gets on, and gets the mutex; the event loop calls    *)
(* the handlers of MySQL, whose events are always ready (the writing end   *)
(* of a pipe), and sooner or later of a connection attempt; the database   *)
(* answers in the end, unless it is lost.                                  *)
FairSpec ==
  /\ Spec
  /\ WF_vars(Threads)
  /\ \A c \in Ctx :
       /\ WF_vars(Client(Handler(c)))
       /\ SF_vars(Client(step[c] \in MysqlSteps \cup {"connect"} /\ Fire(c)))
       /\ SF_vars(Client(Progress(c)))

-----------------------------------------------------------------------------
(* Whoever waits has a call in progress whose event is armed or whose      *)
(* handler is on its way, and nobody else has: no coroutine is left        *)
(* asleep, no event is left armed (a MySQL handler that cannot arm its     *)
(* event again leaves its coroutine asleep, for want of memory).           *)
CallsMatch ==
  /\ \A c \in Ctx : status[c] = "wait" <=> step[c] # "none"
  /\ \A c \in armed : step[c] # "none" /\ pending[c] = "none"
  /\ \A c \in Ctx :
       status[c] = "wait" =>
         \/ c \in armed \/ pending[c] # "none"
         \/ lowmem /\ step[c] \in MysqlSteps

(* The event loop that serves them is left only when all are gone          *)
(* (mln_task_checker), whichever thread looks for them and when.           *)
LoopOutlives == broken \/ main = "done" => NoTask

CallsServed == CallsMatch /\ LoopOutlives

(* With one thread no handler finds its call freed: the process aborts     *)
(* only in the kill of a coroutine that fetches rows.                      *)
HandlersFindCall == ~threads => fault \in {"none", "kill"}

(* A connection attempt ends although it is retried, and a call of MySQL   *)
(* ends unless the server is lost while rows are fetched (or there is no   *)
(* memory, or the process is gone).                                        *)
CallsEnd ==
  \A c \in Ctx :
    /\ step[c] = "connect" ~>
         step[c] # "connect" \/ fault # "none"
    /\ step[c] \in MysqlSteps ~>
         \/ step[c] \notin MysqlSteps
         \/ step[c] = "fetch" /\ c \in lost
         \/ lowmem \/ fault # "none"

(* A thread that is on the list before the main thread has left its loop   *)
(* of messages gets one, whichever thread receives how many of them; and   *)
(* when the last coroutine is gone the process ends.                       *)
StartsAndEnds ==
  /\ \A w \in Worker :
       worker[w] = "wait" /\ main = "hand" ~> worker[w] = "loop"
  /\ NoTask /\ main = "loop" ~>
       main = "done" \/ lowmem \/ fault # "none"

(* Types of the variables.                                                 *)
TypeOK ==
  /\ threads \in BOOLEAN /\ lowmem \in BOOLEAN
  /\ imports \in [Ctx -> SUBSET Libs]
  /\ status \in [Ctx -> {"run", "wait", "end"}]
  /\ step \in [Ctx -> HttpsSteps \cup MysqlSteps \cup {"none"}]
  /\ armed \subseteq Ctx
  /\ pending \in [Ctx -> {"none", "handler", "timeout"}]
  /\ fault \in {"none", "handler", "race", "kill"}
  /\ HttpsTypes /\ MysqlTypes /\ LaunchTypes

=============================================================================
