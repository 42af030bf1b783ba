------------------------------- MODULE Mysql --------------------------------
(***************************************************************************)
(* The MySQL client (src/lib_src/mysql): the object of a script holds the  *)
(* handle of a connection; connect and execute suspend the coroutine, and  *)
(* handlers poll the client library, which answers "not ready", an error,  *)
(* or that the step is complete, through the steps of a query: sending it, *)
(* storing its result, fetching row after row, freeing the result.         *)
(*                                                                         *)
(* The rows fetched so far hang on the handle (ret_var), not on the call.  *)
(***************************************************************************)
EXTENDS Coroutines

VARIABLES
  object,   \* the coroutines whose object holds a handle (its member fd)
  rows,     \* lm->ret_var of that handle: "none", "own" rows of this or
            \* the last execute, or "stale" rows of an earlier one too
  result,   \* the coroutines whose handle has a result (lm->result)
  mixed,    \* history: those whose last execute returned stale rows
  lost      \* the coroutines that have lost the server for this call

mysqlVars == <<object, rows, result, mixed, lost>>

MysqlSteps == {"login", "query", "result", "fetch", "free"}

MysqlInit ==
  /\ object = {}
  /\ rows = [c \in Ctx |-> "none"]
  /\ result = {}
  /\ mixed = {}
  /\ lost = {}

-----------------------------------------------------------------------------
(* mln_lang_mysql_new: a handle without rows                               *)
FreshHandle(c) == [rows EXCEPT ![c] = "none"]

(* connect makes a new handle, which the object holds when it is connected.*)
Login(c) ==
  /\ Uses(c, "mysql")
  /\ Begin(c, "login")
  /\ UNCHANGED mysqlVars

(* close; nothing happens to the process when there is no handle.          *)
Close(c) ==
  /\ Running(c)
  /\ c \in object
  /\ object' = object \ {c}
  /\ rows' = [rows EXCEPT ![c] = "none"]
  /\ UNCHANGED <<callVars, fault, result, mixed, lost>>

(* execute; the rows that the handle may still hold are those of another.  *)
Execute(c) ==
  /\ Running(c)
  /\ c \in object
  /\ rows' = [rows EXCEPT ![c] = IF @ = "own" THEN "stale" ELSE @]
  /\ mixed' = mixed \ {c}
  /\ Begin(c, "query")
  /\ UNCHANGED <<object, result, lost>>

(* The server goes away: the library answers with an error from now on.    *)
LoseServer(c) ==
  /\ fault = "none"
  /\ step[c] \in MysqlSteps \ {"free"}
  /\ lost' = lost \cup {c}
  /\ UNCHANGED <<callVars, fault, object, rows, result, mixed>>

-----------------------------------------------------------------------------
Polls(c, s) == Handles(c, "handler", s)
Answered(c, s) == Polls(c, s) /\ c \notin lost

Goes(c, s) == Continue(c, s) /\ UNCHANGED mysqlVars

(* The call is taken off the list and the coroutine continued.             *)
Returns(c) == Return(c) /\ lost' = lost \ {c}

(* NET_ASYNC_NOT_READY; an error while rows are fetched is taken for it,   *)
(* for the test of mln_lang_mysql_fetch_test is "not complete".            *)
NotReady(c, s) ==
  /\ Polls(c, s)
  /\ c \in lost => s = "fetch"
  /\ Goes(c, s)

(* Arming the event again fails, which no handler looks at.                *)
ArmFails(c) ==
  /\ lowmem
  /\ \E s \in MysqlSteps : Polls(c, s)
  /\ pending' = [pending EXCEPT ![c] = "none"]
  /\ UNCHANGED <<status, step, armed, fault, mysqlVars>>

LoginDone(c) ==
  /\ Answered(c, "login")
  /\ object' = object \cup {c}
  /\ rows' = FreshHandle(c)
  /\ Returns(c)
  /\ UNCHANGED <<result, mixed>>

(* NET_ASYNC_ERROR, or no memory for the answer                            *)
Errs(c) ==
  /\ \E s \in {"login", "query", "result"} : Polls(c, s)
  /\ Returns(c)
  /\ UNCHANGED <<object, rows, result, mixed>>

QueryDone(c) ==
  /\ Answered(c, "query")
  /\ Goes(c, "result")

(* The statement has no result: the answer is true.                        *)
NoResult(c) ==
  /\ Answered(c, "result")
  /\ rows' = [rows EXCEPT ![c] = "none"]
  /\ Returns(c)
  /\ UNCHANGED <<object, result, mixed>>

ResultStored(c) ==
  /\ Answered(c, "result")
  /\ result' = result \cup {c}
  /\ Continue(c, "fetch")
  /\ UNCHANGED <<object, rows, mixed, lost>>

(* A row joins those that the handle holds.                                *)
MoreRows(c) == [rows EXCEPT ![c] = IF @ = "none" THEN "own" ELSE @]

RowFetched(c) ==
  /\ Answered(c, "fetch")
  /\ rows' = MoreRows(c)
  /\ Continue(c, "fetch")
  /\ UNCHANGED <<object, result, mixed, lost>>

(* No memory for the row: the rows fetched so far stay on the handle.      *)
RowDropped(c) ==
  /\ lowmem
  /\ Answered(c, "fetch")
  /\ rows' \in {rows, MoreRows(c)}
  /\ Continue(c, "free")
  /\ UNCHANGED <<object, result, mixed, lost>>

(* The rows become the answer.                                             *)
TakenRows(c) == [rows EXCEPT ![c] = "none"]

LastRow(c) ==
  /\ Answered(c, "fetch")
  /\ mixed' = IF rows[c] = "stale" THEN mixed \cup {c} ELSE mixed
  /\ rows' = TakenRows(c)
  /\ Continue(c, "free")
  /\ UNCHANGED <<object, result, lost>>

(* A defective mln_lang_mysql_free_test, which keeps the result.           *)
KeptResult(c) == result

(* mln_lang_mysql_free_test, also after an error                           *)
DroppedResult(c) == result \ {c}

ResultFreed(c) ==
  /\ Polls(c, "free")
  /\ result' = DroppedResult(c)
  /\ Returns(c)
  /\ UNCHANGED <<object, rows, mixed>>

-----------------------------------------------------------------------------
(* mln_lang_mysql_timeout_free: the handle of a call in progress goes with *)
(* its coroutine, and so does the object.  An idle handle is not on the    *)
(* list: nobody frees it.                                                  *)
MysqlFreed(c) ==
  /\ object' = object \ {c}
  /\ rows' = [rows EXCEPT ![c] = "none"]
  /\ result' = result \ {c}
  /\ mixed' = mixed \ {c}
  /\ lost' = lost \ {c}

(* ASSERT(lm->result == NULL) in mln_lang_mysql_free                       *)
KillAborts(k, c) ==
  /\ Running(k) /\ k # c
  /\ c \in result
  /\ Abort("kill")
  /\ UNCHANGED mysqlVars

MysqlScript(c) ==
  \/ Login(c) \/ Close(c) \/ Execute(c)
  \/ \E k \in Ctx : KillAborts(k, c)

MysqlProgress(c) ==
  \/ LoginDone(c) \/ QueryDone(c) \/ NoResult(c) \/ ResultStored(c)
  \/ LastRow(c) \/ ResultFreed(c) \/ Errs(c)

MysqlHandler(c) ==
  \/ MysqlProgress(c) \/ RowFetched(c) \/ RowDropped(c) \/ ArmFails(c)
  \/ \E s \in MysqlSteps : NotReady(c, s)

-----------------------------------------------------------------------------
(* A handle has a result only while the call that stored it fetches its    *)
(* rows or frees it: close, and the next execute, find none.  As long as   *)
(* there is memory the answer of execute consists of rows of its own       *)
(* result, although the rows are collected on the handle.                  *)
HandlesClean ==
  /\ \A c \in result : step[c] \in {"fetch", "free"}
  /\ ~lowmem => mixed = {}

(* Types of the variables.                                                 *)
MysqlTypes ==
  /\ object \subseteq Ctx
  /\ rows \in [Ctx -> {"none", "own", "stale"}]
  /\ result \subseteq Ctx
  /\ mixed \subseteq Ctx
  /\ lost \subseteq Ctx

=============================================================================
