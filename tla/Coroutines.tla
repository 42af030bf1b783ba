----------------------------- MODULE Coroutines -----------------------------
(***************************************************************************)
(* The coroutines of a Melang process as the modules that suspend them see *)
(* them: a coroutine makes one call at a time; while it is suspended, one  *)
(* event of the event loop belongs to the call, armed for one shot; the    *)
(* handler of the event takes the mutex of the mln_lang_t and either goes  *)
(* to a further step of the call and arms the event again, or gives the    *)
(* answer and continues the coroutine.  HttpsRequest and Mysql extend this *)
(* module, Process composes them.                                          *)
(***************************************************************************)
EXTENDS Integers

CONSTANTS
  Ctx,      \* coroutines (mln_lang_ctx_t)
  Options   \* the triples (threads, lowmem, imports) to start with

Libs == {"http", "mysql", "tls"}

ASSUME OptionsAssumption ==
  Options \subseteq BOOLEAN \X BOOLEAN \X [Ctx -> SUBSET Libs]

VARIABLES
  threads,  \* whether several threads run the event loop (-t=N)
  lowmem,   \* whether the library may run out of memory
  imports,  \* the libraries that the script of a coroutine uses
  status,   \* "run", "wait" or "end"
  step,     \* the step of the call in progress, "none" without a call
  armed,    \* the coroutines whose call has its event armed
  pending,  \* "handler" or "timeout": called, but not yet with the mutex
  fault     \* "none", or the place where the process aborted

options == <<threads, lowmem, imports>>
callVars == <<status, step, armed, pending>>
coVars == <<options, callVars, fault>>

CoInit ==
  /\ \E o \in Options : threads = o[1] /\ lowmem = o[2] /\ imports = o[3]
  /\ status = [c \in Ctx |-> "run"]
  /\ step = [c \in Ctx |-> "none"]
  /\ armed = {}
  /\ pending = [c \in Ctx |-> "none"]
  /\ fault = "none"

-----------------------------------------------------------------------------
(* With one thread a handler runs to its end before anything else.         *)
Idle == fault = "none" /\ (threads \/ \A c \in Ctx : pending[c] = "none")
Running(c) == Idle /\ status[c] = "run"
Uses(c, lib) == Running(c) /\ lib \in imports[c]

(* The process uses freed memory, or an assertion fails.                   *)
Abort(where) == fault' = where /\ UNCHANGED callVars

(* mln_lang_ctx_suspend, with the event armed and the call on the list of  *)
(* the coroutine                                                           *)
Begin(c, s) ==
  /\ status' = [status EXCEPT ![c] = "wait"]
  /\ step' = [step EXCEPT ![c] = s]
  /\ armed' = armed \cup {c}
  /\ UNCHANGED <<pending, fault>>

(* The event loop calls the handler of the event, or that of its timeout.  *)
Call(c, h) ==
  /\ Idle
  /\ c \in armed /\ pending[c] = "none"
  /\ armed' = armed \ {c}
  /\ pending' = [pending EXCEPT ![c] = h]
  /\ UNCHANGED <<status, step, fault>>

(* The handler h of a call in step s has the mutex.                        *)
Handles(c, h, s) == fault = "none" /\ pending[c] = h /\ step[c] = s

(* The handler arms the event again, for step s.                           *)
Continue(c, s) ==
  /\ step' = [step EXCEPT ![c] = s]
  /\ armed' = armed \cup {c}
  /\ pending' = [pending EXCEPT ![c] = "none"]
  /\ UNCHANGED <<status, fault>>

(* The handler gives the answer and frees what belongs to the call.        *)
Return(c) ==
  /\ status' = [status EXCEPT ![c] = "run"]
  /\ step' = [step EXCEPT ![c] = "none"]
  /\ armed' = armed \ {c}
  /\ pending' = [pending EXCEPT ![c] = "none"]
  /\ UNCHANGED fault

(* The call was freed while its handler waited for the mutex.              *)
HandlerAborts(c) ==
  /\ fault = "none"
  /\ pending[c] # "none" /\ step[c] = "none"
  /\ Abort("handler")

(* A defective end of a coroutine, which leaves the event armed.           *)
StillArmed(c) == armed

(* mln_lang_ctx_https_free and mln_lang_mysql_timeout_free, with which the *)
(* call of a coroutine that is killed is freed                             *)
Disarmed(c) == armed \ {c}

Freed(c) ==
  /\ status' = [status EXCEPT ![c] = "end"]
  /\ step' = [step EXCEPT ![c] = "none"]
  /\ armed' = Disarmed(c)
  /\ UNCHANGED <<pending, fault>>

=============================================================================
