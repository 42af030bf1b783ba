------------------------------ MODULE Launcher ------------------------------
(***************************************************************************)
(* How a Melang process starts and ends (src/melang.c).  The main thread   *)
(* starts the other threads; each puts itself on a list and waits for a    *)
(* message.  The main thread sends messages as long as the list is not     *)
(* empty, then it runs the event loop like the threads that got one.  A    *)
(* timer looks for the last coroutine to be gone and breaks the loop.      *)
(***************************************************************************)
EXTENDS Coroutines

CONSTANTS
  Worker,   \* the threads besides the main one (-t=N starts N - 1)
  MaxMail   \* bound on the messages that are under way at a time

ASSUME LauncherAssumption == MaxMail \in Nat

VARIABLES
  main,     \* the main thread: "hand" (over), "loop" or "done"
  worker,   \* the others: "start", "wait", "got" (a message), "loop", "gone"
  listed,   \* the threads on the list from head to tail
  mail,     \* messages sent and not received
  timer,    \* whether the timer of mln_task_checker is set
  broken    \* mln_event_break_set

launchVars == <<main, worker, listed, mail, timer, broken>>

LaunchInit ==
  /\ main = IF threads THEN "hand" ELSE "loop"
  /\ worker = [w \in Worker |-> IF threads THEN "start" ELSE "gone"]
  /\ listed = {}
  /\ mail = 0
  /\ timer = TRUE
  /\ broken = FALSE

(* Some thread runs the event loop.                                        *)
Dispatching ==
  /\ fault = "none" /\ main # "done" /\ ~broken
  /\ main = "loop" \/ \E w \in Worker : worker[w] = "loop"

-----------------------------------------------------------------------------
(* mln_iothread_entry                                                      *)
Register(w) ==
  /\ worker[w] = "start" /\ main # "done"
  /\ worker' = [worker EXCEPT ![w] = "wait"]
  /\ listed' = listed \cup {w}
  /\ UNCHANGED <<main, mail, timer, broken>>

(* No memory for the thread's record, or for the node of the tree: then    *)
(* the record stays on the list.                                           *)
RegisterFails(w) ==
  /\ lowmem
  /\ worker[w] = "start" /\ main # "done"
  /\ worker' = [worker EXCEPT ![w] = "gone"]
  /\ listed' \in {listed, listed \cup {w}}
  /\ UNCHANGED <<main, mail, timer, broken>>

(* mln_iothread_recv receives one message or more.                         *)
Receive(w) ==
  /\ worker[w] = "wait" /\ main # "done"
  /\ mail > 0
  /\ mail' \in 0 .. mail - 1
  /\ worker' = [worker EXCEPT ![w] = "got"]
  /\ UNCHANGED <<main, listed, timer, broken>>

(* Then the thread leaves the list and runs its event loop.                *)
Unlist(w) ==
  /\ worker[w] = "got" /\ main # "done"
  /\ worker' = [worker EXCEPT ![w] = "loop"]
  /\ listed' = listed \ {w}
  /\ UNCHANGED <<main, mail, timer, broken>>

(* The end of mln_run_all.                                                 *)
SendMail ==
  /\ main = "hand"
  /\ listed # {}
  /\ mail < MaxMail
  /\ mail' = mail + 1
  /\ UNCHANGED <<main, worker, listed, timer, broken>>

(* A defective test, content with one thread that runs.                    *)
OneRuns == listed = {} \/ \E w \in Worker : worker[w] = "loop"

NobodyListed == listed = {}

HandedOverAll ==
  /\ main = "hand"
  /\ NobodyListed
  /\ main' = "loop"
  /\ UNCHANGED <<worker, listed, mail, timer, broken>>

-----------------------------------------------------------------------------
(* mln_lang_task_empty                                                     *)
NoTask == \A c \in Ctx : status[c] = "end"

(* A defective checker, which does not set its timer again.                *)
OneShot == {FALSE}

(* The timer is set again, unless that fails, which nobody looks at.       *)
SetAgain == IF lowmem THEN BOOLEAN ELSE {TRUE}

(* mln_task_checker                                                        *)
CheckTasks ==
  /\ Dispatching /\ Idle
  /\ timer
  /\ broken' = NoTask
  /\ timer' \in (IF NoTask THEN {FALSE} ELSE SetAgain)
  /\ UNCHANGED <<main, worker, listed, mail>>

(* The main thread leaves the event loop, and main() returns.              *)
Leave ==
  /\ main = "loop" /\ broken
  /\ main' = "done"
  /\ UNCHANGED <<worker, listed, mail, timer, broken>>

Launch ==
  \/ SendMail \/ HandedOverAll \/ CheckTasks \/ Leave
  \/ \E w \in Worker : Register(w) \/ RegisterFails(w) \/ Receive(w) \/ Unlist(w)

-----------------------------------------------------------------------------
(* Types of the variables.                                                 *)
LaunchTypes ==
  /\ main \in {"hand", "loop", "done"}
  /\ worker \in [Worker -> {"start", "wait", "got", "loop", "gone"}]
  /\ listed \subseteq Worker
  /\ mail \in 0 .. MaxMail
  /\ timer \in BOOLEAN /\ broken \in BOOLEAN

=============================================================================
