---------------------------- MODULE ProcessProofs ----------------------------
(***************************************************************************)
(* Proofs about Process, and the components it composes, for any set of    *)
(* coroutines, threads and configurations.                                 *)
(***************************************************************************)
EXTENDS Process, TLAPS

Steps == HttpsSteps \cup MysqlSteps

(* The types of the variables, those of the build apart.                   *)
CoTypes ==
  /\ status \in [Ctx -> {"run", "wait", "end"}]
  /\ step \in [Ctx -> Steps \cup {"none"}]
  /\ armed \subseteq Ctx
  /\ pending \in [Ctx -> {"none", "handler", "timeout"}]
  /\ fault \in {"none", "handler", "race", "kill"}
Typed == CoTypes /\ HttpsTypes /\ MysqlTypes /\ LaunchTypes

(* The handler of a coroutine is not called while it runs; with one thread *)
(* it is called only for a call in progress.                               *)
NotRunning == \A c \in Ctx : pending[c] # "none" => status[c] # "run"
HandlersExpected ==
  ~threads => /\ fault \in {"none", "kill"}
              /\ \A c \in Ctx : pending[c] # "none" => step[c] # "none"

(* A handle has a result only while rows are fetched or the result freed;  *)
(* with memory it holds rows, all of them of its own result, only while    *)
(* they are fetched.                                                       *)
RowsOfCall ==
  /\ \A c \in result : step[c] \in {"fetch", "free"}
  /\ ~lowmem =>
       /\ mixed = {}
       /\ \A c \in Ctx : rows[c] = "none" \/ (rows[c] = "own" /\ step[c] = "fetch")

CoInv == CallsMatch /\ NotRunning /\ HandlersExpected
ProcInv == Typed /\ CoInv /\ RowsOfCall

-----------------------------------------------------------------------------
(* It holds at the start.                                                  *)
LEMMA InitProc == Init => ProcInv
<1> SUFFICES ASSUME Init PROVE ProcInv
  OBVIOUS
<1> USE DEF Init, CoInit, HttpsInit, MysqlInit, LaunchInit
<1>0. ConfTypes
  <2>1. /\ trees = {} /\ nextId = 0 /\ live = {} /\ reset = FALSE
        /\ confId = [n \in Conf |-> 0]
    BY DEF ConfInit
  <2>2. 0 \in 0 .. MaxConf /\ 0 \in 0 .. MaxConf + 1
    BY ConfAssumption
  <2>3. reset \in BOOLEAN
    BY <2>1, Zenon
  <2> QED  BY <2>1, <2>2, <2>3 DEF ConfTypes
<1>1. CoTypes /\ HttpsTypes /\ MysqlTypes
  BY <1>0, HttpsAssumption, ConfAssumption DEF CoTypes, HttpsTypes, MysqlTypes
<1>2. LaunchTypes
  <2>1. 0 \in 0 .. MaxMail
    BY LauncherAssumption
  <2> QED  BY <2>1 DEF LaunchTypes
<1>3. CoInv /\ RowsOfCall
  BY DEF CoInv, CallsMatch, NotRunning, HandlersExpected, RowsOfCall
<1> QED  BY <1>1, <1>2, <1>3 DEF ProcInv, Typed

(* The steps of the threads preserve it.                                   *)
LEMMA ThreadsProc == ASSUME ProcInv, Threads PROVE ProcInv'
<1> USE DEF Threads, coVars, callVars, options, httpsVars, stateVars, confVars,
            mysqlVars
<1>1. LaunchTypes'
  <2> USE DEF ProcInv, Typed, LaunchTypes
  <2>1. CASE SendMail
    <3>1. mail + 1 \in 0 .. MaxMail
      BY <2>1, LauncherAssumption DEF SendMail
    <3> QED  BY <2>1, <3>1 DEF SendMail
  <2>2. CASE HandedOverAll \/ CheckTasks \/ Leave
    BY <2>2 DEF HandedOverAll, CheckTasks, Leave, SetAgain, NoTask
  <2>3. ASSUME NEW w \in Worker, Register(w) \/ RegisterFails(w) \/ Unlist(w)
        PROVE  LaunchTypes'
    BY <2>3 DEF Register, RegisterFails, Unlist
  <2>4. ASSUME NEW w \in Worker, Receive(w) PROVE LaunchTypes'
    <3>1. mail' \in 0 .. MaxMail
      BY <2>4, LauncherAssumption DEF Receive
    <3> QED  BY <2>4, <3>1 DEF Receive
  <2> QED  BY <2>1, <2>2, <2>3, <2>4 DEF Launch
<1>2. Typed'
  BY <1>1 DEF ProcInv, Typed, CoTypes, HttpsTypes, ConfTypes, MysqlTypes
<1>3. CoInv' /\ RowsOfCall'
  BY DEF ProcInv, CoInv, CallsMatch, NotRunning, HandlersExpected, RowsOfCall
<1> QED  BY <1>2, <1>3 DEF ProcInv

-----------------------------------------------------------------------------
(* What happens to the configurations keeps their types.                   *)
LEMMA ConfTyped ==
  ASSUME ConfTypes, NEW S,
         \/ Registered \/ ImportLost(S) \/ NumberLost
         \/ \E n \in Conf : Made(n) \/ Forgotten(n)
  PROVE  ConfTypes'
<1> USE ConfAssumption DEF ConfTypes, Conf, Trees
<1>1. CASE Registered
  BY <1>1 DEF Registered
<1>2. CASE PartlyRegistered
  <2>1. UNCHANGED <<confId, live, reset>> /\ trees' \subseteq Trees
    BY <1>2 DEF PartlyRegistered
  <2>2. nextId' = nextId \/ (nextId = 0 /\ nextId' = 1)
    BY <1>2 DEF PartlyRegistered
  <2> QED  BY <2>1, <2>2
<1>3. CASE Destroyed(S)
  <2>1. trees' \subseteq Trees /\ nextId' = 0 /\ UNCHANGED <<confId, live>>
    BY <1>3 DEF Destroyed
  <2>2. reset' \in BOOLEAN
    BY <1>3, Zenon DEF Destroyed
  <2> QED  BY <2>1, <2>2
<1>4. CASE NumberLost
  BY <1>4 DEF NumberLost, CanMake
<1>5. ASSUME NEW n \in Conf, Made(n) PROVE ConfTypes'
  BY <1>5 DEF Made, CanMake, Number
<1>6. ASSUME NEW n \in Conf, Forgotten(n) PROVE ConfTypes'
  BY <1>6 DEF Forgotten, Named
<1> QED  BY <1>1, <1>2, <1>3, <1>4, <1>5, <1>6 DEF ImportLost

(* What a request finds is a configuration, or none.                       *)
LEMMA FoundTyped ==
  ASSUME ConfTypes, NEW id PROVE Found(id) \subseteq 0 .. MaxConf
<1>1. \A n \in live : n \in 0 .. MaxConf
  BY ConfAssumption DEF ConfTypes, Conf
<1>2. 0 \in 0 .. MaxConf
  BY ConfAssumption
<1>3. CASE id = 0
  BY <1>2, <1>3 DEF Found
<1>4. CASE id # 0
  BY <1>1, <1>4 DEF Found, Named
<1> QED  BY <1>3, <1>4

-----------------------------------------------------------------------------
(* What the steps of a call do to the coroutines.                          *)

(* The call of a running coroutine starts.                                 *)
LEMMA BeginCo ==
  ASSUME CoTypes, CoInv, UNCHANGED options, NEW c \in Ctx, Running(c),
         NEW s \in Steps, Begin(c, s)
  PROVE  CoTypes' /\ CoInv'
<1>1. pending[c] = "none" /\ s # "none"
  BY DEF CoInv, NotRunning, Running, CoTypes, Steps, HttpsSteps, MysqlSteps
<1>2. CoTypes'
  BY DEF CoTypes, Begin
<1>3. CoInv'
  BY <1>1
  DEF CoTypes, CoInv, CallsMatch, NotRunning, HandlersExpected, Begin, options
<1> QED  BY <1>2, <1>3

(* The event loop calls its handler.                                       *)
LEMMA CallCo ==
  ASSUME CoTypes, CoInv, UNCHANGED options, NEW c \in Ctx,
         NEW h \in {"handler", "timeout"}, Call(c, h)
  PROVE  CoTypes' /\ CoInv'
<1>1. step[c] # "none" /\ status[c] = "wait"
  BY DEF CoInv, CallsMatch, Call
<1>2. CoTypes'
  BY DEF CoTypes, Call
<1>3. CoInv'
  BY <1>1
  DEF CoTypes, CoInv, CallsMatch, NotRunning, HandlersExpected, Call, options
<1> QED  BY <1>2, <1>3

(* The handler goes on.                                                    *)
LEMMA ContinueCo ==
  ASSUME CoTypes, CoInv, UNCHANGED options, NEW c \in Ctx,
         NEW now \in Steps, Handles(c, "handler", now),
         NEW s \in Steps, Continue(c, s)
  PROVE  CoTypes' /\ CoInv'
<1>1. step[c] # "none" /\ s # "none" /\ fault = "none"
  BY DEF Handles, Steps, HttpsSteps, MysqlSteps
<1>2. CoTypes'
  BY DEF CoTypes, Continue
<1>3. CoInv'
  BY <1>1
  DEF CoTypes, CoInv, CallsMatch, NotRunning, HandlersExpected, Continue,
      options
<1> QED  BY <1>2, <1>3

(* The handler answers.                                                    *)
LEMMA ReturnCo ==
  ASSUME CoTypes, CoInv, UNCHANGED options, NEW c \in Ctx, Return(c)
  PROVE  CoTypes' /\ CoInv'
<1>1. CoTypes'
  BY DEF CoTypes, Return
<1>2. CoInv'
  BY DEF CoTypes, CoInv, CallsMatch, NotRunning, HandlersExpected, Return,
         options
<1> QED  BY <1>1, <1>2

(* The coroutine ends.                                                     *)
LEMMA FreedCo ==
  ASSUME CoTypes, CoInv, UNCHANGED options, NEW c \in Ctx, Idle, Freed(c)
  PROVE  CoTypes' /\ CoInv'
<1>1. CoTypes'
  BY DEF CoTypes, Freed, Disarmed
<1>2. CoInv'
  BY DEF CoTypes, CoInv, CallsMatch, NotRunning, HandlersExpected, Freed,
         Disarmed, Idle, options
<1> QED  BY <1>1, <1>2

(* The process aborts, in no other way than it may with one thread.        *)
LEMMA AbortCo ==
  ASSUME CoTypes, CoInv, UNCHANGED options, UNCHANGED callVars,
         fault' \in {fault, "handler", "race", "kill"},
         ~threads => fault' \in {fault, "kill"}
  PROVE  CoTypes' /\ CoInv'
<1>1. CoTypes'
  BY DEF CoTypes, callVars
<1>2. CoInv'
  BY DEF CoInv, CallsMatch, NotRunning, HandlersExpected, options, callVars
<1> QED  BY <1>1, <1>2

-----------------------------------------------------------------------------
(* What HttpsRequest does not touch.                                       *)
LEMMA RowsKept ==
  ASSUME CoTypes, MysqlTypes, RowsOfCall, UNCHANGED <<options, mysqlVars>>,
         \A c \in Ctx : step'[c] = step[c] \/ step[c] \in HttpsSteps \cup {"none"}
  PROVE  MysqlTypes' /\ RowsOfCall'
<1>1. MysqlTypes'
  BY DEF MysqlTypes, mysqlVars
<1>2. RowsOfCall'
  BY DEF RowsOfCall, MysqlTypes, mysqlVars, options, HttpsSteps
<1> QED  BY <1>1, <1>2

(* Calls and handlers of the HTTPS client preserve the invariant.          *)
LEMMA HttpsScriptProc ==
  ASSUME ProcInv, UNCHANGED <<options, launchVars, mysqlVars>>,
         NEW c \in Ctx, HttpsScript(c) \/ FireTimeout(c)
  PROVE  ProcInv'
<1>0. CoTypes /\ CoInv /\ MysqlTypes /\ RowsOfCall /\ LaunchTypes'
      /\ UNCHANGED options
  BY DEF ProcInv, Typed, LaunchTypes, launchVars
<1> USE HttpsAssumption DEF HttpsTypes, ProcInv, Typed
<1>1. CASE RequestRaces(c)
  <2>1. HttpsTypes' /\ UNCHANGED callVars
        /\ fault' = "race" /\ threads
    BY <1>1 DEF RequestRaces, Abort, httpsVars, stateVars, confVars, ConfTypes
  <2>2. MysqlTypes' /\ RowsOfCall'
    BY <1>0, <2>1, RowsKept DEF callVars
  <2> QED  BY <1>0, <2>1, <2>2, AbortCo
<1>2. CASE ConfCall(c)
  <2>1. HttpsTypes' /\ UNCHANGED callVars /\ fault' = fault
    BY <1>2, ConfTyped DEF ConfCall, stateVars
  <2>2. MysqlTypes' /\ RowsOfCall'
    BY <1>0, <2>1, RowsKept DEF callVars
  <2> QED  BY <1>0, <2>1, <2>2, AbortCo
<1>3. ASSUME NEW id \in 0 .. MaxConf, Request(c, id) PROVE ProcInv'
  <2>1. ConfTypes'
    BY <1>3 DEF Request, NewState, confVars, ConfTypes
  <2>5. Found(id) \subseteq 0 .. MaxConf
    BY FoundTyped
  <2>6. HttpsTypes'
    BY <1>3, <2>1, <2>5 DEF Request, NewState
  <2>2. Running(c) /\ Begin(c, "connect") /\ "connect" \in Steps
    BY <1>3 DEF Request, Uses, Dial, Steps, HttpsSteps
  <2>3. step[c] = "none"
    BY <1>0, <2>2 DEF Running, CoInv, CallsMatch
  <2>4. MysqlTypes' /\ RowsOfCall'
    BY <1>0, <2>2, <2>3, RowsKept DEF Begin, CoTypes
  <2> QED  BY <1>0, <2>2, <2>4, <2>6, BeginCo
<1>4. CASE FireTimeout(c)
  <2>1. HttpsTypes' /\ Call(c, "timeout") /\ UNCHANGED step
    BY <1>4 DEF FireTimeout, httpsVars, stateVars, confVars, ConfTypes, Call
  <2>2. MysqlTypes' /\ RowsOfCall'
    BY <1>0, <2>1, RowsKept
  <2> QED  BY <1>0, <2>1, <2>2, CallCo
<1> QED  BY <1>1, <1>2, <1>3, <1>4 DEF HttpsScript

(* So do the handlers of HTTPS.                                            *)
LEMMA HttpsHandlerProc ==
  ASSUME ProcInv, UNCHANGED <<options, launchVars, mysqlVars>>,
         NEW c \in Ctx, HttpsHandler(c)
  PROVE  ProcInv'
<1>0. CoTypes /\ CoInv /\ MysqlTypes /\ RowsOfCall /\ LaunchTypes'
      /\ UNCHANGED options
  BY DEF ProcInv, Typed, LaunchTypes, launchVars
<1> USE HttpsAssumption DEF HttpsTypes, ProcInv, Typed
<1>1. CASE Responds(c) \/ Fails(c) \/ TimesOut(c)
  <2>1. Return(c) /\ HttpsTypes' /\ step[c] \in HttpsSteps
    BY <1>1, ConfAssumption
    DEF Responds, Fails, TimesOut, ResumeWith, StateFree, Handles, HttpsSteps,
        confVars, ConfTypes
  <2>2. MysqlTypes' /\ RowsOfCall'
    BY <1>0, <2>1, RowsKept DEF Return, CoTypes
  <2> QED  BY <1>0, <2>1, <2>2, ReturnCo
<1>2. ASSUME NEW now \in HttpsSteps, NEW s \in HttpsSteps, Continue(c, s),
             Handles(c, "handler", now), HttpsTypes'
      PROVE  ProcInv'
  <2>1. now \in Steps /\ s \in Steps
    BY DEF Steps
  <2>2. MysqlTypes' /\ RowsOfCall'
    BY <1>0, <1>2, RowsKept DEF Continue, Handles, CoTypes
  <2> QED  BY <1>0, <1>2, <2>1, <2>2, ContinueCo
<1>3. CASE ConnectAgain(c)
  <2>1. retry[c] + 1 \in 0 .. MaxRetry
    BY <1>3 DEF ConnectAgain, MayRetry
  <2>2. HttpsTypes' /\ "connect" \in HttpsSteps
    BY <1>3, <2>1 DEF ConnectAgain, NextRetry, HttpsSteps, confVars, ConfTypes
  <2> QED  BY <1>2, <1>3, <2>2 DEF ConnectAgain
<1>4. ASSUME NEW now \in HttpsSteps, NEW s \in HttpsSteps, Drive(c, now, s)
      PROVE  ProcInv'
  BY <1>2, <1>4 DEF Drive, httpsVars, stateVars, confVars, ConfTypes
<1>5. ASSUME NEW s \in HttpsSteps, Connected(c, s) PROVE ProcInv'
  <2>1. ConfTypes' /\ "connect" \in HttpsSteps
    BY <1>5 DEF Connected, confVars, ConfTypes, HttpsSteps
  <2>2. Found(asked[c]) \subseteq 0 .. MaxConf
    BY FoundTyped
  <2>3. HttpsTypes'
    BY <1>5, <2>1, <2>2 DEF Connected
  <2> QED  BY <1>2, <1>5, <2>1, <2>3 DEF Connected
<1> QED  BY <1>1, <1>3, <1>4, <1>5 DEF HttpsHandler

-----------------------------------------------------------------------------
(* Calls and handlers of the MySQL client preserve it.                     *)
LEMMA MysqlScriptProc ==
  ASSUME ProcInv, UNCHANGED <<options, launchVars, httpsVars>>,
         NEW c \in Ctx, MysqlScript(c) \/ LoseServer(c)
  PROVE  ProcInv'
<1>0. CoTypes /\ CoInv /\ MysqlTypes /\ RowsOfCall /\ LaunchTypes'
      /\ HttpsTypes' /\ UNCHANGED options /\ lowmem' = lowmem
  BY DEF ProcInv, Typed, LaunchTypes, launchVars, HttpsTypes, httpsVars,
         stateVars, confVars, ConfTypes, options
<1> USE DEF ProcInv, Typed, MysqlTypes
<1>1. \A d \in Ctx : Running(d) => step[d] = "none"
  BY <1>0 DEF Running, CoInv, CallsMatch
<1>2. CASE Login(c)
  <2>1. Running(c) /\ Begin(c, "login") /\ "login" \in Steps
    BY <1>2 DEF Login, Uses, Steps, MysqlSteps
  <2>2. MysqlTypes' /\ RowsOfCall'
    BY <1>0, <1>1, <1>2, <2>1
    DEF Login, mysqlVars, RowsOfCall, Begin, CoTypes
  <2> QED  BY <1>0, <2>1, <2>2, BeginCo
<1>3. CASE Close(c)
  <2>1. UNCHANGED callVars /\ fault' = fault
    BY <1>3 DEF Close
  <2>2. MysqlTypes' /\ RowsOfCall'
    BY <1>0, <1>3, <2>1 DEF Close, RowsOfCall, callVars
  <2> QED  BY <1>0, <2>1, <2>2, AbortCo
<1>4. CASE Execute(c)
  <2>1. Running(c) /\ Begin(c, "query") /\ "query" \in Steps
    BY <1>4 DEF Execute, Steps, MysqlSteps
  <2>2. MysqlTypes'
    BY <1>0, <1>4 DEF Execute
  <2>3. RowsOfCall'
    BY <1>0, <1>1, <1>4, <2>1 DEF Execute, RowsOfCall, Begin, CoTypes
  <2> QED  BY <1>0, <2>1, <2>2, <2>3, BeginCo
<1>5. ASSUME NEW k \in Ctx, KillAborts(k, c) PROVE ProcInv'
  <2>1. UNCHANGED callVars /\ fault' = "kill"
    BY <1>5 DEF KillAborts, Abort
  <2>2. MysqlTypes' /\ RowsOfCall'
    BY <1>0, <1>5, <2>1 DEF KillAborts, mysqlVars, RowsOfCall, callVars
  <2> QED  BY <1>0, <2>1, <2>2, AbortCo
<1>6. CASE LoseServer(c)
  <2>1. UNCHANGED callVars /\ fault' = fault
    BY <1>6 DEF LoseServer
  <2>2. MysqlTypes' /\ RowsOfCall'
    BY <1>0, <1>6, <2>1 DEF LoseServer, RowsOfCall, callVars
  <2> QED  BY <1>0, <2>1, <2>2, AbortCo
<1> QED  BY <1>2, <1>3, <1>4, <1>5, <1>6 DEF MysqlScript

(* A call of MySQL goes on.                                                *)
LEMMA MysqlGoes ==
  ASSUME ProcInv, UNCHANGED <<options, launchVars, httpsVars>>,
         NEW c \in Ctx, NEW now \in MysqlSteps, NEW s \in MysqlSteps,
         Polls(c, now), Continue(c, s),
         MysqlTypes',
         result' = result \/ (result' = result \cup {c} /\ s = "fetch"),
         c \in result => s \in {"fetch", "free"},
         ~lowmem => /\ mixed' = {}
                    /\ rows'[c] = "none" \/ (rows'[c] = "own" /\ s = "fetch")
                    /\ \A d \in Ctx \ {c} : rows'[d] = rows[d]
  PROVE  ProcInv'
<1>1. now \in Steps /\ s \in Steps /\ CoTypes /\ CoInv /\ LaunchTypes'
      /\ HttpsTypes' /\ UNCHANGED options /\ Handles(c, "handler", now)
  BY DEF ProcInv, Typed, LaunchTypes, launchVars, HttpsTypes, httpsVars,
         stateVars, confVars, ConfTypes, Steps,
         Polls
<1>2. RowsOfCall'
  BY <1>1 DEF ProcInv, Typed, RowsOfCall, Continue, CoTypes, options, MysqlTypes
<1> QED  BY <1>1, <1>2, ContinueCo DEF ProcInv, Typed

(* A call of MySQL returns.                                                *)
LEMMA MysqlReturns ==
  ASSUME ProcInv, UNCHANGED <<options, launchVars, httpsVars>>,
         NEW c \in Ctx, Return(c),
         MysqlTypes',
         result' = result \ {c},
         ~lowmem => /\ mixed' = {}
                    /\ rows'[c] = "none"
                    /\ \A d \in Ctx \ {c} : rows'[d] = rows[d]
  PROVE  ProcInv'
<1>1. CoTypes /\ CoInv /\ LaunchTypes' /\ HttpsTypes' /\ UNCHANGED options
  BY DEF ProcInv, Typed, LaunchTypes, launchVars, HttpsTypes, httpsVars,
         stateVars, confVars, ConfTypes
<1>2. RowsOfCall'
  BY <1>1 DEF ProcInv, Typed, RowsOfCall, Return, CoTypes, options, MysqlTypes
<1> QED  BY <1>1, <1>2, ReturnCo DEF ProcInv, Typed

(* and those of MySQL.                                                     *)
LEMMA MysqlHandlerProc ==
  ASSUME ProcInv, UNCHANGED <<options, launchVars, httpsVars>>,
         NEW c \in Ctx, MysqlHandler(c)
  PROVE  ProcInv'
<1>0. CoTypes /\ CoInv /\ MysqlTypes /\ RowsOfCall
      /\ step \in [Ctx -> Steps \cup {"none"}]
      /\ (c \in result => step[c] \in {"fetch", "free"})
      /\ (~lowmem => /\ mixed = {}
                     /\ rows[c] = "none" \/ (rows[c] = "own" /\ step[c] = "fetch"))
  BY DEF ProcInv, Typed, CoTypes, RowsOfCall
<1>a. {"login", "query", "result", "fetch", "free"} = MysqlSteps
  BY DEF MysqlSteps
<1> USE DEF MysqlTypes
<1>1. ASSUME NEW s \in MysqlSteps, NotReady(c, s) PROVE ProcInv'
  <2>1. Polls(c, s) /\ Continue(c, s) /\ UNCHANGED mysqlVars /\ step[c] = s
    BY <1>1 DEF NotReady, Goes, Polls, Handles
  <2>2. MysqlTypes' /\ UNCHANGED <<rows, result, mixed>>
    BY <1>0, <2>1 DEF mysqlVars
  <2> QED  BY <1>0, <2>1, <2>2, MysqlGoes
<1>2. CASE ArmFails(c)
  <2>1. /\ lowmem /\ lowmem' = lowmem /\ step[c] \in MysqlSteps
        /\ pending' = [pending EXCEPT ![c] = "none"]
        /\ UNCHANGED <<status, step, armed, fault, mysqlVars>>
        /\ UNCHANGED options
    BY <1>2 DEF ArmFails, Polls, Handles, options
  <2>2. CoTypes'
    BY <1>0, <2>1 DEF CoTypes
  <2>3. CoInv'
    BY <1>0, <2>1 DEF CoTypes, CoInv, CallsMatch, NotRunning, HandlersExpected,
                      options
  <2>4. MysqlTypes' /\ RowsOfCall'
    BY <1>0, <2>1 DEF RowsOfCall, mysqlVars
  <2>5. LaunchTypes' /\ HttpsTypes'
    BY DEF ProcInv, Typed, LaunchTypes, launchVars, HttpsTypes, httpsVars,
         stateVars, confVars, ConfTypes
  <2> QED  BY <2>2, <2>3, <2>4, <2>5 DEF ProcInv, Typed
<1>3. CASE LoginDone(c)
  <2>1. /\ Return(c) /\ step[c] = "login"
        /\ MysqlTypes' /\ UNCHANGED <<result, mixed>>
        /\ rows' = [rows EXCEPT ![c] = "none"]
    BY <1>0, <1>3 DEF LoginDone, Answered, Polls, Handles, Returns, FreshHandle
  <2>2. result' = result \ {c}
    BY <1>0, <2>1
  <2> QED  BY <1>0, <2>1, <2>2, MysqlReturns
<1>4. CASE Errs(c)
  <2>1. /\ Return(c) /\ step[c] \in {"login", "query", "result"}
        /\ MysqlTypes' /\ UNCHANGED <<rows, result, mixed>>
    BY <1>0, <1>4 DEF Errs, Polls, Handles, Returns
  <2>2. result' = result \ {c} /\ (~lowmem => rows[c] = "none")
    BY <1>0, <2>1
  <2> QED  BY <1>0, <2>1, <2>2, MysqlReturns
<1>5. CASE QueryDone(c)
  <2>1. /\ Polls(c, "query") /\ Continue(c, "result") /\ step[c] = "query"
        /\ UNCHANGED mysqlVars
    BY <1>5 DEF QueryDone, Answered, Polls, Goes, Handles
  <2>2. MysqlTypes' /\ UNCHANGED <<rows, result, mixed>>
    BY <1>0, <2>1 DEF mysqlVars
  <2> QED  BY <1>0, <1>a, <2>1, <2>2, MysqlGoes
<1>6. CASE NoResult(c)
  <2>1. /\ Return(c) /\ step[c] = "result"
        /\ MysqlTypes' /\ UNCHANGED <<result, mixed>>
        /\ rows' = [rows EXCEPT ![c] = "none"]
    BY <1>0, <1>6 DEF NoResult, Answered, Polls, Handles, Returns
  <2>2. result' = result \ {c}
    BY <1>0, <2>1
  <2> QED  BY <1>0, <2>1, <2>2, MysqlReturns
<1>7. CASE ResultStored(c)
  <2>1. /\ Polls(c, "result") /\ Continue(c, "fetch") /\ step[c] = "result"
        /\ MysqlTypes' /\ result' = result \cup {c} /\ UNCHANGED <<rows, mixed>>
    BY <1>0, <1>7 DEF ResultStored, Answered, Polls, Handles
  <2> QED  BY <1>0, <1>a, <2>1, MysqlGoes
<1>8. CASE RowFetched(c)
  <2>1. /\ Polls(c, "fetch") /\ Continue(c, "fetch")
        /\ MysqlTypes' /\ UNCHANGED <<result, mixed>>
        /\ rows' = MoreRows(c)
    BY <1>0, <1>8 DEF RowFetched, Answered, MoreRows
  <2> QED  BY <1>0, <1>a, <2>1, MysqlGoes DEF MoreRows
<1>9. CASE RowDropped(c)
  <2>1. /\ Polls(c, "fetch") /\ Continue(c, "free") /\ lowmem
        /\ MysqlTypes' /\ UNCHANGED <<result, mixed>>
    BY <1>0, <1>9 DEF RowDropped, Answered, MoreRows
  <2> QED  BY <1>a, <2>1, MysqlGoes
<1>10. CASE LastRow(c)
  <2>1. /\ Polls(c, "fetch") /\ Continue(c, "free")
        /\ MysqlTypes' /\ UNCHANGED result
        /\ mixed' = IF rows[c] = "stale" THEN mixed \cup {c} ELSE mixed
        /\ rows' = [rows EXCEPT ![c] = "none"]
    BY <1>0, <1>10 DEF LastRow, Answered, TakenRows
  <2> QED  BY <1>0, <1>a, <2>1, MysqlGoes
<1>11. CASE ResultFreed(c)
  <2>1. /\ Return(c) /\ step[c] = "free"
        /\ MysqlTypes' /\ UNCHANGED <<rows, mixed>>
        /\ result' = result \ {c}
    BY <1>0, <1>11 DEF ResultFreed, Polls, Handles, Returns, DroppedResult
  <2> QED  BY <1>0, <2>1, MysqlReturns
<1> QED  BY <1>1, <1>2, <1>3, <1>4, <1>5, <1>6, <1>7, <1>8, <1>9, <1>10, <1>11
         DEF MysqlHandler, MysqlProgress

-----------------------------------------------------------------------------
(* The end of a coroutine preserves it.                                    *)
LEMMA FreedProc ==
  ASSUME ProcInv, UNCHANGED <<options, launchVars>>, NEW c \in Ctx, Idle,
         Freed(c), StateFree(c), MysqlFreed(c), ConfTypes'
  PROVE  ProcInv'
<1>1. CoTypes /\ CoInv /\ UNCHANGED options /\ LaunchTypes'
  BY DEF ProcInv, Typed, LaunchTypes, launchVars
<1>2. HttpsTypes' /\ MysqlTypes'
  BY HttpsAssumption, ConfAssumption
  DEF ProcInv, Typed, HttpsTypes, MysqlTypes, StateFree, MysqlFreed
<1>3. RowsOfCall'
  BY DEF ProcInv, Typed, CoTypes, MysqlTypes, RowsOfCall, MysqlFreed, Freed,
         options
<1> QED  BY <1>1, <1>2, <1>3, FreedCo DEF ProcInv, Typed

(* A handler that finds its call freed needs another thread.               *)
LEMMA HandlerFailsProc ==
  ASSUME ProcInv, UNCHANGED <<options, launchVars>>, NEW c \in Ctx,
         HandlerFails(c)
  PROVE  ProcInv'
<1>1. CoTypes /\ CoInv /\ UNCHANGED options /\ LaunchTypes' /\ HttpsTypes'
  BY DEF ProcInv, Typed, LaunchTypes, launchVars, HandlerFails, HttpsTypes,
         httpsVars, stateVars, confVars, ConfTypes
<1>2. UNCHANGED callVars /\ UNCHANGED mysqlVars /\ fault' = "handler"
  BY DEF HandlerFails, HandlerAborts, Abort
<1>3. threads
  BY DEF HandlerFails, HandlerAborts, ProcInv, CoInv, HandlersExpected
<1>4. MysqlTypes' /\ RowsOfCall'
  BY <1>1, <1>2, RowsKept DEF ProcInv, Typed, callVars
<1> QED  BY <1>1, <1>2, <1>3, <1>4, AbortCo DEF ProcInv, Typed

(* Every step preserves it.                                                *)
LEMMA ProcStep == ProcInv /\ [Next]_vars => ProcInv'
<1> SUFFICES ASSUME ProcInv, [Next]_vars PROVE ProcInv'
  OBVIOUS
<1>1. CASE Threads
  BY <1>1, ThreadsProc
<1>2. ASSUME NEW c \in Ctx, Client(End(c)) PROVE ProcInv'
  <2>1. ConfTypes'
    BY <1>2 DEF Client, End, ProcInv, Typed, HttpsTypes, confVars, ConfTypes
  <2> QED  BY <1>2, <2>1, FreedProc DEF Client, End, Running
<1>3. ASSUME NEW c \in Ctx, NEW k \in Ctx, Client(Kill(k, c)) PROVE ProcInv'
  <2>1. ConfTypes'
    BY <1>3 DEF Client, Kill, ProcInv, Typed, HttpsTypes, confVars, ConfTypes
  <2> QED  BY <1>3, <2>1, FreedProc DEF Client, Kill, Running
<1>9. ASSUME NEW c \in Ctx, Client(ConfFails(c)) PROVE ProcInv'
  <2>1. ConfTypes'
    BY <1>9, ConfTyped DEF Client, ConfFails, ProcInv, Typed, HttpsTypes
  <2> QED  BY <1>9, <2>1, FreedProc DEF Client, ConfFails, Running, Uses
<1>4. ASSUME NEW c \in Ctx, Client(Https(c)) PROVE ProcInv'
  BY <1>4, HttpsScriptProc DEF Client, Https
<1>5. ASSUME NEW c \in Ctx, Client(Database(c)) PROVE ProcInv'
  BY <1>5, MysqlScriptProc DEF Client, Database
<1>6. ASSUME NEW c \in Ctx, Client(Fire(c)) PROVE ProcInv'
  <2>1. /\ Call(c, "handler") /\ UNCHANGED <<httpsVars, mysqlVars>>
        /\ UNCHANGED options /\ UNCHANGED launchVars /\ step' = step
    BY <1>6 DEF Client, Fire, Call
  <2>2. MysqlTypes' /\ RowsOfCall'
    BY <2>1, RowsKept DEF ProcInv, Typed
  <2>3. HttpsTypes' /\ LaunchTypes'
    BY <2>1 DEF ProcInv, Typed, HttpsTypes, ConfTypes, LaunchTypes, httpsVars,
                stateVars, confVars, launchVars
  <2>4. CoTypes' /\ CoInv'
    BY <2>1, CallCo DEF ProcInv, Typed
  <2> QED  BY <2>2, <2>3, <2>4 DEF ProcInv, Typed
<1>7. ASSUME NEW c \in Ctx, Client(Handler(c)) PROVE ProcInv'
  BY <1>7, HttpsHandlerProc, MysqlHandlerProc, HandlerFailsProc
  DEF Client, Handler
<1>8. CASE UNCHANGED vars
  <2>1. Typed'
    BY <1>8 DEF vars, coVars, callVars, httpsVars, stateVars, confVars,
                mysqlVars, launchVars, ProcInv, Typed, CoTypes, HttpsTypes,
                ConfTypes, MysqlTypes, LaunchTypes
  <2>2. CoInv' /\ RowsOfCall'
    BY <1>8 DEF vars, coVars, callVars, options, mysqlVars, ProcInv, CoInv,
                CallsMatch, NotRunning, HandlersExpected, RowsOfCall
  <2> QED  BY <2>1, <2>2 DEF ProcInv
<1> QED  BY <1>1, <1>2, <1>3, <1>4, <1>5, <1>6, <1>7, <1>8, <1>9 DEF Next

(* It holds of every behaviour.                                            *)
LEMMA ProcAlways == Spec => []ProcInv
BY InitProc, ProcStep, PTL DEF Spec

(* The build, what it may run out of and the scripts do not change.        *)
OptionsTyped ==
  threads \in BOOLEAN /\ lowmem \in BOOLEAN /\ imports \in [Ctx -> SUBSET Libs]

(* They keep their type.                                                   *)
LEMMA OptionsAlways == Spec => []OptionsTyped
<1>1. Init => OptionsTyped
  <2> SUFFICES ASSUME Init PROVE OptionsTyped
    OBVIOUS
  <2>1. PICK o \in Options : threads = o[1] /\ lowmem = o[2] /\ imports = o[3]
    BY DEF Init, CoInit
  <2>2. o \in BOOLEAN \X BOOLEAN \X [Ctx -> SUBSET Libs]
    BY OptionsAssumption
  <2> QED  BY <2>1, <2>2 DEF OptionsTyped
<1>2. [Next]_vars => UNCHANGED options
  BY DEF Next, Client, Threads, vars, coVars
<1>3. OptionsTyped /\ [Next]_vars => OptionsTyped'
  BY <1>2 DEF OptionsTyped, options
<1> QED  BY <1>1, <1>3, PTL DEF Spec

(* The variables keep their types; in particular no attempt to connect is  *)
(* retried more than MaxRetry times.                                       *)
THEOREM TypeCorrect == Spec => []TypeOK
<1>1. ProcInv /\ OptionsTyped => TypeOK
  BY DEF ProcInv, Typed, CoTypes, TypeOK, OptionsTyped, Steps
<1> QED  BY <1>1, ProcAlways, OptionsAlways, PTL

(* The timer breaks the event loop only when no coroutine is left; then    *)
(* none comes back, and only a broken loop is left by the main thread.     *)
EndInv == (broken => NoTask) /\ (main = "done" => broken)

(* No step of a thread or a coroutine violates it.                         *)
LEMMA EndAlways == Spec => []EndInv
<1>1. Init => EndInv
  BY DEF Init, LaunchInit, EndInv
<1>2. ASSUME EndInv, [Next]_vars PROVE EndInv'
  <2> USE DEF EndInv, NoTask
  <2>1. CASE Threads
    <3>1. UNCHANGED status
      BY <2>1 DEF Threads, coVars, callVars
    <3> USE <1>2, <3>1 DEF launchVars
    <3>2. CASE SendMail
      BY <3>2 DEF SendMail
    <3>3. CASE HandedOverAll
      BY <3>3 DEF HandedOverAll
    <3>4. CASE CheckTasks
      BY <3>4 DEF CheckTasks, Dispatching
    <3>5. CASE Leave
      BY <3>5 DEF Leave
    <3>6. ASSUME NEW w \in Worker,
                 \/ Register(w) \/ RegisterFails(w)
                 \/ Receive(w) \/ Unlist(w)
          PROVE  EndInv'
      BY <3>6 DEF Register, RegisterFails, Receive, Unlist
    <3> QED  BY <2>1, <3>2, <3>3, <3>4, <3>5, <3>6 DEF Threads, Launch
  <2>2. CASE Dispatching /\ UNCHANGED launchVars
    BY <2>2 DEF Dispatching, launchVars
  <2>3. CASE UNCHANGED vars
    BY <1>2, <2>3 DEF vars, coVars, callVars, launchVars
  <2> QED  BY <1>2, <2>1, <2>2, <2>3 DEF Next, Client
<1> QED  BY <1>1, <1>2, PTL DEF Spec

(* Whatever the HTTPS and MySQL clients and kills do, a suspended coroutine*)
(* has its event armed or its handler on the way, nobody else has, and the *)
(* event loop is not left before all coroutines are gone.                  *)
THEOREM CallsCorrect == Spec => []CallsServed
<1>1. ProcInv /\ EndInv => CallsServed
  BY DEF ProcInv, CoInv, EndInv, CallsServed, LoopOutlives
<1> QED  BY <1>1, ProcAlways, EndAlways, PTL

(* With one thread no handler finds its call freed: the end of a coroutine *)
(* takes its events along.                                                 *)
THEOREM HandlersCorrect == Spec => []HandlersFindCall
<1>1. ProcInv => HandlersFindCall
  BY DEF ProcInv, CoInv, HandlersExpected, HandlersFindCall
<1> QED  BY <1>1, ProcAlways, PTL

(* A handle of MySQL has a result only while a call reads or frees it, and *)
(* as long as there is memory execute answers with rows of its own result. *)
THEOREM HandlesCorrect == Spec => []HandlesClean
<1>1. ProcInv => HandlesClean
  BY DEF ProcInv, RowsOfCall, HandlesClean
<1> QED  BY <1>1, ProcAlways, PTL

-----------------------------------------------------------------------------
(* What makes a configuration of the number that a request names: the      *)
(* number is that of the configuration the call found, and numbers are not *)
(* given twice as long as the counter is there.                            *)
RequestsNamed ==
  \A c \in Ctx :
    \/ asked[c] = 0 /\ conf[c] = 0
    \/ asked[c] # 0 /\ conf[c] \in Conf /\ confId[conf[c]] = asked[c]
ConfInv == Numbered /\ RequestsNamed

(* What happens to the configurations keeps the numbers, and no            *)
(* configuration gets another one.                                         *)
LEMMA ConfKept ==
  ASSUME ConfTypes, Numbered, NEW S,
         \/ Registered \/ ImportLost(S) \/ NumberLost
         \/ \E n \in Conf : Made(n) \/ Forgotten(n)
  PROVE  /\ Numbered'
         /\ \A n \in Conf : confId[n] # 0 => confId'[n] = confId[n]
<1> USE ConfAssumption DEF ConfTypes, Numbered, Conf
<1>1. CASE Registered
  BY <1>1 DEF Registered
<1>2. CASE PartlyRegistered
  <2>1. UNCHANGED <<confId, live, reset>>
    BY <1>2 DEF PartlyRegistered
  <2>2. nextId' = nextId \/ (nextId = 0 /\ nextId' = 1)
    BY <1>2 DEF PartlyRegistered
  <2> QED  BY <2>1, <2>2
<1>3. CASE Destroyed(S)
  <2>1. nextId' = 0 /\ UNCHANGED <<confId, live>>
    BY <1>3 DEF Destroyed
  <2>2. ~reset' => ~reset /\ ~(nextId > 1)
    BY <1>3, Zenon DEF Destroyed
  <2>3. ~reset' => \A n \in Conf : confId[n] = 0
    <3> SUFFICES ASSUME ~reset', NEW n \in Conf PROVE confId[n] = 0
      OBVIOUS
    <3>1. /\ confId[n] \in Nat /\ nextId \in Nat /\ ~(nextId > 1)
          /\ confId[n] = 0 \/ confId[n] < nextId
      BY <2>2
    <3> QED  BY <3>1
  <2> QED  BY <2>1, <2>2, <2>3
<1>4. CASE NumberLost
  BY <1>4 DEF NumberLost, CanMake
<1>5. ASSUME NEW n \in Conf, Made(n)
      PROVE  /\ Numbered'
             /\ \A m \in Conf : confId[m] # 0 => confId'[m] = confId[m]
  BY <1>5 DEF Made, CanMake, Number
<1>6. ASSUME NEW n \in Conf, Forgotten(n)
      PROVE  /\ Numbered'
             /\ \A m \in Conf : confId[m] # 0 => confId'[m] = confId[m]
  BY <1>6 DEF Forgotten, Named
<1> QED  BY <1>1, <1>2, <1>3, <1>4, <1>5, <1>6 DEF ImportLost

(* A request that starts or connects finds a configuration of its number,  *)
(* one that ends forgets it.                                               *)
LEMMA RequestKept ==
  ASSUME HttpsTypes, ConfInv, UNCHANGED confVars, NEW c \in Ctx,
         \/ StateFree(c)
         \/ \E id \in 0 .. MaxConf : NewState(c, id)
         \/ /\ \E n \in Found(asked[c]) : conf' = [conf EXCEPT ![c] = n]
            /\ UNCHANGED asked
         \/ UNCHANGED <<asked, conf>>
  PROVE  ConfInv'
<1>1. Numbered'
  BY DEF ConfInv, Numbered, confVars
<1>2. RequestsNamed'
  <2> USE DEF ConfInv, RequestsNamed, HttpsTypes, confVars
  <2>1. ASSUME NEW id \in 0 .. MaxConf, NEW n \in Found(id),
               conf' = [conf EXCEPT ![c] = n],
               asked' = [asked EXCEPT ![c] = id]
        PROVE  RequestsNamed'
    <3>1. \/ id = 0 /\ n = 0
          \/ id # 0 /\ n \in Conf /\ confId[n] = id
      BY DEF Found, Named, ConfTypes
    <3> QED  BY <2>1, <3>1
  <2>2. CASE StateFree(c)
    BY <2>2 DEF StateFree
  <2>3. CASE \E id \in 0 .. MaxConf : NewState(c, id)
    BY <2>1, <2>3 DEF NewState
  <2>4. CASE /\ \E n \in Found(asked[c]) : conf' = [conf EXCEPT ![c] = n]
             /\ UNCHANGED asked
    <3>1. asked[c] \in 0 .. MaxConf /\ asked' = [asked EXCEPT ![c] = asked[c]]
      BY <2>4
    <3> QED  BY <2>1, <2>4, <3>1
  <2>5. CASE UNCHANGED <<asked, conf>>
    BY <2>5
  <2> QED  BY <2>2, <2>3, <2>4, <2>5
<1> QED  BY <1>1, <1>2 DEF ConfInv

(* Every step keeps numbers and requests in agreement.                     *)
LEMMA ConfStep ==
  ASSUME HttpsTypes, ConfInv, [Next]_vars
  PROVE  ConfInv'
<1>0. CASE UNCHANGED httpsVars
  BY <1>0 DEF ConfInv, Numbered, RequestsNamed, httpsVars, stateVars, confVars
<1>1. ASSUME NEW c \in Ctx, ConfCall(c) PROVE ConfInv'
  <2>1. /\ Numbered' /\ UNCHANGED stateVars
        /\ \A n \in Conf : confId[n] # 0 => confId'[n] = confId[n]
    BY <1>1, ConfKept DEF ConfCall, HttpsTypes, ConfInv
  <2> QED  BY <2>1 DEF ConfInv, RequestsNamed, stateVars
<1>2. ASSUME NEW c \in Ctx, ConfFails(c) PROVE ConfInv'
  <2>1. /\ Numbered'
        /\ \A n \in Conf : confId[n] # 0 => confId'[n] = confId[n]
    BY <1>2, ConfKept DEF ConfFails, HttpsTypes, ConfInv
  <2>2. /\ asked' = [asked EXCEPT ![c] = 0] /\ conf' = [conf EXCEPT ![c] = 0]
        /\ asked \in [Ctx -> 0 .. MaxConf] /\ conf \in [Ctx -> 0 .. MaxConf]
    BY <1>2 DEF ConfFails, StateFree, HttpsTypes
  <2> QED  BY <2>1, <2>2 DEF ConfInv, RequestsNamed
<1>3. ASSUME NEW c \in Ctx, Https(c) PROVE ConfInv'
  <2>1. CASE RequestRaces(c) \/ FireTimeout(c)
    BY <1>0, <2>1 DEF RequestRaces, FireTimeout
  <2>2. ASSUME NEW id \in 0 .. MaxConf, Request(c, id) PROVE ConfInv'
    BY <2>2, RequestKept DEF Request, NewState
  <2> QED  BY <1>1, <1>3, <2>1, <2>2 DEF Https, HttpsScript
<1>4. ASSUME NEW c \in Ctx, HttpsHandler(c) PROVE ConfInv'
  <2>1. CASE Responds(c) \/ Fails(c) \/ TimesOut(c)
    BY <2>1, RequestKept DEF Responds, Fails, TimesOut, ResumeWith
  <2>2. CASE ConnectAgain(c)
    BY <2>2, RequestKept DEF ConnectAgain
  <2>3. ASSUME NEW s \in HttpsSteps, Connected(c, s) PROVE ConfInv'
    BY <2>3, RequestKept DEF Connected
  <2>4. ASSUME NEW now \in HttpsSteps, NEW s \in HttpsSteps, Drive(c, now, s)
        PROVE  ConfInv'
    BY <1>0, <2>4 DEF Drive
  <2> QED  BY <1>4, <2>1, <2>2, <2>3, <2>4 DEF HttpsHandler
<1>5. ASSUME NEW c \in Ctx, End(c) \/ \E k \in Ctx : Kill(k, c) PROVE ConfInv'
  BY <1>5, RequestKept DEF End, Kill
<1>6. CASE Threads \/ UNCHANGED vars
  BY <1>0, <1>6 DEF Threads, vars
<1>7. ASSUME NEW c \in Ctx, Database(c) \/ Fire(c) PROVE ConfInv'
  BY <1>0, <1>7 DEF Database, Fire
<1>8. ASSUME NEW c \in Ctx, Handler(c) PROVE ConfInv'
  BY <1>0, <1>4, <1>8 DEF Handler, HandlerFails
<1> QED  BY <1>2, <1>3, <1>5, <1>6, <1>7, <1>8 DEF Next, Client

(* It holds of every behaviour.                                            *)
LEMMA ConfAlways == Spec => [](ProcInv /\ ConfInv)
<1>1. Init => ConfInv
  BY DEF Init, HttpsInit, ConfInit, ConfInv, Numbered, RequestsNamed
<1>2. ProcInv /\ ConfInv /\ [Next]_vars => ConfInv'
  BY ConfStep DEF ProcInv, Typed
<1> QED  BY <1>1, <1>2, InitProc, ProcStep, PTL DEF Spec

(* A connection is made with the configuration that the call named: the    *)
(* number that mln_lang_https_connect_handler looks up names no other one, *)
(* whatever was made and freed since.                                      *)
THEOREM ConfCorrect == Spec => RequestUsesItsConf
<1> DEFINE Own ==
      \A c \in Ctx :
        ~reset /\ step[c] = "connect" /\ step'[c] \in HttpsSteps \ {"connect"} =>
          conf'[c] = conf[c]
<1>1. ProcInv /\ ConfInv /\ [Next]_vars => [Own]_<<httpsVars, step>>
  <2> SUFFICES ASSUME ProcInv, ConfInv, [Next]_vars, NEW c \in Ctx, ~reset,
                      step[c] = "connect", step'[c] \in HttpsSteps \ {"connect"}
               PROVE  conf'[c] = conf[c]
    OBVIOUS
  <2>0. CoTypes /\ CallsMatch /\ step'[c] # step[c] /\ step'[c] # "none"
    BY DEF ProcInv, Typed, CoInv, HttpsSteps
  <2> HIDE DEF Own
  <2>1. ASSUME NEW d \in Ctx, Running(d), NEW s, Begin(d, s) PROVE FALSE
    BY <2>0, <2>1 DEF Begin, Running, CallsMatch, CoTypes
  <2>2. ASSUME NEW d \in Ctx, Return(d) \/ Freed(d) PROVE FALSE
    BY <2>0, <2>2 DEF Return, Freed, CoTypes
  <2>3. ASSUME NEW d \in Ctx, NEW now, now # "connect", Handles(d, "handler", now),
               NEW s, Continue(d, s)
        PROVE  FALSE
    BY <2>0, <2>3 DEF Handles, Continue, CoTypes
  <2>4. CASE UNCHANGED step
    BY <2>0, <2>4
  <2>5. ASSUME NEW d \in Ctx, Client(Https(d))
        PROVE  FALSE
    BY <2>1, <2>4, <2>5
    DEF Uses, Client, Https, HttpsScript, RequestRaces, ConfCall, Request, Dial,
        FireTimeout, Call, Abort, callVars
  <2>6. ASSUME NEW d \in Ctx, Client(Database(d))
        PROVE  FALSE
    BY <2>1, <2>4, <2>6
    DEF Uses, Client, Database, MysqlScript, LoseServer, Login, Close, Execute,
        KillAborts, Abort, callVars
  <2>7. ASSUME NEW d \in Ctx, HttpsHandler(d)
        PROVE  conf'[c] = conf[c]
    <3>1. CASE Responds(d) \/ Fails(d) \/ TimesOut(d)
      BY <3>1, <2>2 DEF Responds, Fails, TimesOut, ResumeWith
    <3>2. CASE ConnectAgain(d)
      BY <3>2, <2>0 DEF ConnectAgain, Continue, CoTypes
    <3>3. ASSUME NEW now \in HttpsSteps, NEW s \in HttpsSteps, Drive(d, now, s)
          PROVE  FALSE
      BY <3>3, <2>3 DEF Drive
    <3>4. ASSUME NEW s \in HttpsSteps, Connected(d, s)
          PROVE  conf'[c] = conf[c]
      <4>1. d = c
        BY <3>4, <2>0 DEF Connected, Continue, CoTypes
      <4>2. PICK n \in Found(asked[c]) : conf' = [conf EXCEPT ![c] = n]
        BY <3>4, <4>1 DEF Connected
      <4>3. n = conf[c]
        BY <4>2 DEF Found, Named, ConfInv, Numbered, RequestsNamed, ProcInv, Typed,
                    HttpsTypes, ConfTypes
      <4> QED  BY <4>2, <4>3 DEF ProcInv, Typed, HttpsTypes
    <3> QED  BY <2>7, <3>1, <3>2, <3>3, <3>4 DEF HttpsHandler
  <2>8. ASSUME NEW d \in Ctx, MysqlHandler(d)
        PROVE  FALSE
    <3>1. CASE \/ LoginDone(d) \/ NoResult(d) \/ ResultFreed(d) \/ Errs(d)
      BY <3>1, <2>2 DEF LoginDone, NoResult, ResultFreed, Errs, Returns
    <3>2. CASE \/ QueryDone(d) \/ ResultStored(d) \/ LastRow(d)
               \/ RowFetched(d) \/ RowDropped(d)
      BY <3>2, <2>3 DEF QueryDone, ResultStored, LastRow, RowFetched, RowDropped,
                        Answered, Polls, Goes
    <3>3. CASE ArmFails(d)
      BY <3>3, <2>4 DEF ArmFails
    <3>4. ASSUME NEW s \in MysqlSteps, NotReady(d, s) PROVE FALSE
      BY <3>4, <2>3 DEF NotReady, Polls, Goes, MysqlSteps
    <3> QED  BY <2>8, <3>1, <3>2, <3>3, <3>4 DEF MysqlHandler, MysqlProgress
  <2>9. ASSUME NEW d \in Ctx, Client(Handler(d))
        PROVE  conf'[c] = conf[c]
    BY <2>9, <2>4, <2>7, <2>8
    DEF Client, Handler, HandlerFails, HandlerAborts, Abort, callVars
  <2>10. ASSUME NEW d \in Ctx,
                \/ Client(Fire(d)) \/ Client(End(d)) \/ Client(ConfFails(d))
                \/ \E k \in Ctx : Client(Kill(k, d))
         PROVE  FALSE
    BY <2>10, <2>2, <2>4 DEF Client, Fire, End, Kill, ConfFails, Call
  <2>11. CASE Threads \/ UNCHANGED vars
    BY <2>11, <2>4 DEF Threads, vars, coVars, callVars
  <2> QED  BY <2>5, <2>6, <2>9, <2>10, <2>11 DEF Next
<1> QED  BY <1>1, ConfAlways, PTL DEF Spec, RequestUsesItsConf

=============================================================================
