---------------------------- MODULE HttpsRequest ----------------------------
(***************************************************************************)
(* http.https_request (src/lib_src/http): one call that connects, shakes   *)
(* hands, sends the request and receives the response, in a state that the *)
(* handlers drive from step to step and free exactly once.  A request may  *)
(* name a certificate configuration (TlsConf) by its number, which is      *)
(* looked up when the call is made and again when the connection is up;    *)
(* meanwhile other coroutines make and free configurations.                *)
(***************************************************************************)
EXTENDS Coroutines, TlsConf

CONSTANT
  MaxRetry   \* MLN_LANG_HTTPS_RETRY_MAX

ASSUME HttpsAssumption == MaxRetry \in Nat

VARIABLES
  retry,    \* st->retry
  asked,    \* st->conf_id, 0 when the request makes its own configuration
  conf      \* history: the configuration that the call named, then the one
            \* that the connection was made with, 0 for the request's own

stateVars == <<retry, asked, conf>>
httpsVars == <<confVars, stateVars>>

HttpsSteps == {"connect", "handshake", "send", "recv"}

HttpsInit ==
  /\ ConfInit
  /\ retry = [c \in Ctx |-> 0]
  /\ asked = [c \in Ctx |-> 0]
  /\ conf = [c \in Ctx |-> 0]

-----------------------------------------------------------------------------
(* Import('tls'), tls.conf_new and tls.conf_free of another coroutine, or  *)
(* of the one that makes requests                                          *)
ConfCall(c) ==
  /\ Uses(c, "tls")
  /\ \/ Registered
     \/ \E n \in Conf : Made(n) \/ Forgotten(n)
  /\ UNCHANGED <<callVars, fault, stateVars>>

(* The configurations that a number stands for, 0 for the request's own    *)
Found(id) == IF id = 0 THEN {0} ELSE Named(id)

(* The state of a new request                                              *)
NewState(c, id) ==
  /\ retry' = [retry EXCEPT ![c] = 0]
  /\ asked' = [asked EXCEPT ![c] = id]
  /\ \E n \in Found(id) : conf' = [conf EXCEPT ![c] = n]
  /\ UNCHANGED confVars

(* The socket is made, its event armed, the connection attempted, and the  *)
(* coroutine suspended.                                                    *)
Dial(c) == Begin(c, "connect")

(* http.https_request; one that fails before it is suspended changes       *)
(* nothing, its state is freed.                                            *)
Request(c, id) ==
  /\ Uses(c, "http")
  /\ NewState(c, id)
  /\ Dial(c)

(* The event is armed before connect(): when that fails the state is       *)
(* freed, and another thread may already be in its handler.                *)
RequestRaces(c) ==
  /\ threads
  /\ Uses(c, "http")
  /\ Abort("race")
  /\ UNCHANGED httpsVars

-----------------------------------------------------------------------------
(* mln_lang_https_state_free                                               *)
StateFree(c) ==
  /\ retry' = [retry EXCEPT ![c] = 0]
  /\ asked' = [asked EXCEPT ![c] = 0]
  /\ conf' = [conf EXCEPT ![c] = 0]

(* mln_lang_https_resume_with                                              *)
ResumeWith(c) == Return(c) /\ StateFree(c) /\ UNCHANGED confVars

(* A defective count, and a defective bound.                               *)
SameRetry(c) == retry[c]
OneMoreRetry(c) == retry[c] <= MaxRetry

NextRetry(c) == retry[c] + 1
MayRetry(c) == retry[c] < MaxRetry

ConnectAgain(c) ==
  /\ Handles(c, "handler", "connect")
  /\ MayRetry(c)
  /\ retry' = [retry EXCEPT ![c] = NextRetry(c)]
  /\ Continue(c, "connect")
  /\ UNCHANGED <<confVars, asked, conf>>

(* What mln_lang_https_drive may come to, and arm the event for, from each *)
(* step in one handler: it builds and sends the request when the handshake *)
(* is over, and turns to receiving when all of it is sent.                 *)
Ahead(s) ==
  CASE s = "connect"   -> {"handshake", "send", "recv"}
    [] s = "handshake" -> {"handshake", "send", "recv"}
    [] s = "send"      -> {"send", "recv"}
    [] s = "recv"      -> {"recv"}

(* The connection is up: mln_lang_https_connect_handler looks up the       *)
(* configuration again and drives on.                                      *)
Connected(c, s) ==
  /\ Handles(c, "handler", "connect")
  /\ \E n \in Found(asked[c]) : conf' = [conf EXCEPT ![c] = n]
  /\ s \in Ahead("connect")
  /\ Continue(c, s)
  /\ UNCHANGED <<confVars, retry, asked>>

(* mln_lang_https_handler                                                  *)
Drive(c, now, s) ==
  /\ now # "connect"
  /\ Handles(c, "handler", now)
  /\ s \in Ahead(now)
  /\ Continue(c, s)
  /\ UNCHANGED httpsVars

(* The response is complete.                                               *)
Responds(c) == Handles(c, "handler", "recv") /\ ResumeWith(c)

(* The connection or the handshake fails, the configuration is gone, the   *)
(* response is truncated, or there is no memory: the answer is false.      *)
Fails(c) ==
  /\ \E now \in HttpsSteps : Handles(c, "handler", now)
  /\ ResumeWith(c)

(* Each step has the whole timeout; the answer is nil.                     *)
FireTimeout(c) ==
  /\ step[c] \in HttpsSteps
  /\ Call(c, "timeout")
  /\ UNCHANGED httpsVars

TimesOut(c) ==
  /\ \E now \in HttpsSteps : Handles(c, "timeout", now)
  /\ ResumeWith(c)

-----------------------------------------------------------------------------
HttpsScript(c) ==
  \/ RequestRaces(c)
  \/ ConfCall(c)
  \/ \E id \in 0 .. MaxConf : Request(c, id)

HttpsHandler(c) ==
  \/ ConnectAgain(c) \/ Responds(c) \/ Fails(c) \/ TimesOut(c)
  \/ \E s \in HttpsSteps :
       Connected(c, s) \/ \E now \in HttpsSteps : Drive(c, now, s)

-----------------------------------------------------------------------------
(* A connection is made with the very configuration that the call named,   *)
(* although that is named by its number and others were made and freed     *)
(* since (as long as no failed Import has taken away the counter after it  *)
(* had given a number).                                                    *)
RequestUsesItsConf ==
  [][\A c \in Ctx :
       ~reset /\ step[c] = "connect" /\ step'[c] \in HttpsSteps \ {"connect"} =>
         conf'[c] = conf[c]]_<<httpsVars, step>>

-----------------------------------------------------------------------------
(* Types of the variables.                                                 *)
HttpsTypes ==
  /\ ConfTypes
  /\ retry \in [Ctx -> 0 .. MaxRetry]
  /\ asked \in [Ctx -> 0 .. MaxConf]
  /\ conf \in [Ctx -> 0 .. MaxConf]

=============================================================================
