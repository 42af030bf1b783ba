------------------------------ MODULE TlsConf -------------------------------
(***************************************************************************)
(* The certificate configurations of a Melang process (src/lib_src/tls).   *)
(* tls.conf_new puts one in the tree "tls_conf" under a number taken from  *)
(* a counter, and the script keeps the number: tls.accept, tls.connect and *)
(* http.https_request name a configuration by it and look it up again      *)
(* later.  An Import that fails may take the counter away.  TlsSocket and  *)
(* HttpsRequest extend this module.                                        *)
(***************************************************************************)
EXTENDS Integers

CONSTANT
  MaxConf   \* bound on the configurations made and on their numbers

ASSUME ConfAssumption == MaxConf \in Nat

VARIABLES
  trees,    \* which of the trees "tls" and "tls_conf" exist
  nextId,   \* the resource "tls_conf_next_id", 0 when it is missing
  confId,   \* the number the n-th configuration was given, 0 if not made
  live,     \* the configurations in the tree "tls_conf"
  reset     \* history: the counter was lost after it had given a number

confVars == <<trees, nextId, confId, live, reset>>

Conf == 1 .. MaxConf
Trees == {"tls", "tls_conf"}

ConfInit ==
  /\ trees = {}
  /\ nextId = 0
  /\ confId = [n \in Conf |-> 0]
  /\ live = {}
  /\ reset = FALSE

-----------------------------------------------------------------------------
(* Import('tls') makes what is missing.                                    *)
Registered ==
  /\ trees' = Trees
  /\ nextId' = IF nextId = 0 THEN 1 ELSE nextId
  /\ UNCHANGED <<confId, live, reset>>

(* Or the first of it, until there is no memory: the import fails and      *)
(* leaves that behind.                                                     *)
PartlyRegistered ==
  /\ \/ trees' \in {trees, trees \cup {"tls"}, Trees} /\ UNCHANGED nextId
     \/ trees' = Trees /\ nextId = 0 /\ nextId' = 1
  /\ UNCHANGED <<confId, live, reset>>

(* Import that fails after that runs destroy(), which drops the trees that *)
(* are empty and, whatever is in them, the counter.                        *)
Destroyed(sockets) ==
  /\ trees' = (IF sockets = {} THEN {} ELSE {"tls"})
                \cup (IF live = {} THEN {} ELSE {"tls_conf"})
  /\ nextId' = 0
  /\ reset' = (reset \/ nextId > 1)
  /\ UNCHANGED <<confId, live>>

ImportLost(sockets) == PartlyRegistered \/ Destroyed(sockets)

(* tls.conf_new needs the tree and the counter.                            *)
CanMake == "tls_conf" \in trees /\ nextId \in Conf

(* A defective choice, of the smallest number that is not in use.          *)
SmallestFree ==
  CHOOSE i \in Conf : /\ \A n \in live : confId[n] # i
                      /\ \A j \in 1 .. i - 1 : \E n \in live : confId[n] = j

Number == nextId

Made(n) ==
  /\ CanMake
  /\ \A m \in Conf : confId[m] = 0 <=> m >= n
  /\ confId' = [confId EXCEPT ![n] = Number]
  /\ live' = live \cup {n}
  /\ nextId' = nextId + 1
  /\ UNCHANGED <<trees, reset>>

(* No memory for the node of the tree or for the result: the number is     *)
(* used up.                                                                *)
NumberLost ==
  /\ CanMake
  /\ nextId' = nextId + 1
  /\ UNCHANGED <<trees, confId, live, reset>>

(* mln_lang_tls_conf_lookup finds one of those with the number.            *)
Named(id) == {n \in live : confId[n] = id}

(* tls.conf_free                                                           *)
Forgotten(id) ==
  /\ \E n \in Named(id) : live' = live \ {n}
  /\ UNCHANGED <<trees, nextId, confId, reset>>

-----------------------------------------------------------------------------
(* Types of the variables.                                                 *)
ConfTypes ==
  /\ trees \subseteq Trees
  /\ nextId \in 0 .. MaxConf + 1
  /\ confId \in [Conf -> 0 .. MaxConf]
  /\ live \subseteq Conf
  /\ reset \in BOOLEAN

(* A configuration that is in the tree has a number; as long as no failed  *)
(* Import has taken the counter away, the counter is above every number    *)
(* given, and no number was given twice.                                   *)
Numbered ==
  /\ \A n \in live : confId[n] # 0
  /\ ~reset =>
       /\ \A n \in Conf : confId[n] = 0 \/ confId[n] < nextId
       /\ \A m, n \in Conf : confId[m] = confId[n] => m = n \/ confId[m] = 0

=============================================================================
