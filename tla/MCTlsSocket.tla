---------------------------- MODULE MCTlsSocket -----------------------------
(* Small instances of TlsSocket.                                           *)
EXTENDS TlsSocket

(* One thread or several, with short memory.                               *)
AllOptions == {<<FALSE, TRUE>>, <<TRUE, TRUE>>}

(* An aborted process does nothing more.                                   *)
Alive == fault = "none"

=============================================================================
