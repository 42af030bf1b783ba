---------------------------- MODULE MCTcpSocket -----------------------------
(* Small instances of TcpSocket.                                           *)
EXTENDS TcpSocket

(* One thread with memory or short of it, or several that are short of it. *)
AllOptions == {<<FALSE, FALSE>>, <<FALSE, TRUE>>, <<TRUE, TRUE>>}

(* An aborted process does nothing more.                                   *)
Alive == fault = "none"

=============================================================================
