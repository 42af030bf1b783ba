----------------------------- MODULE MCProcess ------------------------------
(* A small instance of Process.                                            *)
EXTENDS Process, TLC

CONSTANTS c1, c2

(* One coroutine makes HTTPS requests, the other queries a database; or    *)
(* both use certificate configurations, and one makes requests with them.  *)
Clients == (c1 :> {"http"}) @@ (c2 :> {"mysql"})
ConfUsers == (c1 :> {"http", "tls"}) @@ (c2 :> {"tls"})

AllOptions ==
  {<<TRUE, FALSE, Clients>>, <<FALSE, TRUE, Clients>>,
   <<FALSE, TRUE, ConfUsers>>}

(* An aborted process does nothing more.                                   *)
Alive == fault = "none"

=============================================================================
