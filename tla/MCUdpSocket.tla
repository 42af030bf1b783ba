---------------------------- MODULE MCUdpSocket -----------------------------
(* Small instances of UdpSocket.                                           *)
EXTENDS UdpSocket

=============================================================================
