---------------------------- MODULE MCMsgQueue ------------------------------
(* Small instances of MsgQueue: coroutines that start alike are            *)
(* interchangeable, and so are names.                                      *)
EXTENDS MsgQueue, TLC

Symmetry ==
  Permutations(Scripts) \cup Permutations(Ctx \ Scripts)
    \cup Permutations(Qname)

=============================================================================
