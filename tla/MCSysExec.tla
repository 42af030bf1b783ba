----------------------------- MODULE MCSysExec ------------------------------
(* A small instance of SysExec, without a limit and with limits below,     *)
(* within and at the end of the output                                     *)
EXTENDS SysExec

NoLimit == -1
Sizes == {NoLimit, 0, 2}

=============================================================================
