------------------------------- MODULE MCPmm -------------------------------
(* TLC instance of Pmm.                                                     *)
EXTENDS Pmm, TLC
=============================================================================
