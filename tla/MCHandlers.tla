----------------------------- MODULE MCHandlers -----------------------------
(***************************************************************************)
(* Instances of ZsrmHandlers with named tasks.                             *)
(***************************************************************************)
EXTENDS ZsrmHandlers

CONSTANTS t1, t2

=============================================================================
