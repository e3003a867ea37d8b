---------------------------- MODULE MCHypertask ----------------------------
(***************************************************************************)
(* A small instance of ZsrmHypertask.                                      *)
(***************************************************************************)
EXTENDS ZsrmHypertask

OnePeriod == {[period |-> 1, crit |-> 0, zs |-> FALSE]}

(* The scheduler thread gets to run before its stack is full. *)
StackHasRoom == Len(disp.stack) < STACK_SIZE

=============================================================================
