---------------------------- MODULE MCActivator ----------------------------
(***************************************************************************)
(* A small instance of ZsrmActivator.                                      *)
(***************************************************************************)
EXTENDS ZsrmActivator

Reserve(period) == [period |-> period, crit |-> 0, zs |-> FALSE]

TwoPeriods == {Reserve(1), Reserve(2)}

(* Both stacks have room for one more, and slot 1 gets the shorter period, *)
(* so that its attachment renumbers the priority of slot 0.                *)
RoomAndShorterSecond ==
  /\ Len(disp.stack) < STACK_SIZE
  /\ Len(activate) < ACTIVATE_STACK_SIZE
  /\ \A r \in created \cup attached : spec[r].period = 2 - r

=============================================================================
