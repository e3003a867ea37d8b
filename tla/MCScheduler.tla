---------------------------- MODULE MCScheduler ----------------------------
(***************************************************************************)
(* Small instances of ZsrmScheduler.                                       *)
(***************************************************************************)
EXTENDS ZsrmScheduler

Reserve(period, crit, zs) == [period |-> period, crit |-> crit, zs |-> zs]

OnePeriod        == {Reserve(1, 0, FALSE)}
TwoPeriods       == {Reserve(1, 0, FALSE), Reserve(2, 0, FALSE)}
MixedCriticality == {Reserve(1, 0, FALSE), Reserve(2, 1, TRUE)}
BothZeroSlack    == {Reserve(1, 0, TRUE), Reserve(2, 1, TRUE)}

(* The scheduler thread gets to run before its stack is full: the code has *)
(* room for 100 entries and a thread of higher priority than every task.   *)
StackHasRoom == Len(disp.stack) < STACK_SIZE

(* Slot 0 is a low, slot 1 a high criticality reserve, which leaves out    *)
(* the instances with two reserves of one kind.                            *)
CriticalityIsSlot == \A r \in created \cup attached : spec[r].crit = r

LowThenHigh == StackHasRoom /\ CriticalityIsSlot

=============================================================================
