------------------------------ MODULE MCBudget ------------------------------
(***************************************************************************)
(* Two reserves in rate-monotonic order.                                   *)
(***************************************************************************)
EXTENDS ZsrmBudget

Reserves     == {0, 1}
ShortAndLong == (0 :> 1) @@ (1 :> 2)
Periods      == (0 :> 3) @@ (1 :> 5)
RateMonotonicPrio == (0 :> 2) @@ (1 :> 1)

=============================================================================
