------------------------------ MODULE MCSerial ------------------------------
(***************************************************************************)
(* Small instances of ZsrmSerial.                                          *)
(***************************************************************************)
EXTENDS ZsrmSerial

CONSTANTS c1, c2

(* Two tasks read and no signal comes, or signals come and one task reads. *)
TwoReadersOrSignals ==
  {[readers |-> {c1, c2}, interrupted |-> {}],
   [readers |-> {c1}, interrupted |-> {c1, c2}]}

=============================================================================
