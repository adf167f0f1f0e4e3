--------------------------- MODULE MCServiceMessages ---------------------------
(* Values for the model checking of ServiceMessages. *)
EXTENDS ServiceMessages, TLC

CONSTANTS p1, c1
=============================================================================
