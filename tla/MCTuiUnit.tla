------------------------------ MODULE MCTuiUnit ------------------------------
(* A small TuiUnit: two modems; a payload is two PDUs with the lower one. *)
EXTENDS TuiUnit, TLC

MCPdusAt == (0 :> 2) @@ (1 :> 1)
=============================================================================
