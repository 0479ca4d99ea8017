------------------------------ MODULE MCAmLink ------------------------------
(* Small instances of AmLink for TLC. *)
EXTENDS AmLink, TLC

ASSUME OneGeneration
=============================================================================
