------------------------------- MODULE MCFinality -------------------------------
(* Small instances of Finality for TLC. *)
EXTENDS Finality
================================================================================
