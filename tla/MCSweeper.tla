------------------------------- MODULE MCSweeper -------------------------------
(* The runs of Sweeper, with the actions and invariants of that module. *)
EXTENDS Sweeper
================================================================================
