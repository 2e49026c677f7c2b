------------------------------ MODULE MCX402Gate ------------------------------
(* Values of the constants for the runs of X402Gate. *)
EXTENDS X402Gate

OfferedValue == {"quick_protocol_facts"}

(* Good throughout, soon expired, enough for the trust rung only, and      *)
(* badly signed.                                                           *)
SignedValue ==
  {[value |-> 30, from |-> 0, before |-> 2, sound |-> TRUE],
   [value |-> 30, from |-> 0, before |-> 1, sound |-> TRUE],
   [value |-> 10, from |-> 0, before |-> 2, sound |-> TRUE],
   [value |-> 30, from |-> 0, before |-> 2, sound |-> FALSE]}

(* Everything on, and two that must not boot. *)
EnvsValue ==
  {[payment |-> TRUE, cdp |-> "all", trustRung |-> TRUE, bridge |-> TRUE],
   [payment |-> TRUE, cdp |-> "some", trustRung |-> TRUE, bridge |-> TRUE],
   [payment |-> FALSE, cdp |-> "all", trustRung |-> TRUE, bridge |-> TRUE]}
===============================================================================
