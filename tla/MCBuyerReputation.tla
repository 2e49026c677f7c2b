-------------------------- MODULE MCBuyerReputation ---------------------------
(* Values of the constants for the runs of BuyerReputation. *)
EXTENDS BuyerReputation

CONSTANT b1

OneJob == 1..1
TwoJobs == 1..2
ThreeJobs == 1..3
FourJobs == 1..4
SameBuyer == [j \in Jobs |-> b1]
===============================================================================
