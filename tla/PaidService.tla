----------------------------- MODULE PaidService -----------------------------
(***************************************************************************)
(* What a paid request promises its buyer, whatever the route and the      *)
(* transport: an authorization pays for one request at most, a request is  *)
(* served only when its own payment stands, and a request that was refused *)
(* is never charged, not even later.                                       *)
(***************************************************************************)
CONSTANTS
  Reqs,    \* requests on paid routes
  Auths,   \* payment authorizations
  Nobody,  \* the payer of an authorization still unspent
  Other    \* the payer of one spent outside the service

VARIABLES
  outcome,  \* what each request was told, "none" until it is answered
  spentBy   \* the request each authorization was spent for

Outcomes == {"none", "served", "refused", "failed"}

Init == outcome = [r \in Reqs |-> "none"] /\ spentBy = [a \in Auths |-> Nobody]

(* A failed request may still be charged: its transfer outlives the answer. *)
Charge(r, a) ==
  /\ spentBy[a] = Nobody
  /\ outcome[r] \in {"none", "failed"}
  /\ \A b \in Auths : spentBy[b] # r
  /\ spentBy' = [spentBy EXCEPT ![a] = r]
  /\ UNCHANGED outcome

SpendElsewhere(a) ==
  /\ spentBy[a] = Nobody
  /\ spentBy' = [spentBy EXCEPT ![a] = Other]
  /\ UNCHANGED outcome

Answer(r, o) ==
  /\ outcome[r] = "none"
  /\ o \in {"served", "refused"}
  /\ o = "served" => \E a \in Auths : spentBy[a] = r
  /\ o = "refused" => \A a \in Auths : spentBy[a] # r
  /\ outcome' = [outcome EXCEPT ![r] = o]
  /\ UNCHANGED spentBy

(* A death of the server fails all that is open. *)
Fail(S) ==
  /\ \A r \in S : outcome[r] = "none"
  /\ outcome' = [r \in Reqs |-> IF r \in S THEN "failed" ELSE outcome[r]]
  /\ UNCHANGED spentBy

Next ==
  \/ \E r \in Reqs, a \in Auths : Charge(r, a)
  \/ \E a \in Auths : SpendElsewhere(a)
  \/ \E r \in Reqs, o \in Outcomes : Answer(r, o)
  \/ \E S \in SUBSET Reqs : Fail(S)

Spec == Init /\ [][Next]_<<outcome, spentBy>>
===============================================================================
