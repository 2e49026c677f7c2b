--------------------------- MODULE AcpAdapterProofs ---------------------------
(* Proofs about the ACP seller daemon, for every set of jobs and every      *)
(* bound.                                                                   *)
EXTENDS AcpAdapter, FiniteSetTheorems, TLAPS

-------------------------------------------------------------------------------
(* Type correctness.                                                        *)

(* The steps of the buyer and the chain keep the types. *)
LEMMA OutsideKeepsTypes ==
  ASSUME TypeOK, NEW j \in Jobs, Outside(j)
  PROVE  TypeOK'
<1> USE DEF TypeOK, chain, calls, dedup, accept, delivery, bounds, Events, AcceptEvents
<1>1. CASE CreateJob(j)
  BY <1>1 DEF CreateJob, Statuses
<1>2. CASE PostRequirement(j)
  BY <1>2 DEF PostRequirement
<1>3. CASE Fund(j)
  BY <1>3 DEF Fund, Statuses
<1>4. CASE Complete(j)
  BY <1>4 DEF Complete, Statuses
<1>5. CASE BuyerRejectsOrExpires(j)
  BY <1>5 DEF BuyerRejectsOrExpires, Statuses
<1>6. ASSUME NEW call \in {"setBudget", "reject", "submit"}, OrphanSettles(j, call)
      PROVE  TypeOK'
  BY <1>6 DEF OrphanSettles, Mined, Allows, Outcome, Statuses, Calls
<1> QED
  BY <1>1, <1>2, <1>3, <1>4, <1>5, <1>6 DEF Outside

(* A death of the process keeps the types of what it resets. *)
LEMMA DieKeepsTypes ==
  ASSUME TypeOK, Die
  PROVE  /\ lost' \subseteq Calls /\ orphans' \subseteq lost'
         /\ status' = status => wire' \subseteq Jobs \X Events
         /\ recentJobs' \subseteq Keys /\ expiredKeys' \subseteq recentJobs'
         /\ inFlight' \subseteq Jobs /\ acceptInFlight' \subseteq Jobs
         /\ apc' \in [Jobs \X AcceptEvents -> AcceptPCs]
         /\ dpc' \in [Jobs \X Origins -> DeliveryPCs]
         /\ polled' \subseteq Jobs /\ answered' \subseteq Jobs
BY DEF TypeOK, Die, Interrupted, Hydrated, AcceptPCs, DeliveryPCs

(* The stream and the timers keep the types: a claim adds a key of the job  *)
(* at hand, a clean-up only removes keys.                                   *)
LEMMA TakeEntryKeepsTypes ==
  ASSUME TypeOK, NEW j, NEW e, TakeEntry(j, e)
  PROVE  wire' \subseteq Jobs \X Events /\ dups' \in 0..MaxDups
BY ConstantsOK DEF TypeOK, TakeEntry

LEMMA ClaimKeepsTypes ==
  ASSUME TypeOK, NEW j \in Jobs, NEW e \in Events, ClaimDispatch(j, e)
  PROVE  recentJobs' \subseteq Keys /\ expiredKeys' \subseteq recentJobs'
BY DEF TypeOK, ClaimDispatch, AfterClaim, Keys

LEMMA IngressKeepsTypes ==
  ASSUME TypeOK, NEW j \in Jobs, Ingress(j)
  PROVE  TypeOK'
<1>0. \A e : TakeEntry(j, e) => wire' \subseteq Jobs \X Events /\ dups' \in 0..MaxDups
  BY TakeEntryKeepsTypes
<1> USE DEF TypeOK, chain, calls, dedup, accept, delivery, bounds
<1>1. ASSUME NEW e \in Events, HandleDuplicate(j, e)
      PROVE  TypeOK'
  <2>1. wire' \subseteq Jobs \X Events /\ dups' \in 0..MaxDups
    BY <1>0, <1>1 DEF HandleDuplicate
  <2> QED
    BY <1>1, <2>1 DEF HandleDuplicate
<1>2. ASSUME NEW e \in AcceptEvents, HandleAcceptEntry(j, e)
      PROVE  TypeOK'
  <2>1. wire' \subseteq Jobs \X Events /\ dups' \in 0..MaxDups
    BY <1>0, <1>2 DEF HandleAcceptEntry
  <2>2. recentJobs' \subseteq Keys /\ expiredKeys' \subseteq recentJobs'
    BY <1>2, ClaimKeepsTypes DEF HandleAcceptEntry, Events
  <2>3. acceptInFlight' \subseteq Jobs /\ apc' \in [Jobs \X AcceptEvents -> AcceptPCs]
    BY <1>2 DEF HandleAcceptEntry, AcceptPCs
  <2> QED
    BY <1>2, <2>1, <2>2, <2>3 DEF HandleAcceptEntry
<1>3. CASE HandleFunded(j)
  <2>1. wire' \subseteq Jobs \X Events /\ dups' \in 0..MaxDups
    BY <1>0, <1>3 DEF HandleFunded
  <2>2. recentJobs' \subseteq Keys /\ expiredKeys' \subseteq recentJobs'
    BY <1>3, ClaimKeepsTypes DEF HandleFunded, StartDelivery, Events
  <2>3. inFlight' \subseteq Jobs /\ dpc' \in [Jobs \X Origins -> DeliveryPCs]
    BY <1>3 DEF HandleFunded, StartDelivery, DeliveryPCs, Origins
  <2> QED
    BY <1>3, <2>1, <2>2, <2>3 DEF HandleFunded
<1>4. CASE HandleCompleted(j)
  <2>1. wire' \subseteq Jobs \X Events /\ dups' \in 0..MaxDups
    BY <1>0, <1>4 DEF HandleCompleted
  <2>2. recentJobs' \subseteq Keys /\ expiredKeys' \subseteq recentJobs'
    BY <1>4, ClaimKeepsTypes DEF HandleCompleted, Events
  <2> QED
    BY <1>4, <2>1, <2>2 DEF HandleCompleted
<1> QED
  BY <1>1, <1>2, <1>3, <1>4 DEF Ingress

LEMMA PollKeepsTypes ==
  ASSUME TypeOK, PollTick \/ \E j \in Jobs : Polled(j)
  PROVE  TypeOK'
<1> USE DEF TypeOK, chain, calls, dedup, accept, delivery, bounds
<1>1. CASE PollTick
  BY <1>1 DEF PollTick, FundedJobs
<1>2. ASSUME NEW j \in Jobs, PollDispatchThrows(j)
      PROVE  TypeOK'
  BY <1>2, ConstantsOK DEF PollDispatchThrows
<1>3. ASSUME NEW j \in Jobs, PollDispatch(j)
      PROVE  TypeOK'
  <2>1. CASE Claimable(j, "job.funded")
    <3>1. recentJobs' \subseteq Keys /\ expiredKeys' \subseteq recentJobs'
      BY <1>3, <2>1, ClaimKeepsTypes DEF PollDispatch, StartDelivery, Events
    <3> QED
      BY <1>3, <2>1, <3>1 DEF PollDispatch, StartDelivery, DeliveryPCs, Origins
  <2>2. CASE ~Claimable(j, "job.funded")
    BY <1>3, <2>2 DEF PollDispatch
  <2> QED
    BY <2>1, <2>2
<1> QED
  BY <1>1, <1>2, <1>3 DEF Polled

(* So does a call that throws, or whose answer is lost. *)
LEMMA ThrowsKeepsTypes ==
  ASSUME TypeOK, NEW j \in Jobs, NEW call \in {"setBudget", "reject", "submit"},
         Throws(j, call) \/ AnswerLost(j, call)
  PROVE  orphans' \subseteq lost' /\ lost' \subseteq Calls /\ fails' \in 0..MaxFails
BY ConstantsOK DEF TypeOK, Throws, AnswerLost, Calls, calls

(* The accept phase keeps the types, whichever call throws. *)
LEMMA AcceptKeepsTypes ==
  ASSUME TypeOK, NEW j \in Jobs, NEW e \in AcceptEvents, AcceptStep(j, e)
  PROVE  TypeOK'
<1> USE DEF TypeOK, chain, calls, dedup, accept, delivery, bounds, FinishAccept, GoAccept,
            AcceptPCs, RejectPCs
<1>1. CASE ObserveAccept(j, e)
  BY <1>1 DEF ObserveAccept
<1>2. CASE AcceptFetched(j, e)
  BY <1>2 DEF AcceptFetched, AfterRequirement
<1>3. CASE AcceptFetchThrows(j, e)
  BY <1>3, DieKeepsTypes, ConstantsOK DEF AcceptFetchThrows
<1>4. CASE RequirementResolved(j, e)
  BY <1>4, ConstantsOK DEF RequirementResolved, AfterRequirement
<1>5. CASE GateDecides(j, e)
  BY <1>5 DEF GateDecides
<1>6. CASE BudgetMined(j, e)
  BY <1>6 DEF BudgetMined, Mined, Outcome, Statuses
<1>7. CASE BudgetSet(j, e)
  BY <1>7 DEF BudgetSet, MarkDecided, Keys
<1>8. CASE BudgetThrows(j, e)
  <2>1. orphans' \subseteq lost' /\ lost' \subseteq Calls /\ fails' \in 0..MaxFails
    BY <1>8, ThrowsKeepsTypes DEF BudgetThrows
  <2>2. acceptInFlight' \subseteq Jobs /\ apc' \in [Jobs \X AcceptEvents -> AcceptPCs]
    BY <1>8 DEF BudgetThrows
  <2> QED
    BY <1>8, <2>1, <2>2 DEF BudgetThrows
<1>9. CASE Rejected(j, e)
  BY <1>9 DEF Rejected, Mined, MarkDecided, Outcome, Statuses, Keys
<1>10. CASE RejectThrows(j, e)
  <2>1. orphans' \subseteq lost' /\ lost' \subseteq Calls /\ fails' \in 0..MaxFails
    BY <1>10, ThrowsKeepsTypes DEF RejectThrows
  <2>2. acceptInFlight' \subseteq Jobs /\ apc' \in [Jobs \X AcceptEvents -> AcceptPCs]
    BY <1>10 DEF RejectThrows
  <2> QED
    BY <1>10, <2>1, <2>2 DEF RejectThrows
<1>11. CASE RefuseThrows(j, e)
  BY <1>11, DieKeepsTypes, ConstantsOK DEF RefuseThrows
<1> QED
  BY <1>1, <1>2, <1>3, <1>4, <1>5, <1>6, <1>7, <1>8, <1>9, <1>10, <1>11 DEF AcceptStep

(* So does the delivery phase. *)
LEMMA DeliveryKeepsTypes ==
  ASSUME TypeOK, NEW j \in Jobs, NEW o \in Origins, DeliveryStep(j, o)
  PROVE  TypeOK'
<1> USE DEF TypeOK, chain, calls, dedup, accept, delivery, bounds, FinishDelivery, GoDelivery,
            DeliveryPCs, SubmitPCs
<1>1. CASE ObserveDelivery(j, o)
  BY <1>1 DEF ObserveDelivery
<1>2. CASE DeliveryFetched(j, o)
  BY <1>2 DEF DeliveryFetched
<1>3. CASE DeliveryFetchThrows(j, o)
  <2>1. fails' \in 0..MaxFails /\ crashes' \in 0..MaxCrashes /\ dups' \in 0..MaxDups
    BY <1>3, ConstantsOK DEF DeliveryFetchThrows
  <2>2. dpc' \in [Jobs \X Origins -> DeliveryPCs] /\ inFlight' \subseteq Jobs
    BY <1>3 DEF DeliveryFetchThrows
  <2> QED
    BY <1>3, <2>1, <2>2 DEF DeliveryFetchThrows
<1>4. CASE HandlerEnds(j, o)
  BY <1>4 DEF HandlerEnds
<1>5. CASE SubmitMined(j, o)
  BY <1>5 DEF SubmitMined, Mined, Outcome, Statuses
<1>6. CASE Submitted(j, o)
  BY <1>6 DEF Submitted
<1>7. CASE SubmitThrows(j, o)
  <2>1. orphans' \subseteq lost' /\ lost' \subseteq Calls /\ fails' \in 0..MaxFails
    BY <1>7, ThrowsKeepsTypes DEF SubmitThrows
  <2>2. inFlight' \subseteq Jobs /\ dpc' \in [Jobs \X Origins -> DeliveryPCs]
    BY <1>7 DEF SubmitThrows
  <2> QED
    BY <1>7, <2>1, <2>2 DEF SubmitThrows
<1>8. CASE Nudge(j, o)
  BY <1>8 DEF Nudge
<1> QED
  BY <1>1, <1>2, <1>3, <1>4, <1>5, <1>6, <1>7, <1>8 DEF DeliveryStep

LEMMA InitHasTypes == Init => TypeOK
<1> SUFFICES ASSUME Init
             PROVE  TypeOK
  OBVIOUS
<1>1. status \in [Jobs -> Statuses] /\ kind \in [Jobs -> AllKinds]
  BY ConstantsOK DEF Init, Statuses
<1>2. posted \subseteq Jobs /\ wire \subseteq Jobs \X Events
  BY DEF Init, Hydrated
<1>3. apc \in [Jobs \X AcceptEvents -> AcceptPCs] /\ dpc \in [Jobs \X Origins -> DeliveryPCs]
  BY DEF Init, AcceptPCs, DeliveryPCs
<1> QED
  BY <1>1, <1>2, <1>3, ConstantsOK DEF Init, TypeOK

LEMMA StepKeepsTypes == TypeOK /\ [Next]_vars => TypeOK'
<1> SUFFICES ASSUME TypeOK, [Next]_vars
             PROVE  TypeOK'
  OBVIOUS
<1>1. CASE \E j \in Jobs : Outside(j) \/ Ingress(j) \/ Polled(j)
  BY <1>1, OutsideKeepsTypes, IngressKeepsTypes, PollKeepsTypes
<1>2. CASE \E j \in Jobs, e \in AcceptEvents : AcceptStep(j, e)
  BY <1>2, AcceptKeepsTypes
<1>3. CASE \E j \in Jobs, o \in Origins : DeliveryStep(j, o)
  BY <1>3, DeliveryKeepsTypes
<1>4. CASE PollTick
  BY <1>4, PollKeepsTypes
<1>5. CASE TtlElapses
  BY <1>5 DEF TtlElapses, TypeOK, chain, calls, accept, delivery, bounds
<1>6. CASE Crash
  BY <1>6, DieKeepsTypes, ConstantsOK DEF Crash, TypeOK, chain
<1>7. CASE UNCHANGED vars
  BY <1>7 DEF vars, TypeOK, chain, calls, dedup, accept, delivery, bounds
<1> QED
  BY <1>1, <1>2, <1>3, <1>4, <1>5, <1>6, <1>7 DEF Next

(* Every variable of the daemon keeps its type; in particular every key that *)
(* claimDispatch's clean-up marks as expired is a key it still holds.        *)
THEOREM TypeCorrect == Spec => []TypeOK
<1>1. Init => TypeOK
  BY InitHasTypes
<1>2. TypeOK /\ [Next]_vars => TypeOK'
  BY StepKeepsTypes
<1> QED
  BY <1>1, <1>2, PTL DEF Spec

-------------------------------------------------------------------------------
(* Claims.  That a job has one flight does not follow from itself: a new     *)
(* flight starts when the claim is free, so the claims must be known to      *)
(* match the flights, and one flight must not drop the claim of another.     *)

ClaimInv ==
  /\ TypeOK
  /\ ClaimsMatchFlights
  /\ Accepts!Exclusive
  /\ Deliveries!Exclusive

(* The half of the invariant about each phase, as the steps see it. *)
AcceptClaims ==
  /\ apc \in [Jobs \X AcceptEvents -> AcceptPCs]
  /\ \A j \in Jobs : j \in acceptInFlight <=> \E e \in AcceptEvents : apc[<<j, e>>] # "idle"
  /\ \A j \in Jobs : \A e, f \in AcceptEvents :
       apc[<<j, e>>] # "idle" /\ apc[<<j, f>>] # "idle" => e = f

DeliveryClaims ==
  /\ dpc \in [Jobs \X Origins -> DeliveryPCs]
  /\ \A j \in Jobs : j \in inFlight <=> \E o \in Origins : dpc[<<j, o>>] # "idle"
  /\ \A j \in Jobs : \A o, q \in Origins :
       dpc[<<j, o>>] # "idle" /\ dpc[<<j, q>>] # "idle" => o = q

LEMMA ClaimInvSplits == ClaimInv <=> TypeOK /\ AcceptClaims /\ DeliveryClaims
<1>1. Accepts!Exclusive <=>
        \A j \in Jobs : \A e, f \in AcceptEvents :
          apc[<<j, e>>] # "idle" /\ apc[<<j, f>>] # "idle" => e = f
  BY DEF Accepts!Exclusive, AcceptFlights
<1>2. Deliveries!Exclusive <=>
        \A j \in Jobs : \A o, q \in Origins :
          dpc[<<j, o>>] # "idle" /\ dpc[<<j, q>>] # "idle" => o = q
  BY DEF Deliveries!Exclusive, DeliveryFlights
<1> QED
  BY <1>1, <1>2 DEF ClaimInv, TypeOK, ClaimsMatchFlights, AcceptClaims, DeliveryClaims

(* What a step can do to the accept phase: nothing, start an attempt of a    *)
(* free job, move a running one, end one, or end all.                        *)
AcceptMove ==
  \/ UNCHANGED accept
  \/ \E j \in Jobs, e \in AcceptEvents :
       /\ j \notin acceptInFlight
       /\ acceptInFlight' = acceptInFlight \cup {j}
       /\ apc' = [apc EXCEPT ![<<j, e>>] = "fetch"]
  \/ \E j \in Jobs, e \in AcceptEvents :
       /\ apc[<<j, e>>] # "idle"
       /\ \/ FinishAccept(j, e)
          \/ \E pc \in AcceptPCs \ {"idle"} : GoAccept(j, e, pc)
  \/ /\ acceptInFlight' = {}
     /\ apc' = [s \in Jobs \X AcceptEvents |-> "idle"]

DeliveryMove ==
  \/ UNCHANGED delivery
  \/ \E j \in Jobs, o \in Origins :
       /\ j \notin inFlight
       /\ inFlight' = inFlight \cup {j}
       /\ dpc' = [dpc EXCEPT ![<<j, o>>] = "fetch"]
  \/ \E j \in Jobs, o \in Origins :
       /\ dpc[<<j, o>>] # "idle"
       /\ \/ FinishDelivery(j, o)
          \/ \E pc \in DeliveryPCs \ {"idle"} : GoDelivery(j, o, pc)
  \/ /\ inFlight' = {}
     /\ dpc' = [s \in Jobs \X Origins |-> "idle"]

LEMMA StepMovesAccept ==
  ASSUME [Next]_vars
  PROVE  AcceptMove
<1> USE DEF accept
<1>1. ASSUME NEW j \in Jobs, Outside(j) \/ Polled(j)
      PROVE  AcceptMove
  BY <1>1 DEF Outside, CreateJob, PostRequirement, Fund, Complete, BuyerRejectsOrExpires,
              OrphanSettles, Polled, PollDispatch, PollDispatchThrows, AcceptMove
<1>2. ASSUME NEW j \in Jobs, Ingress(j)
      PROVE  AcceptMove
  BY <1>2 DEF Ingress, HandleDuplicate, HandleAcceptEntry, HandleFunded, HandleCompleted,
              AcceptMove
<1>3. ASSUME NEW j \in Jobs, NEW e \in AcceptEvents, AcceptStep(j, e)
      PROVE  AcceptMove
  BY <1>3 DEF AcceptStep, ObserveAccept, AcceptFetched, AfterRequirement, AcceptFetchThrows,
              RequirementResolved, GateDecides, BudgetMined, BudgetSet, BudgetThrows, Rejected,
              RejectThrows, RefuseThrows, Die, RejectPCs, AcceptPCs, AcceptMove
<1>4. ASSUME NEW j \in Jobs, NEW o \in Origins, DeliveryStep(j, o)
      PROVE  AcceptMove
  BY <1>4 DEF DeliveryStep, ObserveDelivery, DeliveryFetched, DeliveryFetchThrows, HandlerEnds,
              SubmitMined, Submitted, SubmitThrows, Nudge, AcceptMove
<1>5. CASE PollTick \/ TtlElapses \/ Crash \/ UNCHANGED vars
  BY <1>5 DEF PollTick, TtlElapses, Crash, Die, vars, AcceptMove
<1> QED
  BY <1>1, <1>2, <1>3, <1>4, <1>5 DEF Next

LEMMA StepMovesDelivery ==
  ASSUME [Next]_vars
  PROVE  DeliveryMove
<1> USE DEF delivery
<1>1. ASSUME NEW j \in Jobs, Outside(j)
      PROVE  DeliveryMove
  BY <1>1 DEF Outside, CreateJob, PostRequirement, Fund, Complete, BuyerRejectsOrExpires,
              OrphanSettles, DeliveryMove
<1>2. ASSUME NEW j \in Jobs, Ingress(j) \/ Polled(j)
      PROVE  DeliveryMove
  BY <1>2 DEF Ingress, HandleDuplicate, HandleAcceptEntry, HandleFunded, HandleCompleted,
              Polled, PollDispatch, PollDispatchThrows, StartDelivery, ClaimDispatch, Claimable, Origins, DeliveryMove
<1>3. ASSUME NEW j \in Jobs, NEW e \in AcceptEvents, AcceptStep(j, e)
      PROVE  DeliveryMove
  BY <1>3 DEF AcceptStep, ObserveAccept, AcceptFetched, AcceptFetchThrows,
              RequirementResolved, GateDecides, BudgetMined, BudgetSet, BudgetThrows, Rejected,
              RejectThrows, RefuseThrows, Die, DeliveryMove
<1>4. ASSUME NEW j \in Jobs, NEW o \in Origins, DeliveryStep(j, o)
      PROVE  DeliveryMove
  BY <1>4 DEF DeliveryStep, ObserveDelivery, DeliveryFetched, DeliveryFetchThrows, HandlerEnds,
              SubmitMined, Submitted, SubmitThrows, Nudge, SubmitPCs, DeliveryPCs, DeliveryMove
<1>5. CASE PollTick \/ TtlElapses \/ Crash \/ UNCHANGED vars
  BY <1>5 DEF PollTick, TtlElapses, Crash, Die, vars, DeliveryMove
<1> QED
  BY <1>1, <1>2, <1>3, <1>4, <1>5 DEF Next

LEMMA AcceptMoveKeepsClaims ==
  ASSUME AcceptClaims, AcceptMove
  PROVE  AcceptClaims'
<1>1. CASE UNCHANGED accept
  BY <1>1 DEF AcceptClaims, accept
<1>2. ASSUME NEW j \in Jobs, NEW e \in AcceptEvents, j \notin acceptInFlight,
             acceptInFlight' = acceptInFlight \cup {j},
             apc' = [apc EXCEPT ![<<j, e>>] = "fetch"]
      PROVE  AcceptClaims'
  BY <1>2 DEF AcceptClaims, AcceptPCs
<1>3. ASSUME NEW j \in Jobs, NEW e \in AcceptEvents, apc[<<j, e>>] # "idle",
             FinishAccept(j, e)
      PROVE  AcceptClaims'
  <2>1. apc' \in [Jobs \X AcceptEvents -> AcceptPCs]
    BY <1>3 DEF AcceptClaims, AcceptPCs, FinishAccept
  <2>2. \A k \in Jobs, f \in AcceptEvents :
          apc'[<<k, f>>] = IF k = j /\ f = e THEN "idle" ELSE apc[<<k, f>>]
    BY <1>3 DEF AcceptClaims, FinishAccept
  <2>3. \A f \in AcceptEvents : apc'[<<j, f>>] = "idle"
    BY <1>3, <2>2 DEF AcceptClaims
  <2>4. acceptInFlight' = acceptInFlight \ {j}
    BY <1>3 DEF FinishAccept
  <2>5. ASSUME NEW k \in Jobs
        PROVE  k \in acceptInFlight' <=> \E f \in AcceptEvents : apc'[<<k, f>>] # "idle"
    BY <2>2, <2>3, <2>4 DEF AcceptClaims
  <2>6. ASSUME NEW k \in Jobs, NEW f \in AcceptEvents, NEW g \in AcceptEvents,
               apc'[<<k, f>>] # "idle", apc'[<<k, g>>] # "idle"
        PROVE  f = g
    BY <2>2, <2>6 DEF AcceptClaims
  <2> QED
    BY <2>1, <2>5, <2>6 DEF AcceptClaims
<1>4. ASSUME NEW j \in Jobs, NEW e \in AcceptEvents, apc[<<j, e>>] # "idle",
             NEW pc \in AcceptPCs \ {"idle"}, GoAccept(j, e, pc)
      PROVE  AcceptClaims'
  <2>1. apc' \in [Jobs \X AcceptEvents -> AcceptPCs]
    BY <1>4 DEF AcceptClaims, GoAccept
  <2>2. \A k \in Jobs, f \in AcceptEvents :
          apc'[<<k, f>>] = IF k = j /\ f = e THEN pc ELSE apc[<<k, f>>]
    BY <1>4 DEF AcceptClaims, GoAccept
  <2>3. \A k \in Jobs, f \in AcceptEvents : apc'[<<k, f>>] = "idle" <=> apc[<<k, f>>] = "idle"
    BY <1>4, <2>2
  <2>4. acceptInFlight' = acceptInFlight
    BY <1>4 DEF GoAccept
  <2> QED
    BY <2>1, <2>3, <2>4 DEF AcceptClaims
<1>5. CASE /\ acceptInFlight' = {}
           /\ apc' = [s \in Jobs \X AcceptEvents |-> "idle"]
  BY <1>5 DEF AcceptClaims, AcceptPCs
<1> QED
  BY <1>1, <1>2, <1>3, <1>4, <1>5 DEF AcceptMove

LEMMA DeliveryMoveKeepsClaims ==
  ASSUME DeliveryClaims, DeliveryMove
  PROVE  DeliveryClaims'
<1>1. CASE UNCHANGED delivery
  BY <1>1 DEF DeliveryClaims, delivery
<1>2. ASSUME NEW j \in Jobs, NEW o \in Origins, j \notin inFlight,
             inFlight' = inFlight \cup {j},
             dpc' = [dpc EXCEPT ![<<j, o>>] = "fetch"]
      PROVE  DeliveryClaims'
  BY <1>2 DEF DeliveryClaims, DeliveryPCs
<1>3. ASSUME NEW j \in Jobs, NEW o \in Origins, dpc[<<j, o>>] # "idle",
             FinishDelivery(j, o)
      PROVE  DeliveryClaims'
  <2>1. dpc' \in [Jobs \X Origins -> DeliveryPCs]
    BY <1>3 DEF DeliveryClaims, DeliveryPCs, FinishDelivery
  <2>2. \A k \in Jobs, f \in Origins :
          dpc'[<<k, f>>] = IF k = j /\ f = o THEN "idle" ELSE dpc[<<k, f>>]
    BY <1>3 DEF DeliveryClaims, FinishDelivery
  <2>3. \A f \in Origins : dpc'[<<j, f>>] = "idle"
    BY <1>3, <2>2 DEF DeliveryClaims
  <2>4. inFlight' = inFlight \ {j}
    BY <1>3 DEF FinishDelivery
  <2>5. ASSUME NEW k \in Jobs
        PROVE  k \in inFlight' <=> \E f \in Origins : dpc'[<<k, f>>] # "idle"
    BY <2>2, <2>3, <2>4 DEF DeliveryClaims
  <2>6. ASSUME NEW k \in Jobs, NEW f \in Origins, NEW g \in Origins,
               dpc'[<<k, f>>] # "idle", dpc'[<<k, g>>] # "idle"
        PROVE  f = g
    BY <2>2, <2>6 DEF DeliveryClaims
  <2> QED
    BY <2>1, <2>5, <2>6 DEF DeliveryClaims
<1>4. ASSUME NEW j \in Jobs, NEW o \in Origins, dpc[<<j, o>>] # "idle",
             NEW pc \in DeliveryPCs \ {"idle"}, GoDelivery(j, o, pc)
      PROVE  DeliveryClaims'
  <2>1. dpc' \in [Jobs \X Origins -> DeliveryPCs]
    BY <1>4 DEF DeliveryClaims, GoDelivery
  <2>2. \A k \in Jobs, f \in Origins :
          dpc'[<<k, f>>] = IF k = j /\ f = o THEN pc ELSE dpc[<<k, f>>]
    BY <1>4 DEF DeliveryClaims, GoDelivery
  <2>3. \A k \in Jobs, f \in Origins : dpc'[<<k, f>>] = "idle" <=> dpc[<<k, f>>] = "idle"
    BY <1>4, <2>2
  <2>4. inFlight' = inFlight
    BY <1>4 DEF GoDelivery
  <2> QED
    BY <2>1, <2>3, <2>4 DEF DeliveryClaims
<1>5. CASE /\ inFlight' = {}
           /\ dpc' = [s \in Jobs \X Origins |-> "idle"]
  BY <1>5 DEF DeliveryClaims, DeliveryPCs
<1> QED
  BY <1>1, <1>2, <1>3, <1>4, <1>5 DEF DeliveryMove

LEMMA InitHasClaims == Init => ClaimInv
<1> SUFFICES ASSUME Init
             PROVE  AcceptClaims /\ DeliveryClaims
  BY InitHasTypes, ClaimInvSplits
<1> QED
  BY DEF Init, AcceptClaims, DeliveryClaims, AcceptPCs, DeliveryPCs

LEMMA StepKeepsClaims == ClaimInv /\ [Next]_vars => ClaimInv'
<1> SUFFICES ASSUME ClaimInv, [Next]_vars
             PROVE  ClaimInv'
  OBVIOUS
<1>1. TypeOK /\ AcceptClaims /\ DeliveryClaims
  BY ClaimInvSplits
<1>2. TypeOK'
  BY <1>1, StepKeepsTypes
<1>3. AcceptClaims' /\ DeliveryClaims'
  BY <1>1, StepMovesAccept, AcceptMoveKeepsClaims, StepMovesDelivery, DeliveryMoveKeepsClaims
<1>4. ClaimInv' <=> TypeOK' /\ AcceptClaims' /\ DeliveryClaims'
  BY ClaimInvSplits, PTL
<1> QED
  BY <1>2, <1>3, <1>4

LEMMA ClaimsInvariant == Spec => []ClaimInv
<1>1. Init => ClaimInv
  BY InitHasClaims
<1>2. ClaimInv /\ [Next]_vars => ClaimInv'
  BY StepKeepsClaims
<1> QED
  BY <1>1, <1>2, PTL DEF Spec

(* A job is claimed exactly while an attempt or a delivery of it runs: the   *)
(* releases of handleEntry's and handleJobFunded's finally blocks match the  *)
(* claims on every path, so no job is ever locked out.                       *)
THEOREM ClaimsAreReleased == Spec => []ClaimsMatchFlights
<1>1. ClaimInv => ClaimsMatchFlights
  BY DEF ClaimInv
<1> QED
  BY <1>1, ClaimsInvariant, PTL

(* job.created and requirement.message never run two accept attempts of one  *)
(* job at the same time (claimAccept), and no two deliveries of one job run  *)
(* at the same time (claimDispatch's in-flight guard).                       *)
THEOREM FlightsAreExclusive == Spec => [](Accepts!Exclusive /\ Deliveries!Exclusive)
<1>1. ClaimInv => Accepts!Exclusive /\ Deliveries!Exclusive
  BY DEF ClaimInv
<1> QED
  BY <1>1, ClaimsInvariant, PTL

-------------------------------------------------------------------------------
(* Refinement: each phase implements SingleFlight.                           *)

LEMMA AcceptMoveRefines ==
  ASSUME AcceptClaims, AcceptMove
  PROVE  [Accepts!Next]_AcceptFlights
<1>1. CASE UNCHANGED accept
  BY <1>1 DEF AcceptFlights, accept
<1>2. ASSUME NEW j \in Jobs, NEW e \in AcceptEvents, j \notin acceptInFlight,
             acceptInFlight' = acceptInFlight \cup {j},
             apc' = [apc EXCEPT ![<<j, e>>] = "fetch"]
      PROVE  Accepts!Next
  <2>1. AcceptFlights' = AcceptFlights \cup {<<j, e>>}
    BY <1>2 DEF AcceptClaims, AcceptFlights
  <2>2. \A f \in AcceptEvents : <<j, f>> \notin AcceptFlights
    BY <1>2 DEF AcceptClaims, AcceptFlights
  <2> QED
    BY <2>1, <2>2 DEF Accepts!Next, Accepts!TakeOff
<1>3. ASSUME NEW j \in Jobs, NEW e \in AcceptEvents, apc[<<j, e>>] # "idle",
             FinishAccept(j, e)
      PROVE  Accepts!Next
  <2>1. AcceptFlights' = AcceptFlights \ {<<j, e>>}
    BY <1>3 DEF AcceptClaims, AcceptFlights, FinishAccept
  <2> QED
    BY <2>1 DEF Accepts!Next, Accepts!Land
<1>4. ASSUME NEW j \in Jobs, NEW e \in AcceptEvents, apc[<<j, e>>] # "idle",
             NEW at \in AcceptPCs \ {"idle"}, GoAccept(j, e, at)
      PROVE  AcceptFlights' = AcceptFlights
  BY <1>4 DEF AcceptClaims, AcceptFlights, GoAccept
<1>5. CASE /\ acceptInFlight' = {}
           /\ apc' = [s \in Jobs \X AcceptEvents |-> "idle"]
  <2>1. AcceptFlights' = {}
    BY <1>5 DEF AcceptFlights
  <2> QED
    BY <2>1 DEF Accepts!Next, Accepts!ProcessDeath
<1> QED
  BY <1>1, <1>2, <1>3, <1>4, <1>5 DEF AcceptMove

(* The accept phase implements SingleFlight with claimAccept as its guard:   *)
(* an attempt starts only when none of the job is under way, whatever keys   *)
(* the dedup map holds.                                                      *)
THEOREM AcceptsAreSingleFlights == Spec => OneAcceptAttempt
<1>1. Init => Accepts!Init
  BY DEF Init, Accepts!Init, AcceptFlights
<1>2. ClaimInv /\ [Next]_vars => [Accepts!Next]_AcceptFlights
  BY ClaimInvSplits, StepMovesAccept, AcceptMoveRefines
<1> QED
  BY <1>1, <1>2, ClaimsInvariant, PTL DEF Spec, OneAcceptAttempt, Accepts!Spec

LEMMA DeliveryMoveRefines ==
  ASSUME DeliveryClaims, DeliveryMove
  PROVE  [Deliveries!Next]_DeliveryFlights
<1>1. CASE UNCHANGED delivery
  BY <1>1 DEF DeliveryFlights, delivery
<1>2. ASSUME NEW j \in Jobs, NEW o \in Origins, j \notin inFlight,
             inFlight' = inFlight \cup {j},
             dpc' = [dpc EXCEPT ![<<j, o>>] = "fetch"]
      PROVE  Deliveries!Next
  <2>1. DeliveryFlights' = DeliveryFlights \cup {<<j, o>>}
    BY <1>2 DEF DeliveryClaims, DeliveryFlights
  <2>2. \A f \in Origins : <<j, f>> \notin DeliveryFlights
    BY <1>2 DEF DeliveryClaims, DeliveryFlights
  <2> QED
    BY <2>1, <2>2 DEF Deliveries!Next, Deliveries!TakeOff
<1>3. ASSUME NEW j \in Jobs, NEW o \in Origins, dpc[<<j, o>>] # "idle",
             FinishDelivery(j, o)
      PROVE  Deliveries!Next
  <2>1. DeliveryFlights' = DeliveryFlights \ {<<j, o>>}
    BY <1>3 DEF DeliveryClaims, DeliveryFlights, FinishDelivery
  <2> QED
    BY <2>1 DEF Deliveries!Next, Deliveries!Land
<1>4. ASSUME NEW j \in Jobs, NEW o \in Origins, dpc[<<j, o>>] # "idle",
             NEW at \in DeliveryPCs \ {"idle"}, GoDelivery(j, o, at)
      PROVE  DeliveryFlights' = DeliveryFlights
  BY <1>4 DEF DeliveryClaims, DeliveryFlights, GoDelivery
<1>5. CASE /\ inFlight' = {}
           /\ dpc' = [s \in Jobs \X Origins |-> "idle"]
  <2>1. DeliveryFlights' = {}
    BY <1>5 DEF DeliveryFlights
  <2> QED
    BY <2>1 DEF Deliveries!Next, Deliveries!ProcessDeath
<1> QED
  BY <1>1, <1>2, <1>3, <1>4, <1>5 DEF DeliveryMove

(* So does the delivery phase, with the in-flight set of claimDispatch: the  *)
(* job.funded entry and the poll never deliver one job twice at a time.      *)
THEOREM DeliveriesAreSingleFlights == Spec => OneDelivery
<1>1. Init => Deliveries!Init
  BY DEF Init, Deliveries!Init, DeliveryFlights
<1>2. ClaimInv /\ [Next]_vars => [Deliveries!Next]_DeliveryFlights
  BY ClaimInvSplits, StepMovesDelivery, DeliveryMoveRefines
<1> QED
  BY <1>1, <1>2, ClaimsInvariant, PTL DEF Spec, OneDelivery, Deliveries!Spec

-------------------------------------------------------------------------------
(* Observe-only.                                                             *)

(* An observing daemon gets no further than the read of the job. *)
ObserveInv ==
  observing =>
    /\ \A s \in Jobs \X AcceptEvents : apc[s] \in {"idle", "fetch"}
    /\ \A s \in Jobs \X Origins : dpc[s] \in {"idle", "fetch"}

(* OBSERVE_ONLY is read at the start: no step changes it. *)
LEMMA StepKeepsMode == [Next]_vars => observing' = observing
<1> SUFFICES ASSUME [Next]_vars
             PROVE  observing' = observing
  OBVIOUS
<1> USE DEF chain
<1>1. ASSUME NEW j \in Jobs, Outside(j)
      PROVE  observing' = observing
  BY <1>1 DEF Outside, CreateJob, PostRequirement, Fund, Complete, BuyerRejectsOrExpires,
              OrphanSettles
<1>2. ASSUME NEW j \in Jobs, Ingress(j) \/ Polled(j)
      PROVE  observing' = observing
  BY <1>2 DEF Ingress, HandleDuplicate, HandleAcceptEntry, HandleFunded, HandleCompleted,
              Polled, PollDispatch, PollDispatchThrows
<1>3. ASSUME NEW j \in Jobs, NEW e \in AcceptEvents, AcceptStep(j, e)
      PROVE  observing' = observing
  BY <1>3 DEF AcceptStep, ObserveAccept, AcceptFetched, AcceptFetchThrows, RequirementResolved,
              GateDecides, BudgetMined, BudgetSet, BudgetThrows, Rejected, RejectThrows,
              RefuseThrows, Mined, Die
<1>4. ASSUME NEW j \in Jobs, NEW o \in Origins, DeliveryStep(j, o)
      PROVE  observing' = observing
  BY <1>4 DEF DeliveryStep, ObserveDelivery, DeliveryFetched, DeliveryFetchThrows, HandlerEnds,
              SubmitMined, Submitted, SubmitThrows, Nudge, Mined
<1>5. CASE PollTick \/ TtlElapses \/ Crash \/ UNCHANGED vars
  BY <1>5 DEF PollTick, TtlElapses, Crash, Die, vars
<1> QED
  BY <1>1, <1>2, <1>3, <1>4, <1>5 DEF Next

LEMMA StepKeepsObserveInv == TypeOK /\ ObserveInv /\ [Next]_vars => ObserveInv'
<1> SUFFICES ASSUME TypeOK, observing, ObserveInv, [Next]_vars
             PROVE  ObserveInv'
  BY StepKeepsMode DEF ObserveInv
<1> USE DEF TypeOK, ObserveInv, accept, delivery
<1>1. ASSUME NEW j \in Jobs, Outside(j)
      PROVE  ObserveInv'
  BY <1>1 DEF Outside, CreateJob, PostRequirement, Fund, Complete, BuyerRejectsOrExpires,
              OrphanSettles
<1>2. ASSUME NEW j \in Jobs, Ingress(j) \/ Polled(j)
      PROVE  ObserveInv'
  BY <1>2 DEF Ingress, HandleDuplicate, HandleAcceptEntry, HandleFunded, HandleCompleted,
              Polled, PollDispatch, PollDispatchThrows, StartDelivery
<1>3. ASSUME NEW j \in Jobs, NEW e \in AcceptEvents, AcceptStep(j, e)
      PROVE  ObserveInv'
  <2>1. apc[<<j, e>>] \in {"idle", "fetch"}
    OBVIOUS
  <2>2. ObserveAccept(j, e)
    BY <1>3, <2>1 DEF AcceptStep, AcceptFetched, AcceptFetchThrows, RequirementResolved,
                      GateDecides, BudgetMined, BudgetSet, BudgetThrows, Rejected,
                      RejectThrows, RefuseThrows, RejectPCs
  <2> QED
    BY <2>2 DEF ObserveAccept, FinishAccept
<1>4. ASSUME NEW j \in Jobs, NEW o \in Origins, DeliveryStep(j, o)
      PROVE  ObserveInv'
  <2>1. dpc[<<j, o>>] \in {"idle", "fetch"}
    OBVIOUS
  <2>2. ObserveDelivery(j, o)
    BY <1>4, <2>1 DEF DeliveryStep, DeliveryFetched, DeliveryFetchThrows, HandlerEnds,
                      SubmitMined, Submitted, SubmitThrows, Nudge, SubmitPCs
  <2> QED
    BY <2>2 DEF ObserveDelivery, FinishDelivery
<1>5. CASE PollTick \/ TtlElapses \/ Crash \/ UNCHANGED vars
  BY <1>5 DEF PollTick, TtlElapses, Crash, Die, vars
<1> QED
  BY <1>1, <1>2, <1>3, <1>4, <1>5 DEF Next

(* Under OBSERVE_ONLY no attempt and no delivery ever waits for a chain      *)
(* call: handleJobCreated and handleJobFunded return before every signing    *)
(* path, by whichever way the job came.                                      *)
THEOREM ObservingSignsNothing == Spec => []ObserveSignsNothing
<1>1. Init => ObserveInv
  BY DEF Init, ObserveInv
<1>2. TypeOK /\ ObserveInv /\ [Next]_vars => ObserveInv'
  BY StepKeepsObserveInv
<1>3. TypeOK /\ ObserveInv => ObserveSignsNothing
  BY DEF TypeOK, ObserveInv, ObserveSignsNothing, Interrupted, Calls, RejectPCs, SubmitPCs
<1> QED
  BY <1>1, <1>2, <1>3, TypeCorrect, PTL DEF Spec

-------------------------------------------------------------------------------
(* Decisions.  The marker of a decision is a key of the dedup map, and a map *)
(* that has outgrown its threshold sheds the keys that have outlived their   *)
(* TTL: a decision is remembered as long as no claim sheds its marker.       *)

Marked(j) == <<j, "__decided">> \in recentJobs

MarkersAreSafe ==
  \A j \in Jobs, e \in Events :
    Claimable(j, e) => \A k \in Jobs : Marked(k) => <<k, "__decided">> \in AfterClaim(j, e)

LEMMA RoomyClaims ==
  ASSUME IsFiniteSet(Jobs), Cardinality(Keys) <= CleanupThreshold, TypeOK,
         NEW j \in Jobs, NEW e \in Events
  PROVE  AfterClaim(j, e) = recentJobs \cup {<<j, e>>}
<1> DEFINE held == recentJobs \cup {<<j, e>>}
<1>1. held \subseteq Keys
  BY DEF TypeOK, Keys
<1>2. IsFiniteSet(Keys)
  <2>1. IsFiniteSet(Events \cup {"__decided"})
    <3>1. \A x : IsFiniteSet({x})
      BY FS_Singleton
    <3>2. \A S, T : IsFiniteSet(S) /\ IsFiniteSet(T) => IsFiniteSet(S \cup T)
      BY FS_Union
    <3>3. Events \cup {"__decided"} =
            {"job.created"} \cup ({"requirement.message"} \cup ({"job.funded"} \cup
              ({"job.completed"} \cup {"__decided"})))
      BY DEF Events, AcceptEvents
    <3> QED
      BY <3>1, <3>2, <3>3
  <2> QED
    BY <2>1, FS_Product DEF Keys
<1>3. Cardinality(held) <= Cardinality(Keys) /\ Cardinality(held) \in Nat /\ Cardinality(Keys) \in Nat
  BY <1>1, <1>2, FS_Subset, FS_CardinalityType
<1>4. ~(Cardinality(held) > CleanupThreshold)
  BY <1>3, ConstantsOK
<1> QED
  BY <1>4 DEF AfterClaim

(* A map whose keys fit below its threshold sheds none. *)
LEMMA RoomIsSafe ==
  ASSUME IsFiniteSet(Jobs), Cardinality(Keys) <= CleanupThreshold, TypeOK
  PROVE  MarkersAreSafe
BY RoomyClaims DEF MarkersAreSafe, Marked

(* Only a death of the process forgets a safe marker. *)
LEMMA MarkersAreKept ==
  ASSUME MarkersAreSafe, [Next]_vars
  PROVE  Die \/ \A k \in Jobs : Marked(k) => Marked(k)'
<1> USE DEF dedup
<1>0. ASSUME NEW j \in Jobs, NEW e \in Events, ClaimDispatch(j, e)
      PROVE  \A k \in Jobs : Marked(k) => Marked(k)'
  BY <1>0 DEF MarkersAreSafe, ClaimDispatch, Marked
<1>1. ASSUME NEW j \in Jobs, Outside(j)
      PROVE  UNCHANGED recentJobs
  BY <1>1 DEF Outside, CreateJob, PostRequirement, Fund, Complete, BuyerRejectsOrExpires,
              OrphanSettles
<1>2. ASSUME NEW j \in Jobs, Ingress(j) \/ Polled(j)
      PROVE  \A k \in Jobs : Marked(k) => Marked(k)'
  <2>1. \/ UNCHANGED recentJobs
        \/ \E e \in AcceptEvents \cup {"job.funded", "job.completed"} : ClaimDispatch(j, e)
    BY <1>2 DEF Ingress, HandleDuplicate, HandleAcceptEntry, HandleFunded, HandleCompleted,
                Polled, PollDispatch, PollDispatchThrows, StartDelivery
  <2> QED
    BY <1>0, <2>1 DEF Events, Marked
<1>3. ASSUME NEW j \in Jobs, NEW e \in AcceptEvents, AcceptStep(j, e)
      PROVE  Die \/ \A k \in Jobs : Marked(k) => Marked(k)'
  BY <1>3 DEF AcceptStep, ObserveAccept, AcceptFetched, AcceptFetchThrows, RequirementResolved,
              GateDecides, BudgetMined, BudgetSet, BudgetThrows, Rejected, RejectThrows,
              RefuseThrows, MarkDecided, Marked
<1>4. ASSUME NEW j \in Jobs, NEW o \in Origins, DeliveryStep(j, o)
      PROVE  UNCHANGED recentJobs
  BY <1>4 DEF DeliveryStep, ObserveDelivery, DeliveryFetched, DeliveryFetchThrows, HandlerEnds,
              SubmitMined, Submitted, SubmitThrows, Nudge
<1>5. CASE PollTick \/ TtlElapses \/ Crash \/ UNCHANGED vars
  BY <1>5 DEF PollTick, TtlElapses, Crash, vars, Marked
<1> QED
  BY <1>1, <1>2, <1>3, <1>4, <1>5 DEF Next, Marked

(* An attempt that is not under way starts with an entry of its own, one that *)
(* is under way stays, moves or ends.                                        *)
LEMMA AttemptStarts ==
  ASSUME [Next]_vars, TypeOK, NEW j \in Jobs, NEW e \in AcceptEvents,
         apc[<<j, e>>] = "idle", apc'[<<j, e>>] # "idle"
  PROVE  HandleAcceptEntry(j, e) /\ apc'[<<j, e>>] = "fetch" /\ j \notin acceptInFlight
<1> USE DEF accept
<1>1. ASSUME NEW k \in Jobs, NEW f \in AcceptEvents, HandleAcceptEntry(k, f)
      PROVE  k = j /\ f = e /\ apc'[<<j, e>>] = "fetch" /\ j \notin acceptInFlight
  BY <1>1 DEF HandleAcceptEntry, TypeOK
<1>2. ASSUME NEW k \in Jobs, Outside(k) \/ Polled(k)
      PROVE  FALSE
  BY <1>2 DEF Outside, CreateJob, PostRequirement, Fund, Complete, BuyerRejectsOrExpires,
              OrphanSettles, Polled, PollDispatch, PollDispatchThrows
<1>3. ASSUME NEW k \in Jobs, Ingress(k)
      PROVE  \E f \in AcceptEvents : HandleAcceptEntry(k, f)
  BY <1>3 DEF Ingress, HandleDuplicate, HandleFunded, HandleCompleted
<1>4. ASSUME NEW k \in Jobs, NEW f \in AcceptEvents, AcceptStep(k, f)
      PROVE  FALSE
  <2>1. apc[<<k, f>>] # "idle"
    BY <1>4 DEF AcceptStep, ObserveAccept, AcceptFetched, AcceptFetchThrows,
                RequirementResolved, GateDecides, BudgetMined, BudgetSet, BudgetThrows, Rejected,
                RejectThrows, RefuseThrows, RejectPCs
  <2>2. \/ \E pc \in AcceptPCs : apc' = [apc EXCEPT ![<<k, f>>] = pc]
        \/ apc' = [s \in Jobs \X AcceptEvents |-> "idle"]
    BY <1>4 DEF AcceptStep, ObserveAccept, AcceptFetched, AfterRequirement, AcceptFetchThrows,
                RequirementResolved, GateDecides, BudgetMined, BudgetSet, BudgetThrows, Rejected,
                RejectThrows, RefuseThrows, Die, RejectPCs, AcceptPCs, FinishAccept, GoAccept
  <2> QED
    BY <2>1, <2>2 DEF TypeOK
<1>5. ASSUME NEW k \in Jobs, NEW o \in Origins, DeliveryStep(k, o)
      PROVE  FALSE
  BY <1>5 DEF DeliveryStep, ObserveDelivery, DeliveryFetched, DeliveryFetchThrows, HandlerEnds,
              SubmitMined, Submitted, SubmitThrows, Nudge
<1>6. CASE PollTick \/ TtlElapses \/ Crash \/ UNCHANGED vars
  BY <1>6 DEF PollTick, TtlElapses, Crash, Die, vars
<1> QED
  BY <1>1, <1>2, <1>3, <1>4, <1>5, <1>6 DEF Next

(* A marked job gets no new attempt. *)
LEMMA MarkedJobsRest ==
  ASSUME MarkersAreSafe, TypeOK, [Next]_vars,
         NEW j \in Jobs, Marked(j), NEW e \in AcceptEvents, apc[<<j, e>>] = "idle"
  PROVE  apc'[<<j, e>>] = "idle"
<1> SUFFICES ASSUME apc'[<<j, e>>] # "idle"
             PROVE  FALSE
  OBVIOUS
<1>1. HandleAcceptEntry(j, e) /\ apc'[<<j, e>>] = "fetch"
  BY AttemptStarts
<1>2. <<j, "__decided">> \in AfterClaim(j, e)
  BY <1>1 DEF MarkersAreSafe, HandleAcceptEntry, ClaimDispatch, Events
<1>3. UNCHANGED accept
  BY <1>1, <1>2 DEF HandleAcceptEntry
<1> QED
  BY <1>3 DEF accept

(* What was answered is marked, and nothing of it is under way. *)
AnsweredInv == \A j \in answered : Marked(j) /\ \A e \in AcceptEvents : apc[<<j, e>>] = "idle"

LEMMA StepAnswers ==
  ASSUME [Next]_vars
  PROVE  \/ UNCHANGED answered
         \/ Die
         \/ \E j \in Jobs, e \in AcceptEvents :
              apc[<<j, e>>] # "idle" /\ MarkDecided(j) /\ FinishAccept(j, e)
<1>1. ASSUME NEW j \in Jobs, Outside(j)
      PROVE  UNCHANGED answered
  BY <1>1 DEF Outside, CreateJob, PostRequirement, Fund, Complete, BuyerRejectsOrExpires,
              OrphanSettles
<1>2. ASSUME NEW j \in Jobs, Ingress(j) \/ Polled(j)
      PROVE  UNCHANGED answered
  BY <1>2 DEF Ingress, HandleDuplicate, HandleAcceptEntry, HandleFunded, HandleCompleted,
              Polled, PollDispatch, PollDispatchThrows
<1>3. ASSUME NEW j \in Jobs, NEW e \in AcceptEvents, AcceptStep(j, e)
      PROVE  \/ UNCHANGED answered
             \/ Die
             \/ apc[<<j, e>>] # "idle" /\ MarkDecided(j) /\ FinishAccept(j, e)
  BY <1>3 DEF AcceptStep, ObserveAccept, AcceptFetched, AcceptFetchThrows, RequirementResolved,
              GateDecides, BudgetMined, BudgetSet, BudgetThrows, Rejected, RejectThrows,
              RefuseThrows, RejectPCs
<1>4. ASSUME NEW j \in Jobs, NEW o \in Origins, DeliveryStep(j, o)
      PROVE  UNCHANGED answered
  BY <1>4 DEF DeliveryStep, ObserveDelivery, DeliveryFetched, DeliveryFetchThrows, HandlerEnds,
              SubmitMined, Submitted, SubmitThrows, Nudge
<1>5. CASE PollTick \/ TtlElapses \/ Crash \/ UNCHANGED vars
  BY <1>5 DEF PollTick, TtlElapses, Crash, vars
<1> QED
  BY <1>1, <1>2, <1>3, <1>4, <1>5 DEF Next

LEMMA StepKeepsAnswered ==
  ASSUME MarkersAreSafe, TypeOK, AcceptClaims, AnsweredInv, [Next]_vars
  PROVE  AnsweredInv'
<1>1. CASE Die
  BY <1>1 DEF Die, AnsweredInv
<1>2. ASSUME ~Die, NEW j \in Jobs, j \in answered
      PROVE  Marked(j)' /\ \A e \in AcceptEvents : apc'[<<j, e>>] = "idle"
  <2>1. Marked(j) /\ \A e \in AcceptEvents : apc[<<j, e>>] = "idle"
    BY <1>2 DEF AnsweredInv
  <2>2. Marked(j)'
    BY <1>2, <2>1, MarkersAreKept
  <2> QED
    BY <2>1, <2>2, MarkedJobsRest
<1>3. ASSUME ~Die, NEW j \in Jobs, NEW e \in AcceptEvents,
             apc[<<j, e>>] # "idle", MarkDecided(j), FinishAccept(j, e)
      PROVE  Marked(j)' /\ \A f \in AcceptEvents : apc'[<<j, f>>] = "idle"
  <2>1. \A f \in AcceptEvents : f # e => apc[<<j, f>>] = "idle"
    BY <1>3 DEF AcceptClaims
  <2> QED
    BY <1>3, <2>1 DEF MarkDecided, FinishAccept, Marked, TypeOK
<1>4. CASE ~Die
  <2>1. answered \subseteq Jobs
    BY DEF TypeOK
  <2>2. CASE UNCHANGED answered
    BY <1>2, <1>4, <2>1, <2>2 DEF AnsweredInv
  <2>3. CASE \E j \in Jobs, e \in AcceptEvents :
               apc[<<j, e>>] # "idle" /\ MarkDecided(j) /\ FinishAccept(j, e)
    <3>1. PICK j \in Jobs, e \in AcceptEvents :
            apc[<<j, e>>] # "idle" /\ MarkDecided(j) /\ FinishAccept(j, e)
      BY <2>3
    <3>2. answered' = answered \cup {j}
      BY <3>1 DEF MarkDecided
    <3> QED
      BY <1>2, <1>3, <1>4, <2>1, <3>1, <3>2 DEF AnsweredInv
  <2> QED
    BY <1>4, <2>2, <2>3, StepAnswers
<1> QED
  BY <1>1, <1>4

(* As long as no claim sheds a marker, for any number of jobs and keys, a    *)
(* job that this process answered with setBudget or reject is not answered   *)
(* again, whatever entries of it the stream repeats and whichever other keys *)
(* the clean-up of the dedup map takes away.                                 *)
THEOREM SafeMarkersKeepDecisions == Spec /\ []MarkersAreSafe => DecisionIsPermanent
<1>1. Init => AnsweredInv
  BY DEF Init, AnsweredInv
<1>2. ClaimInv /\ MarkersAreSafe /\ AnsweredInv /\ [Next]_vars => AnsweredInv'
  BY ClaimInvSplits, StepKeepsAnswered
<1> DEFINE Once == \A j \in Jobs : SignsAccept(j, RejectPCs \cup {"budget"}) => j \notin answered
<1>3. ClaimInv /\ MarkersAreSafe /\ AnsweredInv /\ [Next]_vars => [Once]_vars
  <2> SUFFICES ASSUME MarkersAreSafe, TypeOK, AnsweredInv, [Next]_vars, NEW j \in Jobs, j \in answered,
                      NEW e \in AcceptEvents, apc'[<<j, e>>] \in RejectPCs \cup {"budget"}
               PROVE  FALSE
    BY ClaimInvSplits DEF SignsAccept
  <2>1. Marked(j) /\ apc[<<j, e>>] = "idle"
    BY DEF AnsweredInv
  <2>2. apc'[<<j, e>>] = "idle"
    BY <2>1, MarkedJobsRest
  <2> QED
    BY <2>2 DEF RejectPCs
<1> QED
  BY <1>1, <1>2, <1>3, ClaimsInvariant, PTL DEF Spec, DecisionIsPermanent

(* A map that cannot outgrow its threshold sheds nothing, so that the        *)
(* decisions are permanent of themselves.                                    *)
THEOREM DecisionsArePermanent ==
  ASSUME IsFiniteSet(Jobs), Cardinality(Keys) <= CleanupThreshold
  PROVE  Spec => DecisionIsPermanent
BY TypeCorrect, RoomIsSafe, SafeMarkersKeepDecisions, PTL

-------------------------------------------------------------------------------
(* Funded jobs.  A budgeted job whose setBudget was answered or is about to  *)
(* be has no attempt that could still reject it, and no entry can start one: *)
(* the job is marked, or the attempt that will mark it holds the claim, or   *)
(* the job was budgeted before the process started and is not hydrated.      *)

SettledInv ==
  \A j \in Jobs : status[j] \in {"budgeted", "funded"} /\ <<j, "setBudget">> \notin lost =>
    /\ \A e \in AcceptEvents : apc[<<j, e>>] \in {"idle", "budgetMined"}
    /\ \/ Marked(j)
       \/ \E e \in AcceptEvents : apc[<<j, e>>] = "budgetMined"
       \/ \A e \in AcceptEvents : <<j, e>> \notin wire

(* What was lost stays lost. *)
LEMMA LostIsKept ==
  ASSUME [Next]_vars
  PROVE  lost \subseteq lost'
<1> USE DEF calls
<1>1. ASSUME NEW j \in Jobs, Outside(j)
      PROVE  UNCHANGED lost
  BY <1>1 DEF Outside, CreateJob, PostRequirement, Fund, Complete, BuyerRejectsOrExpires,
              OrphanSettles
<1>2. ASSUME NEW j \in Jobs, Ingress(j) \/ Polled(j)
      PROVE  UNCHANGED lost
  BY <1>2 DEF Ingress, HandleDuplicate, HandleAcceptEntry, HandleFunded, HandleCompleted,
              Polled, PollDispatch, PollDispatchThrows
<1>3. ASSUME NEW j \in Jobs, NEW e \in AcceptEvents, AcceptStep(j, e)
      PROVE  lost \subseteq lost'
  BY <1>3 DEF AcceptStep, ObserveAccept, AcceptFetched, AcceptFetchThrows, RequirementResolved,
              GateDecides, BudgetMined, BudgetSet, BudgetThrows, Rejected, RejectThrows,
              RefuseThrows, Throws, AnswerLost, Die
<1>4. ASSUME NEW j \in Jobs, NEW o \in Origins, DeliveryStep(j, o)
      PROVE  lost \subseteq lost'
  BY <1>4 DEF DeliveryStep, ObserveDelivery, DeliveryFetched, DeliveryFetchThrows, HandlerEnds,
              SubmitMined, Submitted, SubmitThrows, Nudge, Throws, AnswerLost
<1>5. CASE PollTick \/ TtlElapses \/ Crash \/ UNCHANGED vars
  BY <1>5 DEF PollTick, TtlElapses, Crash, Die, vars
<1> QED
  BY <1>1, <1>2, <1>3, <1>4, <1>5 DEF Next

(* What a step can do to the status of a job: the calls of its own attempt   *)
(* and deliveries, an orphan, the buyer and the chain.                       *)
StatusMove(j) ==
  \/ UNCHANGED status[j]
  \/ \E e \in AcceptEvents : BudgetMined(j, e)
  \/ \E o \in Origins : SubmitMined(j, o)
  \/ \E call \in {"setBudget", "submit"} : OrphanSettles(j, call)
  \/ status'[j] = "refused"
  \/ status[j] = "absent" /\ status'[j] = "open"
  \/ status[j] = "budgeted" /\ status'[j] = "funded"
  \/ status[j] = "submitted" /\ status'[j] \in {"completed", "rejected"}
  \/ status'[j] = "expired"

LEMMA StepMovesStatus ==
  ASSUME TypeOK, [Next]_vars, NEW j \in Jobs
  PROVE  StatusMove(j)
<1> USE DEF TypeOK, chain
<1>1. ASSUME NEW k \in Jobs, CreateJob(k) \/ Fund(k) \/ Complete(k) \/ BuyerRejectsOrExpires(k)
      PROVE  StatusMove(j)
  BY <1>1 DEF CreateJob, Fund, Complete, BuyerRejectsOrExpires, StatusMove
<1>2. ASSUME NEW k \in Jobs, NEW call \in {"setBudget", "reject", "submit"}, OrphanSettles(k, call)
      PROVE  StatusMove(j)
  <2>1. CASE k = j /\ call # "reject"
    BY <1>2, <2>1 DEF StatusMove
  <2>2. CASE k # j \/ call = "reject"
    <3>1. status'[j] \in {status[j], "refused"}
      BY <1>2, <2>2 DEF OrphanSettles, Mined, Outcome
    <3> QED
      BY <3>1 DEF StatusMove
  <2> QED
    BY <2>1, <2>2
<1>3. ASSUME NEW k \in Jobs, PostRequirement(k) \/ Ingress(k) \/ Polled(k)
      PROVE  UNCHANGED status
  BY <1>3 DEF PostRequirement, Ingress, HandleDuplicate, HandleAcceptEntry, HandleFunded,
              HandleCompleted, Polled, PollDispatch, PollDispatchThrows
<1>4. ASSUME NEW k \in Jobs, NEW e \in AcceptEvents, BudgetMined(k, e) \/ Rejected(k, e)
      PROVE  StatusMove(j)
  <2>1. CASE k = j /\ BudgetMined(k, e)
    BY <2>1 DEF StatusMove
  <2>2. CASE k # j \/ Rejected(k, e)
    <3>1. status'[j] \in {status[j], "refused"}
      BY <1>4, <2>2 DEF BudgetMined, Rejected, Mined, Outcome
    <3> QED
      BY <3>1 DEF StatusMove
  <2> QED
    BY <1>4, <2>1, <2>2
<1>5. ASSUME NEW k \in Jobs, NEW e \in AcceptEvents, AcceptStep(k, e),
             ~(BudgetMined(k, e) \/ Rejected(k, e))
      PROVE  UNCHANGED status
  BY <1>5 DEF AcceptStep, ObserveAccept, AcceptFetched, AcceptFetchThrows, RequirementResolved,
              GateDecides, BudgetSet, BudgetThrows, RejectThrows, RefuseThrows
<1>6. ASSUME NEW k \in Jobs, NEW o \in Origins, SubmitMined(k, o)
      PROVE  StatusMove(j)
  <2>1. CASE k = j
    BY <1>6, <2>1 DEF StatusMove
  <2>2. CASE k # j
    <3>1. status'[j] = status[j]
      BY <1>6, <2>2 DEF SubmitMined, Mined
    <3> QED
      BY <3>1 DEF StatusMove
  <2> QED
    BY <2>1, <2>2
<1>7. ASSUME NEW k \in Jobs, NEW o \in Origins, DeliveryStep(k, o), ~SubmitMined(k, o)
      PROVE  UNCHANGED status
  BY <1>7 DEF DeliveryStep, ObserveDelivery, DeliveryFetched, DeliveryFetchThrows, HandlerEnds,
              Submitted, SubmitThrows, Nudge
<1>8. CASE PollTick \/ TtlElapses \/ Crash \/ UNCHANGED vars
  BY <1>8 DEF PollTick, TtlElapses, Crash, vars, StatusMove
<1>9. UNCHANGED status => StatusMove(j)
  BY DEF StatusMove
<1> QED
  BY <1>1, <1>2, <1>3, <1>4, <1>5, <1>6, <1>7, <1>8, <1>9 DEF Next, Outside

(* Entries of the accept pair arrive for jobs that are new or open. *)
LEMMA EntriesAreOfOpenJobs ==
  ASSUME TypeOK, [Next]_vars, NEW j \in Jobs, NEW e \in AcceptEvents,
         <<j, e>> \in wire', <<j, e>> \notin wire
  PROVE  status[j] \in {"absent", "open"}
<1>1. CASE Die
  BY <1>1 DEF Die, Hydrated, AcceptEvents
<1>2. CASE ~Die
  <2>1. ASSUME NEW k \in Jobs, Outside(k)
        PROVE  status[j] \in {"absent", "open"}
    BY <2>1 DEF Outside, CreateJob, PostRequirement, Fund, Complete, BuyerRejectsOrExpires,
                OrphanSettles, AcceptEvents
  <2>2. ASSUME NEW k \in Jobs, Ingress(k) \/ Polled(k)
        PROVE  FALSE
    BY <2>2 DEF Ingress, HandleDuplicate, HandleAcceptEntry, HandleFunded, HandleCompleted,
                TakeEntry, Polled, PollDispatch, PollDispatchThrows
  <2>3. ASSUME NEW k \in Jobs, NEW f \in AcceptEvents, AcceptStep(k, f)
        PROVE  FALSE
    BY <1>2, <2>3 DEF AcceptStep, ObserveAccept, AcceptFetched, AcceptFetchThrows,
                RequirementResolved, GateDecides, BudgetMined, BudgetSet, BudgetThrows,
                Rejected, RejectThrows, RefuseThrows
  <2>4. ASSUME NEW k \in Jobs, NEW o \in Origins, DeliveryStep(k, o)
        PROVE  FALSE
    BY <2>4 DEF DeliveryStep, ObserveDelivery, DeliveryFetched, DeliveryFetchThrows,
                HandlerEnds, SubmitMined, Submitted, SubmitThrows, Nudge
  <2>5. CASE PollTick \/ TtlElapses \/ Crash \/ UNCHANGED vars
    BY <1>2, <2>5 DEF PollTick, TtlElapses, Crash, vars
  <2> QED
    BY <2>1, <2>2, <2>3, <2>4, <2>5 DEF Next
<1> QED
  BY <1>1, <1>2

(* An attempt under way is moved by its own steps and by a death only. *)
LEMMA AttemptMoves ==
  ASSUME TypeOK, AcceptClaims, [Next]_vars, NEW j \in Jobs, NEW e \in AcceptEvents,
         apc[<<j, e>>] # "idle"
  PROVE  apc'[<<j, e>>] = apc[<<j, e>>] \/ Die \/ AcceptStep(j, e)
<1> USE DEF accept
<1>1. ASSUME NEW k \in Jobs, Outside(k) \/ Polled(k)
      PROVE  UNCHANGED apc
  BY <1>1 DEF Outside, CreateJob, PostRequirement, Fund, Complete, BuyerRejectsOrExpires,
              OrphanSettles, Polled, PollDispatch, PollDispatchThrows
<1>2. ASSUME NEW k \in Jobs, NEW f \in AcceptEvents, HandleAcceptEntry(k, f)
      PROVE  apc'[<<j, e>>] = apc[<<j, e>>]
  <2>1. j \in acceptInFlight
    BY DEF AcceptClaims
  <2>2. CASE k = j
    BY <1>2, <2>1, <2>2 DEF HandleAcceptEntry
  <2>3. CASE k # j
    BY <1>2, <2>3 DEF HandleAcceptEntry, TypeOK
  <2> QED
    BY <2>2, <2>3
<1>3. ASSUME NEW k \in Jobs, Ingress(k), \A f \in AcceptEvents : ~HandleAcceptEntry(k, f)
      PROVE  UNCHANGED apc
  BY <1>3 DEF Ingress, HandleDuplicate, HandleFunded, HandleCompleted
<1>4. ASSUME NEW k \in Jobs, NEW f \in AcceptEvents, AcceptStep(k, f)
      PROVE  apc'[<<j, e>>] = apc[<<j, e>>] \/ Die \/ AcceptStep(j, e)
  <2>1. CASE k = j /\ f = e
    BY <1>4, <2>1
  <2>2. CASE ~(k = j /\ f = e)
    <3>1. Die \/ \E pc \in AcceptPCs : apc' = [apc EXCEPT ![<<k, f>>] = pc]
      BY <1>4 DEF AcceptStep, ObserveAccept, AcceptFetched, AfterRequirement, AcceptFetchThrows,
                  RequirementResolved, GateDecides, BudgetMined, BudgetSet, BudgetThrows,
                  Rejected, RejectThrows, RefuseThrows, RejectPCs, AcceptPCs, FinishAccept,
                  GoAccept
    <3> QED
      BY <2>2, <3>1 DEF TypeOK
  <2> QED
    BY <2>1, <2>2
<1>5. ASSUME NEW k \in Jobs, NEW o \in Origins, DeliveryStep(k, o)
      PROVE  UNCHANGED apc
  BY <1>5 DEF DeliveryStep, ObserveDelivery, DeliveryFetched, DeliveryFetchThrows, HandlerEnds,
              SubmitMined, Submitted, SubmitThrows, Nudge
<1>6. CASE PollTick \/ TtlElapses \/ Crash \/ UNCHANGED vars
  BY <1>6 DEF PollTick, TtlElapses, Crash, vars
<1> QED
  BY <1>1, <1>2, <1>3, <1>4, <1>5, <1>6 DEF Next

(* The attempt whose setBudget was mined ends with the marker, or with a     *)
(* lost answer, or with the process.                                         *)
LEMMA MinedBudgetIsMarked ==
  ASSUME TypeOK, AcceptClaims, [Next]_vars, ~Die, NEW j \in Jobs, NEW e \in AcceptEvents,
         apc[<<j, e>>] = "budgetMined", <<j, "setBudget">> \notin lost'
  PROVE  apc'[<<j, e>>] = "budgetMined" \/ (Marked(j)' /\ apc'[<<j, e>>] = "idle")
<1>1. CASE AcceptStep(j, e)
  <2>1. ~BudgetThrows(j, e)
    BY DEF BudgetThrows, AnswerLost
  <2>2. BudgetSet(j, e)
    BY <1>1, <2>1 DEF AcceptStep, ObserveAccept, AcceptFetched, AcceptFetchThrows,
                      RequirementResolved, GateDecides, BudgetMined, Rejected, RejectThrows,
                      RefuseThrows, RejectPCs
  <2> QED
    BY <2>2 DEF BudgetSet, MarkDecided, FinishAccept, Marked, TypeOK
<1> QED
  BY <1>1, AttemptMoves

LEMMA StepKeepsSettled ==
  ASSUME MarkersAreSafe, TypeOK, AcceptClaims, SettledInv, [Next]_vars
  PROVE  SettledInv'
<1> SUFFICES ASSUME NEW j \in Jobs, status'[j] \in {"budgeted", "funded"},
                    <<j, "setBudget">> \notin lost'
             PROVE  /\ \A e \in AcceptEvents : apc'[<<j, e>>] \in {"idle", "budgetMined"}
                    /\ \/ Marked(j)'
                       \/ \E e \in AcceptEvents : apc'[<<j, e>>] = "budgetMined"
                       \/ \A e \in AcceptEvents : <<j, e>> \notin wire'
  BY DEF SettledInv, Marked
<1>1. <<j, "setBudget">> \notin lost /\ <<j, "setBudget">> \notin orphans
  BY LostIsKept DEF TypeOK
<1>2. ASSUME NEW e \in AcceptEvents, BudgetMined(j, e)
      PROVE  /\ apc'[<<j, e>>] = "budgetMined"
             /\ \A f \in AcceptEvents : f # e => apc'[<<j, f>>] = "idle"
  <2>1. \A f \in AcceptEvents : f # e => apc[<<j, f>>] = "idle"
    BY <1>2 DEF BudgetMined, AcceptClaims
  <2> QED
    BY <1>2, <2>1 DEF BudgetMined, GoAccept, TypeOK
<1>3. CASE \A e \in AcceptEvents : ~BudgetMined(j, e)
  <2>1. status[j] \in {"budgeted", "funded"}
    <3>1. \A o \in Origins : ~SubmitMined(j, o)
      BY DEF SubmitMined, Mined, Outcome, TypeOK
    <3>2. ~OrphanSettles(j, "setBudget")
      BY <1>1 DEF OrphanSettles
    <3>3. OrphanSettles(j, "submit") => UNCHANGED status[j]
      BY DEF OrphanSettles, Mined, Outcome, TypeOK
    <3> QED
      BY <1>3, <3>1, <3>2, <3>3, StepMovesStatus DEF StatusMove
  <2>2. /\ \A e \in AcceptEvents : apc[<<j, e>>] \in {"idle", "budgetMined"}
        /\ \/ Marked(j)
           \/ \E e \in AcceptEvents : apc[<<j, e>>] = "budgetMined"
           \/ \A e \in AcceptEvents : <<j, e>> \notin wire
    BY <1>1, <2>1 DEF SettledInv
  <2>3. CASE Die
    BY <2>1, <2>3 DEF Die, Hydrated, AcceptEvents
  <2>4. CASE ~Die
    <3>1. ASSUME NEW e \in AcceptEvents, apc[<<j, e>>] = "idle"
          PROVE  apc'[<<j, e>>] = "idle"
      <4> SUFFICES ASSUME apc'[<<j, e>>] # "idle"
                   PROVE  FALSE
        OBVIOUS
      <4>1. HandleAcceptEntry(j, e) /\ j \notin acceptInFlight
        BY <3>1, AttemptStarts
      <4>2. ~Marked(j)
        BY <3>1, MarkedJobsRest
      <4>3. \A f \in AcceptEvents : apc[<<j, f>>] # "budgetMined"
        BY <4>1 DEF AcceptClaims
      <4>4. <<j, e>> \in wire
        BY <4>1 DEF HandleAcceptEntry, TakeEntry
      <4> QED
        BY <2>2, <4>2, <4>3, <4>4
    <3>2. ASSUME NEW e \in AcceptEvents, apc[<<j, e>>] = "budgetMined"
          PROVE  apc'[<<j, e>>] = "budgetMined" \/ (Marked(j)' /\ apc'[<<j, e>>] = "idle")
      BY <2>4, <3>2, MinedBudgetIsMarked
    <3>3. Marked(j) => Marked(j)'
      BY <2>4, MarkersAreKept
    <3>4. \A e \in AcceptEvents : <<j, e>> \notin wire => <<j, e>> \notin wire'
      BY <2>1, EntriesAreOfOpenJobs
    <3> QED
      BY <2>2, <3>1, <3>2, <3>3, <3>4
  <2> QED
    BY <2>3, <2>4
<1> QED
  BY <1>2, <1>3

LEMMA InitIsSettled == Init => SettledInv
BY DEF Init, SettledInv, Hydrated, AcceptEvents

(* As long as no claim sheds a marker, for any number of jobs and keys, the  *)
(* daemon never sends reject for a funded job: a repeated entry finds the    *)
(* marker, a running attempt has come to its end, and the catch block of     *)
(* setBudget is entered after a mined setBudget only when its answer is lost.*)
THEOREM SafeMarkersProtectFunded == Spec /\ []MarkersAreSafe => NeverRejectFunded
<1>1. Init => SettledInv
  BY InitIsSettled
<1>2. ClaimInv /\ MarkersAreSafe /\ SettledInv /\ [Next]_vars => SettledInv'
  BY ClaimInvSplits, StepKeepsSettled
<1> DEFINE Kept == \A j \in Jobs :
                     SignsAccept(j, RejectPCs) /\ <<j, "setBudget">> \notin lost' =>
                       status[j] # "funded"
<1>3. ClaimInv /\ SettledInv /\ [Next]_vars => [Kept]_vars
  <2> SUFFICES ASSUME TypeOK, AcceptClaims, SettledInv, [Next]_vars, NEW j \in Jobs,
                      NEW e \in AcceptEvents, apc'[<<j, e>>] \in RejectPCs,
                      <<j, "setBudget">> \notin lost', status[j] = "funded"
               PROVE  FALSE
    BY ClaimInvSplits DEF SignsAccept
  <2>1. apc[<<j, e>>] \in {"idle", "budgetMined"}
    BY LostIsKept DEF SettledInv
  <2>2. CASE apc[<<j, e>>] = "idle"
    BY <2>2, AttemptStarts DEF RejectPCs
  <2>3. CASE apc[<<j, e>>] = "budgetMined" /\ ~Die
    BY <2>3, MinedBudgetIsMarked DEF RejectPCs
  <2>4. CASE Die
    BY <2>4 DEF Die, RejectPCs
  <2> QED
    BY <2>1, <2>2, <2>3, <2>4
<1> QED
  BY <1>1, <1>2, <1>3, ClaimsInvariant, PTL DEF Spec, NeverRejectFunded

(* A map that cannot outgrow its threshold sheds nothing, so that no funded  *)
(* job is rejected.                                                          *)
THEOREM FundedIsNeverRejected ==
  ASSUME IsFiniteSet(Jobs), Cardinality(Keys) <= CleanupThreshold
  PROVE  Spec => NeverRejectFunded
BY TypeCorrect, RoomIsSafe, SafeMarkersProtectFunded, PTL

-------------------------------------------------------------------------------
(* Deliverables.  A delivery past its fresh read of the job works for a job  *)
(* whose deliverable is not on chain: the read said so, and since then only  *)
(* this delivery could have put it there.                                    *)

BeforeSubmit == {"handler"} \cup SubmitPCs

AwaitedInv ==
  \A j \in Jobs, o \in Origins :
    /\ dpc[<<j, o>>] \in BeforeSubmit
    /\ <<j, "submit">> \notin lost /\ fails = 0 /\ kind[j] # "badExpiry"
    => status[j] \in {"funded", "refused", "expired"}

(* What was ordered stays, and so does a failure. *)
LEMMA OrdersAreKept ==
  ASSUME TypeOK, [Next]_vars
  PROVE  kind' = kind /\ (fails' = 0 => fails = 0)
<1> USE DEF chain, bounds
<1>0. fails \in Nat
  BY ConstantsOK DEF TypeOK
<1>1. ASSUME NEW j \in Jobs, Outside(j)
      PROVE  kind' = kind /\ fails' = fails
  BY <1>1 DEF Outside, CreateJob, PostRequirement, Fund, Complete, BuyerRejectsOrExpires,
              OrphanSettles
<1>2. ASSUME NEW j \in Jobs, Ingress(j) \/ Polled(j)
      PROVE  kind' = kind /\ fails' \in {fails, fails + 1}
  BY <1>2 DEF Ingress, HandleDuplicate, HandleAcceptEntry, HandleFunded, HandleCompleted,
              Polled, PollDispatch, PollDispatchThrows
<1>3. ASSUME NEW j \in Jobs, NEW e \in AcceptEvents, AcceptStep(j, e)
      PROVE  kind' = kind /\ fails' \in {fails, fails + 1}
  BY <1>3 DEF AcceptStep, ObserveAccept, AcceptFetched, AcceptFetchThrows, RequirementResolved,
              GateDecides, BudgetMined, BudgetSet, BudgetThrows, Rejected, RejectThrows,
              RefuseThrows, Throws, AnswerLost
<1>4. ASSUME NEW j \in Jobs, NEW o \in Origins, DeliveryStep(j, o)
      PROVE  kind' = kind /\ fails' \in {fails, fails + 1}
  BY <1>4 DEF DeliveryStep, ObserveDelivery, DeliveryFetched, DeliveryFetchThrows, HandlerEnds,
              SubmitMined, Submitted, SubmitThrows, Nudge, Throws, AnswerLost
<1>5. CASE PollTick \/ TtlElapses \/ Crash \/ UNCHANGED vars
  BY <1>5 DEF PollTick, TtlElapses, Crash, vars
<1> QED
  BY <1>0, <1>1, <1>2, <1>3, <1>4, <1>5 DEF Next

(* A delivery is started, moved by its own steps, or ended by a death. *)
LEMMA DeliveryMoves ==
  ASSUME TypeOK, [Next]_vars, NEW j \in Jobs, NEW o \in Origins, dpc'[<<j, o>>] # dpc[<<j, o>>]
  PROVE  dpc'[<<j, o>>] \in {"idle", "fetch"} \/ DeliveryStep(j, o)
<1> USE DEF delivery
<1>1. ASSUME NEW k \in Jobs, Outside(k)
      PROVE  FALSE
  BY <1>1 DEF Outside, CreateJob, PostRequirement, Fund, Complete, BuyerRejectsOrExpires,
              OrphanSettles
<1>2. ASSUME NEW k \in Jobs, Ingress(k) \/ Polled(k)
      PROVE  dpc'[<<j, o>>] = "fetch"
  BY <1>2 DEF Ingress, HandleDuplicate, HandleAcceptEntry, HandleFunded, HandleCompleted,
              Polled, PollDispatch, PollDispatchThrows, StartDelivery, TypeOK
<1>3. ASSUME NEW k \in Jobs, NEW e \in AcceptEvents, AcceptStep(k, e)
      PROVE  dpc'[<<j, o>>] = "idle"
  BY <1>3 DEF AcceptStep, ObserveAccept, AcceptFetched, AcceptFetchThrows,
              RequirementResolved, GateDecides, BudgetMined, BudgetSet, BudgetThrows, Rejected,
              RejectThrows, RefuseThrows, Die
<1>4. ASSUME NEW k \in Jobs, NEW p \in Origins, DeliveryStep(k, p)
      PROVE  DeliveryStep(j, o)
  <2>1. \E pc \in DeliveryPCs : dpc' = [dpc EXCEPT ![<<k, p>>] = pc]
    BY <1>4 DEF DeliveryStep, ObserveDelivery, DeliveryFetched, DeliveryFetchThrows, HandlerEnds,
                SubmitMined, Submitted, SubmitThrows, Nudge, SubmitPCs, DeliveryPCs,
                FinishDelivery, GoDelivery
  <2>2. k = j /\ p = o
    BY <2>1 DEF TypeOK
  <2> QED
    BY <1>4, <2>2
<1>5. CASE PollTick \/ TtlElapses \/ Crash \/ UNCHANGED vars
  BY <1>5 DEF PollTick, TtlElapses, Crash, Die, vars
<1> QED
  BY <1>1, <1>2, <1>3, <1>4, <1>5 DEF Next

(* A step of a delivery comes before its submit from there, or from a read   *)
(* that found the job funded.                                                *)
LEMMA SubmitIsPrepared ==
  ASSUME TypeOK, NEW j \in Jobs, NEW o \in Origins, DeliveryStep(j, o),
         dpc'[<<j, o>>] \in BeforeSubmit, <<j, "submit">> \notin lost', fails' = 0,
         kind[j] # "badExpiry"
  PROVE  \/ dpc[<<j, o>>] \in BeforeSubmit
         \/ /\ dpc[<<j, o>>] = "fetch" /\ dpc'[<<j, o>>] = "handler"
            /\ status[j] = "funded" /\ UNCHANGED status
<1> USE DEF BeforeSubmit, SubmitPCs, FinishDelivery, GoDelivery, TypeOK
<1>1. CASE DeliveryFetched(j, o)
  BY <1>1 DEF DeliveryFetched, chain
<1>2. ~DeliveryFetchThrows(j, o)
  BY ConstantsOK DEF DeliveryFetchThrows
<1>3. ~ObserveDelivery(j, o) /\ ~Submitted(j, o) /\ ~Nudge(j, o)
  BY DEF ObserveDelivery, Submitted, Nudge
<1>4. CASE HandlerEnds(j, o) \/ SubmitMined(j, o)
  BY <1>4 DEF HandlerEnds, SubmitMined
<1>5. CASE SubmitThrows(j, o)
  BY <1>5 DEF SubmitThrows, AnswerLost
<1> QED
  BY <1>1, <1>2, <1>3, <1>4, <1>5 DEF DeliveryStep

LEMMA StepKeepsAwaited ==
  ASSUME TypeOK, DeliveryClaims, AwaitedInv, [Next]_vars
  PROVE  AwaitedInv'
<1> SUFFICES ASSUME NEW j \in Jobs, NEW o \in Origins, dpc'[<<j, o>>] \in BeforeSubmit,
                    <<j, "submit">> \notin lost', fails' = 0, kind'[j] # "badExpiry"
             PROVE  status'[j] \in {"funded", "refused", "expired"}
  BY DEF AwaitedInv, BeforeSubmit, SubmitPCs
<1>1. /\ <<j, "submit">> \notin lost /\ <<j, "submit">> \notin orphans
      /\ fails = 0 /\ kind[j] # "badExpiry"
  BY LostIsKept, OrdersAreKept DEF TypeOK
<1>2. CASE dpc[<<j, o>>] \in BeforeSubmit
  <2>1. status[j] \in {"funded", "refused", "expired"}
    BY <1>1, <1>2 DEF AwaitedInv
  <2>2. \A e \in AcceptEvents : ~BudgetMined(j, e)
    BY <2>1 DEF BudgetMined, Mined, Allows
  <2>3. \A p \in Origins : ~SubmitMined(j, p)
    <3> SUFFICES ASSUME NEW p \in Origins, SubmitMined(j, p)
                 PROVE  FALSE
      OBVIOUS
    <3>1. p = o
      BY <1>2 DEF SubmitMined, DeliveryClaims, BeforeSubmit, SubmitPCs
    <3> QED
      BY <3>1 DEF SubmitMined, GoDelivery, FinishDelivery, BeforeSubmit, SubmitPCs, TypeOK
  <2>4. ~OrphanSettles(j, "submit")
    BY <1>1 DEF OrphanSettles
  <2>5. OrphanSettles(j, "setBudget") => UNCHANGED status[j]
    BY <2>1 DEF OrphanSettles, Mined, Allows
  <2> QED
    BY <2>1, <2>2, <2>3, <2>4, <2>5, StepMovesStatus DEF StatusMove
<1>3. CASE dpc[<<j, o>>] \notin BeforeSubmit
  <2>1. DeliveryStep(j, o)
    BY <1>3, DeliveryMoves DEF BeforeSubmit, SubmitPCs
  <2> QED
    BY <1>1, <1>3, <2>1, SubmitIsPrepared
<1> QED
  BY <1>2, <1>3

(* The daemon does not send a deliverable for a job whose deliverable is on  *)
(* chain: neither a repeated job.funded entry, nor the poll, nor two ticks,  *)
(* nor a key that was shed, nor a death of the process get past the claim    *)
(* and the fresh read of the status, unless an answer was lost, the read     *)
(* failed, or the expiry is one that no Date can hold.                       *)
THEOREM RedeliveriesAreHarmless == Spec => RedeliveryIsHarmless
<1>1. Init => AwaitedInv
  BY DEF Init, AwaitedInv, BeforeSubmit, SubmitPCs
<1>2. ClaimInv /\ AwaitedInv /\ [Next]_vars => AwaitedInv'
  BY ClaimInvSplits, StepKeepsAwaited
<1> DEFINE Harmless ==
      \A j \in Jobs :
        SignsSubmit(j) /\ <<j, "submit">> \notin lost' /\ fails' = 0 /\ kind[j] # "badExpiry" =>
          status[j] \notin {"submitted", "completed", "rejected"}
<1>3. ClaimInv /\ AwaitedInv /\ [Next]_vars => [Harmless]_vars
  <2> SUFFICES ASSUME TypeOK, AwaitedInv, [Next]_vars, NEW j \in Jobs, NEW o \in Origins,
                      dpc[<<j, o>>] # dpc'[<<j, o>>], dpc'[<<j, o>>] \in SubmitPCs,
                      <<j, "submit">> \notin lost', fails' = 0, kind[j] # "badExpiry"
               PROVE  status[j] \in {"funded", "refused", "expired"}
    BY DEF SignsSubmit, ClaimInv
  <2>1. DeliveryStep(j, o)
    BY DeliveryMoves DEF SubmitPCs
  <2>2. dpc[<<j, o>>] \in BeforeSubmit
    BY <2>1, SubmitIsPrepared DEF BeforeSubmit, SubmitPCs
  <2> QED
    BY <2>2, LostIsKept, OrdersAreKept DEF AwaitedInv
<1> QED
  BY <1>1, <1>2, <1>3, ClaimsInvariant, PTL DEF Spec, RedeliveryIsHarmless
===============================================================================
