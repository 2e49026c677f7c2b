------------------------------ MODULE AcpAdapter ------------------------------
(***************************************************************************)
(* The ACP seller daemon: adapters/acp-adapter/src/acpAdapter.ts.          *)
(*                                                                         *)
(* A buyer creates a job on chain and posts its requirement in the job's   *)
(* room; the daemon answers with setBudget (accept) or reject; the buyer   *)
(* funds the job; the daemon runs the offering's handler and submits the   *)
(* deliverable; the buyer completes or rejects it, or it expires.  The     *)
(* daemon hears of all this from an SSE stream that repeats and drops      *)
(* entries, from hydration after a start, and from a poll of funded jobs.  *)
(*                                                                         *)
(* One action per stretch of code between two awaits.  A chain call that   *)
(* throws may still be mined later (orphans); a death of the process loses *)
(* every Map and Set of the adapter.  The daemon serves one chain (sdk.ts  *)
(* registers base only), so the chain id of its keys is left out.          *)
(***************************************************************************)
EXTENDS Naturals, FiniteSets

CONSTANTS
  Jobs,              \* jobs offered to this provider
  Kinds,             \* the kinds of job the buyers create, see AllKinds
  BlockEnabled,      \* BUYER_GATING_BLOCK_ENABLED: the gate may refuse
  CleanupThreshold,  \* DEDUP_CLEANUP_THRESHOLD
  MaxDups,           \* bound: repeated SSE entries
  MaxFails,          \* bound: external calls that throw without reason
  MaxCrashes         \* bound: deaths of the process from outside

(* served: an offering with a handler and a parseable subject; badExpiry:  *)
(* the same, with an expiredAt no Date can hold; noSubject: a requirement  *)
(* without subject; unsupported: no handler for the offering; unnamed: no  *)
(* offering name at all.                                                   *)
AllKinds == {"served", "badExpiry", "noSubject", "unsupported", "unnamed"}

AcceptEvents == {"job.created", "requirement.message"}
Events == AcceptEvents \cup {"job.funded", "job.completed"}
Origins == {"sse", "poll"}
Keys == Jobs \X (Events \cup {"__decided"})
Calls == Jobs \X {"setBudget", "reject", "submit"}

Statuses == {"absent", "open", "budgeted", "funded", "submitted",
             "completed", "rejected", "refused", "expired"}
RejectPCs == {"refuse", "gateRefuse", "undo"}
AcceptPCs == {"idle", "fetch", "require", "gate", "budget", "budgetMined"} \cup RejectPCs
SubmitPCs == {"submit", "fallback"}
DeliveryPCs == {"idle", "fetch", "handler", "submitMined", "nudge"} \cup SubmitPCs

ASSUME ConstantsOK ==
  /\ Kinds \subseteq AllKinds
  /\ BlockEnabled \in BOOLEAN
  /\ CleanupThreshold \in Nat
  /\ MaxDups \in Nat
  /\ MaxFails \in Nat
  /\ MaxCrashes \in Nat

VARIABLES
  status,          \* the chain: status of each job
  kind,            \* what was ordered, fixed when the job is created
  observing,       \* OBSERVE_ONLY, read at the start: read, sign nothing
  posted,          \* the room: jobs whose requirement message was posted
  wire,            \* SSE entries <<job, event>> not handled yet
  orphans,         \* calls nobody waits for, which may still be mined
  lost,            \* history: calls that threw, or outlived the process,
                   \* and were or may be mined
  recentJobs,      \* dedup keys held
  expiredKeys,     \* those of recentJobs older than DEDUP_TTL_MS
  inFlight,        \* jobs with a delivery in flight
  acceptInFlight,  \* jobs with an accept attempt in flight
  apc,             \* where the accept attempt of <<job, event>> awaits
  dpc,             \* where the delivery of <<job, origin>> awaits
  polled,          \* jobs a poll tick saw FUNDED and has yet to dispatch
  answered,        \* history: jobs decided since the process started
  dups, fails, crashes

chain == <<status, kind, observing, posted>>
calls == <<orphans, lost>>
dedup == <<recentJobs, expiredKeys>>
accept == <<acceptInFlight, apc>>
delivery == <<inFlight, dpc>>
bounds == <<dups, fails, crashes>>
vars == <<chain, wire, calls, dedup, accept, delivery, polled, answered, bounds>>

(* What hydration re-fires: the accept pair of a job in its created phase, *)
(* job.funded of a funded job.                                             *)
Hydrated ==
  {x \in Jobs \X Events :
     \/ x[2] = "job.created" /\ status[x[1]] = "open"
     \/ x[2] = "requirement.message" /\ status[x[1]] = "open" /\ x[1] \in posted
     \/ x[2] = "job.funded" /\ status[x[1]] = "funded"}

HasHandler(j) == kind[j] \notin {"unnamed", "unsupported"}

(* The daemon starts among the jobs an earlier one may have answered.      *)
Init ==
  /\ kind \in [Jobs -> Kinds]
  /\ observing \in BOOLEAN
  /\ status \in [Jobs -> {"absent", "open", "budgeted", "funded", "submitted"}]
  /\ posted \in SUBSET {j \in Jobs : status[j] # "absent"}
  /\ \A j \in Jobs : status[j] \in {"budgeted", "funded", "submitted"} =>
       HasHandler(j) /\ kind[j] # "noSubject" /\ j \in posted
  /\ wire = Hydrated
  /\ orphans = {}
  /\ lost = {}
  /\ recentJobs = {}
  /\ expiredKeys = {}
  /\ inFlight = {}
  /\ acceptInFlight = {}
  /\ apc = [s \in Jobs \X AcceptEvents |-> "idle"]
  /\ dpc = [s \in Jobs \X Origins |-> "idle"]
  /\ polled = {}
  /\ answered = {}
  /\ dups = 0
  /\ fails = 0
  /\ crashes = 0

-------------------------------------------------------------------------------
(* The buyer and the chain (external).                                     *)

CreateJob(j) ==
  /\ status[j] = "absent"
  /\ status' = [status EXCEPT ![j] = "open"]
  /\ wire' = wire \cup {<<j, "job.created">>}
  /\ UNCHANGED <<kind, observing, posted, calls, dedup, accept, delivery, polled, answered, bounds>>

PostRequirement(j) ==
  /\ status[j] = "open"
  /\ j \notin posted
  /\ posted' = posted \cup {j}
  /\ wire' = wire \cup {<<j, "requirement.message">>}
  /\ UNCHANGED <<status, kind, observing, calls, dedup, accept, delivery, polled, answered, bounds>>

Fund(j) ==
  /\ status[j] = "budgeted"
  /\ status' = [status EXCEPT ![j] = "funded"]
  /\ wire' = wire \cup {<<j, "job.funded">>}
  /\ UNCHANGED <<kind, observing, posted, calls, dedup, accept, delivery, polled, answered, bounds>>

Complete(j) ==
  /\ status[j] = "submitted"
  /\ status' = [status EXCEPT ![j] = "completed"]
  /\ wire' = wire \cup {<<j, "job.completed">>}
  /\ UNCHANGED <<kind, observing, posted, calls, dedup, accept, delivery, polled, answered, bounds>>

(* job.rejected and job.expired never reach the daemon: the SDK drops them. *)
BuyerRejectsOrExpires(j) ==
  /\ \/ /\ status[j] = "submitted"
        /\ status' = [status EXCEPT ![j] = "rejected"]
     \/ /\ status[j] \in {"open", "budgeted", "funded", "submitted"}
        /\ status' = [status EXCEPT ![j] = "expired"]
  /\ UNCHANGED <<kind, observing, posted, wire, calls, dedup, accept, delivery, polled, answered, bounds>>

(* What the contract allows the provider to do, and the status it leaves.  *)
Allows(j, call) ==
  \/ call = "setBudget" /\ status[j] \in {"open", "budgeted"}
  \/ call = "reject" /\ status[j] \in {"open", "budgeted", "funded"}
  \/ call = "submit" /\ status[j] = "funded"

Outcome(call) ==
  CASE call = "setBudget" -> "budgeted"
    [] call = "reject"    -> "refused"
    [] call = "submit"    -> "submitted"

Mined(j, call) ==
  /\ Allows(j, call)
  /\ status' = [status EXCEPT ![j] = Outcome(call)]

(* A call throws because it reverted, or for want of an answer; then it    *)
(* was never sent, or it is still on its way to a block.                   *)
Throws(j, call) ==
  \/ /\ ~Allows(j, call)
     /\ UNCHANGED <<fails, calls>>
  \/ /\ fails < MaxFails
     /\ fails' = fails + 1
     /\ \/ UNCHANGED calls
        \/ /\ orphans' = orphans \cup {<<j, call>>}
           /\ lost' = lost \cup {<<j, call>>}

(* The call was mined, and the caller is not told. *)
AnswerLost(j, call) ==
  /\ fails < MaxFails
  /\ fails' = fails + 1
  /\ lost' = lost \cup {<<j, call>>}
  /\ UNCHANGED orphans

OrphanSettles(j, call) ==
  /\ <<j, call>> \in orphans
  /\ orphans' = orphans \ {<<j, call>>}
  /\ Mined(j, call) \/ UNCHANGED status
  /\ UNCHANGED <<kind, observing, posted, wire, lost, dedup, accept, delivery, polled, answered, bounds>>

-------------------------------------------------------------------------------
(* Death of the process, restart by systemd, hydration by agent.start().   *)

(* The calls the dead process was waiting for. *)
Interrupted ==
  {c \in Calls :
     \/ c[2] = "setBudget" /\ \E e \in AcceptEvents : apc[<<c[1], e>>] = "budget"
     \/ c[2] = "reject" /\ \E e \in AcceptEvents : apc[<<c[1], e>>] \in RejectPCs
     \/ c[2] = "submit" /\ \E o \in Origins : dpc[<<c[1], o>>] \in SubmitPCs}

Die ==
  /\ orphans' = orphans \cup Interrupted
  /\ lost' = lost \cup Interrupted
  /\ wire' = Hydrated
  /\ recentJobs' = {}
  /\ expiredKeys' = {}
  /\ inFlight' = {}
  /\ acceptInFlight' = {}
  /\ apc' = [s \in Jobs \X AcceptEvents |-> "idle"]
  /\ dpc' = [s \in Jobs \X Origins |-> "idle"]
  /\ polled' = {}
  /\ answered' = {}

Crash ==
  /\ crashes < MaxCrashes
  /\ crashes' = crashes + 1
  /\ Die
  /\ UNCHANGED <<chain, dups, fails>>

-------------------------------------------------------------------------------
(* Ingress: claimDispatch and handleEntry.                                 *)

\* Mutant: the claim of a delivery forgets the in-flight guard.
ClaimableByKeyOnly(j, e) == <<j, e>> \notin recentJobs

Claimable(j, e) ==
  /\ <<j, e>> \notin recentJobs
  /\ e = "job.funded" => j \notin inFlight

(* The key is set; a map above the threshold then sheds its expired keys.  *)
AfterClaim(j, e) ==
  LET held == recentJobs \cup {<<j, e>>}
  IN  IF Cardinality(held) > CleanupThreshold THEN held \ expiredKeys ELSE held

ClaimDispatch(j, e) ==
  /\ Claimable(j, e)
  /\ recentJobs' = AfterClaim(j, e)
  /\ expiredKeys' = expiredKeys \cap AfterClaim(j, e)

(* The stream hands over an entry, and may hand it over again later.       *)
TakeEntry(j, e) ==
  /\ <<j, e>> \in wire
  /\ \/ /\ wire' = wire \ {<<j, e>>}
        /\ UNCHANGED dups
     \/ /\ dups < MaxDups
        /\ dups' = dups + 1
        /\ UNCHANGED wire

HandleDuplicate(j, e) ==
  /\ TakeEntry(j, e)
  /\ ~Claimable(j, e)
  /\ UNCHANGED <<chain, calls, dedup, accept, delivery, polled, answered, fails, crashes>>

\* Mutant: the accept path trusts the per-event keys alone (before FDQ-70b).
HandleAcceptEntryUnclaimed(j, e) ==
  /\ TakeEntry(j, e)
  /\ ClaimDispatch(j, e)
  /\ IF <<j, "__decided">> \in AfterClaim(j, e)
     THEN UNCHANGED accept
     ELSE /\ acceptInFlight' = acceptInFlight \cup {j}
          /\ apc' = [apc EXCEPT ![<<j, e>>] = "fetch"]
  /\ UNCHANGED <<chain, calls, delivery, polled, answered, fails, crashes>>

\* Mutant: the accept path does not look at the __decided marker.
HandleAcceptEntryUndecided(j, e) ==
  /\ TakeEntry(j, e)
  /\ ClaimDispatch(j, e)
  /\ IF j \in acceptInFlight
     THEN UNCHANGED accept
     ELSE /\ acceptInFlight' = acceptInFlight \cup {j}
          /\ apc' = [apc EXCEPT ![<<j, e>>] = "fetch"]
  /\ UNCHANGED <<chain, calls, delivery, polled, answered, fails, crashes>>

(* job.created and requirement.message share one accept slot per job, and  *)
(* the __decided marker closes it.                                         *)
HandleAcceptEntry(j, e) ==
  /\ TakeEntry(j, e)
  /\ ClaimDispatch(j, e)
  /\ IF <<j, "__decided">> \in AfterClaim(j, e) \/ j \in acceptInFlight
     THEN UNCHANGED accept
     ELSE /\ acceptInFlight' = acceptInFlight \cup {j}
          /\ apc' = [apc EXCEPT ![<<j, e>>] = "fetch"]
  /\ UNCHANGED <<chain, calls, delivery, polled, answered, fails, crashes>>

StartDelivery(j, o) ==
  /\ ClaimDispatch(j, "job.funded")
  /\ inFlight' = inFlight \cup {j}
  /\ dpc' = [dpc EXCEPT ![<<j, o>>] = "fetch"]

HandleFunded(j) ==
  /\ TakeEntry(j, "job.funded")
  /\ StartDelivery(j, "sse")
  /\ UNCHANGED <<chain, calls, accept, polled, answered, fails, crashes>>

(* The reputation call it fires is BuyerReputation's. *)
HandleCompleted(j) ==
  /\ TakeEntry(j, "job.completed")
  /\ ClaimDispatch(j, "job.completed")
  /\ UNCHANGED <<chain, calls, accept, delivery, polled, answered, fails, crashes>>

TtlElapses ==
  /\ expiredKeys # recentJobs
  /\ expiredKeys' = recentJobs
  /\ UNCHANGED <<chain, wire, calls, recentJobs, accept, delivery, polled, answered, bounds>>

-------------------------------------------------------------------------------
(* The accept phase: handleJobCreated.                                     *)

FinishAccept(j, e) ==
  /\ acceptInFlight' = acceptInFlight \ {j}
  /\ apc' = [apc EXCEPT ![<<j, e>>] = "idle"]

GoAccept(j, e, pc) ==
  /\ apc' = [apc EXCEPT ![<<j, e>>] = pc]
  /\ UNCHANGED acceptInFlight

\* Mutant: the marker is never written.
MarkDecidedNot(j) ==
  /\ answered' = answered \cup {j}
  /\ UNCHANGED dedup

MarkDecided(j) ==
  /\ recentJobs' = recentJobs \cup {<<j, "__decided">>}
  /\ expiredKeys' = expiredKeys \ {<<j, "__decided">>}
  /\ answered' = answered \cup {j}

ObserveAccept(j, e) ==
  /\ apc[<<j, e>>] = "fetch"
  /\ observing
  /\ FinishAccept(j, e)
  /\ UNCHANGED <<chain, wire, calls, dedup, delivery, polled, answered, bounds>>

AfterRequirement(j) == IF kind[j] = "noSubject" THEN "refuse" ELSE "gate"

\* Mutant: the accept path forgets OBSERVE_ONLY.
AcceptFetchedSigning(j, e) ==
  /\ apc[<<j, e>>] = "fetch"
  /\ GoAccept(j, e, "budget")
  /\ UNCHANGED <<chain, wire, calls, dedup, delivery, polled, answered, bounds>>

AcceptFetched(j, e) ==
  /\ apc[<<j, e>>] = "fetch"
  /\ ~observing
  /\ \/ kind[j] = "unnamed" /\ FinishAccept(j, e)
     \/ kind[j] = "unsupported" /\ GoAccept(j, e, "refuse")
     \/ HasHandler(j) /\ e = "requirement.message" /\ GoAccept(j, e, AfterRequirement(j))
     \/ HasHandler(j) /\ e = "job.created" /\ GoAccept(j, e, "require")
  /\ UNCHANGED <<chain, wire, calls, dedup, delivery, polled, answered, bounds>>

(* Nothing catches fetchJob: the rejected promise ends the process.        *)
AcceptFetchThrows(j, e) ==
  /\ apc[<<j, e>>] = "fetch"
  /\ ~observing
  /\ fails < MaxFails
  /\ fails' = fails + 1
  /\ Die
  /\ UNCHANGED <<chain, dups, crashes>>

\* Mutant: a job without a requirement is skipped in silence.
RequirementResolvedSilently(j, e) ==
  /\ apc[<<j, e>>] = "require"
  /\ IF j \in posted THEN GoAccept(j, e, AfterRequirement(j)) ELSE FinishAccept(j, e)
  /\ UNCHANGED <<chain, wire, calls, dedup, delivery, polled, answered, bounds>>

(* waitForRequirement: the message is there, or five seconds and the       *)
(* history pass without it.                                                *)
RequirementResolved(j, e) ==
  /\ apc[<<j, e>>] = "require"
  /\ \/ /\ GoAccept(j, e, IF j \in posted THEN AfterRequirement(j) ELSE "refuse")
        /\ UNCHANGED fails
     \/ /\ fails < MaxFails
        /\ fails' = fails + 1
        /\ GoAccept(j, e, "refuse")
  /\ UNCHANGED <<chain, wire, calls, dedup, delivery, polled, answered, dups, crashes>>

(* The verdict itself is BuyerReputation's. *)
GateDecides(j, e) ==
  /\ apc[<<j, e>>] = "gate"
  /\ \/ GoAccept(j, e, "budget")
     \/ BlockEnabled /\ GoAccept(j, e, "gateRefuse")
  /\ UNCHANGED <<chain, wire, calls, dedup, delivery, polled, answered, bounds>>

BudgetMined(j, e) ==
  /\ apc[<<j, e>>] = "budget"
  /\ Mined(j, "setBudget")
  /\ GoAccept(j, e, "budgetMined")
  /\ UNCHANGED <<kind, observing, posted, wire, calls, dedup, delivery, polled, answered, bounds>>

BudgetSet(j, e) ==
  /\ apc[<<j, e>>] = "budgetMined"
  /\ MarkDecided(j)
  /\ FinishAccept(j, e)
  /\ UNCHANGED <<chain, wire, calls, delivery, polled, bounds>>

(* It reverted or was not sent, or its answer is lost. *)
BudgetThrows(j, e) ==
  /\ \/ apc[<<j, e>>] = "budget" /\ Throws(j, "setBudget")
     \/ apc[<<j, e>>] = "budgetMined" /\ AnswerLost(j, "setBudget")
  /\ GoAccept(j, e, "undo")
  /\ UNCHANGED <<chain, wire, dedup, delivery, polled, answered, dups, crashes>>

Rejected(j, e) ==
  /\ apc[<<j, e>>] \in RejectPCs
  /\ Mined(j, "reject")
  /\ MarkDecided(j)
  /\ FinishAccept(j, e)
  /\ UNCHANGED <<kind, observing, posted, wire, calls, delivery, polled, bounds>>

(* A refusal by the gate is thrown into the gate's own catch, which goes   *)
(* on to accept; after a failed setBudget the job is left to expire.       *)
RejectThrows(j, e) ==
  /\ Throws(j, "reject")
  /\ \/ apc[<<j, e>>] = "gateRefuse" /\ GoAccept(j, e, "budget")
     \/ apc[<<j, e>>] = "undo" /\ FinishAccept(j, e)
  /\ UNCHANGED <<chain, wire, dedup, delivery, polled, answered, dups, crashes>>

(* The two refusals before the gate are not caught: the process dies.      *)
RefuseThrows(j, e) ==
  /\ apc[<<j, e>>] = "refuse"
  /\ \/ ~Allows(j, "reject") /\ UNCHANGED fails
     \/ fails < MaxFails /\ fails' = fails + 1
  /\ Die
  /\ UNCHANGED <<chain, dups, crashes>>

AcceptStep(j, e) ==
  \/ ObserveAccept(j, e) \/ AcceptFetched(j, e) \/ AcceptFetchThrows(j, e)
  \/ RequirementResolved(j, e) \/ GateDecides(j, e)
  \/ BudgetMined(j, e) \/ BudgetSet(j, e) \/ BudgetThrows(j, e)
  \/ Rejected(j, e) \/ RejectThrows(j, e) \/ RefuseThrows(j, e)

-------------------------------------------------------------------------------
(* The delivery phase: handleJobFunded, postSubmitNudgeAndTrack.           *)

FinishDelivery(j, o) ==
  /\ inFlight' = inFlight \ {j}
  /\ dpc' = [dpc EXCEPT ![<<j, o>>] = "idle"]

GoDelivery(j, o, pc) ==
  /\ dpc' = [dpc EXCEPT ![<<j, o>>] = pc]
  /\ UNCHANGED inFlight

ObserveDelivery(j, o) ==
  /\ dpc[<<j, o>>] = "fetch"
  /\ observing
  /\ FinishDelivery(j, o)
  /\ UNCHANGED <<chain, wire, calls, dedup, accept, polled, answered, bounds>>

\* Mutant: no re-check of the status before the handler runs.
DeliveryFetchedUnchecked(j, o) ==
  /\ dpc[<<j, o>>] = "fetch"
  /\ ~observing
  /\ IF HasHandler(j) THEN GoDelivery(j, o, "handler") ELSE FinishDelivery(j, o)
  /\ UNCHANGED <<chain, wire, calls, dedup, accept, polled, answered, bounds>>

\* Mutant: the early return of a moved-on job is outside the try ... finally.
DeliveryFetchedLeaking(j, o) ==
  /\ dpc[<<j, o>>] = "fetch"
  /\ ~observing
  /\ GoDelivery(j, o, IF status[j] = "funded" /\ HasHandler(j) THEN "handler" ELSE "idle")
  /\ UNCHANGED <<chain, wire, calls, dedup, accept, polled, answered, bounds>>

(* The fresh read skips a job that has moved on. *)
DeliveryFetched(j, o) ==
  /\ dpc[<<j, o>>] = "fetch"
  /\ ~observing
  /\ IF status[j] = "funded" /\ HasHandler(j)
     THEN GoDelivery(j, o, "handler")
     ELSE FinishDelivery(j, o)
  /\ UNCHANGED <<chain, wire, calls, dedup, accept, polled, answered, bounds>>

(* The read fails: the session's cached job stands in, if there is one and *)
(* if it says FUNDED; else the delivery ends here.                         *)
DeliveryFetchThrows(j, o) ==
  /\ dpc[<<j, o>>] = "fetch"
  /\ ~observing
  /\ fails < MaxFails
  /\ fails' = fails + 1
  /\ \/ HasHandler(j) /\ GoDelivery(j, o, "handler")
     \/ FinishDelivery(j, o)
  /\ UNCHANGED <<chain, wire, calls, dedup, accept, polled, answered, dups, crashes>>

HandlerEnds(j, o) ==
  /\ dpc[<<j, o>>] = "handler"
  /\ GoDelivery(j, o, "submit") \/ GoDelivery(j, o, "fallback")
  /\ UNCHANGED <<chain, wire, calls, dedup, accept, polled, answered, bounds>>

SubmitMined(j, o) ==
  /\ dpc[<<j, o>>] \in SubmitPCs
  /\ Mined(j, "submit")
  /\ IF dpc[<<j, o>>] = "submit" THEN GoDelivery(j, o, "submitMined") ELSE FinishDelivery(j, o)
  /\ UNCHANGED <<kind, observing, posted, wire, calls, dedup, accept, polled, answered, bounds>>

Submitted(j, o) ==
  /\ dpc[<<j, o>>] = "submitMined"
  /\ GoDelivery(j, o, "nudge")
  /\ UNCHANGED <<chain, wire, calls, dedup, accept, polled, answered, bounds>>

(* A submit that throws is followed by the INSUFFICIENT_DATA fallback; a   *)
(* fallback that throws is only logged.                                    *)
SubmitThrows(j, o) ==
  /\ \/ /\ \/ dpc[<<j, o>>] = "submit" /\ Throws(j, "submit")
           \/ dpc[<<j, o>>] = "submitMined" /\ AnswerLost(j, "submit")
        /\ GoDelivery(j, o, "fallback")
     \/ /\ dpc[<<j, o>>] = "fallback"
        /\ Throws(j, "submit")
        /\ FinishDelivery(j, o)
  /\ UNCHANGED <<chain, wire, dedup, accept, polled, answered, dups, crashes>>

(* An expiredAt beyond the range of Date throws in toISOString, outside    *)
(* the nudge's own try blocks and inside the one around submit.            *)
Nudge(j, o) ==
  /\ dpc[<<j, o>>] = "nudge"
  /\ IF kind[j] = "badExpiry" THEN GoDelivery(j, o, "fallback") ELSE FinishDelivery(j, o)
  /\ UNCHANGED <<chain, wire, calls, dedup, accept, polled, answered, bounds>>

DeliveryStep(j, o) ==
  \/ ObserveDelivery(j, o) \/ DeliveryFetched(j, o) \/ DeliveryFetchThrows(j, o)
  \/ HandlerEnds(j, o) \/ SubmitMined(j, o) \/ Submitted(j, o)
  \/ SubmitThrows(j, o) \/ Nudge(j, o)

-------------------------------------------------------------------------------
(* The poll backstop: runDeliveryPoll, dispatchPolledJob.  Its early-out   *)
(* tests what claimDispatch tests again, so it is not an action.           *)

\* Mutant: the poll compares the phase with the wrong name.
FundedJobsMisnamed == {j \in Jobs : status[j] = "budgeted"}

FundedJobs == {j \in Jobs : status[j] = "funded"}

PollTick ==
  /\ ~(FundedJobs \subseteq polled)
  /\ polled' = polled \cup FundedJobs
  /\ UNCHANGED <<chain, wire, calls, dedup, accept, delivery, answered, bounds>>

PollDispatch(j) ==
  /\ j \in polled
  /\ polled' = polled \ {j}
  /\ IF Claimable(j, "job.funded")
     THEN StartDelivery(j, "poll")
     ELSE UNCHANGED <<dedup, delivery>>
  /\ UNCHANGED <<chain, wire, calls, accept, answered, bounds>>

(* Reading the room's history fails; the next tick tries again.            *)
PollDispatchThrows(j) ==
  /\ j \in polled
  /\ polled' = polled \ {j}
  /\ fails < MaxFails
  /\ fails' = fails + 1
  /\ UNCHANGED <<chain, wire, calls, dedup, accept, delivery, answered, dups, crashes>>

Polled(j) == PollDispatch(j) \/ PollDispatchThrows(j)

-------------------------------------------------------------------------------
Outside(j) ==
  \/ CreateJob(j) \/ PostRequirement(j) \/ Fund(j) \/ Complete(j)
  \/ BuyerRejectsOrExpires(j)
  \/ \E call \in {"setBudget", "reject", "submit"} : OrphanSettles(j, call)

Ingress(j) ==
  \/ \E e \in Events : HandleDuplicate(j, e)
  \/ \E e \in AcceptEvents : HandleAcceptEntry(j, e)
  \/ HandleFunded(j)
  \/ HandleCompleted(j)

Next ==
  \/ \E j \in Jobs : Outside(j) \/ Ingress(j) \/ Polled(j)
  \/ \E j \in Jobs, e \in AcceptEvents : AcceptStep(j, e)
  \/ \E j \in Jobs, o \in Origins : DeliveryStep(j, o)
  \/ PollTick
  \/ TtlElapses
  \/ Crash

Spec == Init /\ [][Next]_vars

(* The event loop runs what is ready and the interval timer keeps firing;  *)
(* nothing is assumed of the stream, the buyers or the chain.              *)
LoopFairness ==
  /\ \A j \in Jobs, e \in AcceptEvents : WF_vars(AcceptStep(j, e))
  /\ \A j \in Jobs, o \in Origins : WF_vars(DeliveryStep(j, o))
  /\ WF_vars(PollTick)
  /\ \A j \in Jobs : WF_vars(Polled(j))

LoopSpec == Spec /\ LoopFairness

(* The stream delivers what it holds.                                      *)
StreamDelivers == \A j \in Jobs : WF_vars(Ingress(j))

-------------------------------------------------------------------------------
(* Properties.                                                             *)

(* The variables keep their types; the claims of handleEntry are sets of   *)
(* jobs, its dedup map a set of job:event keys.                            *)
TypeOK ==
  /\ status \in [Jobs -> Statuses]
  /\ kind \in [Jobs -> AllKinds]
  /\ observing \in BOOLEAN
  /\ posted \subseteq Jobs
  /\ wire \subseteq Jobs \X Events
  /\ lost \subseteq Calls
  /\ orphans \subseteq lost
  /\ recentJobs \subseteq Keys
  /\ expiredKeys \subseteq recentJobs
  /\ inFlight \subseteq Jobs
  /\ acceptInFlight \subseteq Jobs
  /\ apc \in [Jobs \X AcceptEvents -> AcceptPCs]
  /\ dpc \in [Jobs \X Origins -> DeliveryPCs]
  /\ polled \subseteq Jobs
  /\ answered \subseteq Jobs
  /\ dups \in 0..MaxDups
  /\ fails \in 0..MaxFails
  /\ crashes \in 0..MaxCrashes

(* The accept attempts in the air, and the deliveries. *)
AcceptFlights == {s \in Jobs \X AcceptEvents : apc[s] # "idle"}
DeliveryFlights == {s \in Jobs \X Origins : dpc[s] # "idle"}

Accepts == INSTANCE SingleFlight WITH Origins <- AcceptEvents, flights <- AcceptFlights
Deliveries == INSTANCE SingleFlight WITH flights <- DeliveryFlights

(* "A concurrent job.created + requirement.message for one job yields      *)
(* exactly ONE accept attempt", in a stream that repeats entries and with  *)
(* dedup keys that expire.                                                 *)
OneAcceptAttempt == Accepts!Spec

(* A job.funded entry and the poll, or two poll ticks, never run two       *)
(* deliveries of one job, even after its dedup key was shed.               *)
OneDelivery == Deliveries!Spec

(* A job is claimed exactly while an attempt, or a delivery, of it is in    *)
(* the air: no early return, throw or death leaves a claim behind, which    *)
(* would lock the job out for the life of the process.                      *)
ClaimsMatchFlights ==
  \A j \in Jobs :
    /\ j \in acceptInFlight <=> \E e \in AcceptEvents : apc[<<j, e>>] # "idle"
    /\ j \in inFlight <=> \E o \in Origins : dpc[<<j, o>>] # "idle"

SignsAccept(j, pcs) ==
  \E e \in AcceptEvents : apc[<<j, e>>] # apc'[<<j, e>>] /\ apc'[<<j, e>>] \in pcs
SignsSubmit(j) ==
  \E o \in Origins : dpc[<<j, o>>] # dpc'[<<j, o>>] /\ dpc'[<<j, o>>] \in SubmitPCs

(* "Once funded, always submit, never reject": the daemon does not call    *)
(* reject on a job the buyer has funded, unless a setBudget of that job    *)
(* was mined without its being told.                                       *)
NeverRejectFunded ==
  [][\A j \in Jobs : SignsAccept(j, RejectPCs) /\ <<j, "setBudget">> \notin lost' =>
       status[j] # "funded"]_vars

(* "The __decided marker makes a SUCCESSFUL accept permanent": a job       *)
(* answered since the process started is not answered again.               *)
DecisionIsPermanent ==
  [][\A j \in Jobs : SignsAccept(j, RejectPCs \cup {"budget"}) => j \notin answered]_vars

(* A deliverable is not sent for a job whose deliverable is on chain,      *)
(* whichever path, tick or repeated entry asks for it, whichever dedup     *)
(* keys were shed and whatever job took the process down, as long as no    *)
(* submit of that job was mined without its being told, no read fell back  *)
(* on the cache, and the expiry is one a Date can hold.                    *)
RedeliveryIsHarmless ==
  [][\A j \in Jobs :
       SignsSubmit(j) /\ <<j, "submit">> \notin lost' /\ fails' = 0 /\ kind[j] # "badExpiry" =>
         status[j] \notin {"submitted", "completed", "rejected"}]_vars

(* OBSERVE_ONLY "suppresses every signing path": no attempt, whether it    *)
(* came by hydration, stream or poll, ever waits for a chain call.         *)
ObserveSignsNothing == observing => Interrupted = {}

(* "Once funded, ALWAYS deliver": a funded job does not stay funded for    *)
(* ever while the process runs, signs, and its timers fire, the stream     *)
(* silent or not.                                                          *)
FundedIsDelivered ==
  \A j \in Jobs : (status[j] = "funded" /\ ~observing) ~> status[j] # "funded"

(* Every serviceable or refusable job gets its setBudget or its reject,    *)
(* over restarts and repeated entries, if the stream delivers: the poll    *)
(* looks for funded jobs only.                                             *)
EveryJobIsAnswered ==
  StreamDelivers =>
    \A j \in Jobs :
      (status[j] = "open" /\ kind[j] # "unnamed" /\ ~observing) ~> status[j] # "open"
===============================================================================
