------------------------- MODULE MechRegistration -------------------------
(***************************************************************************)
(* Registration of a mech on the Olas marketplace: the operator's script   *)
(* register-live.ts (one lifecycle step per run), MechAdapter's            *)
(* registerAsMech (every remaining step) and registerAsMechStep, and the   *)
(* two chain clients that simulate, send and await each transaction.       *)
(* The chain, its mempool, its lagging read backends and the other parties *)
(* who create services in the same registry are external.                  *)
(***************************************************************************)
EXTENDS Naturals, Sequences, FiniteSets, SequencesExt

CONSTANTS
    Runs,         \* slots for runs of the script or of registerAsMech
    MaxServices,  \* bound on the services ever created, by anyone
    MaxMechs,     \* bound on the mechs ever created
    MaxAttempts,  \* serviceVisibilityPoll.maxAttempts
    MaxFaults     \* bound on lagging reads, deaths, overlapping runs and other
                  \* parties' services together

ASSUME RegistrationBounds ==
    /\ MaxServices \in Nat \ {0} /\ MaxMechs \in Nat
    /\ MaxAttempts \in Nat \ {0} /\ MaxFaults \in Nat

VARIABLES
    services,   \* the registry: the state of every service id
    foreign,    \* the ids that belong to other parties
    stale,      \* the registry before the last transaction: a backend behind the head
    mechs,      \* the mechs created, in order
    mempool,    \* the transactions sent and not yet mined
    run,        \* the local state of every run
    default,    \* HARDCODED_DEFAULT_SERVICE_ID of the chain, or 0
    overlaps, lags, kills,  \* faults: runs begun during another, lagging reads, deaths
    orphans,    \* processes that died with a transaction in the mempool
    forces,     \* runs told to create a service whatever exists
    reverted    \* whether a transaction for no other party's service reverted

vars == <<services, foreign, stale, mechs, mempool, run, default, overlaps, lags, kills,
          orphans, forces, reverted>>
chain  == <<services, foreign, stale, mechs, mempool, reverted>>
faults == <<overlaps, kills, orphans, forces>>

Troubles == overlaps + lags + kills + Cardinality(foreign)
MayFail == Troubles < MaxFaults

SERVICE_STATE == {"NonExistent", "PreRegistration", "ActiveRegistration",
                  "FinishedRegistration", "Deployed", "TerminatedBonded"}
RESUMABLE_STATES == SERVICE_STATE \ {"NonExistent", "TerminatedBonded"}

Services == 1..MaxServices
Existing(v) == {i \in Services : v[i] # "NonExistent"}
NextId(v) == Cardinality(Existing(v)) + 1
Owned(v) == Existing(v) \ foreign

Steps == <<"activateRegistration", "registerAgents", "deploy", "createMech">>
AllSteps == {"create"} \cup ToSet(Steps)

\* Mutant: a service whose agents are registered is taken for a deployed one.
nextStepForStateAhead(state) ==
    CASE state = "PreRegistration"      -> "activateRegistration"
      [] state = "ActiveRegistration"   -> "registerAgents"
      [] OTHER                          -> "createMech"

nextStepForState(state) ==
    CASE state = "PreRegistration"      -> "activateRegistration"
      [] state = "ActiveRegistration"   -> "registerAgents"
      [] state = "FinishedRegistration" -> "deploy"
      [] OTHER                          -> "createMech"

\* What is left of the lifecycle, from one read of the state.
RemainingSteps(state) ==
    SubSeq(Steps, CHOOSE k \in 1..4 : Steps[k] = nextStepForState(state), 4)

\* The registry's own guard on a step: the service's state and, except for the bond of
\* an agent, its owner. It refuses no create: MaxServices is this model's.
Permits(v, step, id, payload) ==
    CASE step = "create"               -> NextId(services) <= MaxServices
      [] step = "activateRegistration" -> v[id] = "PreRegistration" /\ id \notin foreign
      [] step = "registerAgents"       -> v[id] = "ActiveRegistration"
      [] step = "deploy"               -> v[id] = "FinishedRegistration" /\ id \notin foreign
      [] step = "createMech"           -> v[id] = "Deployed" /\ id \notin foreign /\ payload # "0x"

\* The registry after a step.
Advanced(v, step, id) ==
    CASE step = "create"               -> [v EXCEPT ![NextId(v)] = "PreRegistration"]
      [] step = "activateRegistration" -> [v EXCEPT ![id] = "ActiveRegistration"]
      [] step = "registerAgents"       -> [v EXCEPT ![id] = "FinishedRegistration"]
      [] step = "deploy"               -> [v EXCEPT ![id] = "Deployed"]
      [] OTHER                         -> v

Idle == [pc |-> "idle", kind |-> "script", id |-> 0, flag |-> 0, force |-> FALSE,
         rate |-> FALSE, payload |-> "0x", observeOnly |-> TRUE, todo |-> <<>>, shown |-> "none",
         attempts |-> 0, outcome |-> "none", minted |-> 0]

Active(r) == run[r].pc # "idle"

RunStates ==
    [pc : {"idle", "resolve", "payload", "read", "perform", "sent", "visible", "confirm", "dead"},
     kind : {"script", "full"}, id : 0..MaxServices, flag : 0..MaxServices, force : BOOLEAN,
     rate : BOOLEAN, payload : {"0x", "rate", "given", "hash"}, observeOnly : BOOLEAN, todo : Seq(AllSteps),
     shown : AllSteps \cup {"none"}, attempts : 0..MaxAttempts - 1,
     outcome : {"none", "ok", "reverted"}, minted : 0..MaxServices]
Transactions ==
    [run : Runs, step : AllSteps, service : 0..MaxServices, payload : {"0x", "rate", "given", "hash"}]
Mechs == [service : Services, payload : {"rate", "given", "hash"}]

TypeOK ==
    /\ services \in [Services -> SERVICE_STATE] /\ stale \in [Services -> SERVICE_STATE]
    /\ foreign \subseteq Services /\ mechs \in Seq(Mechs)
    /\ mempool \subseteq Transactions /\ run \in [Runs -> RunStates]
    /\ default \in 0..1 /\ reverted \in BOOLEAN
    /\ overlaps \in Nat /\ lags \in Nat /\ kills \in Nat /\ Troubles <= MaxFaults
    /\ orphans \in 0..kills /\ forces \in 0..1

\* Base starts with service 635 somewhere in its lifecycle; Gnosis with no service.
Init ==
    /\ default \in {0, 1}
    /\ \E state \in SERVICE_STATE \ {"NonExistent"} :
          services = [i \in Services |-> IF i = default THEN state ELSE "NonExistent"]
    /\ foreign = {} /\ stale = services /\ mechs = <<>> /\ mempool = {} /\ run = [r \in Runs |-> Idle]
    /\ overlaps = 0 /\ lags = 0 /\ kills = 0 /\ orphans = 0 /\ forces = 0 /\ reverted = FALSE

---------------------------------------------------------------------------
(* Reads *)

\* A read is answered by the head or, as a fault, by a backend behind it.
Reads(v) ==
    \/ v = services /\ UNCHANGED lags
    \/ MayFail /\ stale # services /\ v = stale /\ lags' = lags + 1

Becomes(r, state) == run' = [run EXCEPT ![r] = state]
Ends(r) == Becomes(r, Idle)

---------------------------------------------------------------------------
(* register-live.ts, up to the passphrase *)

\* The operator's command line: a service id or none, the override, a delivery rate or
\* none. registerAsMech takes the payload its caller gives, a rate or not.
Launch(r, kind, flag, force, rate) ==
    /\ ~Active(r)
    /\ IF \A o \in Runs : run[o].pc \in {"idle", "dead"} THEN UNCHANGED overlaps
       ELSE MayFail /\ overlaps' = overlaps + 1
    /\ Len(mechs) < MaxMechs
    /\ Becomes(r, IF kind = "script"
                  THEN [Idle EXCEPT !.pc = "resolve", !.flag = flag, !.force = force, !.rate = rate]
                  ELSE [Idle EXCEPT !.pc = "read", !.kind = kind, !.id = flag, !.payload = "given",
                                    !.observeOnly = FALSE])
    /\ forces' = IF force \/ (kind = "full" /\ flag = 0) THEN 1 ELSE forces
    /\ UNCHANGED <<chain, default, lags, kills, orphans>>

\* Mutant: without a flag or a default the script creates, whatever exists.
resolveExistingServiceIdBlind(flag, force, v) ==
    IF flag # 0 THEN IF v[flag] = "NonExistent" THEN "abort" ELSE "resume"
    ELSE IF default # 0 THEN "resume"
    ELSE "create"

resolveExistingServiceId(flag, force, v) ==
    IF flag # 0 THEN IF v[flag] = "NonExistent" THEN "abort" ELSE "resume"
    ELSE IF default # 0 THEN "resume"
    ELSE IF ~force /\ Owned(v) # {} THEN "abort"
    ELSE "create"

ResolveDecision(r) ==
    /\ run[r].pc = "resolve"
    /\ \E v \in {services, stale} :
        /\ Reads(v)
        /\ LET mode == resolveExistingServiceId(run[r].flag, run[r].force, v) IN
           IF mode = "abort" THEN Ends(r)
           ELSE Becomes(r, [run[r] EXCEPT !.pc = "payload", !.flag = 0, !.force = FALSE,
                    !.id = IF mode = "create" THEN 0
                              ELSE IF run[r].flag # 0 THEN run[r].flag ELSE default])
    /\ UNCHANGED <<chain, default, faults>>

\* Mutant: without a rate the metadata hash is the payload.
resolveMechPayloadHash(step, rate) ==
    IF step # "createMech" THEN "0x" ELSE IF rate THEN "rate" ELSE "hash"

resolveMechPayload(step, rate) ==
    IF step # "createMech" THEN "0x" ELSE IF rate THEN "rate" ELSE "missing-delivery-rate"

\* The step is read once more, the payload resolved for it; a missing rate aborts.
ResolvePayload(r) ==
    /\ run[r].pc = "payload"
    /\ \E v \in {services, stale} :
        /\ Reads(v)
        /\ LET step == IF run[r].id = 0 THEN "create" ELSE nextStepForState(v[run[r].id])
               payload == resolveMechPayload(step, run[r].rate) IN
           IF payload = "missing-delivery-rate" THEN Ends(r)
           ELSE Becomes(r, [run[r] EXCEPT !.pc = "read", !.rate = FALSE, !.payload = payload])
    /\ UNCHANGED <<chain, default, faults>>

---------------------------------------------------------------------------
(* MechAdapter.registerAsMechStep and registerAsMech *)

\* No service id: create. Otherwise one getService decides what is left to do:
\* the next step for registerAsMechStep, all of them for registerAsMech.
ReadService(r) ==
    /\ run[r].pc = "read"
    /\ IF run[r].id = 0 THEN Becomes(r, [run[r] EXCEPT !.pc = "perform", !.todo = <<"create">>]) /\ UNCHANGED lags
       ELSE \E v \in {services, stale} :
            LET state == IF run[r].id \in Services THEN v[run[r].id] ELSE "NonExistent" IN
            /\ Reads(v)
            /\ IF state \notin RESUMABLE_STATES THEN Ends(r)
               ELSE Becomes(r, [run[r] EXCEPT !.pc = "perform", !.todo = IF run[r].kind = "script" THEN <<nextStepForState(state)>> ELSE RemainingSteps(state)])
    /\ UNCHANGED <<chain, default, faults>>

\* Where a run stands after a step: registerAsMech goes on, the script asks or ends.
Continues(r, id) ==
    IF Head(run[r].todo) = "create" /\ run[r].kind = "full"
    THEN Becomes(r, [run[r] EXCEPT !.pc = "read", !.id = id, !.todo = <<>>])
    ELSE IF Len(run[r].todo) > 1 THEN Becomes(r, [run[r] EXCEPT !.pc = "perform", !.todo = Tail(run[r].todo)])
    ELSE IF run[r].kind = "script" /\ run[r].observeOnly
    THEN Becomes(r, [run[r] EXCEPT !.pc = "confirm", !.shown = Head(run[r].todo), !.todo = <<>>])
    ELSE Ends(r)

\* simulate*: predicts, sends nothing.
SimulateStep(r) ==
    /\ run[r].pc = "perform" /\ run[r].observeOnly
    /\ \E v \in {services, stale} :
        /\ Reads(v)
        /\ IF Permits(v, Head(run[r].todo), run[r].id, run[r].payload)
           THEN Continues(r, NextId(v)) ELSE Ends(r)
    /\ UNCHANGED <<chain, default, faults>>

\* execute*: simulateContract, then writeContract. A create keeps the simulated id.
ExecuteStep(r) ==
    /\ run[r].pc = "perform" /\ ~run[r].observeOnly
    /\ \E v \in {services, stale} :
        LET step == Head(run[r].todo) IN
        /\ Reads(v)
        /\ IF Permits(v, step, run[r].id, run[r].payload)
           THEN /\ Becomes(r, [run[r] EXCEPT !.pc = "sent", !.id = IF step = "create" THEN NextId(v) ELSE run[r].id, !.outcome = "none"])
                /\ mempool' = mempool \cup {[run |-> r, step |-> step, service |-> run[r].id,
                                             payload |-> run[r].payload]}
           ELSE Ends(r) /\ UNCHANGED mempool
    /\ UNCHANGED <<services, foreign, stale, mechs, reverted, default, faults>>

\* The chain mines a transaction, which may revert by then.
Mine(t) ==
    /\ t \in mempool /\ mempool' = mempool \ {t}
    /\ LET ok == Permits(services, t.step, t.service, t.payload) IN
        /\ services' = IF ok THEN Advanced(services, t.step, t.service) ELSE services
        /\ stale' = IF ok THEN services ELSE stale
        /\ mechs' = IF ok /\ t.step = "createMech"
                    THEN Append(mechs, [service |-> t.service, payload |-> t.payload]) ELSE mechs
        /\ reverted' = (reverted \/ (~ok /\ t.service \notin foreign))
        /\ Becomes(t.run, [run[t.run] EXCEPT !.outcome = IF ok THEN "ok" ELSE "reverted", !.minted = IF ok /\ t.step = "create" THEN NextId(services) ELSE 0])
    /\ UNCHANGED <<foreign, default, faults, lags>>

\* Another party's create takes the next id; the operator's pending one still finds room.
StrangerCreates ==
    /\ MayFail /\ NextId(services) <= MaxServices
    /\ (\E t \in mempool : t.step = "create") => NextId(services) < MaxServices
    /\ services' = Advanced(services, "create", 0) /\ stale' = services
    /\ foreign' = foreign \cup {NextId(services)}
    /\ UNCHANGED <<mechs, mempool, reverted, run, default, faults, lags>>

\* Its owner moves another party's service on through its lifecycle.
StrangerAdvances(i) ==
    /\ i \in foreign /\ services[i] # "Deployed"
    /\ services' = Advanced(services, nextStepForState(services[i]), i) /\ stale' = services
    /\ UNCHANGED <<foreign, mechs, mempool, reverted, run, default, faults, lags>>

\* Mutant: the hash of a transaction is enough, its receipt is not awaited.
ReceiptUnawaited(r) ==
    /\ run[r].pc = "sent" /\ Head(run[r].todo) # "createMech"
    /\ IF Head(run[r].todo) = "create" THEN Becomes(r, [run[r] EXCEPT !.pc = "visible", !.attempts = 0])
       ELSE Continues(r, run[r].id)
    /\ UNCHANGED <<chain, default, faults, lags>>

\* waitForTransactionReceipt returns; the registry client looks at no status in it.
Receipt(r) ==
    /\ run[r].pc = "sent" /\ run[r].outcome # "none" /\ Head(run[r].todo) # "createMech"
    /\ IF Head(run[r].todo) = "create" THEN Becomes(r, [run[r] EXCEPT !.pc = "visible", !.attempts = 0])
       ELSE Continues(r, run[r].id)
    /\ UNCHANGED <<chain, default, faults, lags>>

\* The CreateMech event of the receipt names the mech; a reverted one has none and throws.
decodeCreateMechAddress(r) == run[r].outcome = "ok"

\* executeCreateMech reads its result off the receipt.
CreateMechReceipt(r) ==
    /\ run[r].pc = "sent" /\ run[r].outcome # "none" /\ Head(run[r].todo) = "createMech"
    /\ IF decodeCreateMechAddress(r) THEN Continues(r, run[r].id) ELSE Ends(r)
    /\ UNCHANGED <<chain, default, faults, lags>>

\* Polls getService, whoever owns it, until the service shows, at most maxAttempts times.
waitForServiceVisible(r) ==
    /\ run[r].pc = "visible"
    /\ \E v \in {services, stale} :
        /\ Reads(v)
        /\ IF run[r].id \in Existing(v) THEN Continues(r, run[r].id)
           ELSE IF run[r].attempts + 1 = MaxAttempts THEN Ends(r)
           ELSE Becomes(r, [run[r] EXCEPT !.attempts = run[r].attempts + 1])
    /\ UNCHANGED <<chain, default, faults>>

---------------------------------------------------------------------------
(* The confirmation, and the process's death *)

\* REGISTER typed: the step is read again, and executed without a second look.
Confirm(r) ==
    /\ run[r].pc = "confirm" /\ Becomes(r, [run[r] EXCEPT !.pc = "read", !.observeOnly = FALSE])
    /\ UNCHANGED <<chain, default, faults, lags>>

Decline(r) ==
    /\ run[r].pc = "confirm" /\ Ends(r)
    /\ UNCHANGED <<chain, default, faults, lags>>

\* The terminal closes. A transaction already sent stays in the mempool.
Kill(r) ==
    /\ Active(r) /\ run[r].pc # "dead" /\ MayFail /\ kills' = kills + 1
    /\ LET sent == \E t \in mempool : t.run = r IN
        /\ orphans' = IF sent THEN orphans + 1 ELSE orphans
        /\ IF sent THEN Becomes(r, [Idle EXCEPT !.pc = "dead"]) ELSE Ends(r)
    /\ UNCHANGED <<chain, default, overlaps, forces, lags>>

---------------------------------------------------------------------------
\* A dead process's slot serves the next run while its transaction still waits.
Reap(r) ==
    /\ run[r].pc = "dead" /\ (\A t \in mempool : t.run # r) /\ Ends(r)
    /\ UNCHANGED <<chain, default, faults, lags>>

Step(r) ==
    \/ ResolveDecision(r) \/ ResolvePayload(r) \/ ReadService(r)
    \/ SimulateStep(r) \/ ExecuteStep(r) \/ Receipt(r) \/ CreateMechReceipt(r)
    \/ waitForServiceVisible(r) \/ Reap(r)

\* The run an operator who knows his service's id makes: its next step, with a rate.
LaunchNext(r) ==
    IF default # 0 \/ Owned(services) = {} THEN Launch(r, "script", 0, FALSE, TRUE)
    ELSE \E i \in Owned(services) : Launch(r, "script", i, FALSE, TRUE)

Next ==
    \/ \E r \in Runs, flag \in 0..MaxServices, rate \in BOOLEAN :
          \/ \E force \in BOOLEAN : Launch(r, "script", flag, force, rate)
          \/ Launch(r, "full", flag, FALSE, FALSE)
    \/ \E r \in Runs : Step(r) \/ Confirm(r) \/ Decline(r) \/ Kill(r)
    \/ \E t \in mempool : Mine(t)
    \/ StrangerCreates
    \/ \E i \in foreign : StrangerAdvances(i)

Spec == Init /\ [][Next]_vars

\* Processes run, the chain mines, and an operator comes back and confirms in the end.
\* Nothing is assumed of the other parties.
FairSpec ==
    /\ Spec
    /\ \A r \in Runs : WF_vars(Step(r)) /\ SF_vars(Confirm(r))
    /\ SF_vars(\E r \in Runs : LaunchNext(r))
    /\ WF_vars(\E t \in mempool : Mine(t))

---------------------------------------------------------------------------
(* Properties *)

\* The operator runs the script run after run, every backend is at the head and
\* no process died with a transaction in flight.
Calm == overlaps = 0 /\ lags = 0 /\ orphans = 0

\* The 3789/3790 duplicate: without the override no run creates a second service
\* (registrationResume.ts), even after one that died before noting its id and whatever
\* other parties create.
OneService == Calm /\ forces = 0 => Cardinality(Owned(services)) <= 1

\* State-aware resume: no step for a service of the operator's is sent that the registry
\* has already taken, even when one read, of the state or of the simulation, comes from
\* behind the head.
NothingReverts == overlaps = 0 /\ orphans = 0 /\ lags <= 1 => ~reverted

\* A mech prices its work: the script creates no mech from a placeholder or the
\* metadata hash, whatever the state does between its reads. A mech of registerAsMech
\* has the payload its caller gave, which nothing checks.
NoInertMech == \A k \in DOMAIN mechs : mechs[k].payload \in {"rate", "given"}

\* The transaction sent is the step the operator confirmed.
ConfirmedStepIsExecuted ==
    \A r \in Runs : run[r].pc = "sent" /\ run[r].kind = "script"
                        => Head(run[r].todo) = run[r].shown
CalmConfirmedStepIsExecuted == Calm => ConfirmedStepIsExecuted

\* The id a create reports is the simulated one (executeCreate): it is the id minted, or
\* that of another party's service if such a create was mined in between, and then only
\* others' services lie from the id reported to the id minted.
ReportedServiceIsOwnUnlessTaken ==
    Calm => \A r \in Runs : run[r].pc = "visible" /\ run[r].outcome = "ok" =>
                /\ run[r].id <= run[r].minted /\ run[r].minted \notin foreign
                /\ \A i \in run[r].id..run[r].minted - 1 : i \in foreign

\* What holds of every state: its shape, priced mechs, confirmed steps, explained reports.
RegistrationInv ==
    TypeOK /\ NoInertMech /\ CalmConfirmedStepIsExecuted /\ ReportedServiceIsOwnUnlessTaken

\* An operator who keeps running the script gets a mech, unless the service was terminated.
RegistrationCompletes ==
    (default = 1 => services[1] # "TerminatedBonded") ~> (Len(mechs) > 0)
===========================================================================
