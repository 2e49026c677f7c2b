------------------------ MODULE MechRegistrationProofs ------------------------
(* Proofs about the registration of a mech, for any number of runs, of       *)
(* services and of visibility polls, and whatever the faults.                *)
EXTENDS MechRegistration, TLAPS, FiniteSetTheorems, SequenceTheorems

-------------------------------------------------------------------------------
(* The strengthening.                                                        *)

(* A transaction is its run's only one; the run waits for it or is dead.     *)
MempoolStory ==
    /\ \A t \in mempool :
        /\ run[t.run].pc = "dead" \/ /\ run[t.run].pc = "sent" /\ run[t.run].outcome = "none"
                                     /\ t.step = Head(run[t.run].todo)
                                     /\ t.step # "create" => t.service = run[t.run].id
        /\ IF t.step = "create" THEN t.service = 0 ELSE t.service \in Services
    /\ \A t, u \in mempool : t.run = u.run => t = u

(* No placeholder for a rate gets as far as the registry.                    *)
PayloadStory ==
    /\ \A r \in Runs : run[r].payload # "hash"
    /\ \A t \in mempool : t.payload # "hash"
    /\ NoInertMech

(* The registry only grows, and its ids are handed out in order. *)
RegistryStory ==
    /\ Existing(stale) \subseteq Existing(services) /\ foreign \subseteq Existing(services)
    /\ Existing(services) = 1..NextId(services) - 1

Suffix(todo) == \E k \in 1..4 : todo = SubSeq(Steps, k, 4)

(* What a run has left to do: a create alone, one step of the script, or the *)
(* rest of the lifecycle.                                                    *)
TodoStory(r) ==
    /\ run[r].pc \in {"resolve", "payload", "confirm"} => run[r].kind = "script" /\ run[r].observeOnly
    /\ run[r].kind = "full" => ~run[r].observeOnly
    /\ run[r].pc \in {"perform", "sent", "visible"} =>
        \/ run[r].todo = <<"create">> /\ (run[r].pc = "perform" => run[r].id = 0)
        \/ /\ run[r].pc # "visible" /\ run[r].id \in Services
           /\ IF run[r].kind = "script" THEN \E k \in 1..4 : run[r].todo = <<Steps[k]>>
              ELSE Suffix(run[r].todo)
    /\ run[r].pc = "visible" => run[r].todo = <<"create">>
    /\ run[r].pc \in {"sent", "visible"} => ~run[r].observeOnly /\ run[r].id \in Services

(* Without overlaps and orphans one run is at work.                          *)
Alone == overlaps = 0 /\ orphans = 0
AloneStory ==
    /\ orphans = 0 => \A r \in Runs : run[r].pc # "dead"
    /\ Alone => \A r, q \in Runs : Active(r) /\ Active(q) => r = q

Fits(step, state) == state \in RESUMABLE_STATES /\ step = nextStepForState(state)
NextStep(r) == IF run[r].id = 0 THEN "create" ELSE nextStepForState(services[run[r].id])

(* Then what a run is about to do is what the registry's state asks for, and *)
(* what the operator was shown. In another party's service nothing but a     *)
(* registration of agents is ever shown.                                     *)
StepStory(r) ==
    /\ run[r].pc = "perform" /\ run[r].id # 0 /\ run[r].id \notin foreign
         => Fits(Head(run[r].todo), services[run[r].id])
    /\ run[r].pc = "sent" /\ run[r].outcome # "none" /\ Len(run[r].todo) > 1 /\ run[r].id \notin foreign
         => Fits(run[r].todo[2], services[run[r].id])
    /\ run[r].kind = "script" /\ (run[r].pc = "confirm" \/ (~run[r].observeOnly /\ run[r].pc \in {"read", "perform"}))
         => IF run[r].id \in foreign THEN run[r].shown = "registerAgents"
            ELSE run[r].shown = NextStep(r) /\ (run[r].id # 0 => run[r].id \in Existing(services))
    /\ run[r].kind = "script" /\ run[r].pc = "sent" => Head(run[r].todo) = run[r].shown

(* From the id simulated to the id a create mints lie others' services only. *)
TakenUpTo(id, minted) == id <= minted /\ \A i \in id..minted - 1 : i \in foreign
CreateStory(r) ==
    /\ run[r].pc = "sent" /\ run[r].todo = <<"create">> /\ run[r].outcome = "none"
         => TakenUpTo(run[r].id, NextId(services))
    /\ run[r].pc \in {"sent", "visible"} /\ run[r].todo = <<"create">> /\ run[r].outcome = "ok"
         => TakenUpTo(run[r].id, run[r].minted) /\ run[r].minted \notin foreign /\ run[r].minted < NextId(services)

(* Without the override, a run that will create has seen no service of its own. *)
UnforcedStory ==
    /\ \A r \in Runs : run[r].pc = "resolve" => ~run[r].force
    /\ \A r \in Runs : run[r].pc \in {"payload", "read", "perform", "confirm"} /\ run[r].id = 0
                            => Owned(services) = {}
    /\ \A t \in mempool : t.step = "create" => Owned(services) = {}
    /\ Cardinality(Owned(services)) <= 1

RegistryStands ==
    ~reverted /\ \A t \in mempool : t.service \notin foreign => Permits(services, t.step, t.service, t.payload)

RunStory == \A r \in Runs : TodoStory(r)
ReliedStory ==
    /\ Alone /\ lags <= 1 => RegistryStands
    /\ Calm => \A r \in Runs : StepStory(r) /\ CreateStory(r)
    /\ Calm /\ forces = 0 => UnforcedStory

-------------------------------------------------------------------------------
(* The steps of the lifecycle.                                               *)

LEMMA StepNames ==
  /\ AllSteps = {"create", "activateRegistration", "registerAgents", "deploy", "createMech"}
  /\ ToSet(Steps) = {"activateRegistration", "registerAgents", "deploy", "createMech"}
  /\ \A k \in 1..4 : Steps[k] \in AllSteps /\ Steps[k] # "create"
<1>1. ToSet(Steps) = {Steps[i] : i \in DOMAIN Steps} /\ DOMAIN Steps = 1..4
  BY DEF Steps, ToSet
<1>2. /\ Steps[1] = "activateRegistration" /\ Steps[2] = "registerAgents"
      /\ Steps[3] = "deploy" /\ Steps[4] = "createMech"
  BY DEF Steps
<1>3. 1..4 = {1, 2, 3, 4}
  OBVIOUS
<1>4. ToSet(Steps) = {"activateRegistration", "registerAgents", "deploy", "createMech"}
  BY <1>1, <1>2, <1>3
<1> QED
  BY <1>2, <1>3, <1>4 DEF AllSteps

LEMMA SuffixFacts ==
  ASSUME NEW todo, Suffix(todo)
  PROVE  /\ todo \in Seq(AllSteps) /\ todo # <<>>
         /\ Head(todo) \in AllSteps /\ Head(todo) # "create"
         /\ Len(todo) > 1 =>
              /\ Suffix(Tail(todo)) /\ Head(Tail(todo)) = todo[2]
              /\ \/ Head(todo) = "activateRegistration" /\ todo[2] = "registerAgents"
                 \/ Head(todo) = "registerAgents" /\ todo[2] = "deploy"
                 \/ Head(todo) = "deploy" /\ todo[2] = "createMech"
<1>1. PICK k \in 1..4 : todo = SubSeq(Steps, k, 4)
  BY DEF Suffix
<1>2. Steps \in Seq(AllSteps) /\ Len(Steps) = 4
  BY StepNames DEF Steps
<1>3. /\ todo \in Seq(AllSteps) /\ Len(todo) = 5 - k
      /\ \A i \in 1..5-k : todo[i] = Steps[k + i - 1]
  <2>1. \A i \in k..4 : Steps[i] \in AllSteps
    BY StepNames
  <2>2. 4 - k + 1 = 5 - k /\ k <= 4
    OBVIOUS
  <2> QED
    BY <1>1, <2>1, <2>2, SubSeqProperties
<1>4. Head(todo) = Steps[k] /\ Tail(todo) = SubSeq(Steps, k + 1, 4)
  BY <1>1, <1>2, HeadTailOfSubSeq
<1>5. todo # <<>>
  BY <1>3
<1>6. ASSUME Len(todo) > 1
      PROVE  /\ k \in 1..3 /\ Suffix(Tail(todo)) /\ todo[2] = Steps[k + 1]
             /\ Head(Tail(todo)) = todo[2]
  <2>1. k \in 1..3 /\ k + 1 \in 1..4 /\ todo[2] = Steps[k + 1]
    BY <1>3, <1>6
  <2>2. Head(SubSeq(Steps, k + 1, 4)) = Steps[k + 1]
    BY <1>2, <2>1, HeadTailOfSubSeq
  <2> QED
    BY <1>4, <2>1, <2>2 DEF Suffix
<1>7. /\ Steps[1] = "activateRegistration" /\ Steps[2] = "registerAgents"
      /\ Steps[3] = "deploy" /\ Steps[4] = "createMech"
  BY DEF Steps
<1>8. ASSUME k \in 1..3
      PROVE  \/ Steps[k] = "activateRegistration" /\ Steps[k + 1] = "registerAgents"
             \/ Steps[k] = "registerAgents" /\ Steps[k + 1] = "deploy"
             \/ Steps[k] = "deploy" /\ Steps[k + 1] = "createMech"
  BY <1>7, <1>8
<1> QED
  BY <1>3, <1>4, <1>5, <1>6, <1>8, StepNames

LEMMA NextIsAStep ==
  ASSUME NEW state
  PROVE  \E k \in 1..4 : nextStepForState(state) = Steps[k]
<1>1. /\ Steps[1] = "activateRegistration" /\ Steps[2] = "registerAgents"
      /\ Steps[3] = "deploy" /\ Steps[4] = "createMech"
  BY DEF Steps
<1> QED
  BY <1>1 DEF nextStepForState

LEMMA RemainingFacts ==
  ASSUME NEW state
  PROVE  /\ Suffix(RemainingSteps(state))
         /\ Head(RemainingSteps(state)) = nextStepForState(state)
<1> DEFINE K == CHOOSE k \in 1..4 : Steps[k] = nextStepForState(state)
<1>1. \E k \in 1..4 : Steps[k] = nextStepForState(state)
  BY NextIsAStep
<1>2. K \in 1..4 /\ Steps[K] = nextStepForState(state)
  BY <1>1
<1> HIDE DEF K
<1>3. RemainingSteps(state) = SubSeq(Steps, K, 4)
  BY DEF RemainingSteps, K
<1>4. Head(SubSeq(Steps, K, 4)) = Steps[K]
  <2>1. Steps \in Seq(AllSteps) /\ Len(Steps) = 4
    BY StepNames DEF Steps
  <2> QED
    BY <1>2, <2>1, HeadTailOfSubSeq
<1> QED
  BY <1>2, <1>3, <1>4 DEF Suffix

(* Service ids are handed out from the size of the registry. *)
LEMMA IdFacts ==
  ASSUME NEW v \in [Services -> SERVICE_STATE]
  PROVE  /\ IsFiniteSet(Existing(v)) /\ Cardinality(Existing(v)) \in Nat /\ NextId(v) \in Nat /\ NextId(v) >= 1
         /\ NextId(v) = Cardinality(Existing(v)) + 1
         /\ IsFiniteSet(Owned(v))
<1>1. IsFiniteSet(Services)
  BY RegistrationBounds, FS_Interval DEF Services
<1>2. IsFiniteSet(Existing(v)) /\ IsFiniteSet(Owned(v))
  BY <1>1, FS_Subset DEF Existing, Owned
<1> QED
  BY <1>2, FS_CardinalityType DEF NextId

LEMMA IdsGrow ==
  ASSUME NEW v \in [Services -> SERVICE_STATE], NEW w \in [Services -> SERVICE_STATE],
         Existing(v) \subseteq Existing(w)
  PROVE  NextId(v) <= NextId(w)
BY IdFacts, FS_Subset DEF NextId

LEMMA ForeignFacts ==
  ASSUME foreign \subseteq Services
  PROVE  IsFiniteSet(foreign) /\ Cardinality(foreign) \in Nat
<1>1. IsFiniteSet(Services)
  BY RegistrationBounds, FS_Interval DEF Services
<1> QED
  BY <1>1, FS_Subset, FS_CardinalityType

(* A create takes the next id in order. *)
LEMMA CreateTakesNext ==
  ASSUME NEW v \in [Services -> SERVICE_STATE], NEW w \in [Services -> SERVICE_STATE],
         Existing(v) = 1..NextId(v) - 1, Existing(w) = Existing(v) \cup {NextId(v)}
  PROVE  NextId(w) = NextId(v) + 1 /\ Existing(w) = 1..NextId(w) - 1 /\ NextId(v) \notin Existing(v)
<1>1. NextId(v) \in Nat /\ NextId(v) >= 1 /\ NextId(v) \notin Existing(v)
  BY IdFacts
<1>2. Cardinality(Existing(w)) = Cardinality(Existing(v)) + 1
  BY <1>1, IdFacts, FS_AddElement
<1>3. NextId(w) = NextId(v) + 1
  BY <1>2, IdFacts
<1> QED
  BY <1>1, <1>3

-------------------------------------------------------------------------------
(* Type correctness.                                                         *)

PCs == {"idle", "resolve", "payload", "read", "perform", "sent", "visible", "confirm", "dead"}

LEMMA IdleIsAState == Idle \in RunStates
<1>1. <<>> \in Seq(AllSteps)
  BY EmptySeq
<1> QED
  BY <1>1, RegistrationBounds DEF Idle, RunStates

LEMMA BecomesTypes ==
  ASSUME TypeOK, NEW r \in Runs, NEW state \in RunStates, Becomes(r, state)
  PROVE  run' \in [Runs -> RunStates]
BY DEF Becomes, TypeOK

LEMMA LaunchTypes ==
  ASSUME TypeOK, NEW r \in Runs, NEW kind \in {"script", "full"}, NEW flag \in 0..MaxServices,
         NEW force \in BOOLEAN, NEW rate \in BOOLEAN, Launch(r, kind, flag, force, rate)
  PROVE  run' \in [Runs -> RunStates]
<1>1. [Idle EXCEPT !.pc = "resolve", !.flag = flag, !.force = force, !.rate = rate] \in RunStates
  BY IdleIsAState DEF RunStates
<1>2. [Idle EXCEPT !.pc = "read", !.kind = kind, !.id = flag, !.payload = "given",
                   !.observeOnly = FALSE] \in RunStates
  BY IdleIsAState DEF RunStates
<1> QED
  BY <1>1, <1>2, BecomesTypes DEF Launch

LEMMA TodoFacts ==
  ASSUME TypeOK, NEW r \in Runs, TodoStory(r), run[r].pc \in {"perform", "sent", "visible"}
  PROVE  /\ run[r].todo \in Seq(AllSteps) /\ run[r].todo # <<>>
         /\ Head(run[r].todo) \in AllSteps /\ Tail(run[r].todo) \in Seq(AllSteps)
         /\ run[r].todo = <<"create">> \/ Head(run[r].todo) # "create"
         /\ run[r].pc = "perform" /\ Head(run[r].todo) = "create" => run[r].id = 0
<1>1. ASSUME NEW k \in 1..4, run[r].todo = <<Steps[k]>>
      PROVE  Head(run[r].todo) # "create" /\ run[r].todo # <<>>
  BY <1>1, StepNames
<1>2. ASSUME Suffix(run[r].todo)
      PROVE  Head(run[r].todo) # "create" /\ run[r].todo # <<>>
  BY <1>2, SuffixFacts
<1>3. run[r].todo \in Seq(AllSteps)
  BY DEF TypeOK, RunStates
<1>4. \/ run[r].todo = <<"create">>
      \/ \E k \in 1..4 : run[r].todo = <<Steps[k]>>
      \/ Suffix(run[r].todo)
  BY DEF TodoStory
<1>5. <<"create">> # <<>>
  OBVIOUS
<1>6. run[r].todo # <<>> /\ (run[r].todo = <<"create">> \/ Head(run[r].todo) # "create")
  BY <1>1, <1>2, <1>4, <1>5
<1>7. run[r].pc = "perform" /\ Head(run[r].todo) = "create" => run[r].id = 0
  BY <1>1, <1>2 DEF TodoStory
<1> QED
  BY <1>3, <1>6, <1>7, HeadTailProperties

LEMMA ContinuesTypes ==
  ASSUME TypeOK, NEW r \in Runs, NEW id, Continues(r, id), TodoStory(r),
         run[r].pc \in {"perform", "sent", "visible"},
         run[r].kind = "full" /\ Head(run[r].todo) = "create" => id \in 0..MaxServices
  PROVE  run' \in [Runs -> RunStates]
<1>1. run[r] \in RunStates /\ Idle \in RunStates
  BY IdleIsAState DEF TypeOK
<1>2. <<>> \in Seq(AllSteps)
  BY EmptySeq
<1>3. id \in 0..MaxServices => [run[r] EXCEPT !.pc = "read", !.id = id, !.todo = <<>>] \in RunStates
  BY <1>1, <1>2 DEF RunStates
<1>4. [run[r] EXCEPT !.pc = "perform", !.todo = Tail(run[r].todo)] \in RunStates
  BY <1>1, TodoFacts DEF RunStates
<1>5. [run[r] EXCEPT !.pc = "confirm", !.shown = Head(run[r].todo), !.todo = <<>>] \in RunStates
  BY <1>1, <1>2, TodoFacts DEF RunStates
<1> QED
  BY <1>1, <1>3, <1>4, <1>5, BecomesTypes DEF Continues, Ends

(* A step of a run moves that run, and leaves the registry to the chain. *)
Acts(r) == Step(r) \/ Confirm(r) \/ Decline(r) \/ Kill(r)

LEMMA ActTypes ==
  ASSUME TypeOK, RunStory, RegistryStory, NEW r \in Runs, Acts(r)
  PROVE  run' \in [Runs -> RunStates]
<1>1. run[r] \in RunStates /\ TodoStory(r)
  BY DEF TypeOK, RunStory
<1>2. \A v \in {services, stale} : /\ v \in [Services -> SERVICE_STATE] /\ NextId(v) \in Nat
                                  /\ 1 <= NextId(v) /\ NextId(v) <= NextId(services)
  BY IdFacts, IdsGrow DEF TypeOK, RegistryStory
<1>3. Ends(r) => run' \in [Runs -> RunStates]
  BY IdleIsAState, BecomesTypes DEF Ends
<1>4. CASE ResolveDecision(r)
  <2>1. ASSUME NEW id \in 0..MaxServices
        PROVE  [run[r] EXCEPT !.pc = "payload", !.flag = 0, !.force = FALSE, !.id = id] \in RunStates
    <3>1. 0 \in 0..MaxServices
      BY RegistrationBounds
    <3> QED
      BY <1>1, <3>1 DEF RunStates
  <2>2. default \in 0..MaxServices /\ run[r].flag \in 0..MaxServices /\ 0 \in 0..MaxServices
    BY <1>1, RegistrationBounds DEF RunStates, TypeOK
  <2> QED
    BY <1>3, <1>4, <2>1, <2>2, BecomesTypes DEF ResolveDecision
<1>5. CASE ResolvePayload(r)
  <2>1. ASSUME NEW payload \in {"0x", "rate"}
        PROVE  [run[r] EXCEPT !.pc = "read", !.rate = FALSE, !.payload = payload] \in RunStates
    BY <1>1 DEF RunStates
  <2>2. \A step, rate : resolveMechPayload(step, rate) \in {"0x", "rate", "missing-delivery-rate"}
    BY DEF resolveMechPayload
  <2> QED
    BY <1>3, <1>5, <2>1, <2>2, BecomesTypes DEF ResolvePayload
<1>6. CASE ReadService(r)
  <2>1. ASSUME NEW todo \in Seq(AllSteps)
        PROVE  [run[r] EXCEPT !.pc = "perform", !.todo = todo] \in RunStates
    BY <1>1 DEF RunStates
  <2>2. <<"create">> \in Seq(AllSteps)
    BY StepNames
  <2>3. \A state : <<nextStepForState(state)>> \in Seq(AllSteps) /\ RemainingSteps(state) \in Seq(AllSteps)
    <3>1. \A state : nextStepForState(state) \in AllSteps
      BY StepNames DEF nextStepForState
    <3> QED
      BY <3>1, SuffixFacts, RemainingFacts
  <2> QED
    BY <1>3, <1>6, <2>1, <2>2, <2>3, BecomesTypes DEF ReadService
<1>7. CASE SimulateStep(r)
  <2>1. run[r].kind # "full"
    BY <1>1, <1>7 DEF SimulateStep, TodoStory
  <2> QED
    BY <1>1, <1>3, <1>7, <2>1, ContinuesTypes DEF SimulateStep
<1>8. CASE ExecuteStep(r)
  <2>1. PICK v \in {services, stale} :
          IF Permits(v, Head(run[r].todo), run[r].id, run[r].payload)
          THEN Becomes(r, [run[r] EXCEPT !.pc = "sent", !.id = IF Head(run[r].todo) = "create" THEN NextId(v) ELSE run[r].id, !.outcome = "none"])
          ELSE Ends(r)
    BY <1>8 DEF ExecuteStep
  <2>2. CASE Permits(v, Head(run[r].todo), run[r].id, run[r].payload)
    <3> DEFINE id == IF Head(run[r].todo) = "create" THEN NextId(v) ELSE run[r].id
    <3>1. Head(run[r].todo) = "create" => NextId(services) <= MaxServices
      BY <2>2 DEF Permits
    <3>2. id \in 0..MaxServices
      BY <1>1, <1>2, <3>1, RegistrationBounds DEF RunStates
    <3> HIDE DEF id
    <3>3. [run[r] EXCEPT !.pc = "sent", !.id = id, !.outcome = "none"] \in RunStates
      BY <1>1, <3>2 DEF RunStates
    <3> QED
      BY <2>1, <2>2, <3>3, BecomesTypes DEF id
  <2> QED
    BY <1>3, <2>1, <2>2
<1>9. CASE Receipt(r)
  <2>1. [run[r] EXCEPT !.pc = "visible", !.attempts = 0] \in RunStates /\ run[r].id \in 0..MaxServices
    <3>1. 0 \in 0..MaxAttempts - 1
      BY RegistrationBounds
    <3> QED
      BY <1>1, <3>1 DEF RunStates
  <2> QED
    BY <1>1, <1>9, <2>1, BecomesTypes, ContinuesTypes DEF Receipt
<1>10. CASE CreateMechReceipt(r)
  BY <1>1, <1>3, <1>10, ContinuesTypes DEF CreateMechReceipt, RunStates
<1>11. CASE waitForServiceVisible(r)
  <2>1. run[r].id \in 0..MaxServices /\ run[r].attempts \in 0..MaxAttempts - 1
    BY <1>1 DEF RunStates
  <2>2. ASSUME run[r].attempts + 1 # MaxAttempts
        PROVE  [run[r] EXCEPT !.attempts = run[r].attempts + 1] \in RunStates
    <3>1. run[r].attempts + 1 \in 0..MaxAttempts - 1
      BY <2>1, <2>2, RegistrationBounds
    <3> QED
      BY <1>1, <3>1 DEF RunStates
  <2> QED
    BY <1>1, <1>3, <1>11, <2>1, <2>2, BecomesTypes, ContinuesTypes DEF waitForServiceVisible
<1>12. CASE Reap(r) \/ Decline(r)
  BY <1>3, <1>12 DEF Reap, Decline
<1>13. CASE Confirm(r)
  <2>1. [run[r] EXCEPT !.pc = "read", !.observeOnly = FALSE] \in RunStates
    BY <1>1 DEF RunStates
  <2> QED
    BY <1>13, <2>1, BecomesTypes DEF Confirm
<1>14. CASE Kill(r)
  <2>1. [Idle EXCEPT !.pc = "dead"] \in RunStates
    BY IdleIsAState DEF RunStates
  <2> QED
    BY <1>3, <1>14, <2>1, BecomesTypes DEF Kill
<1> QED
  BY <1>4, <1>5, <1>6, <1>7, <1>8, <1>9, <1>10, <1>11, <1>12, <1>13, <1>14 DEF Acts, Step

Counts(r) ==
  \/ orphans' = orphans /\ kills' = kills /\ lags' = lags
  \/ orphans' = orphans /\ kills' = kills /\ lags' = lags + 1 /\ MayFail
  \/ lags' = lags /\ kills' = kills + 1 /\ orphans' \in {orphans, orphans + 1} /\ MayFail

LEMMA ActFrame ==
  ASSUME TypeOK, NEW r \in Runs, Acts(r)
  PROVE  /\ \E state : Becomes(r, state)
         /\ UNCHANGED <<services, foreign, stale, mechs, reverted, default, overlaps, forces>>
         /\ Counts(r)
         /\ mempool' = mempool \/ ExecuteStep(r)
<1> USE DEF chain, faults
<1>1. \A v : Reads(v) => lags' = lags \/ (lags' = lags + 1 /\ MayFail)
  BY DEF Reads
<1>2. \A id : Continues(r, id) => \E state : Becomes(r, state)
  BY DEF Continues, Ends
<1>3. CASE ResolveDecision(r)
  BY <1>1, <1>3 DEF ResolveDecision, Ends, Counts
<1>4. CASE ResolvePayload(r)
  BY <1>1, <1>4 DEF ResolvePayload, Ends, Counts
<1>5. CASE ReadService(r)
  BY <1>1, <1>5 DEF ReadService, Ends, Counts
<1>6. CASE SimulateStep(r)
  BY <1>1, <1>2, <1>6 DEF SimulateStep, Ends, Counts
<1>7. CASE ExecuteStep(r)
  BY <1>1, <1>7 DEF ExecuteStep, Ends, Counts
<1>8. CASE Receipt(r)
  BY <1>2, <1>8 DEF Receipt, Counts
<1>9. CASE CreateMechReceipt(r)
  BY <1>2, <1>9 DEF CreateMechReceipt, Ends, Counts
<1>10. CASE waitForServiceVisible(r)
  BY <1>1, <1>2, <1>10 DEF waitForServiceVisible, Ends, Counts
<1>11. CASE Reap(r) \/ Decline(r) \/ Confirm(r)
  BY <1>11 DEF Reap, Decline, Confirm, Ends, Counts
<1>12. CASE Kill(r)
  BY <1>12 DEF Kill, Ends, Counts
<1> QED
  BY <1>3, <1>4, <1>5, <1>6, <1>7, <1>8, <1>9, <1>10, <1>11, <1>12 DEF Acts, Step

LEMMA SentTransaction ==
  ASSUME TypeOK, RunStory, NEW r \in Runs, ExecuteStep(r), mempool' # mempool
  PROVE  LET t == [run |-> r, step |-> Head(run[r].todo), service |-> run[r].id,
                   payload |-> run[r].payload] IN
         /\ t \in Transactions /\ mempool' = mempool \cup {t}
         /\ run'[r].pc = "sent" /\ run'[r].outcome = "none" /\ run'[r].todo = run[r].todo
         /\ t.step # "create" => run'[r].id = run[r].id
<1>1. run[r] \in RunStates /\ TodoStory(r) /\ run[r].pc = "perform"
  BY DEF TypeOK, RunStory, ExecuteStep
<1>2. Head(run[r].todo) \in AllSteps
  BY <1>1, TodoFacts
<1>3. /\ run[r].id \in 0..MaxServices /\ run[r].payload \in {"0x", "rate", "given", "hash"}
  BY <1>1 DEF RunStates
<1>4. PICK id : /\ Becomes(r, [run[r] EXCEPT !.pc = "sent", !.id = id, !.outcome = "none"])
                /\ Head(run[r].todo) # "create" => id = run[r].id
                /\ mempool' = mempool \cup {[run |-> r, step |-> Head(run[r].todo), service |-> run[r].id,
                                             payload |-> run[r].payload]}
  BY DEF ExecuteStep
<1>5. run'[r] = [run[r] EXCEPT !.pc = "sent", !.id = id, !.outcome = "none"]
  BY <1>4 DEF Becomes, TypeOK
<1>6. run'[r].pc = "sent" /\ run'[r].outcome = "none" /\ run'[r].todo = run[r].todo /\ run'[r].id = id
  BY <1>1, <1>5 DEF RunStates
<1> QED
  BY <1>2, <1>3, <1>4, <1>6 DEF Transactions

LEMMA ActKeepsTypes ==
  ASSUME TypeOK, RunStory, RegistryStory, NEW r \in Runs, Acts(r)
  PROVE  TypeOK'
<1>1. run' \in [Runs -> RunStates]
  BY ActTypes
<1>2. mempool' \subseteq Transactions
  BY ActFrame, SentTransaction DEF TypeOK
<1>3. /\ overlaps' \in Nat /\ lags' \in Nat /\ kills' \in Nat
      /\ Troubles' <= MaxFaults /\ orphans' \in 0..kills'
  <2>1. /\ overlaps \in Nat /\ lags \in Nat /\ kills \in Nat /\ orphans \in 0..kills
        /\ overlaps + lags + kills + Cardinality(foreign) <= MaxFaults
        /\ Cardinality(foreign) \in Nat /\ foreign' = foreign /\ overlaps' = overlaps /\ Counts(r)
    BY ActFrame, ForeignFacts DEF TypeOK, Troubles
  <2>2. CASE orphans' = orphans /\ kills' = kills /\ lags' = lags
    BY <2>1, <2>2 DEF Troubles
  <2>3. CASE orphans' = orphans /\ kills' = kills /\ lags' = lags + 1 /\ MayFail
    BY <2>1, <2>3, RegistrationBounds DEF MayFail, Troubles
  <2>4. CASE lags' = lags /\ kills' = kills + 1 /\ orphans' \in {orphans, orphans + 1} /\ MayFail
    BY <2>1, <2>4, RegistrationBounds DEF MayFail, Troubles
  <2> QED
    BY <2>1, <2>2, <2>3, <2>4 DEF Counts
<1> QED
  BY <1>1, <1>2, <1>3, ActFrame DEF TypeOK

LEMMA LaunchFrame ==
  ASSUME TypeOK, NEW r \in Runs, NEW kind \in {"script", "full"}, NEW flag \in 0..MaxServices,
         NEW force \in BOOLEAN, NEW rate \in BOOLEAN, Launch(r, kind, flag, force, rate)
  PROVE  /\ TypeOK'
         /\ UNCHANGED <<services, foreign, stale, mechs, mempool, reverted, default, orphans, lags>>
         /\ overlaps' # 0 \/ (overlaps' = overlaps /\ \A o \in Runs : run[o].pc \in {"idle", "dead"})
         /\ forces' = IF force \/ (kind = "full" /\ flag = 0) THEN 1 ELSE forces
<1>1. run' \in [Runs -> RunStates]
  BY LaunchTypes
<1>2. /\ overlaps' \in Nat /\ lags' \in Nat /\ kills' \in Nat
      /\ Troubles' <= MaxFaults /\ orphans' \in 0..kills'
      /\ overlaps' # 0 \/ (overlaps' = overlaps /\ \A o \in Runs : run[o].pc \in {"idle", "dead"})
  BY RegistrationBounds, ForeignFacts DEF TypeOK, Launch, MayFail, Troubles, chain
<1> QED
  BY <1>1, <1>2 DEF TypeOK, Launch, chain

(* What a step does to the registry. *)
LEMMA AdvancedRegistry ==
  ASSUME NEW v \in [Services -> SERVICE_STATE], NEW step \in AllSteps, NEW id,
         IF step = "create" THEN NextId(v) \in Services ELSE id \in Existing(v)
  PROVE  /\ Advanced(v, step, id) \in [Services -> SERVICE_STATE]
         /\ Existing(Advanced(v, step, id)) = IF step = "create" THEN Existing(v) \cup {NextId(v)} ELSE Existing(v)
<1>1. CASE step = "create"
  BY <1>1 DEF Advanced, SERVICE_STATE, Existing
<1>2. CASE step = "activateRegistration"
  BY <1>2 DEF Advanced, SERVICE_STATE, Existing
<1>3. CASE step = "registerAgents"
  BY <1>3 DEF Advanced, SERVICE_STATE, Existing
<1>4. CASE step = "deploy"
  BY <1>4 DEF Advanced, SERVICE_STATE, Existing
<1>5. CASE step = "createMech"
  BY <1>5 DEF Advanced
<1> QED
  BY <1>1, <1>2, <1>3, <1>4, <1>5, StepNames

LEMMA MinedRegistry ==
  ASSUME TypeOK, NEW t \in mempool, MempoolStory, RegistryStory,
         Permits(services, t.step, t.service, t.payload)
  PROVE  LET after == Advanced(services, t.step, t.service) IN
         /\ after \in [Services -> SERVICE_STATE] /\ Existing(services) \subseteq Existing(after)
         /\ Existing(after) = 1..NextId(after) - 1
         /\ t.step = "create" => /\ NextId(services) \in Services /\ NextId(after) = NextId(services) + 1
                                 /\ NextId(services) \notin foreign
                                 /\ Existing(after) = Existing(services) \cup {NextId(services)}
         /\ t.step # "create" => Existing(after) = Existing(services) /\ NextId(after) = NextId(services)
<1>1. t \in Transactions /\ services \in [Services -> SERVICE_STATE] /\ t.step \in AllSteps
  BY DEF TypeOK, Transactions
<1>2. t.step = "create" => NextId(services) \in Services
  BY <1>1, IdFacts, RegistrationBounds DEF Permits, Services
<1>3. ASSUME t.step # "create"
      PROVE  t.service \in Existing(services)
  <2>1. t.service \in Services
    BY <1>3 DEF MempoolStory
  <2> QED
    BY <1>1, <1>3, <2>1, StepNames DEF Permits, Existing
<1> DEFINE after == Advanced(services, t.step, t.service)
<1>4. /\ after \in [Services -> SERVICE_STATE]
      /\ Existing(after) = IF t.step = "create" THEN Existing(services) \cup {NextId(services)} ELSE Existing(services)
  BY <1>1, <1>2, <1>3, AdvancedRegistry
<1> HIDE DEF after
<1>5. ASSUME t.step = "create"
      PROVE  /\ NextId(after) = NextId(services) + 1 /\ NextId(services) \notin foreign
             /\ Existing(after) = 1..NextId(after) - 1
  BY <1>1, <1>4, <1>5, CreateTakesNext DEF RegistryStory
<1>6. ASSUME t.step # "create"
      PROVE  NextId(after) = NextId(services) /\ Existing(after) = 1..NextId(after) - 1
  <2>1. NextId(after) = NextId(services)
    BY <1>4, <1>6 DEF NextId
  <2> QED
    BY <1>4, <1>6, <2>1 DEF RegistryStory
<1>7. /\ after \in [Services -> SERVICE_STATE] /\ Existing(services) \subseteq Existing(after)
      /\ Existing(after) = 1..NextId(after) - 1
      /\ t.step = "create" => /\ NextId(services) \in Services /\ NextId(after) = NextId(services) + 1
                              /\ NextId(services) \notin foreign
                              /\ Existing(after) = Existing(services) \cup {NextId(services)}
      /\ t.step # "create" => Existing(after) = Existing(services) /\ NextId(after) = NextId(services)
  BY <1>2, <1>4, <1>5, <1>6
<1> QED
  BY <1>7 DEF after

LEMMA MineKeepsTypes ==
  ASSUME TypeOK, MempoolStory, PayloadStory, RegistryStory, NEW t \in mempool, Mine(t)
  PROVE  TypeOK'
<1> DEFINE ok == Permits(services, t.step, t.service, t.payload)
           minted == IF ok /\ t.step = "create" THEN NextId(services) ELSE 0
<1>1. t \in Transactions /\ run[t.run] \in RunStates /\ t.run \in Runs
  BY DEF TypeOK, Transactions
<1>2. services' \in [Services -> SERVICE_STATE] /\ stale' \in [Services -> SERVICE_STATE]
  BY MinedRegistry DEF Mine, TypeOK
<1>3. minted \in 0..MaxServices
  <2>1. ok /\ t.step = "create" => NextId(services) \in Services
    BY MinedRegistry
  <2>2. 0 \in 0..MaxServices
    BY RegistrationBounds
  <2> QED
    BY <2>1, <2>2 DEF Services
<1>4. mechs' \in Seq(Mechs)
  <2>1. CASE ok /\ t.step = "createMech"
    <3>1. [service |-> t.service, payload |-> t.payload] \in Mechs
      BY <1>1, <2>1 DEF Transactions, MempoolStory, Permits, Mechs
    <3>2. mechs' = Append(mechs, [service |-> t.service, payload |-> t.payload])
      BY <2>1 DEF Mine
    <3> QED
      BY <3>1, <3>2, AppendProperties DEF TypeOK
  <2>2. CASE ~(ok /\ t.step = "createMech")
    BY <2>2 DEF Mine, TypeOK
  <2> QED
    BY <2>1, <2>2
<1>5. run' \in [Runs -> RunStates]
  <2>1. ASSUME NEW outcome \in {"ok", "reverted"}, NEW id \in 0..MaxServices
        PROVE  [run[t.run] EXCEPT !.outcome = outcome, !.minted = id] \in RunStates
    BY <1>1 DEF RunStates
  <2>2. Becomes(t.run, [run[t.run] EXCEPT !.outcome = IF ok THEN "ok" ELSE "reverted", !.minted = minted])
    BY DEF Mine
  <2> HIDE DEF ok, minted
  <2> QED
    BY <1>1, <1>3, <2>1, <2>2, BecomesTypes
<1>6. reverted' \in BOOLEAN
  BY DEF Mine, TypeOK
<1> QED
  BY <1>2, <1>4, <1>5, <1>6 DEF Mine, TypeOK, Troubles, faults

-------------------------------------------------------------------------------
(* The stories of a single run.                                              *)

LEMMA BecomesFacts ==
  ASSUME TypeOK, NEW r \in Runs, NEW state, Becomes(r, state)
  PROVE  run'[r] = state /\ \A q \in Runs : q # r => run'[q] = run[q]
BY DEF Becomes, TypeOK

(* What follows a step: registerAsMech reads on after a create or takes the  *)
(* next step, the script asks for a confirmation or ends.                    *)
LEMMA ContinuesTo ==
  ASSUME TypeOK, NEW r \in Runs, NEW id, Continues(r, id), TodoStory(r),
         run[r].pc \in {"perform", "sent", "visible"}
  PROVE  \/ /\ run'[r] = [run[r] EXCEPT !.pc = "read", !.id = id, !.todo = <<>>]
            /\ run[r].kind = "full" /\ run[r].todo = <<"create">>
         \/ /\ run'[r] = [run[r] EXCEPT !.pc = "perform", !.todo = Tail(run[r].todo)]
            /\ run[r].kind = "full" /\ Len(run[r].todo) > 1 /\ Suffix(run[r].todo)
            /\ run[r].id \in Services
         \/ /\ run'[r] = [run[r] EXCEPT !.pc = "confirm", !.shown = Head(run[r].todo), !.todo = <<>>]
            /\ run[r].kind = "script" /\ run[r].observeOnly
         \/ run'[r] = Idle
<1>1. Head(run[r].todo) = "create" => run[r].todo = <<"create">>
  BY TodoFacts
<1>2. Len(run[r].todo) > 1 => run[r].kind = "full" /\ Suffix(run[r].todo) /\ run[r].id \in Services
  <2> SUFFICES ASSUME Len(run[r].todo) > 1
               PROVE  run[r].kind = "full" /\ Suffix(run[r].todo) /\ run[r].id \in Services
    OBVIOUS
  <2>1. ASSUME NEW x, run[r].todo = <<x>>
        PROVE  FALSE
    <3>1. Len(<<x>>) = 1
      OBVIOUS
    <3> QED
      BY <2>1, <3>1
  <2>2. run[r].kind \in {"script", "full"}
    BY DEF TypeOK, RunStates
  <2> QED
    BY <2>1, <2>2 DEF TodoStory
<1> QED
  BY <1>1, <1>2, BecomesFacts DEF Continues, Ends

LEMMA IdleKeepsTodo ==
  ASSUME NEW r, run'[r] = Idle
  PROVE  TodoStory(r)'
BY DEF TodoStory, Idle

LEMMA ContinuesKeepsTodo ==
  ASSUME TypeOK, NEW r \in Runs, NEW id, Continues(r, id), TodoStory(r),
         run[r].pc \in {"perform", "sent", "visible"}
  PROVE  TodoStory(r)'
<1>1. run[r] \in RunStates
  BY DEF TypeOK
<1>2. CASE run'[r] = [run[r] EXCEPT !.pc = "read", !.id = id, !.todo = <<>>]
  BY <1>1, <1>2 DEF RunStates, TodoStory
<1>3. CASE /\ run'[r] = [run[r] EXCEPT !.pc = "perform", !.todo = Tail(run[r].todo)]
           /\ run[r].kind = "full" /\ Len(run[r].todo) > 1 /\ Suffix(run[r].todo)
           /\ run[r].id \in Services
  <2>1. Suffix(Tail(run[r].todo))
    BY <1>3, SuffixFacts
  <2> QED
    BY <1>1, <1>3, <2>1 DEF RunStates, TodoStory
<1>4. CASE /\ run'[r] = [run[r] EXCEPT !.pc = "confirm", !.shown = Head(run[r].todo), !.todo = <<>>]
           /\ run[r].kind = "script" /\ run[r].observeOnly
  BY <1>1, <1>4 DEF RunStates, TodoStory
<1> QED
  BY <1>2, <1>3, <1>4, ContinuesTo, IdleKeepsTodo

LEMMA ActKeepsTodo ==
  ASSUME TypeOK, RunStory, RegistryStory, NEW r \in Runs, Acts(r)
  PROVE  TodoStory(r)'
<1>1. run[r] \in RunStates /\ TodoStory(r)
  BY DEF TypeOK, RunStory
<1>2. Ends(r) => TodoStory(r)'
  BY BecomesFacts, IdleKeepsTodo DEF Ends
<1>3. CASE ResolveDecision(r)
  <2>1. ASSUME NEW id, Becomes(r, [run[r] EXCEPT !.pc = "payload", !.flag = 0, !.force = FALSE, !.id = id])
        PROVE  TodoStory(r)'
    <3>1. run'[r] = [run[r] EXCEPT !.pc = "payload", !.flag = 0, !.force = FALSE, !.id = id]
      BY <2>1, BecomesFacts
    <3> QED
      BY <1>1, <1>3, <3>1 DEF TodoStory, RunStates, ResolveDecision
  <2> QED
    BY <1>2, <1>3, <2>1 DEF ResolveDecision
<1>4. CASE ResolvePayload(r)
  <2>1. ASSUME NEW payload, Becomes(r, [run[r] EXCEPT !.pc = "read", !.rate = FALSE, !.payload = payload])
        PROVE  TodoStory(r)'
    <3>1. run'[r] = [run[r] EXCEPT !.pc = "read", !.rate = FALSE, !.payload = payload]
      BY <2>1, BecomesFacts
    <3> QED
      BY <1>1, <1>4, <3>1 DEF TodoStory, RunStates, ResolvePayload
  <2> QED
    BY <1>2, <1>4, <2>1 DEF ResolvePayload
<1>5. CASE ReadService(r)
  <2>1. ASSUME NEW todo, Becomes(r, [run[r] EXCEPT !.pc = "perform", !.todo = todo]),
               \/ run[r].id = 0 /\ todo = <<"create">>
               \/ /\ run[r].id \in Services
                  /\ IF run[r].kind = "script" THEN \E k \in 1..4 : todo = <<Steps[k]>> ELSE Suffix(todo)
        PROVE  TodoStory(r)'
    <3>1. run'[r] = [run[r] EXCEPT !.pc = "perform", !.todo = todo]
      BY <2>1, BecomesFacts
    <3> QED
      BY <1>1, <1>5, <2>1, <3>1 DEF TodoStory, RunStates, ReadService
  <2>2. ASSUME NEW state
        PROVE  IF run[r].kind = "script"
               THEN \E k \in 1..4 : <<nextStepForState(state)>> = <<Steps[k]>>
               ELSE Suffix(RemainingSteps(state))
    <3>1. \E k \in 1..4 : nextStepForState(state) = Steps[k]
      BY NextIsAStep
    <3> QED
      BY <3>1, RemainingFacts
  <2>3. CASE run[r].id = 0
    BY <1>5, <2>1, <2>3 DEF ReadService
  <2>4. CASE run[r].id # 0
    <3>1. PICK state : /\ state \in RESUMABLE_STATES => run[r].id \in Services
                       /\ IF state \notin RESUMABLE_STATES THEN Ends(r)
                          ELSE Becomes(r, [run[r] EXCEPT !.pc = "perform", !.todo = IF run[r].kind = "script" THEN <<nextStepForState(state)>> ELSE RemainingSteps(state)])
      BY <1>5, <2>4 DEF ReadService, RESUMABLE_STATES
    <3> QED
      BY <1>2, <2>1, <2>2, <3>1
  <2> QED
    BY <2>3, <2>4
<1>6. CASE SimulateStep(r)
  BY <1>1, <1>2, <1>6, ContinuesKeepsTodo DEF SimulateStep
<1>7. CASE ExecuteStep(r)
  <2>1. PICK v \in {services, stale} :
          IF Permits(v, Head(run[r].todo), run[r].id, run[r].payload)
          THEN Becomes(r, [run[r] EXCEPT !.pc = "sent", !.id = IF Head(run[r].todo) = "create" THEN NextId(v) ELSE run[r].id, !.outcome = "none"])
          ELSE Ends(r)
    BY <1>7 DEF ExecuteStep
  <2>2. CASE Permits(v, Head(run[r].todo), run[r].id, run[r].payload)
    <3> DEFINE id == IF Head(run[r].todo) = "create" THEN NextId(v) ELSE run[r].id
    <3>1. run'[r] = [run[r] EXCEPT !.pc = "sent", !.id = id, !.outcome = "none"]
      BY <2>1, <2>2, BecomesFacts
    <3>2. run[r].pc = "perform" /\ ~run[r].observeOnly
      BY <1>7 DEF ExecuteStep
    <3>3. CASE Head(run[r].todo) = "create"
      <4>1. id \in Services
        <5>1. NextId(v) <= NextId(services) /\ NextId(v) \in Nat /\ NextId(v) >= 1 /\ NextId(services) \in Nat
          BY IdFacts, IdsGrow DEF TypeOK, RegistryStory
        <5>2. NextId(services) <= MaxServices
          BY <2>2, <3>3 DEF Permits
        <5> QED
          BY <3>3, <5>1, <5>2, RegistrationBounds DEF Services
      <4>2. run[r].todo = <<"create">>
        BY <1>1, <3>2, <3>3, TodoFacts
      <4> HIDE DEF id
      <4> QED
        BY <1>1, <3>1, <3>2, <4>1, <4>2 DEF TodoStory, RunStates
    <3>4. CASE Head(run[r].todo) # "create"
      <4>1. id = run[r].id /\ run[r].todo # <<"create">>
        BY <3>4
      <4> HIDE DEF id
      <4> QED
        BY <1>1, <3>1, <3>2, <4>1 DEF TodoStory, RunStates
    <3> QED
      BY <3>3, <3>4
  <2> QED
    BY <1>2, <2>1, <2>2
<1>8. CASE Receipt(r)
  <2>1. CASE Head(run[r].todo) = "create"
    <3>1. run'[r] = [run[r] EXCEPT !.pc = "visible", !.attempts = 0] /\ run[r].todo = <<"create">> /\ run[r].pc = "sent"
      BY <1>1, <1>8, <2>1, BecomesFacts, TodoFacts DEF Receipt
    <3> QED
      BY <1>1, <3>1 DEF TodoStory, RunStates
  <2> QED
    BY <1>1, <1>8, <2>1, ContinuesKeepsTodo DEF Receipt
<1>9. CASE CreateMechReceipt(r)
  BY <1>1, <1>2, <1>9, ContinuesKeepsTodo DEF CreateMechReceipt
<1>10. CASE waitForServiceVisible(r)
  <2>1. CASE Becomes(r, [run[r] EXCEPT !.attempts = run[r].attempts + 1])
    <3>1. run'[r] = [run[r] EXCEPT !.attempts = run[r].attempts + 1]
      BY <2>1, BecomesFacts
    <3> QED
      BY <1>1, <1>10, <3>1 DEF TodoStory, RunStates, waitForServiceVisible
  <2> QED
    BY <1>1, <1>2, <1>10, <2>1, ContinuesKeepsTodo DEF waitForServiceVisible
<1>11. CASE Reap(r) \/ Decline(r)
  BY <1>2, <1>11 DEF Reap, Decline
<1>12. CASE Confirm(r)
  <2>1. run'[r] = [run[r] EXCEPT !.pc = "read", !.observeOnly = FALSE] /\ run[r].pc = "confirm"
    BY <1>12, BecomesFacts DEF Confirm
  <2> QED
    BY <1>1, <2>1 DEF TodoStory, RunStates
<1>13. CASE Kill(r)
  <2>1. ASSUME Becomes(r, [Idle EXCEPT !.pc = "dead"])
        PROVE  TodoStory(r)'
    <3>1. run'[r] = [Idle EXCEPT !.pc = "dead"]
      BY <2>1, BecomesFacts
    <3> QED
      BY <3>1 DEF TodoStory, Idle
  <2> QED
    BY <1>2, <1>13, <2>1 DEF Kill
<1> QED
  BY <1>3, <1>4, <1>5, <1>6, <1>7, <1>8, <1>9, <1>10, <1>11, <1>12, <1>13 DEF Acts, Step

(* The stories of all runs, of the mempool and of the payloads. *)
BaseStory == MempoolStory /\ PayloadStory /\ RegistryStory /\ RunStory

LEMMA ActKeepsMempool ==
  ASSUME TypeOK, MempoolStory, RunStory, NEW r \in Runs, Acts(r)
  PROVE  MempoolStory'
<1>1. \A q \in Runs : q # r => run'[q] = run[q]
  BY ActFrame, BecomesFacts
<1>2. \A t \in mempool : t \in Transactions /\ t.run \in Runs
  BY DEF TypeOK, Transactions
<1>3. CASE ExecuteStep(r) /\ mempool' # mempool
  <2> DEFINE t == [run |-> r, step |-> Head(run[r].todo), service |-> run[r].id, payload |-> run[r].payload]
  <2>1. /\ t \in Transactions /\ mempool' = mempool \cup {t}
        /\ run'[r].pc = "sent" /\ run'[r].outcome = "none" /\ run'[r].todo = run[r].todo
        /\ t.step # "create" => run'[r].id = run[r].id
    BY <1>3, SentTransaction
  <2>2. \A u \in mempool : u.run # r
    BY <1>3 DEF MempoolStory, ExecuteStep
  <2>3. IF t.step = "create" THEN t.service = 0 ELSE t.service \in Services
    <3>1. TodoStory(r) /\ run[r].pc = "perform"
      BY <1>3 DEF RunStory, ExecuteStep
    <3>2. Head(<<"create">>) = "create"
      OBVIOUS
    <3> QED
      BY <3>1, <3>2, TodoFacts DEF TodoStory
  <2>4. /\ t.run = r /\ t.step = Head(run[r].todo) /\ t.service = run[r].id
    OBVIOUS
  <2> HIDE DEF t
  <2> QED
    BY <1>1, <1>2, <2>1, <2>2, <2>3, <2>4 DEF MempoolStory
<1>4. CASE mempool' = mempool
  <2>1. ASSUME NEW t \in mempool, t.run = r
        PROVE  \/ run'[r].pc = "dead"
               \/ run'[r] = run[r]
    <3>1. run[r].pc = "dead" \/ (run[r].pc = "sent" /\ run[r].outcome = "none")
      BY <2>1 DEF MempoolStory
    <3>2. Kill(r)
      BY <2>1, <3>1 DEF Acts, Step, ResolveDecision, ResolvePayload, ReadService, SimulateStep, ExecuteStep,
           Receipt, CreateMechReceipt, waitForServiceVisible, Reap, Confirm, Decline
    <3>3. run'[r] = [Idle EXCEPT !.pc = "dead"]
      BY <2>1, <3>2, BecomesFacts DEF Kill
    <3> QED
      BY <3>3 DEF Idle
  <2> QED
    BY <1>1, <1>2, <1>4, <2>1 DEF MempoolStory
<1> QED
  BY <1>3, <1>4, ActFrame

LEMMA ActKeepsPayload ==
  ASSUME TypeOK, PayloadStory, RunStory, NEW r \in Runs, Acts(r)
  PROVE  PayloadStory'
<1>1. \A q \in Runs : q # r => run'[q] = run[q]
  BY ActFrame, BecomesFacts
<1>2. run[r] \in RunStates /\ TodoStory(r) /\ run[r].payload # "hash"
  BY DEF TypeOK, RunStory, PayloadStory
<1>3. Ends(r) => run'[r].payload # "hash"
  BY BecomesFacts DEF Ends, Idle
<1>4. ASSUME NEW id, Continues(r, id), run[r].pc \in {"perform", "sent", "visible"}
      PROVE  run'[r].payload # "hash"
  <2>1. ASSUME NEW todo, NEW shown,
               \/ run'[r] = [run[r] EXCEPT !.pc = "read", !.id = id, !.todo = todo]
               \/ run'[r] = [run[r] EXCEPT !.pc = "perform", !.todo = todo]
               \/ run'[r] = [run[r] EXCEPT !.pc = "confirm", !.shown = shown, !.todo = todo]
        PROVE  run'[r].payload # "hash"
    BY <1>2, <2>1 DEF RunStates
  <2>2. run'[r] = Idle => run'[r].payload # "hash"
    BY DEF Idle
  <2> QED
    BY <1>2, <1>4, <2>1, <2>2, ContinuesTo
<1>5. run'[r].payload # "hash"
  <2>1. CASE ResolveDecision(r)
    <3>1. ASSUME NEW id, Becomes(r, [run[r] EXCEPT !.pc = "payload", !.flag = 0, !.force = FALSE, !.id = id])
          PROVE  run'[r].payload # "hash"
      <4>1. run'[r] = [run[r] EXCEPT !.pc = "payload", !.flag = 0, !.force = FALSE, !.id = id]
        BY <3>1, BecomesFacts
      <4> QED
        BY <1>2, <3>1, <4>1 DEF RunStates
    <3> QED
      BY <1>3, <2>1, <3>1 DEF ResolveDecision
  <2>2. CASE ResolvePayload(r)
    <3>1. ASSUME NEW payload, Becomes(r, [run[r] EXCEPT !.pc = "read", !.rate = FALSE, !.payload = payload]),
                 payload # "hash"
          PROVE  run'[r].payload # "hash"
      <4>1. run'[r] = [run[r] EXCEPT !.pc = "read", !.rate = FALSE, !.payload = payload]
        BY <3>1, BecomesFacts
      <4> QED
        BY <1>2, <3>1, <4>1 DEF RunStates
    <3>2. \A step, rate : resolveMechPayload(step, rate) # "hash"
      BY DEF resolveMechPayload
    <3> QED
      BY <1>3, <2>2, <3>1, <3>2 DEF ResolvePayload
  <2>3. CASE ReadService(r)
    <3>1. ASSUME NEW todo, Becomes(r, [run[r] EXCEPT !.pc = "perform", !.todo = todo])
          PROVE  run'[r].payload # "hash"
      <4>1. run'[r] = [run[r] EXCEPT !.pc = "perform", !.todo = todo]
        BY <3>1, BecomesFacts
      <4> QED
        BY <1>2, <3>1, <4>1 DEF RunStates
    <3> QED
      BY <1>3, <2>3, <3>1 DEF ReadService
  <2>4. CASE SimulateStep(r)
    BY <1>3, <1>4, <2>4 DEF SimulateStep
  <2>5. CASE ExecuteStep(r)
    <3>1. ASSUME NEW id, Becomes(r, [run[r] EXCEPT !.pc = "sent", !.id = id, !.outcome = "none"])
          PROVE  run'[r].payload # "hash"
      <4>1. run'[r] = [run[r] EXCEPT !.pc = "sent", !.id = id, !.outcome = "none"]
        BY <3>1, BecomesFacts
      <4> QED
        BY <1>2, <3>1, <4>1 DEF RunStates
    <3> QED
      BY <1>3, <2>5, <3>1 DEF ExecuteStep
  <2>6. CASE Receipt(r)
    <3>1. CASE Head(run[r].todo) = "create"
      <4>1. run'[r] = [run[r] EXCEPT !.pc = "visible", !.attempts = 0]
        BY <2>6, <3>1, BecomesFacts DEF Receipt
      <4> QED
        BY <1>2, <4>1 DEF RunStates
    <3> QED
      BY <1>4, <2>6, <3>1 DEF Receipt
  <2>7. CASE CreateMechReceipt(r)
    BY <1>3, <1>4, <2>7 DEF CreateMechReceipt
  <2>8. CASE waitForServiceVisible(r)
    <3>1. CASE Becomes(r, [run[r] EXCEPT !.attempts = run[r].attempts + 1])
      BY <1>2, <3>1, BecomesFacts DEF RunStates
    <3> QED
      BY <1>3, <1>4, <2>8, <3>1 DEF waitForServiceVisible
  <2>9. CASE Reap(r) \/ Decline(r)
    BY <1>3, <2>9 DEF Reap, Decline
  <2>10. CASE Confirm(r)
    <3>1. run'[r] = [run[r] EXCEPT !.pc = "read", !.observeOnly = FALSE]
      BY <2>10, BecomesFacts DEF Confirm
    <3> QED
      BY <1>2, <3>1 DEF RunStates
  <2>11. CASE Kill(r)
    BY <1>3, <2>11, BecomesFacts DEF Kill, Idle
  <2> QED
    BY <2>1, <2>2, <2>3, <2>4, <2>5, <2>6, <2>7, <2>8, <2>9, <2>10, <2>11 DEF Acts, Step
<1>6. \A t \in mempool' : t.payload # "hash"
  <2>1. CASE mempool' = mempool
    BY <2>1 DEF PayloadStory
  <2>2. CASE mempool' # mempool
    <3> DEFINE t == [run |-> r, step |-> Head(run[r].todo), service |-> run[r].id, payload |-> run[r].payload]
    <3>1. mempool' = mempool \cup {t}
      BY <2>2, ActFrame, SentTransaction
    <3>2. t.payload # "hash"
      BY <1>2
    <3> HIDE DEF t
    <3> QED
      BY <3>1, <3>2 DEF PayloadStory
  <2> QED
    BY <2>1, <2>2
<1>7. NoInertMech'
  BY ActFrame DEF PayloadStory, NoInertMech
<1> QED
  BY <1>1, <1>5, <1>6, <1>7 DEF PayloadStory

LEMMA ActKeepsBase ==
  ASSUME TypeOK, BaseStory, NEW r \in Runs, Acts(r)
  PROVE  TypeOK' /\ BaseStory'
<1>1. \A q \in Runs : q # r => run'[q] = run[q]
  BY ActFrame, BecomesFacts
<1>2. TypeOK' /\ MempoolStory' /\ PayloadStory'
  BY ActKeepsTypes, ActKeepsMempool, ActKeepsPayload DEF BaseStory
<1>3. RegistryStory'
  BY ActFrame DEF BaseStory, RegistryStory, Existing, NextId
<1>4. RunStory'
  BY <1>1, ActKeepsTodo DEF BaseStory, RunStory, TodoStory
<1> QED
  BY <1>2, <1>3, <1>4 DEF BaseStory

LEMMA LaunchKeepsBase ==
  ASSUME TypeOK, BaseStory, NEW r \in Runs, NEW kind \in {"script", "full"}, NEW flag \in 0..MaxServices,
         NEW force \in BOOLEAN, NEW rate \in BOOLEAN, Launch(r, kind, flag, force, rate)
  PROVE  TypeOK' /\ BaseStory'
<1>1. TypeOK' /\ UNCHANGED <<services, foreign, stale, mechs, mempool>>
  BY LaunchFrame
<1>2. /\ \A q \in Runs : q # r => run'[q] = run[q]
      /\ \/ run'[r] = [Idle EXCEPT !.pc = "resolve", !.flag = flag, !.force = force, !.rate = rate]
         \/ run'[r] = [Idle EXCEPT !.pc = "read", !.kind = kind, !.id = flag, !.payload = "given",
                                   !.observeOnly = FALSE]
  BY BecomesFacts DEF Launch
<1>3. run[r].pc = "idle"
  BY DEF Launch, Active
<1>4. \A t \in mempool : t.run \in Runs /\ t.run # r
  BY <1>3 DEF BaseStory, MempoolStory, TypeOK, Transactions
<1>5. MempoolStory'
  BY <1>1, <1>2, <1>4 DEF BaseStory, MempoolStory
<1>6. PayloadStory'
  <2>1. run'[r].payload # "hash"
    BY <1>2 DEF Idle
  <2> QED
    BY <1>1, <1>2, <2>1 DEF BaseStory, PayloadStory, NoInertMech
<1>7. RunStory'
  <2>1. TodoStory(r)'
    <3>1. CASE run'[r] = [Idle EXCEPT !.pc = "resolve", !.flag = flag, !.force = force, !.rate = rate]
      BY <3>1 DEF TodoStory, Idle
    <3>2. CASE run'[r] = [Idle EXCEPT !.pc = "read", !.kind = kind, !.id = flag, !.payload = "given",
                                      !.observeOnly = FALSE]
      BY <3>2 DEF TodoStory, Idle
    <3> QED
      BY <1>2, <3>1, <3>2
  <2> QED
    BY <1>2, <2>1 DEF BaseStory, RunStory, TodoStory
<1> QED
  BY <1>1, <1>5, <1>6, <1>7 DEF BaseStory, RegistryStory, Existing, NextId

LEMMA MineKeepsBase ==
  ASSUME TypeOK, BaseStory, NEW t \in mempool, Mine(t)
  PROVE  TypeOK' /\ BaseStory'
<1> DEFINE ok == Permits(services, t.step, t.service, t.payload)
<1>1. TypeOK' /\ t \in Transactions /\ t.run \in Runs /\ run[t.run] \in RunStates
  BY MineKeepsTypes DEF BaseStory, TypeOK, Transactions
<1>2. PICK outcome, minted :
        /\ Becomes(t.run, [run[t.run] EXCEPT !.outcome = outcome, !.minted = minted])
        /\ mempool' = mempool \ {t}
  BY DEF Mine
<1>3. /\ run'[t.run] = [run[t.run] EXCEPT !.outcome = outcome, !.minted = minted]
      /\ \A q \in Runs : q # t.run => run'[q] = run[q]
  BY <1>1, <1>2, BecomesFacts
<1>4. /\ run'[t.run].pc = run[t.run].pc /\ run'[t.run].todo = run[t.run].todo
      /\ run'[t.run].kind = run[t.run].kind /\ run'[t.run].id = run[t.run].id
      /\ run'[t.run].observeOnly = run[t.run].observeOnly /\ run'[t.run].payload = run[t.run].payload
  BY <1>1, <1>3 DEF RunStates
<1>5. MempoolStory'
  <2>1. \A u \in mempool' : u \in mempool /\ u.run # t.run /\ u.run \in Runs
    BY <1>2 DEF BaseStory, MempoolStory, TypeOK, Transactions
  <2> QED
    BY <1>3, <2>1 DEF BaseStory, MempoolStory
<1>6. PayloadStory'
  <2>1. NoInertMech'
    <3>1. CASE ok /\ t.step = "createMech"
      <4>1. t.payload \in {"rate", "given"}
        BY <1>1, <3>1 DEF BaseStory, PayloadStory, Permits, Transactions
      <4>2. mechs' = Append(mechs, [service |-> t.service, payload |-> t.payload])
        BY <3>1 DEF Mine
      <4>3. [service |-> t.service, payload |-> t.payload] \in Mechs
        BY <1>1, <3>1, <4>1 DEF BaseStory, MempoolStory, Transactions, Mechs
      <4>4. /\ Len(mechs') = Len(mechs) + 1
            /\ \A k \in 1..Len(mechs) : mechs'[k] = mechs[k]
            /\ mechs'[Len(mechs) + 1] = [service |-> t.service, payload |-> t.payload]
            /\ Len(mechs) \in Nat /\ DOMAIN mechs = 1..Len(mechs) /\ DOMAIN mechs' = 1..Len(mechs')
        BY <1>1, <4>2, <4>3, AppendProperties, LenProperties DEF TypeOK
      <4> QED
        BY <4>1, <4>4 DEF BaseStory, PayloadStory, NoInertMech
    <3>2. CASE ~(ok /\ t.step = "createMech")
      BY <3>2 DEF Mine, BaseStory, PayloadStory, NoInertMech
    <3> QED
      BY <3>1, <3>2
  <2> QED
    BY <1>1, <1>2, <1>3, <1>4, <2>1 DEF BaseStory, PayloadStory
<1>7. RegistryStory'
  <2>1. CASE ok
    <3>1. /\ services' = Advanced(services, t.step, t.service) /\ stale' = services /\ foreign' = foreign
      BY <2>1 DEF Mine
    <3> QED
      BY <2>1, <3>1, MinedRegistry DEF BaseStory, RegistryStory
  <2>2. CASE ~ok
    BY <2>2 DEF Mine, BaseStory, RegistryStory, Existing, NextId
  <2> QED
    BY <2>1, <2>2
<1>8. RunStory'
  <2>1. TodoStory(t.run)'
    BY <1>1, <1>4 DEF BaseStory, RunStory, TodoStory
  <2>2. ASSUME NEW q \in Runs, q # t.run
        PROVE  TodoStory(q)'
    <3>1. TodoStory(q) /\ run'[q] = run[q]
      BY <1>3, <2>2 DEF BaseStory, RunStory
    <3> QED
      BY <3>1 DEF TodoStory
  <2> QED
    BY <2>1, <2>2 DEF RunStory
<1> QED
  BY <1>1, <1>5, <1>6, <1>7, <1>8 DEF BaseStory

-------------------------------------------------------------------------------
(* One run at a time.                                                        *)

LEMMA ActIsActive ==
  ASSUME NEW r, Acts(r)
  PROVE  /\ Active(r)
         /\ ~Kill(r) => run[r].pc # "dead" \/ Reap(r)
BY DEF Acts, Step, ResolveDecision, ResolvePayload, ReadService, SimulateStep, ExecuteStep,
       Receipt, CreateMechReceipt, waitForServiceVisible, Reap, Confirm, Decline, Kill, Active

(* Only a Kill leaves a dead process, and counts it. *)
LEMMA OnlyKillsAreDead ==
  ASSUME TypeOK, RunStory, RegistryStory, NEW r \in Runs, Acts(r), run'[r].pc = "dead"
  PROVE  orphans' = orphans + 1
<1>1. run[r] \in RunStates /\ TodoStory(r)
  BY DEF TypeOK, RunStory
<1>2. ~Ends(r)
  BY BecomesFacts DEF Ends, Idle
<1>3. ASSUME NEW id, Continues(r, id), run[r].pc \in {"perform", "sent", "visible"}
      PROVE  FALSE
  <2>1. ASSUME NEW todo, NEW shown,
               \/ run'[r] = [run[r] EXCEPT !.pc = "read", !.id = id, !.todo = todo]
               \/ run'[r] = [run[r] EXCEPT !.pc = "perform", !.todo = todo]
               \/ run'[r] = [run[r] EXCEPT !.pc = "confirm", !.shown = shown, !.todo = todo]
        PROVE  run'[r].pc # "dead"
    BY <1>1, <2>1 DEF RunStates
  <2>2. run'[r] = Idle => run'[r].pc # "dead"
    BY DEF Idle
  <2> QED
    BY <1>1, <1>3, <2>1, <2>2, ContinuesTo
<1>4. \A id : ~Becomes(r, [run[r] EXCEPT !.pc = "payload", !.flag = 0, !.force = FALSE, !.id = id])
  <2>1. ASSUME NEW id, run'[r] = [run[r] EXCEPT !.pc = "payload", !.flag = 0, !.force = FALSE, !.id = id]
        PROVE  FALSE
    BY <1>1, <2>1 DEF RunStates
  <2> QED
    BY <2>1, BecomesFacts
<1>5. \A payload : ~Becomes(r, [run[r] EXCEPT !.pc = "read", !.rate = FALSE, !.payload = payload])
  <2>1. ASSUME NEW payload, run'[r] = [run[r] EXCEPT !.pc = "read", !.rate = FALSE, !.payload = payload]
        PROVE  FALSE
    BY <1>1, <2>1 DEF RunStates
  <2> QED
    BY <2>1, BecomesFacts
<1>6. \A todo : ~Becomes(r, [run[r] EXCEPT !.pc = "perform", !.todo = todo])
  <2>1. ASSUME NEW todo, run'[r] = [run[r] EXCEPT !.pc = "perform", !.todo = todo]
        PROVE  FALSE
    BY <1>1, <2>1 DEF RunStates
  <2> QED
    BY <2>1, BecomesFacts
<1>7. \A id : ~Becomes(r, [run[r] EXCEPT !.pc = "sent", !.id = id, !.outcome = "none"])
  <2>1. ASSUME NEW id, run'[r] = [run[r] EXCEPT !.pc = "sent", !.id = id, !.outcome = "none"]
        PROVE  FALSE
    BY <1>1, <2>1 DEF RunStates
  <2> QED
    BY <2>1, BecomesFacts
<1>8. ~Becomes(r, [run[r] EXCEPT !.pc = "visible", !.attempts = 0])
  <2>1. ASSUME run'[r] = [run[r] EXCEPT !.pc = "visible", !.attempts = 0]
        PROVE  FALSE
    BY <1>1, <2>1 DEF RunStates
  <2> QED
    BY <2>1, BecomesFacts
<1>9. ~Becomes(r, [run[r] EXCEPT !.pc = "read", !.observeOnly = FALSE])
  <2>1. ASSUME run'[r] = [run[r] EXCEPT !.pc = "read", !.observeOnly = FALSE]
        PROVE  FALSE
    BY <1>1, <2>1 DEF RunStates
  <2> QED
    BY <2>1, BecomesFacts
<1>10. run[r].pc # "dead" => ~Becomes(r, [run[r] EXCEPT !.attempts = run[r].attempts + 1])
  <2>1. ASSUME run'[r] = [run[r] EXCEPT !.attempts = run[r].attempts + 1]
        PROVE  run'[r].pc = run[r].pc
    BY <1>1, <2>1 DEF RunStates
  <2> QED
    BY <2>1, BecomesFacts
<1>11. ~ResolveDecision(r) /\ ~ResolvePayload(r) /\ ~ReadService(r) /\ ~SimulateStep(r) /\ ~ExecuteStep(r)
  BY <1>2, <1>3, <1>4, <1>5, <1>6, <1>7 DEF ResolveDecision, ResolvePayload, ReadService, SimulateStep, ExecuteStep
<1>12. ~Receipt(r) /\ ~CreateMechReceipt(r) /\ ~waitForServiceVisible(r) /\ ~Reap(r) /\ ~Confirm(r) /\ ~Decline(r)
  BY <1>2, <1>3, <1>8, <1>9, <1>10 DEF Receipt, CreateMechReceipt, waitForServiceVisible, Reap, Confirm, Decline
<1> QED
  BY <1>2, <1>11, <1>12 DEF Acts, Step, Kill

LEMMA ActKeepsAlone ==
  ASSUME TypeOK, BaseStory, AloneStory, NEW r \in Runs, Acts(r)
  PROVE  AloneStory'
<1>1. \A q \in Runs : q # r => run'[q] = run[q]
  BY ActFrame, BecomesFacts
<1>2. overlaps' = overlaps /\ orphans \in Nat /\ (orphans' = orphans \/ orphans' = orphans + 1)
  BY ActFrame DEF TypeOK, Counts
<1>3. run'[r].pc = "dead" => orphans' # 0
  BY <1>2, OnlyKillsAreDead DEF BaseStory
<1>4. orphans' = 0 => orphans = 0
  BY <1>2
<1> QED
  BY <1>1, <1>2, <1>3, <1>4, ActIsActive DEF AloneStory, Alone, Active

LEMMA LaunchKeepsAlone ==
  ASSUME TypeOK, AloneStory, NEW r \in Runs, NEW kind \in {"script", "full"}, NEW flag \in 0..MaxServices,
         NEW force \in BOOLEAN, NEW rate \in BOOLEAN, Launch(r, kind, flag, force, rate)
  PROVE  AloneStory'
<1>1. /\ \A q \in Runs : q # r => run'[q] = run[q]
      /\ run'[r].pc # "dead"
  <2>1. /\ \A q \in Runs : q # r => run'[q] = run[q]
        /\ \/ run'[r] = [Idle EXCEPT !.pc = "resolve", !.flag = flag, !.force = force, !.rate = rate]
           \/ run'[r] = [Idle EXCEPT !.pc = "read", !.kind = kind, !.id = flag, !.payload = "given",
                                     !.observeOnly = FALSE]
    BY BecomesFacts DEF Launch
  <2> QED
    BY <2>1 DEF Idle
<1>2. /\ orphans' = orphans
      /\ overlaps' # 0 \/ (overlaps' = overlaps /\ \A o \in Runs : run[o].pc \in {"idle", "dead"})
  BY LaunchFrame
<1> QED
  BY <1>1, <1>2 DEF AloneStory, Alone, Active

LEMMA MineKeepsPlaces ==
  ASSUME TypeOK, NEW t \in mempool, Mine(t)
  PROVE  /\ \A q \in Runs : run'[q].pc = run[q].pc
         /\ \A q \in Runs : q # t.run => run'[q] = run[q]
         /\ overlaps' = overlaps /\ orphans' = orphans /\ lags' = lags /\ forces' = forces
<1>1. t.run \in Runs /\ run[t.run] \in RunStates
  BY DEF TypeOK, Transactions
<1>2. PICK outcome, minted : Becomes(t.run, [run[t.run] EXCEPT !.outcome = outcome, !.minted = minted])
  BY DEF Mine
<1>3. /\ run'[t.run] = [run[t.run] EXCEPT !.outcome = outcome, !.minted = minted]
      /\ \A q \in Runs : q # t.run => run'[q] = run[q]
  BY <1>1, <1>2, BecomesFacts
<1>4. run'[t.run].pc = run[t.run].pc
  BY <1>1, <1>3 DEF RunStates
<1> QED
  BY <1>3, <1>4 DEF Mine, faults

LEMMA OthersAreIdle ==
  ASSUME TypeOK, AloneStory, Alone, NEW r \in Runs, Active(r)
  PROVE  \A q \in Runs : q # r => run[q].pc = "idle"
BY DEF AloneStory, Active

LEMMA IdleRelies ==
  ASSUME NEW q, run[q].pc = "idle"
  PROVE  StepStory(q) /\ CreateStory(q)
BY DEF StepStory, CreateStory

-------------------------------------------------------------------------------
(* What a run relies on while nobody interferes.                             *)

LEMMA CalmReads ==
  ASSUME TypeOK, NEW v, Reads(v), lags' = lags
  PROVE  v = services
BY DEF TypeOK, Reads

(* What is about to be done is what the state asks for. *)
LEMMA NextToDo ==
  ASSUME TypeOK, NEW r \in Runs, TodoStory(r), StepStory(r), run[r].pc = "perform", run[r].id \notin foreign
  PROVE  /\ Head(run[r].todo) = NextStep(r)
         /\ run[r].id # 0 => run[r].id \in Existing(services)
<1>1. CASE run[r].id = 0
  <2>1. run[r].todo = <<"create">>
    BY <1>1 DEF TodoStory, Services
  <2> QED
    BY <1>1, <2>1 DEF NextStep
<1>2. CASE run[r].id # 0
  <2>1. Fits(Head(run[r].todo), services[run[r].id])
    BY <1>2 DEF StepStory
  <2>2. run[r].id \in Services
    BY <1>2 DEF TodoStory
  <2> QED
    BY <1>2, <2>1, <2>2 DEF NextStep, Fits, Existing, RESUMABLE_STATES
<1> QED
  BY <1>1, <1>2

(* In another party's service the registry takes an agent's bond only.       *)
LEMMA PermittedInForeign ==
  ASSUME TypeOK, NEW r \in Runs, TodoStory(r), run[r].pc = "perform", run[r].id \in foreign, NEW v,
         Permits(v, Head(run[r].todo), run[r].id, run[r].payload)
  PROVE  Head(run[r].todo) = "registerAgents"
<1>1. run[r].id # 0
  BY DEF TypeOK, Services
<1>2. Head(run[r].todo) \in AllSteps /\ Head(run[r].todo) # "create"
  BY <1>1, TodoFacts
<1> QED
  BY <1>2, StepNames DEF Permits

LEMMA ContinuesRelies ==
  ASSUME TypeOK, NEW r \in Runs, NEW id, Continues(r, id), TodoStory(r), StepStory(r),
         \/ /\ run[r].pc = "perform" /\ run[r].kind = "script"
            /\ run[r].id \in foreign => Head(run[r].todo) = "registerAgents"
         \/ run[r].pc = "sent" /\ run[r].outcome # "none"
         \/ run[r].pc = "visible",
         services' = services, foreign' = foreign
  PROVE  StepStory(r)' /\ CreateStory(r)'
<1>1. run[r] \in RunStates
  BY DEF TypeOK
<1>2. CASE /\ run'[r] = [run[r] EXCEPT !.pc = "read", !.id = id, !.todo = <<>>]
           /\ run[r].kind = "full"
  BY <1>1, <1>2 DEF RunStates, StepStory, CreateStory
<1>3. CASE /\ run'[r] = [run[r] EXCEPT !.pc = "perform", !.todo = Tail(run[r].todo)]
           /\ run[r].kind = "full" /\ Len(run[r].todo) > 1 /\ Suffix(run[r].todo)
           /\ run[r].id \in Services
  <2>1. Head(Tail(run[r].todo)) = run[r].todo[2] /\ run[r].pc = "sent" /\ run[r].outcome # "none"
    <3>1. run[r].todo # <<"create">>
      BY <1>3, SuffixFacts
    <3> QED
      BY <1>3, <3>1, SuffixFacts DEF TodoStory
  <2>2. run[r].id \notin foreign => Fits(Head(Tail(run[r].todo)), services[run[r].id])
    BY <1>3, <2>1 DEF StepStory
  <2>3. /\ run'[r].pc = "perform" /\ run'[r].todo = Tail(run[r].todo) /\ run'[r].id = run[r].id
        /\ run'[r].kind = "full"
    BY <1>1, <1>3 DEF RunStates
  <2> QED
    BY <2>2, <2>3 DEF StepStory, CreateStory, Fits
<1>4. CASE /\ run'[r] = [run[r] EXCEPT !.pc = "confirm", !.shown = Head(run[r].todo), !.todo = <<>>]
           /\ run[r].kind = "script" /\ run[r].observeOnly
  <2>1. run[r].pc = "perform"
    BY <1>4 DEF TodoStory
  <2>2. run'[r].pc = "confirm" /\ run'[r].shown = Head(run[r].todo) /\ run'[r].id = run[r].id
    BY <1>1, <1>4 DEF RunStates
  <2>3. IF run[r].id \in foreign THEN Head(run[r].todo) = "registerAgents"
        ELSE Head(run[r].todo) = NextStep(r) /\ (run[r].id # 0 => run[r].id \in Existing(services))
    BY <1>4, <2>1, NextToDo
  <2> QED
    BY <2>2, <2>3 DEF StepStory, CreateStory, NextStep, Existing
<1>5. CASE run'[r] = Idle
  BY <1>5 DEF StepStory, CreateStory, Idle
<1> QED
  BY <1>2, <1>3, <1>4, <1>5, ContinuesTo

LEMMA ActRelies ==
  ASSUME TypeOK, BaseStory, NEW r \in Runs, StepStory(r), CreateStory(r), Acts(r),
         lags' = lags, orphans' = orphans
  PROVE  StepStory(r)' /\ CreateStory(r)'
<1>1. run[r] \in RunStates /\ TodoStory(r) /\ services' = services /\ foreign' = foreign
  BY ActFrame DEF TypeOK, BaseStory, RunStory
<1>2. Ends(r) => StepStory(r)' /\ CreateStory(r)'
  BY BecomesFacts DEF Ends, StepStory, CreateStory, Idle
<1>3. CASE ResolveDecision(r)
  <2>1. ASSUME NEW id, Becomes(r, [run[r] EXCEPT !.pc = "payload", !.flag = 0, !.force = FALSE, !.id = id])
        PROVE  StepStory(r)' /\ CreateStory(r)'
    <3>1. run'[r] = [run[r] EXCEPT !.pc = "payload", !.flag = 0, !.force = FALSE, !.id = id]
      BY <2>1, BecomesFacts
    <3> QED
      BY <1>1, <3>1 DEF StepStory, CreateStory, RunStates
  <2> QED
    BY <1>2, <1>3, <2>1 DEF ResolveDecision
<1>4. CASE ResolvePayload(r)
  <2>1. ASSUME NEW payload, Becomes(r, [run[r] EXCEPT !.pc = "read", !.rate = FALSE, !.payload = payload])
        PROVE  StepStory(r)' /\ CreateStory(r)'
    <3>1. run'[r] = [run[r] EXCEPT !.pc = "read", !.rate = FALSE, !.payload = payload]
      BY <2>1, BecomesFacts
    <3>2. run'[r].pc = "read" /\ run'[r].observeOnly
      BY <1>1, <1>4, <3>1 DEF TodoStory, RunStates, ResolvePayload
    <3> QED
      BY <3>2 DEF StepStory, CreateStory
  <2> QED
    BY <1>2, <1>4, <2>1 DEF ResolvePayload
<1>5. CASE ReadService(r)
  <2>1. ASSUME NEW todo, Becomes(r, [run[r] EXCEPT !.pc = "perform", !.todo = todo]),
               run[r].id # 0 /\ run[r].id \notin foreign => Fits(Head(todo), services[run[r].id])
        PROVE  StepStory(r)' /\ CreateStory(r)'
    <3>1. run'[r] = [run[r] EXCEPT !.pc = "perform", !.todo = todo] /\ run[r].pc = "read"
      BY <1>5, <2>1, BecomesFacts DEF ReadService
    <3>2. /\ run'[r].pc = "perform" /\ run'[r].todo = todo /\ run'[r].id = run[r].id
          /\ run'[r].kind = run[r].kind /\ run'[r].shown = run[r].shown
          /\ run'[r].observeOnly = run[r].observeOnly
      BY <1>1, <3>1 DEF RunStates
    <3> QED
      BY <1>1, <2>1, <3>1, <3>2 DEF StepStory, CreateStory, NextStep, Fits, Existing
  <2>2. CASE run[r].id = 0
    BY <1>5, <2>1, <2>2 DEF ReadService
  <2>3. CASE run[r].id # 0
    <3>1. PICK v : /\ Reads(v)
                   /\ LET state == IF run[r].id \in Services THEN v[run[r].id] ELSE "NonExistent" IN
                      IF state \notin RESUMABLE_STATES THEN Ends(r)
                      ELSE Becomes(r, [run[r] EXCEPT !.pc = "perform", !.todo = IF run[r].kind = "script" THEN <<nextStepForState(state)>> ELSE RemainingSteps(state)])
      BY <1>5, <2>3 DEF ReadService
    <3>2. v = services
      BY <3>1, CalmReads
    <3>3. \A state : Head(<<nextStepForState(state)>>) = nextStepForState(state)
      OBVIOUS
    <3>4. "NonExistent" \notin RESUMABLE_STATES
      BY DEF RESUMABLE_STATES
    <3> QED
      BY <1>2, <2>1, <3>1, <3>2, <3>3, <3>4, RemainingFacts DEF Fits
  <2> QED
    BY <2>2, <2>3
<1>6. CASE SimulateStep(r)
  <2>1. run[r].kind = "script" /\ run[r].pc = "perform"
    BY <1>1, <1>6 DEF SimulateStep, TodoStory, RunStates
  <2>2. PICK v \in {services, stale} :
          IF Permits(v, Head(run[r].todo), run[r].id, run[r].payload) THEN Continues(r, NextId(v)) ELSE Ends(r)
    BY <1>6 DEF SimulateStep
  <2>3. CASE Permits(v, Head(run[r].todo), run[r].id, run[r].payload)
    <3>1. run[r].id \in foreign => Head(run[r].todo) = "registerAgents"
      BY <1>1, <2>1, <2>3, PermittedInForeign
    <3> QED
      BY <1>1, <2>1, <2>2, <2>3, <3>1, ContinuesRelies
  <2> QED
    BY <1>2, <2>2, <2>3
<1>7. CASE ExecuteStep(r)
  <2>1. ASSUME NEW id, Becomes(r, [run[r] EXCEPT !.pc = "sent", !.id = id, !.outcome = "none"]),
               Head(run[r].todo) = "create" => id = NextId(services),
               run[r].id \in foreign => Head(run[r].todo) = "registerAgents"
        PROVE  StepStory(r)' /\ CreateStory(r)'
    <3>1. /\ run'[r] = [run[r] EXCEPT !.pc = "sent", !.id = id, !.outcome = "none"]
          /\ run[r].pc = "perform" /\ ~run[r].observeOnly
      BY <1>7, <2>1, BecomesFacts DEF ExecuteStep
    <3>2. /\ run'[r].pc = "sent" /\ run'[r].todo = run[r].todo /\ run'[r].id = id
          /\ run'[r].kind = run[r].kind /\ run'[r].shown = run[r].shown
          /\ run'[r].outcome = "none"
      BY <1>1, <3>1 DEF RunStates
    <3>3. run[r].kind = "script" => Head(run[r].todo) = run[r].shown
      BY <1>1, <2>1, <3>1, NextToDo DEF StepStory
    <3>4. run[r].todo = <<"create">> => TakenUpTo(id, NextId(services))'
      <4>1. NextId(services) \in Nat /\ NextId(services)' = NextId(services)
        BY <1>1, IdFacts DEF TypeOK, NextId, Existing
      <4> QED
        BY <2>1, <4>1 DEF TakenUpTo
    <3> QED
      BY <1>1, <3>2, <3>3, <3>4 DEF StepStory, CreateStory
  <2>2. PICK v : /\ Reads(v)
                 /\ IF Permits(v, Head(run[r].todo), run[r].id, run[r].payload)
                    THEN Becomes(r, [run[r] EXCEPT !.pc = "sent", !.id = IF Head(run[r].todo) = "create" THEN NextId(v) ELSE run[r].id, !.outcome = "none"])
                    ELSE Ends(r)
    BY <1>7 DEF ExecuteStep
  <2>3. v = services /\ run[r].pc = "perform"
    BY <1>7, <2>2, CalmReads DEF ExecuteStep
  <2>4. Permits(v, Head(run[r].todo), run[r].id, run[r].payload) /\ run[r].id \in foreign
           => Head(run[r].todo) = "registerAgents"
    BY <1>1, <2>3, PermittedInForeign
  <2> QED
    BY <1>2, <2>1, <2>2, <2>3, <2>4
<1>8. CASE Receipt(r)
  <2>1. CASE Head(run[r].todo) = "create"
    <3>1. run'[r] = [run[r] EXCEPT !.pc = "visible", !.attempts = 0] /\ run[r].pc = "sent"
      BY <1>8, <2>1, BecomesFacts DEF Receipt
    <3>2. /\ run'[r].pc = "visible" /\ run'[r].todo = run[r].todo /\ run'[r].id = run[r].id
          /\ run'[r].outcome = run[r].outcome /\ run'[r].minted = run[r].minted
      BY <1>1, <3>1 DEF RunStates
    <3> QED
      BY <1>1, <3>1, <3>2 DEF StepStory, CreateStory, TakenUpTo, NextId, Existing
  <2>2. CASE Head(run[r].todo) # "create"
    BY <1>1, <1>8, <2>2, ContinuesRelies DEF Receipt
  <2> QED
    BY <2>1, <2>2
<1>9. CASE CreateMechReceipt(r)
  BY <1>1, <1>2, <1>9, ContinuesRelies DEF CreateMechReceipt
<1>10. CASE waitForServiceVisible(r)
  <2>1. CASE Becomes(r, [run[r] EXCEPT !.attempts = run[r].attempts + 1])
    <3>1. run'[r] = [run[r] EXCEPT !.attempts = run[r].attempts + 1] /\ run[r].pc = "visible"
      BY <1>10, <2>1, BecomesFacts DEF waitForServiceVisible
    <3>2. /\ run'[r].pc = "visible" /\ run'[r].todo = run[r].todo /\ run'[r].id = run[r].id
          /\ run'[r].outcome = run[r].outcome /\ run'[r].minted = run[r].minted
      BY <1>1, <3>1 DEF RunStates
    <3> QED
      BY <1>1, <3>1, <3>2 DEF StepStory, CreateStory, TakenUpTo, NextId, Existing
  <2> QED
    BY <1>1, <1>2, <1>10, <2>1, ContinuesRelies DEF waitForServiceVisible
<1>11. CASE Reap(r) \/ Decline(r)
  BY <1>2, <1>11 DEF Reap, Decline
<1>12. CASE Confirm(r)
  <2>1. run'[r] = [run[r] EXCEPT !.pc = "read", !.observeOnly = FALSE] /\ run[r].pc = "confirm"
    BY <1>12, BecomesFacts DEF Confirm
  <2>2. /\ run'[r].pc = "read" /\ run'[r].id = run[r].id /\ run'[r].kind = run[r].kind
        /\ run'[r].shown = run[r].shown
    BY <1>1, <2>1 DEF RunStates
  <2> QED
    BY <1>1, <2>1, <2>2 DEF StepStory, CreateStory, NextStep, Existing
<1>13. CASE Kill(r)
  <2>1. ASSUME Becomes(r, [Idle EXCEPT !.pc = "dead"])
        PROVE  StepStory(r)' /\ CreateStory(r)'
    <3>1. run'[r] = [Idle EXCEPT !.pc = "dead"]
      BY <2>1, BecomesFacts
    <3> QED
      BY <3>1 DEF StepStory, CreateStory, Idle
  <2> QED
    BY <1>2, <1>13, <2>1 DEF Kill
<1> QED
  BY <1>3, <1>4, <1>5, <1>6, <1>7, <1>8, <1>9, <1>10, <1>11, <1>12, <1>13 DEF Acts, Step

(* A step that fits the state is one the registry takes, from any backend.   *)
LEMMA FitsPermits ==
  ASSUME TypeOK, NEW r \in Runs, TodoStory(r), StepStory(r), run[r].pc = "perform",
         run[r].id \notin foreign, NEW v, Permits(v, Head(run[r].todo), run[r].id, run[r].payload)
  PROVE  Permits(services, Head(run[r].todo), run[r].id, run[r].payload)
<1>1. CASE run[r].id = 0
  <2>1. Head(run[r].todo) = "create"
    BY <1>1, NextToDo DEF NextStep
  <2> QED
    BY <2>1 DEF Permits
<1>2. CASE run[r].id # 0
  <2>1. Fits(Head(run[r].todo), services[run[r].id])
    BY <1>2 DEF StepStory
  <2> QED
    BY <2>1 DEF Permits, Fits, RESUMABLE_STATES, SERVICE_STATE, nextStepForState
<1> QED
  BY <1>1, <1>2

LEMMA ActStands ==
  ASSUME TypeOK, BaseStory, ReliedStory, NEW r \in Runs, Acts(r), Alone', lags' <= 1
  PROVE  RegistryStands'
<1>1. Alone /\ lags <= 1 /\ lags \in Nat /\ (lags' = lags \/ lags' = lags + 1)
  BY ActFrame DEF TypeOK, Counts, Alone
<1>2. RegistryStands /\ services' = services /\ foreign' = foreign /\ reverted' = reverted
  BY <1>1, ActFrame DEF ReliedStory
<1>3. CASE mempool' = mempool
  BY <1>2, <1>3 DEF RegistryStands, Permits, NextId, Existing
<1>4. CASE ExecuteStep(r) /\ mempool' # mempool
  <2> DEFINE t == [run |-> r, step |-> Head(run[r].todo), service |-> run[r].id, payload |-> run[r].payload]
  <2>1. mempool' = mempool \cup {t}
    BY <1>4, SentTransaction DEF BaseStory
  <2>2. PICK v : Reads(v) /\ Permits(v, Head(run[r].todo), run[r].id, run[r].payload)
    BY <1>4 DEF ExecuteStep
  <2>3. run[r].id \notin foreign => Permits(services, Head(run[r].todo), run[r].id, run[r].payload)
    <3>1. CASE v = services
      BY <2>2, <3>1
    <3>2. CASE v # services
      <4>1. lags = 0
        BY <1>1, <2>2, <3>2 DEF Reads
      <4>2. StepStory(r) /\ TodoStory(r) /\ run[r].pc = "perform"
        BY <1>1, <1>4, <4>1 DEF ReliedStory, Calm, Alone, BaseStory, RunStory, ExecuteStep
      <4> QED
        BY <2>2, <4>2, FitsPermits
    <3> QED
      BY <3>1, <3>2
  <2>4. t.service \notin foreign => Permits(services, t.step, t.service, t.payload)
    BY <2>3
  <2> HIDE DEF t
  <2> QED
    BY <1>2, <2>1, <2>4 DEF RegistryStands, Permits, NextId, Existing
<1> QED
  BY <1>3, <1>4, ActFrame

(* Without the override a service is created by who owns none only.          *)
LEMMA ActKeepsId ==
  ASSUME TypeOK, BaseStory, NEW r \in Runs, Acts(r), lags' = lags, UnforcedStory
  PROVE  /\ run'[r].pc # "resolve"
         /\ run'[r].pc \in {"payload", "read", "perform", "confirm"} /\ run'[r].id = 0 => Owned(services) = {}
<1>1. run[r] \in RunStates /\ TodoStory(r) /\ services' = services
  BY ActFrame DEF TypeOK, BaseStory, RunStory
<1>2. ASSUME Ends(r)
      PROVE  run'[r].pc = "idle"
  BY <1>2, BecomesFacts DEF Ends, Idle
<1>3. ASSUME NEW id, Continues(r, id),
               \/ run[r].pc = "perform" /\ run[r].kind = "script"
               \/ run[r].pc \in {"sent", "visible"} /\ id = run[r].id
      PROVE  \/ run'[r].pc = "idle"
             \/ run'[r].pc # "resolve" /\ run'[r].id = run[r].id /\ run[r].pc = "perform"
             \/ run'[r].pc # "resolve" /\ run'[r].id # 0
  <2>1. CASE run'[r] = [run[r] EXCEPT !.pc = "read", !.id = id, !.todo = <<>>] /\ run[r].kind = "full"
    <3>1. run'[r].pc = "read" /\ run'[r].id = id
      BY <1>1, <2>1 DEF RunStates
    <3> QED
      BY <1>1, <1>3, <2>1, <3>1 DEF TodoStory, Services
  <2>2. CASE /\ run'[r] = [run[r] EXCEPT !.pc = "perform", !.todo = Tail(run[r].todo)]
             /\ run[r].id \in Services
    <3>1. run'[r].pc = "perform" /\ run'[r].id = run[r].id
      BY <1>1, <2>2 DEF RunStates
    <3> QED
      BY <2>2, <3>1 DEF Services
  <2>3. CASE /\ run'[r] = [run[r] EXCEPT !.pc = "confirm", !.shown = Head(run[r].todo), !.todo = <<>>]
             /\ run[r].observeOnly
    <3>1. run'[r].pc = "confirm" /\ run'[r].id = run[r].id
      BY <1>1, <2>3 DEF RunStates
    <3> QED
      BY <1>1, <1>3, <2>3, <3>1 DEF TodoStory
  <2>4. CASE run'[r] = Idle
    BY <2>4 DEF Idle
  <2> QED
    BY <1>1, <1>3, <2>1, <2>2, <2>3, <2>4, ContinuesTo
<1>4. CASE ResolveDecision(r)
  <2>1. PICK v : /\ Reads(v)
                 /\ LET mode == resolveExistingServiceId(run[r].flag, run[r].force, v) IN
                    IF mode = "abort" THEN Ends(r)
                    ELSE Becomes(r, [run[r] EXCEPT !.pc = "payload", !.flag = 0, !.force = FALSE,
                            !.id = IF mode = "create" THEN 0
                                   ELSE IF run[r].flag # 0 THEN run[r].flag ELSE default])
    BY <1>4 DEF ResolveDecision
  <2>2. v = services /\ ~run[r].force
    BY <1>4, <2>1, CalmReads DEF UnforcedStory, ResolveDecision
  <2>3. /\ resolveExistingServiceId(run[r].flag, run[r].force, v) = "create" => Owned(services) = {}
        /\ resolveExistingServiceId(run[r].flag, run[r].force, v) \in {"resume", "create", "abort"}
        /\ resolveExistingServiceId(run[r].flag, run[r].force, v) = "resume" => run[r].flag # 0 \/ default # 0
    BY <2>2 DEF resolveExistingServiceId
  <2>4. ASSUME NEW id, Becomes(r, [run[r] EXCEPT !.pc = "payload", !.flag = 0, !.force = FALSE, !.id = id])
        PROVE  run'[r].pc = "payload" /\ run'[r].id = id
    <3>1. run'[r] = [run[r] EXCEPT !.pc = "payload", !.flag = 0, !.force = FALSE, !.id = id]
      BY <2>4, BecomesFacts
    <3> QED
      BY <1>1, <3>1 DEF RunStates
  <2> QED
    BY <1>2, <2>1, <2>3, <2>4
<1>5. CASE ResolvePayload(r)
  <2>1. ASSUME NEW payload, Becomes(r, [run[r] EXCEPT !.pc = "read", !.rate = FALSE, !.payload = payload])
        PROVE  run'[r].pc = "read" /\ run'[r].id = run[r].id
    <3>1. run'[r] = [run[r] EXCEPT !.pc = "read", !.rate = FALSE, !.payload = payload]
      BY <2>1, BecomesFacts
    <3> QED
      BY <1>1, <3>1 DEF RunStates
  <2>2. run'[r].pc = "idle" \/ (run'[r].pc = "read" /\ run'[r].id = run[r].id)
    BY <1>2, <1>5, <2>1 DEF ResolvePayload
  <2> QED
    BY <1>5, <2>2 DEF UnforcedStory, ResolvePayload
<1>6. CASE ReadService(r)
  <2>1. ASSUME NEW todo, Becomes(r, [run[r] EXCEPT !.pc = "perform", !.todo = todo])
        PROVE  run'[r].pc = "perform" /\ run'[r].id = run[r].id
    <3>1. run'[r] = [run[r] EXCEPT !.pc = "perform", !.todo = todo]
      BY <2>1, BecomesFacts
    <3> QED
      BY <1>1, <3>1 DEF RunStates
  <2>2. run'[r].pc = "idle" \/ (run'[r].pc = "perform" /\ run'[r].id = run[r].id)
    BY <1>2, <1>6, <2>1 DEF ReadService
  <2> QED
    BY <1>6, <2>2 DEF UnforcedStory, ReadService
<1>7. CASE SimulateStep(r)
  <2>1. run[r].kind = "script" /\ run[r].pc = "perform"
    BY <1>1, <1>7 DEF SimulateStep, TodoStory, RunStates
  <2>2. run[r].id = 0 => Owned(services) = {}
    BY <2>1 DEF UnforcedStory
  <2> QED
    <3>1. PICK id : Ends(r) \/ Continues(r, id)
      BY <1>7 DEF SimulateStep
    <3>2. \/ run'[r].pc = "idle"
          \/ run'[r].pc # "resolve" /\ run'[r].id = run[r].id
          \/ run'[r].pc # "resolve" /\ run'[r].id # 0
      BY <1>2, <1>3, <2>1, <3>1
    <3> QED
      BY <2>2, <3>2
<1>8. CASE ExecuteStep(r)
  <2>1. ASSUME NEW id, Becomes(r, [run[r] EXCEPT !.pc = "sent", !.id = id, !.outcome = "none"])
        PROVE  run'[r].pc = "sent"
    <3>1. run'[r] = [run[r] EXCEPT !.pc = "sent", !.id = id, !.outcome = "none"]
      BY <2>1, BecomesFacts
    <3> QED
      BY <1>1, <3>1 DEF RunStates
  <2> QED
    BY <1>2, <1>8, <2>1 DEF ExecuteStep
<1>9. CASE Receipt(r)
  <2>1. CASE Head(run[r].todo) = "create"
    <3>1. run'[r] = [run[r] EXCEPT !.pc = "visible", !.attempts = 0]
      BY <1>9, <2>1, BecomesFacts DEF Receipt
    <3> QED
      BY <1>1, <3>1 DEF RunStates
  <2> QED
    BY <1>3, <1>9, <2>1 DEF Receipt
<1>10. CASE CreateMechReceipt(r)
  BY <1>2, <1>3, <1>10 DEF CreateMechReceipt
<1>11. CASE waitForServiceVisible(r)
  <2>1. CASE Becomes(r, [run[r] EXCEPT !.attempts = run[r].attempts + 1])
    <3>1. run'[r] = [run[r] EXCEPT !.attempts = run[r].attempts + 1]
      BY <2>1, BecomesFacts
    <3> QED
      BY <1>1, <1>11, <3>1 DEF RunStates, waitForServiceVisible
  <2> QED
    BY <1>2, <1>3, <1>11, <2>1 DEF waitForServiceVisible
<1>12. CASE Reap(r) \/ Decline(r)
  BY <1>2, <1>12 DEF Reap, Decline
<1>13. CASE Confirm(r)
  <2>1. run'[r] = [run[r] EXCEPT !.pc = "read", !.observeOnly = FALSE] /\ run[r].pc = "confirm"
    BY <1>13, BecomesFacts DEF Confirm
  <2>2. run'[r].pc = "read" /\ run'[r].id = run[r].id
    BY <1>1, <2>1 DEF RunStates
  <2> QED
    BY <2>1, <2>2 DEF UnforcedStory
<1>14. CASE Kill(r)
  <2>1. run'[r].pc \in {"idle", "dead"}
    BY <1>2, <1>14, BecomesFacts DEF Kill, Idle
  <2> QED
    BY <2>1
<1> QED
  BY <1>4, <1>5, <1>6, <1>7, <1>8, <1>9, <1>10, <1>11, <1>12, <1>13, <1>14 DEF Acts, Step

LEMMA ActKeepsRelied ==
  ASSUME TypeOK, BaseStory, AloneStory, ReliedStory, NEW r \in Runs, Acts(r)
  PROVE  ReliedStory'
<1>1. /\ \A q \in Runs : q # r => run'[q] = run[q]
      /\ services' = services /\ foreign' = foreign /\ overlaps' = overlaps /\ forces' = forces
  BY ActFrame, BecomesFacts
<1>2. Alone' => Alone /\ orphans' = orphans
  BY ActFrame DEF TypeOK, Counts, Alone
<1>3. Alone' /\ lags' = 0 => lags = 0
  BY ActFrame DEF TypeOK, Counts, Alone
<1>4. Alone => \A q \in Runs : q # r => run[q].pc = "idle"
  BY ActIsActive, OthersAreIdle
<1>5. Calm' => Calm /\ lags' = lags
  BY <1>2, <1>3 DEF Calm, Alone
<1>6. Calm' => \A q \in Runs : StepStory(q)' /\ CreateStory(q)'
  <2> SUFFICES ASSUME Calm', NEW q \in Runs
               PROVE  StepStory(q)' /\ CreateStory(q)'
    OBVIOUS
  <2>1. CASE q = r
    BY <1>2, <1>5, <2>1, ActRelies DEF ReliedStory, Calm, Alone
  <2>2. CASE q # r
    <3>1. run'[q].pc = "idle"
      BY <1>1, <1>2, <1>4, <2>2 DEF Calm, Alone
    <3> QED
      BY <3>1 DEF StepStory, CreateStory
  <2> QED
    BY <2>1, <2>2
<1>7. Calm' /\ forces' = 0 => UnforcedStory'
  <2> SUFFICES ASSUME Calm', forces' = 0
               PROVE  UnforcedStory'
    OBVIOUS
  <2>1. UnforcedStory
    BY <1>1, <1>5 DEF ReliedStory
  <2>2. ASSUME NEW q \in Runs
        PROVE  /\ run'[q].pc = "resolve" => ~run'[q].force
               /\ run'[q].pc \in {"payload", "read", "perform", "confirm"} /\ run'[q].id = 0 => Owned(services) = {}
    <3>1. CASE q = r
      BY <1>5, <2>1, <3>1, ActKeepsId
    <3>2. CASE q # r
      BY <1>1, <2>1, <3>2 DEF UnforcedStory
    <3> QED
      BY <3>1, <3>2
  <2>3. ASSUME NEW t \in mempool', t.step = "create"
        PROVE  Owned(services) = {}
    <3>1. CASE t \in mempool
      BY <2>1, <2>3, <3>1 DEF UnforcedStory
    <3>2. CASE t \notin mempool
      <4>1. /\ ExecuteStep(r) /\ t = [run |-> r, step |-> Head(run[r].todo), service |-> run[r].id, payload |-> run[r].payload]
        BY <3>2, ActFrame, SentTransaction DEF BaseStory
      <4>2. Head(run[r].todo) = "create" /\ run[r].pc = "perform" /\ TodoStory(r)
        BY <2>3, <4>1 DEF ExecuteStep, BaseStory, RunStory
      <4>3. run[r].id = 0
        BY <4>2, TodoFacts
      <4> QED
        BY <2>1, <4>2, <4>3 DEF UnforcedStory
    <3> QED
      BY <3>1, <3>2
  <2> QED
    BY <1>1, <2>1, <2>2, <2>3 DEF UnforcedStory, Owned, Existing
<1>8. Alone' /\ lags' <= 1 => RegistryStands'
  BY ActStands
<1> QED
  BY <1>6, <1>7, <1>8 DEF ReliedStory, Calm

LEMMA LaunchKeepsRelied ==
  ASSUME TypeOK, BaseStory, AloneStory, ReliedStory,
         NEW r \in Runs, NEW kind \in {"script", "full"}, NEW flag \in 0..MaxServices,
         NEW force \in BOOLEAN, NEW rate \in BOOLEAN, Launch(r, kind, flag, force, rate)
  PROVE  ReliedStory'
<1>1. /\ \A q \in Runs : q # r => run'[q] = run[q]
      /\ \/ run'[r] = [Idle EXCEPT !.pc = "resolve", !.flag = flag, !.force = force, !.rate = rate]
         \/ /\ run'[r] = [Idle EXCEPT !.pc = "read", !.kind = kind, !.id = flag, !.payload = "given",
                                      !.observeOnly = FALSE]
            /\ kind = "full"
  BY BecomesFacts DEF Launch
<1>2. /\ UNCHANGED <<services, foreign, mempool, reverted, orphans, lags>>
      /\ overlaps' # 0 \/ (overlaps' = overlaps /\ \A o \in Runs : run[o].pc \in {"idle", "dead"})
      /\ forces' = IF force \/ (kind = "full" /\ flag = 0) THEN 1 ELSE forces
  BY LaunchFrame
<1>3. /\ run'[r].pc = "resolve" => run'[r].force = force
      /\ run'[r].pc = "read" => run'[r].kind = "full" /\ run'[r].id = flag /\ kind = "full"
      /\ run'[r].pc \in {"resolve", "read"}
  <2>1. CASE run'[r] = [Idle EXCEPT !.pc = "resolve", !.flag = flag, !.force = force, !.rate = rate]
    BY <2>1 DEF Idle
  <2>2. CASE /\ run'[r] = [Idle EXCEPT !.pc = "read", !.kind = kind, !.id = flag, !.payload = "given",
                                      !.observeOnly = FALSE]
             /\ kind = "full"
    BY <2>2 DEF Idle
  <2> QED
    BY <1>1, <2>1, <2>2
<1>4. (Alone /\ lags <= 1 => RegistryStands) => ((Alone /\ lags <= 1)' => RegistryStands')
  BY <1>2 DEF Alone, RegistryStands, Permits, NextId, Existing
<1>5. Calm' => \A q \in Runs : StepStory(q)' /\ CreateStory(q)'
  <2>1. StepStory(r)' /\ CreateStory(r)'
    BY <1>3 DEF StepStory, CreateStory
  <2> QED
    BY <1>1, <1>2, <2>1 DEF ReliedStory, Calm, StepStory, CreateStory, NextStep, Fits, TakenUpTo, NextId, Existing
<1>6. Calm' /\ forces' = 0 => UnforcedStory'
  <2> SUFFICES ASSUME Calm', forces' = 0
               PROVE  UnforcedStory'
    OBVIOUS
  <2>1. UnforcedStory /\ ~force /\ ~(kind = "full" /\ flag = 0)
    BY <1>2 DEF ReliedStory, Calm
  <2> QED
    BY <1>1, <1>2, <1>3, <2>1 DEF UnforcedStory, Owned, Existing
<1> QED
  BY <1>4, <1>5, <1>6 DEF ReliedStory

LEMMA MineKeepsRelied ==
  ASSUME TypeOK, BaseStory, AloneStory, ReliedStory, NEW t \in mempool, Mine(t)
  PROVE  ReliedStory'
<1> DEFINE r == t.run
<1>1. t \in Transactions /\ r \in Runs /\ run[r] \in RunStates
  BY DEF TypeOK, Transactions
<1>2. /\ \A q \in Runs : run'[q].pc = run[q].pc
      /\ \A q \in Runs : q # r => run'[q] = run[q]
      /\ overlaps' = overlaps /\ orphans' = orphans /\ lags' = lags /\ forces' = forces
  BY MineKeepsPlaces
<1> SUFFICES ASSUME Alone
             PROVE  ReliedStory'
  BY <1>2 DEF ReliedStory, Alone, Calm
<1>3. /\ run[r].pc = "sent" /\ run[r].outcome = "none" /\ t.step = Head(run[r].todo)
      /\ t.step # "create" => t.service = run[r].id /\ t.service \in Services
  BY <1>1 DEF AloneStory, Alone, BaseStory, MempoolStory
<1>4. \A q \in Runs : q # r => run[q].pc = "idle"
  BY <1>1, <1>3, OthersAreIdle DEF Active
<1>5. mempool' = {}
  <2>1. \A u \in mempool : u.run \in Runs /\ run[u.run].pc # "idle"
    BY DEF BaseStory, MempoolStory, TypeOK, Transactions
  <2>2. \A u \in mempool : u = t
    BY <1>4, <2>1 DEF BaseStory, MempoolStory
  <2> QED
    BY <2>2 DEF Mine
<1>6. Alone' /\ lags' <= 1 => RegistryStands'
  <2> SUFFICES ASSUME lags <= 1
               PROVE  RegistryStands'
    BY <1>2
  <2>1. RegistryStands
    BY DEF ReliedStory
  <2> QED
    BY <1>5, <2>1 DEF RegistryStands, Mine
<1>7. ASSUME Calm
      PROVE  \/ /\ services' = Advanced(services, t.step, t.service)
                /\ run'[r] = [run[r] EXCEPT !.outcome = "ok", !.minted = IF t.step = "create" THEN NextId(services) ELSE 0]
                /\ Permits(services, t.step, t.service, t.payload)
             \/ /\ services' = services /\ t.service \in foreign /\ t.step # "create"
                /\ run'[r] = [run[r] EXCEPT !.outcome = "reverted", !.minted = 0]
  <2>1. t.service \notin foreign => Permits(services, t.step, t.service, t.payload)
    BY <1>7 DEF ReliedStory, RegistryStands, Calm, Alone
  <2>2. t.step = "create" => t.service \notin foreign
    BY DEF BaseStory, MempoolStory, TypeOK, Services
  <2> QED
    BY <1>1, <2>1, <2>2, BecomesFacts DEF Mine
<1>8. ASSUME Calm
      PROVE  StepStory(r)' /\ CreateStory(r)'
  <2>1. ASSUME NEW outcome, NEW minted, run'[r] = [run[r] EXCEPT !.outcome = outcome, !.minted = minted]
        PROVE  /\ run'[r].pc = "sent" /\ run'[r].todo = run[r].todo /\ run'[r].id = run[r].id
               /\ run'[r].kind = run[r].kind /\ run'[r].shown = run[r].shown
               /\ run'[r].outcome = outcome /\ run'[r].minted = minted
    BY <1>1, <1>3, <2>1 DEF RunStates
  <2>2. StepStory(r) /\ CreateStory(r) /\ TodoStory(r) /\ foreign' = foreign
    BY <1>1, <1>8 DEF ReliedStory, BaseStory, RunStory, Mine
  <2>3. ASSUME Len(run[r].todo) > 1, run[r].id \notin foreign
        PROVE  Fits(run[r].todo[2], services'[run[r].id])
    <3>1. Suffix(run[r].todo) /\ run[r].id \in Services
      <4>1. ASSUME NEW x, run[r].todo = <<x>>
            PROVE  FALSE
        <5>1. Len(<<x>>) = 1
          OBVIOUS
        <5> QED
          BY <2>3, <4>1, <5>1
      <4> QED
        BY <1>1, <1>3, <2>2, <4>1 DEF TodoStory, RunStates
    <3>2. \/ t.step = "activateRegistration" /\ run[r].todo[2] = "registerAgents"
          \/ t.step = "registerAgents" /\ run[r].todo[2] = "deploy"
          \/ t.step = "deploy" /\ run[r].todo[2] = "createMech"
      BY <1>3, <2>3, <3>1, SuffixFacts
    <3>3. t.service = run[r].id /\ t.service \in Services /\ services \in [Services -> SERVICE_STATE]
      BY <1>3, <3>2 DEF TypeOK
    <3>4. services' = Advanced(services, t.step, t.service)
      BY <1>7, <1>8, <2>3, <3>3
    <3>5. \/ t.step = "activateRegistration" /\ services'[run[r].id] = "ActiveRegistration"
          \/ t.step = "registerAgents" /\ services'[run[r].id] = "FinishedRegistration"
          \/ t.step = "deploy" /\ services'[run[r].id] = "Deployed"
      BY <3>2, <3>3, <3>4 DEF Advanced
    <3> QED
      BY <3>2, <3>5 DEF Fits, RESUMABLE_STATES, SERVICE_STATE, nextStepForState
  <2>4. /\ run'[r].pc = "sent" /\ run'[r].todo = run[r].todo /\ run'[r].id = run[r].id
        /\ run'[r].kind = run[r].kind /\ run'[r].shown = run[r].shown
        /\ run'[r].outcome \in {"ok", "reverted"}
    BY <1>7, <1>8, <2>1
  <2>5. StepStory(r)'
    BY <2>2, <2>3, <2>4, <1>3 DEF StepStory
  <2>6. ASSUME run[r].todo = <<"create">>, run'[r].outcome = "ok"
        PROVE  TakenUpTo(run[r].id, run'[r].minted) /\ run'[r].minted \notin foreign /\ run'[r].minted < NextId(services')
    <3>1. t.step = "create"
      BY <1>3, <2>6
    <3>2. /\ Permits(services, t.step, t.service, t.payload) /\ run'[r].minted = NextId(services)
          /\ services' = Advanced(services, t.step, t.service)
      <4>1. /\ Permits(services, t.step, t.service, t.payload)
            /\ services' = Advanced(services, t.step, t.service)
            /\ run'[r] = [run[r] EXCEPT !.outcome = "ok", !.minted = NextId(services)]
        BY <1>7, <1>8, <3>1
      <4> QED
        BY <2>1, <4>1
    <3>3. NextId(services) \notin foreign /\ NextId(services') = NextId(services) + 1 /\ NextId(services) \in Nat
      BY <3>1, <3>2, MinedRegistry, IdFacts DEF BaseStory, TypeOK
    <3> QED
      BY <1>3, <2>2, <2>6, <3>2, <3>3 DEF CreateStory
  <2> QED
    BY <2>2, <2>4, <2>5, <2>6 DEF CreateStory, TakenUpTo
<1>9. Calm' => \A q \in Runs : StepStory(q)' /\ CreateStory(q)'
  <2> SUFFICES ASSUME Calm', NEW q \in Runs
               PROVE  StepStory(q)' /\ CreateStory(q)'
    OBVIOUS
  <2>1. Calm
    BY <1>2 DEF Calm
  <2>2. CASE q = r
    BY <1>8, <2>1, <2>2
  <2>3. CASE q # r
    <3>1. run'[q].pc = "idle"
      BY <1>2, <1>4, <2>3
    <3> QED
      BY <3>1 DEF StepStory, CreateStory
  <2> QED
    BY <2>2, <2>3
<1>10. Calm' /\ forces' = 0 => UnforcedStory'
  <2> SUFFICES ASSUME Calm, forces = 0
               PROVE  UnforcedStory'
    BY <1>2 DEF Calm
  <2>1. UnforcedStory /\ foreign' = foreign /\ services \in [Services -> SERVICE_STATE]
    BY DEF ReliedStory, Mine, TypeOK
  <2>2. Cardinality(Owned(services)') <= 1
    <3>1. CASE t.step = "create"
      <4>1. Owned(services) = {} /\ services' = Advanced(services, t.step, t.service)
            /\ Permits(services, t.step, t.service, t.payload)
        BY <1>7, <2>1, <3>1 DEF UnforcedStory
      <4>2. Existing(services') = Existing(services) \cup {NextId(services)} /\ NextId(services) \notin foreign
        BY <3>1, <4>1, MinedRegistry DEF BaseStory
      <4>3. Owned(services)' = {NextId(services)}
        BY <2>1, <4>1, <4>2 DEF Owned, Existing
      <4> QED
        BY <4>3, FS_Singleton
    <3>2. CASE t.step # "create"
      <4>1. Existing(services') = Existing(services)
        BY <1>7, <3>2, MinedRegistry DEF BaseStory
      <4>2. Owned(services)' = Owned(services)
        BY <2>1, <4>1 DEF Owned, Existing
      <4> QED
        BY <2>1, <4>2 DEF UnforcedStory
    <3> QED
      BY <3>1, <3>2
  <2>3. \A q \in Runs : run'[q].pc \notin {"resolve", "payload", "read", "perform", "confirm"}
    <3>1. \A q \in Runs : run'[q].pc \in {"idle", "sent"}
      BY <1>2, <1>3, <1>4
    <3> QED
      BY <3>1
  <2> QED
    BY <1>5, <2>2, <2>3 DEF UnforcedStory
<1> QED
  BY <1>6, <1>9, <1>10 DEF ReliedStory

-------------------------------------------------------------------------------
(* Other parties.                                                            *)

(* They leave the runs, the mempool and the operator's services alone.       *)
LEMMA StrangersFrame ==
  ASSUME TypeOK, BaseStory, StrangerCreates \/ \E i \in foreign : StrangerAdvances(i)
  PROVE  /\ UNCHANGED <<mechs, mempool, reverted, run, default, overlaps, kills, orphans, forces, lags>>
         /\ TypeOK' /\ RegistryStory' /\ Owned(services)' = Owned(services)
         /\ foreign \subseteq foreign' /\ foreign' \cap Existing(services) = foreign
         /\ \A i \in Services \ foreign' : services'[i] = services[i]
         /\ Existing(services) \subseteq Existing(services')
         /\ (\E t \in mempool : t.step = "create") /\ NextId(services) <= MaxServices => NextId(services') <= MaxServices
         /\ NextId(services) <= NextId(services') /\ \A i \in NextId(services)..NextId(services') - 1 : i \in foreign'
<1> DEFINE Moved ==
         /\ UNCHANGED <<mechs, mempool, reverted, run, default, overlaps, kills, orphans, forces, lags>>
         /\ services' \in [Services -> SERVICE_STATE] /\ stale' = services /\ Troubles' <= MaxFaults
         /\ foreign' \subseteq Services
         /\ \A i \in Services \ foreign' : services'[i] = services[i]
<1>1. /\ services \in [Services -> SERVICE_STATE] /\ foreign \subseteq Existing(services)
      /\ Existing(services) = 1..NextId(services) - 1 /\ NextId(services) \in Nat
      /\ IsFiniteSet(foreign) /\ Cardinality(foreign) \in Nat
  BY IdFacts, ForeignFacts DEF BaseStory, RegistryStory, TypeOK
<1>2. ASSUME StrangerCreates
      PROVE  /\ Moved /\ foreign' = foreign \cup {NextId(services)}
             /\ Existing(services') = Existing(services) \cup {NextId(services)}
             /\ NextId(services') = NextId(services) + 1 /\ Existing(services') = 1..NextId(services') - 1
             /\ NextId(services) \notin Existing(services)
             /\ (\E t \in mempool : t.step = "create") => NextId(services) < MaxServices
  <2>1. NextId(services) \in Services
    BY <1>1, <1>2, IdFacts, RegistrationBounds DEF StrangerCreates, Services
  <2>2. /\ services' = Advanced(services, "create", 0) /\ services' \in [Services -> SERVICE_STATE]
        /\ Existing(services') = Existing(services) \cup {NextId(services)}
    BY <1>1, <1>2, <2>1, AdvancedRegistry, StepNames DEF StrangerCreates
  <2>3. /\ NextId(services') = NextId(services) + 1 /\ Existing(services') = 1..NextId(services') - 1
        /\ NextId(services) \notin Existing(services)
    BY <1>1, <2>2, CreateTakesNext
  <2>4. Cardinality(foreign \cup {NextId(services)}) = Cardinality(foreign) + 1
    BY <1>1, <2>3, FS_AddElement
  <2>5. Troubles' <= MaxFaults
    BY <1>1, <1>2, <2>4, RegistrationBounds DEF StrangerCreates, MayFail, Troubles, TypeOK, faults
  <2>6. \A i \in Services : i # NextId(services) => services'[i] = services[i]
    BY <1>1, <2>2 DEF Advanced
  <2> QED
    BY <1>1, <1>2, <2>1, <2>2, <2>3, <2>5, <2>6 DEF StrangerCreates, TypeOK, faults
<1>3. ASSUME NEW i \in foreign, StrangerAdvances(i)
      PROVE  /\ Moved /\ foreign' = foreign
             /\ Existing(services') = Existing(services) /\ NextId(services') = NextId(services)
  <2>1. nextStepForState(services[i]) \in AllSteps /\ nextStepForState(services[i]) # "create"
    BY StepNames DEF nextStepForState
  <2>2. /\ services' = Advanced(services, nextStepForState(services[i]), i)
        /\ services' \in [Services -> SERVICE_STATE] /\ Existing(services') = Existing(services)
    BY <1>1, <1>3, <2>1, AdvancedRegistry DEF StrangerAdvances
  <2>3. \A j \in Services \ foreign : services'[j] = services[j]
    BY <1>1, <1>3, <2>1, <2>2, StepNames DEF Advanced
  <2> QED
    BY <1>3, <2>2, <2>3 DEF StrangerAdvances, TypeOK, Troubles, faults, NextId
<1>4. CASE StrangerCreates
  <2>1. TypeOK' /\ RegistryStory'
    BY <1>1, <1>2, <1>4 DEF TypeOK, RegistryStory
  <2>2. Owned(services)' = Owned(services)
    BY <1>2, <1>4 DEF Owned, Existing
  <2>3. \A i \in NextId(services)..NextId(services') - 1 : i = NextId(services)
    BY <1>1, <1>2, <1>4
  <2> QED
    BY <1>1, <1>2, <1>4, <2>1, <2>2, <2>3, RegistrationBounds
<1>5. CASE \E i \in foreign : StrangerAdvances(i)
  <2>1. TypeOK' /\ RegistryStory'
    BY <1>1, <1>3, <1>5 DEF TypeOK, RegistryStory
  <2>2. Owned(services)' = Owned(services)
    BY <1>3, <1>5 DEF Owned, Existing
  <2> QED
    BY <1>1, <1>3, <1>5, <2>1, <2>2
<1> QED
  BY <1>4, <1>5

(* What the operator's runs rely on concerns no other party's service.       *)
LEMMA StrangersKeepStory ==
  ASSUME TypeOK, BaseStory, AloneStory, ReliedStory,
         StrangerCreates \/ \E i \in foreign : StrangerAdvances(i)
  PROVE  TypeOK' /\ BaseStory' /\ AloneStory' /\ ReliedStory'
<1>1. /\ UNCHANGED <<mechs, mempool, reverted, run, default, overlaps, kills, orphans, forces, lags>>
      /\ TypeOK' /\ RegistryStory' /\ Owned(services)' = Owned(services)
      /\ foreign \subseteq foreign' /\ foreign' \cap Existing(services) = foreign
      /\ \A i \in Services \ foreign' : services'[i] = services[i]
      /\ Existing(services) \subseteq Existing(services')
      /\ (\E t \in mempool : t.step = "create") /\ NextId(services) <= MaxServices => NextId(services') <= MaxServices
      /\ NextId(services) <= NextId(services') /\ \A i \in NextId(services)..NextId(services') - 1 : i \in foreign'
  BY StrangersFrame
<1>2. BaseStory'
  BY <1>1 DEF BaseStory, MempoolStory, PayloadStory, NoInertMech, RunStory, TodoStory
<1>3. AloneStory'
  BY <1>1 DEF AloneStory, Alone, Active
<1>4. RegistryStands => RegistryStands'
  <2> SUFFICES ASSUME RegistryStands, NEW t \in mempool, t.service \notin foreign'
               PROVE  Permits(services, t.step, t.service, t.payload)'
    BY <1>1 DEF RegistryStands
  <2>1. Permits(services, t.step, t.service, t.payload) /\ t.step \in AllSteps
    BY <1>1 DEF RegistryStands, TypeOK, Transactions
  <2>2. CASE t.step = "create"
    BY <1>1, <2>1, <2>2 DEF Permits, NextId, Existing
  <2>3. CASE t.step # "create"
    <3>1. services'[t.service] = services[t.service]
      BY <1>1, <2>3 DEF BaseStory, MempoolStory
    <3> QED
      BY <2>1, <2>3, <3>1, StepNames DEF Permits
  <2> QED
    BY <2>2, <2>3
<1>5. ASSUME NEW r \in Runs, StepStory(r), CreateStory(r)
      PROVE  StepStory(r)' /\ CreateStory(r)'
  <2>1. run' = run /\ run[r] \in RunStates /\ TodoStory(r)
    BY <1>1 DEF TypeOK, BaseStory, RunStory
  <2>2. ASSUME run[r].id \in Existing(services) \/ run[r].id = 0
        PROVE  /\ run[r].id \in foreign' <=> run[r].id \in foreign
               /\ run[r].id \notin foreign /\ run[r].id # 0 => services'[run[r].id] = services[run[r].id]
               /\ run[r].id \notin foreign => NextStep(r)' = NextStep(r)
    <3>1. 0 \notin foreign' /\ 0 \notin foreign
      BY <1>1 DEF TypeOK, Services
    <3>2. run[r].id \in foreign' <=> run[r].id \in foreign
      BY <1>1, <2>2, <3>1
    <3>3. run[r].id \notin foreign /\ run[r].id # 0 => services'[run[r].id] = services[run[r].id]
      BY <1>1, <2>2, <3>2 DEF Existing
    <3> QED
      BY <2>1, <3>2, <3>3 DEF NextStep
  <2>3. \A step : \A id \in Services : Fits(step, services[id]) => id \in Existing(services)
    BY DEF Fits, RESUMABLE_STATES, Existing
  <2>4. /\ run[r].pc = "perform" /\ run[r].id # 0 => run[r].id \in Services
        /\ run[r].pc = "sent" => run[r].id \in Services
    BY <2>1 DEF TodoStory
  <2>5. ASSUME run[r].pc = "perform", run[r].id # 0, run[r].id \notin foreign'
        PROVE  Fits(Head(run[r].todo), services'[run[r].id])
    BY <1>1, <1>5, <2>2, <2>3, <2>4, <2>5 DEF StepStory
  <2>6. ASSUME run[r].pc = "sent", run[r].outcome # "none", Len(run[r].todo) > 1, run[r].id \notin foreign'
        PROVE  Fits(run[r].todo[2], services'[run[r].id])
    BY <1>1, <1>5, <2>2, <2>3, <2>4, <2>6 DEF StepStory
  <2>7. ASSUME run[r].kind = "script",
               run[r].pc = "confirm" \/ (~run[r].observeOnly /\ run[r].pc \in {"read", "perform"})
        PROVE  IF run[r].id \in foreign' THEN run[r].shown = "registerAgents"
               ELSE run[r].shown = NextStep(r)' /\ (run[r].id # 0 => run[r].id \in Existing(services'))
    BY <1>1, <1>5, <2>2, <2>7 DEF StepStory, BaseStory, RegistryStory
  <2>8. StepStory(r)'
    BY <1>5, <2>1, <2>5, <2>6, <2>7 DEF StepStory, Existing
  <2>9. \A id, minted : TakenUpTo(id, minted) => TakenUpTo(id, minted)'
    BY <1>1 DEF TakenUpTo
  <2>10. /\ NextId(services) \in Nat /\ NextId(services)' = NextId(services')
         /\ NextId(services') \in Nat /\ run[r].minted \in Nat
    <3>1. services' \in [Services -> SERVICE_STATE] /\ services \in [Services -> SERVICE_STATE]
      BY <1>1 DEF TypeOK
    <3>2. NextId(services)' = NextId(services')
      BY DEF NextId, Existing
    <3> QED
      BY <2>1, <3>1, <3>2, IdFacts DEF RunStates
  <2>11. ASSUME TakenUpTo(run[r].id, NextId(services))
         PROVE  TakenUpTo(run[r].id, NextId(services))'
    <3>1. run[r].id \in Nat
      BY <2>1 DEF RunStates
    <3>2. ASSUME NEW i \in run[r].id..NextId(services') - 1
          PROVE  i \in foreign'
      BY <1>1, <2>10, <2>11, <3>1, <3>2 DEF TakenUpTo
    <3> QED
      BY <1>1, <2>10, <2>11, <3>1, <3>2 DEF TakenUpTo
  <2>12. ASSUME run[r].minted \notin foreign, run[r].minted < NextId(services), run[r].id <= run[r].minted,
                run[r].pc \in {"sent", "visible"}
         PROVE  run[r].minted \notin foreign' /\ run[r].minted < NextId(services')
    <3>1. run[r].minted \in Existing(services)
      BY <2>1, <2>10, <2>12 DEF TodoStory, Services, BaseStory, RegistryStory
    <3> QED
      BY <1>1, <2>10, <2>12, <3>1
  <2> QED
    <3>1. run[r].pc = "sent" /\ run[r].todo = <<"create">> /\ run[r].outcome = "none"
            => TakenUpTo(run[r].id, NextId(services))'
      BY <1>5, <2>11 DEF CreateStory
    <3>2. run[r].pc \in {"sent", "visible"} /\ run[r].todo = <<"create">> /\ run[r].outcome = "ok"
            => TakenUpTo(run[r].id, run[r].minted)' /\ run[r].minted \notin foreign' /\ run[r].minted < NextId(services')
      BY <1>5, <2>1, <2>9, <2>12 DEF CreateStory, TakenUpTo
    <3> QED
      BY <2>1, <2>8, <2>10, <3>1, <3>2 DEF CreateStory, TakenUpTo
<1>6. ReliedStory'
  BY <1>1, <1>4, <1>5 DEF ReliedStory, Calm, Alone, UnforcedStory
<1> QED
  BY <1>1, <1>2, <1>3, <1>6

-------------------------------------------------------------------------------
(* The theorems.                                                             *)

RegistrationStory == TypeOK /\ BaseStory /\ AloneStory /\ ReliedStory

LEMMA InitHasStory == Init => RegistrationStory
<1> SUFFICES ASSUME Init
             PROVE  RegistrationStory
  OBVIOUS
<1>1. PICK state \in SERVICE_STATE \ {"NonExistent"} :
        services = [i \in Services |-> IF i = default THEN state ELSE "NonExistent"]
  BY DEF Init
<1>2. /\ foreign = {} /\ stale = services /\ mechs = <<>> /\ mempool = {} /\ run = [r \in Runs |-> Idle]
      /\ overlaps = 0 /\ lags = 0 /\ kills = 0 /\ orphans = 0 /\ forces = 0 /\ reverted = FALSE
      /\ default \in {0, 1}
  BY DEF Init
<1>3. TypeOK
  <2>1. services \in [Services -> SERVICE_STATE]
    BY <1>1 DEF SERVICE_STATE
  <2>2. mechs \in Seq(Mechs)
    BY <1>2, EmptySeq
  <2>3. run \in [Runs -> RunStates]
    BY <1>2, IdleIsAState
  <2>4. /\ overlaps \in Nat /\ lags \in Nat /\ kills \in Nat /\ Troubles <= MaxFaults
        /\ orphans \in 0..kills /\ forces \in 0..1 /\ default \in 0..1
    BY <1>2, RegistrationBounds, FS_EmptySet DEF Troubles
  <2> QED
    BY <1>2, <2>1, <2>2, <2>3, <2>4 DEF TypeOK
<1>4. \A r \in Runs : run[r] = Idle
  BY <1>2
<1>5. BaseStory
  <2>1. Existing(services) = IF default = 1 THEN {1} ELSE {}
    <3>1. \A i \in Services : services[i] # "NonExistent" <=> i = default
      BY <1>1
    <3>2. 1 \in Services /\ 0 \notin Services
      BY RegistrationBounds DEF Services
    <3> QED
      BY <1>2, <3>1, <3>2 DEF Existing
  <2>2. NextId(services) = IF default = 1 THEN 2 ELSE 1
    <3>1. Cardinality({}) = 0 /\ Cardinality({1}) = 1
      BY FS_EmptySet, FS_Singleton
    <3> QED
      BY <1>2, <2>1, <3>1 DEF NextId
  <2>3. RegistryStory
    <3>1. Existing(services) = 1..NextId(services) - 1
      <4>1. CASE default = 1
        BY <2>1, <2>2, <4>1
      <4>2. CASE default = 0
        BY <2>1, <2>2, <4>2
      <4> QED
        BY <1>2, <4>1, <4>2
    <3> QED
      BY <1>2, <3>1 DEF RegistryStory
  <2> QED
    BY <1>2, <1>4, <2>3 DEF BaseStory, MempoolStory, PayloadStory, NoInertMech, RunStory, TodoStory, Idle
<1>6. AloneStory
  BY <1>4 DEF AloneStory, Active, Idle
<1>7. Cardinality(Owned(services)) <= 1
  <2>1. Owned(services) \subseteq {1}
    BY <1>1, <1>2 DEF Owned, Existing
  <2>2. Owned(services) = {} \/ Owned(services) = {1}
    BY <2>1
  <2>3. Cardinality({}) = 0 /\ Cardinality({1}) = 1
    BY FS_EmptySet, FS_Singleton
  <2> QED
    BY <2>2, <2>3
<1>8. ReliedStory
  BY <1>2, <1>4, <1>7 DEF ReliedStory, RegistryStands, StepStory, CreateStory, UnforcedStory, Idle
<1> QED
  BY <1>3, <1>5, <1>6, <1>8 DEF RegistrationStory

LEMMA StepKeepsStory == RegistrationStory /\ [Next]_vars => RegistrationStory'
<1> SUFFICES ASSUME RegistrationStory, [Next]_vars
             PROVE  RegistrationStory'
  OBVIOUS
<1> USE DEF RegistrationStory
<1>1. ASSUME NEW r \in Runs, NEW kind \in {"script", "full"}, NEW flag \in 0..MaxServices,
             NEW force \in BOOLEAN, NEW rate \in BOOLEAN, Launch(r, kind, flag, force, rate)
      PROVE  RegistrationStory'
  BY <1>1, LaunchKeepsBase, LaunchKeepsAlone, LaunchKeepsRelied
<1>2. ASSUME NEW r \in Runs, Acts(r)
      PROVE  RegistrationStory'
  BY <1>2, ActKeepsBase, ActKeepsAlone, ActKeepsRelied
<1>3. ASSUME NEW t \in mempool, Mine(t)
      PROVE  RegistrationStory'
  <2>1. AloneStory'
    BY <1>3, MineKeepsPlaces DEF AloneStory, Alone, Active
  <2> QED
    BY <1>3, <2>1, MineKeepsBase, MineKeepsRelied
<1>4. CASE StrangerCreates \/ \E i \in foreign : StrangerAdvances(i)
  BY <1>4, StrangersKeepStory
<1>5. CASE UNCHANGED vars
  <2>1. TypeOK' /\ AloneStory'
    BY <1>5 DEF vars, TypeOK, Troubles, AloneStory, Alone, Active
  <2>2. BaseStory'
    BY <1>5 DEF vars, BaseStory, MempoolStory, PayloadStory, NoInertMech, RegistryStory, RunStory, TodoStory,
         Existing, NextId
  <2>3. RegistryStands => RegistryStands'
    BY <1>5 DEF vars, RegistryStands, Permits, NextId, Existing
  <2>4. \A r \in Runs : StepStory(r) /\ CreateStory(r) => StepStory(r)' /\ CreateStory(r)'
    BY <1>5 DEF vars, StepStory, CreateStory, TakenUpTo, NextStep, Fits, Existing, NextId
  <2>5. UnforcedStory => UnforcedStory'
    BY <1>5 DEF vars, UnforcedStory, Owned, Existing
  <2> QED
    BY <1>5, <2>1, <2>2, <2>3, <2>4, <2>5 DEF vars, ReliedStory, Alone, Calm
<1> QED
  BY <1>1, <1>2, <1>3, <1>4, <1>5 DEF Next, Acts

LEMMA Stories == Spec => []RegistrationStory
BY InitHasStory, StepKeepsStory, PTL DEF Spec

(* However runs overlap, lag and die, the script creates no mech without a    *)
(* price; and while one run follows another at the head, the step sent is the *)
(* one the operator confirmed, and the simulated id a create reports is off   *)
(* by other parties' services alone: from the id reported to the id minted    *)
(* every service is another party's (registrationResume.ts, mechAdapter.ts    *)
(* registerAsMechStep, serviceRegistryClient.ts executeCreate).               *)
THEOREM RegistrationIsTrue == Spec => []RegistrationInv
<1>1. RegistrationStory => RegistrationInv
  <2> SUFFICES ASSUME RegistrationStory
               PROVE  RegistrationInv
    OBVIOUS
  <2>1. TypeOK /\ NoInertMech
    BY DEF RegistrationStory, BaseStory, PayloadStory
  <2>2. CalmConfirmedStepIsExecuted
    BY DEF RegistrationStory, ReliedStory, StepStory, CalmConfirmedStepIsExecuted, ConfirmedStepIsExecuted
  <2>3. ReportedServiceIsOwnUnlessTaken
    BY DEF RegistrationStory, BaseStory, RunStory, TodoStory, ReliedStory, CreateStory, TakenUpTo,
       ReportedServiceIsOwnUnlessTaken
  <2> QED
    BY <2>1, <2>2, <2>3 DEF RegistrationInv
<1> QED
  BY <1>1, Stories, PTL

(* Without the override no second service is ever created, whatever the       *)
(* operator launches and other parties create, one run after another, and     *)
(* after runs that died                                                       *)
(* (registrationResume.ts, the 3789/3790 duplicate).                          *)
THEOREM NoSecondService == Spec => []OneService
<1>1. RegistrationStory => OneService
  BY DEF RegistrationStory, ReliedStory, UnforcedStory, OneService
<1> QED
  BY <1>1, Stories, PTL

(* One backend behind the head never makes a run send a step the registry     *)
(* refuses for a service of the operator's: state and simulation check each   *)
(* other.                                                                     *)
THEOREM OneLagIsHarmless == Spec => []NothingReverts
<1>1. RegistrationStory => NothingReverts
  BY DEF RegistrationStory, ReliedStory, RegistryStands, Alone, NothingReverts
<1> QED
  BY <1>1, Stories, PTL
===============================================================================
