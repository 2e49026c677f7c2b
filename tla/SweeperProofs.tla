----------------------------- MODULE SweeperProofs -----------------------------
(* Proofs about the treasury daemon, for any thresholds, cadence, income and *)
(* number of faults and lagging reads.                                       *)
EXTENDS Sweeper, TLAPS

-------------------------------------------------------------------------------
(* Types. *)

LEMMA LeastIsLeast ==
  ASSUME NEW a \in Int, NEW b \in Int, NEW c \in Int
  PROVE  /\ Least({a, b, c}) \in {a, b, c}
         /\ Least({a, b, c}) <= a /\ Least({a, b, c}) <= b /\ Least({a, b, c}) <= c
<1>1. \E n \in {a, b, c} : \A k \in {a, b, c} : n <= k
  OBVIOUS
<1> QED
  BY <1>1 DEF Least

(* What a refuel spends is within the balance read, whatever the relayer    *)
(* lacks.                                                                   *)
LEMMA UsdcInIsCovered ==
  ASSUME TypeOK
  PROVE  UsdcIn \in Int /\ UsdcIn <= bal /\ (~(UsdcIn < MinUsdcIn) => UsdcIn \in Nat)
<1>1. Target - seen \in Int /\ MaxPerTick \in Int /\ bal \in Int /\ MinUsdcIn \in Nat
  BY ConstantsOK DEF TypeOK, ConstantsOK
<1>2. /\ UsdcIn \in {Target - seen, MaxPerTick, bal}
      /\ UsdcIn <= Target - seen /\ UsdcIn <= MaxPerTick /\ UsdcIn <= bal
  BY <1>1, LeastIsLeast DEF UsdcIn
<1> QED
  BY <1>1, <1>2 DEF UsdcIn

LEMMA MovesHasTypes ==
  ASSUME TypeOK, NEW k \in Kinds, NEW n \in Nat, Moves(k, n)
  PROVE  /\ usdc' \in Nat /\ weth' \in Nat /\ eth' \in Nat /\ relayer' \in Nat
         /\ lastSwept' \in SweepTimes
<1> USE DEF TypeOK, Moves, Feasible, Kinds, SweepTimes
<1>1. CASE k = "swap"
  BY <1>1
<1>2. CASE k = "unwrap"
  BY <1>2
<1>3. CASE k = "deliver"
  BY <1>3
<1>4. CASE k = "sweep"
  BY <1>4
<1> QED
  BY <1>1, <1>2, <1>3, <1>4

LEMMA KindOfCall == \A p \in CallPCs : KindOf(p) \in Kinds
BY DEF CallPCs, KindOf, Kinds

LEMMA AbandonHasTypes ==
  ASSUME TypeOK, Abandon
  PROVE  orphans' \subseteq Kinds \X Nat
<1>1. pc \in CallPCs => <<KindOf(pc), amt>> \in Kinds \X Nat
  BY KindOfCall DEF TypeOK
<1> QED
  BY <1>1 DEF Abandon, TypeOK

(* The place and the counts of faults; the other types follow from these. *)
PlaceOK == pc \in PCs
BoundsOK == fails \in 0..MaxFaults /\ lags \in 0..MaxLags /\ crashes \in 0..MaxFaults

LEMMA StepKeepsPlace ==
  ASSUME PlaceOK, Next
  PROVE  PlaceOK'
<1> USE DEF PlaceOK, PCs, RefuelPCs, RecoveryPCs, Go, EndTick
<1>1. CASE Outside \/ OrphanSettles \/ Crash
  BY <1>1 DEF Outside, Tick, Earn, RelayerPaysGas, OrphanSettles, Crash
<1>2. CASE Refuel
  BY <1>2 DEF Refuel, ReadRelayer, ReadStrandedWeth, ReadStrandedEth, ReadRelayerAgain,
       SizeRefuel, ReadWeth, WethStaysStale, QuoteOutOfBand, RefuelReadThrows,
       RefuelCallAnswered, RefuelCallReverts, RefuelCallThrows, RefuelFails
<1>3. CASE Loop /\ ~Refuel
  BY <1>3 DEF Loop, ReadBalance, ReadLastSweep, TickReadThrows, CallMined, ReadUsdcAgain,
       ReadUsdcAgainFails, Decide, SweepAnswered, SweepReverts, SweepThrows, LogSweep,
       LogSweepThrows
<1> QED
  BY <1>1, <1>2, <1>3 DEF Next

LEMMA StepKeepsBounds ==
  ASSUME BoundsOK, Next
  PROVE  BoundsOK'
<1> USE ConstantsOK DEF ConstantsOK, BoundsOK, bounds
<1>1. Fails => fails' \in 0..MaxFaults
  BY DEF Fails
<1>2. Lags => lags' \in 0..MaxLags
  BY DEF Lags
<1>3. CASE Outside \/ OrphanSettles \/ Crash
  BY <1>3 DEF Outside, Tick, Earn, RelayerPaysGas, OrphanSettles, Crash
<1>4. CASE Refuel
  BY <1>1, <1>2, <1>4 DEF Refuel, ReadRelayer, ReadStrandedWeth, ReadStrandedEth, ReadRelayerAgain,
       SizeRefuel, ReadWeth, WethStaysStale, QuoteOutOfBand, RefuelReadThrows,
       RefuelCallAnswered, RefuelCallReverts, RefuelCallThrows
<1>5. CASE Loop /\ ~Refuel
  BY <1>1, <1>2, <1>5 DEF Loop, ReadBalance, ReadLastSweep, TickReadThrows, CallMined,
       ReadUsdcAgain, ReadUsdcAgainFails, Decide, SweepAnswered, SweepReverts, SweepThrows,
       LogSweep, LogSweepThrows
<1> QED
  BY <1>3, <1>4, <1>5 DEF Next

LEMMA InitHasTypes == Init => TypeOK
<1> SUFFICES ASSUME Init
             PROVE  TypeOK
  OBVIOUS
<1> USE ConstantsOK DEF Init
<1>1. pc \in PCs
  BY DEF PCs
<1>2. income \in 0..MaxIncome /\ fails \in 0..MaxFaults /\ lags \in 0..MaxLags /\ crashes \in 0..MaxFaults
  BY DEF ConstantsOK
<1>3. relayer \in Nat /\ weth \in Nat /\ eth \in Nat
  BY DEF ConstantsOK
<1>4. NeverSwept \in SweepTimes
  BY DEF SweepTimes
<1> QED
  BY <1>1, <1>2, <1>3, <1>4 DEF TypeOK

LEMMA RefuelKeepsTypes ==
  ASSUME TypeOK, Refuel, PlaceOK', BoundsOK'
  PROVE  TypeOK'
<1> USE DEF TypeOK, wallet, history, locals, PlaceOK, BoundsOK, Go, RefuelFails
<1>1. CASE ReadRelayer \/ ReadRelayerAgain
  BY <1>1 DEF ReadRelayer, ReadRelayerAgain
<1>2. CASE ReadStrandedWeth
  BY <1>2 DEF ReadStrandedWeth
<1>3. CASE ReadStrandedEth
  BY <1>3 DEF ReadStrandedEth
<1>4. CASE SizeRefuel
  BY <1>4, UsdcInIsCovered DEF SizeRefuel
<1>5. CASE ReadWeth \/ WethStaysStale \/ QuoteOutOfBand
  BY <1>5 DEF ReadWeth, WethStaysStale, QuoteOutOfBand
<1>6. CASE RefuelReadThrows
  BY <1>6 DEF RefuelReadThrows
<1>7. CASE RefuelCallAnswered
  BY <1>7 DEF RefuelCallAnswered
<1>8. CASE RefuelCallReverts
  BY <1>8 DEF RefuelCallReverts
<1>9. CASE RefuelCallThrows
  BY <1>9, AbandonHasTypes DEF RefuelCallThrows
<1> QED
  BY <1>1, <1>2, <1>3, <1>4, <1>5, <1>6, <1>7, <1>8, <1>9 DEF Refuel

LEMMA StepKeepsTypes == TypeOK /\ [Next]_vars => TypeOK'
<1> SUFFICES ASSUME TypeOK, [Next]_vars
             PROVE  TypeOK'
  OBVIOUS
<1>0. CASE UNCHANGED vars
  BY <1>0 DEF TypeOK, vars, wallet, history, locals, bounds
<1> SUFFICES ASSUME Next
             PROVE  TypeOK'
  BY <1>0
<1>p. PlaceOK' /\ BoundsOK'
  BY StepKeepsPlace, StepKeepsBounds DEF TypeOK, PlaceOK, BoundsOK
<1> USE <1>p DEF wallet, history, locals, PlaceOK, BoundsOK, Go, EndTick
<1>1. CASE Outside
  BY <1>1, ConstantsOK DEF TypeOK, Outside, Tick, Earn, RelayerPaysGas, ConstantsOK
<1>2. CASE ReadBalance \/ ReadLastSweep \/ TickReadThrows
  <2>1. CASE ReadBalance
    BY <2>1 DEF TypeOK, ReadBalance
  <2>2. CASE ReadLastSweep
    BY <2>2 DEF TypeOK, ReadLastSweep
  <2>3. CASE TickReadThrows
    BY <2>3 DEF TypeOK, TickReadThrows
  <2> QED
    BY <1>2, <2>1, <2>2, <2>3
<1>3. CASE CallMined
  <2>1. KindOf(pc) \in Kinds /\ amt \in Nat
    BY <1>3, KindOfCall DEF CallMined, TypeOK
  <2>2. /\ usdc' \in Nat /\ weth' \in Nat /\ eth' \in Nat /\ relayer' \in Nat
         /\ lastSwept' \in SweepTimes
    BY <1>3, <2>1, MovesHasTypes DEF CallMined
  <2> QED
    BY <1>3, <2>2 DEF CallMined, TypeOK
<1>4. CASE OrphanSettles
  <2>1. PICK c \in orphans :
          /\ orphans' = orphans \ {c}
          /\ Moves(c[1], c[2]) \/ UNCHANGED <<wallet, lastSwept>>
          /\ UNCHANGED <<now, income, swapped, lastOk, row, pc, mined, locals, bounds>>
    BY <1>4 DEF OrphanSettles
  <2>2. c[1] \in Kinds /\ c[2] \in Nat
    BY DEF TypeOK
  <2>3. /\ usdc' \in Nat /\ weth' \in Nat /\ eth' \in Nat /\ relayer' \in Nat
         /\ lastSwept' \in SweepTimes
    BY <2>1, <2>2, MovesHasTypes DEF TypeOK
  <2> QED
    BY <2>1, <2>3 DEF TypeOK
<1>5. CASE ReadUsdcAgain \/ ReadUsdcAgainFails \/ Decide
  <2>1. CASE ReadUsdcAgain
    BY <2>1 DEF TypeOK, ReadUsdcAgain
  <2>2. CASE ReadUsdcAgainFails
    <3>1. bal' \in Nat
      BY <2>2 DEF TypeOK, ReadUsdcAgainFails
    <3> QED
      BY <2>2, <3>1 DEF TypeOK, ReadUsdcAgainFails
  <2>3. CASE Decide
    <3>1. bal' \in Nat /\ amt' \in Nat /\ seen' \in Nat /\ spend' \in Nat
      BY <2>3 DEF TypeOK, Decide
    <3> QED
      BY <2>3, <3>1 DEF TypeOK, Decide
  <2> QED
    BY <1>5, <2>1, <2>2, <2>3
<1>6. CASE SweepAnswered \/ SweepReverts
  <2>1. CASE SweepAnswered
    BY <2>1 DEF TypeOK, SweepAnswered
  <2>2. CASE SweepReverts
    BY <2>2 DEF TypeOK, SweepReverts
  <2> QED
    BY <1>6, <2>1, <2>2
<1>7. CASE SweepThrows
  BY <1>7, AbandonHasTypes DEF TypeOK, SweepThrows
<1>8. CASE LogSweep \/ LogSweepThrows
  <2>1. CASE LogSweep
    BY <2>1 DEF TypeOK, LogSweep, SweepTimes
  <2>2. CASE LogSweepThrows
    BY <2>2 DEF TypeOK, LogSweepThrows
  <2> QED
    BY <1>8, <2>1, <2>2
<1>9. CASE Crash
  BY <1>9, AbandonHasTypes DEF TypeOK, Crash
<1> QED
  BY <1>1, <1>2, <1>3, <1>4, <1>5, <1>6, <1>7, <1>8, <1>9, RefuelKeepsTypes
     DEF Next, Loop

(* No balance is ever negative, and the tick's locals keep their types,      *)
(* whatever is mined late, reverts or throws (index.ts, refuel/index.ts).    *)
THEOREM TypeCorrect == Spec => []TypeOK
BY InitHasTypes, StepKeepsTypes, PTL DEF Spec

-------------------------------------------------------------------------------
(* The audit row.  A row of this tick is written once its refuel is over, and *)
(* until then a swap was mined only past the place that awaits it.            *)

AfterSwap == {"weth", "unwrap", "deliver", "usdcAgain"}
AfterRefuel == {"decide", "sweep", "sweepRow", "idle"}

AuditStory ==
  /\ swapped => pc \in AfterSwap \cup AfterRefuel \/ (pc = "swap" /\ mined)
  /\ row = "failed" => pc \in AfterRefuel /\ (Undisturbed => ~swapped)
  /\ mined => pc \in CallPCs

(* The balance.  While nothing fails and no read lags the balance read is     *)
(* covered, but for the stretch from a swap to the balance read again; and    *)
(* on that stretch no call can fail, for each spends what the last yielded.   *)

BeforeSwap == {"lastSweep", "size", "decide"} \cup RecoveryPCs

BalanceStory ==
  Undisturbed /\ lags = 0 =>
    /\ orphans = {}
    /\ pc \in BeforeSwap => bal <= usdc
    /\ pc = "swap" => amt = spend /\ (~mined => amt <= bal /\ bal <= usdc)
    /\ pc = "weth" \/ (pc = "swap" /\ mined) => spend <= weth
    /\ pc = "unwrap" /\ ~mined => amt <= weth
    /\ (pc = "deliver" /\ ~mined) \/ (pc = "unwrap" /\ mined) => amt <= eth
    /\ pc = "sweep" /\ ~mined => amt <= usdc

(* The cadence.  The time a tick read is that of the last sweep mined, until  *)
(* its own is; the balance in hand is swept because the decision said so.     *)

SweptNow == pc = "sweepRow" \/ (pc = "sweep" /\ mined)

CadenceStory ==
  /\ tickAt <= now /\ lastSwept <= now /\ lastOk <= now
  /\ Undisturbed =>
       /\ orphans = {}
       /\ SweptNow \/ lastSwept <= lastOk
       /\ SweptNow \/ pc \in {"idle", "lastSweep"} \/ lastSwept <= last
  /\ pc = "sweep" => ShouldSweep(amt, last, tickAt)

Story == AuditStory /\ BalanceStory /\ CadenceStory

LEMMA InitHasStory == Init => Story
BY ConstantsOK DEF Init, Story, AuditStory, BalanceStory, CadenceStory, AfterRefuel, AfterSwap,
     BeforeSwap, RecoveryPCs, SweptNow, Undisturbed, NeverSwept, ConstantsOK

(* Time, revenue and gas: balances read stay covered, for USDC only comes in. *)
LEMMA OutsideKeepsStory ==
  ASSUME TypeOK, Story, Outside
  PROVE  Story'
<1> USE DEF Story, TypeOK, Undisturbed, SweepTimes, bounds, history, wallet, locals
<1>1. CASE Tick
  BY <1>1 DEF Tick, AuditStory, BalanceStory, CadenceStory, SweptNow, ShouldSweep
<1>2. CASE Earn
  BY <1>2 DEF Earn, AuditStory, BalanceStory, CadenceStory, SweptNow, ShouldSweep
<1>3. CASE RelayerPaysGas
  BY <1>3 DEF RelayerPaysGas, AuditStory, BalanceStory, CadenceStory, SweptNow, ShouldSweep
<1> QED
  BY <1>1, <1>2, <1>3 DEF Outside

LEMMA FaultsDisturb ==
  ASSUME TypeOK
  PROVE  /\ Fails => ~(fails' = 0)
         /\ Lags => ~(lags' = 0)
BY DEF TypeOK, Fails, Lags

LEMMA RefuelKeepsAudit ==
  ASSUME TypeOK, Story, Refuel
  PROVE  AuditStory'
<1> USE DEF Story, AuditStory, Undisturbed, AfterSwap, AfterRefuel, CallPCs, Go, RefuelFails,
            history, bounds, locals
<1>1. CASE ReadRelayer \/ ReadStrandedWeth \/ ReadStrandedEth \/ ReadRelayerAgain
  BY <1>1 DEF ReadRelayer, ReadStrandedWeth, ReadStrandedEth, ReadRelayerAgain, Lags
<1>2. CASE SizeRefuel \/ ReadWeth \/ WethStaysStale \/ QuoteOutOfBand
  BY <1>2 DEF SizeRefuel, ReadWeth, WethStaysStale, QuoteOutOfBand, Lags
<1>3. CASE RefuelReadThrows
  BY <1>3, FaultsDisturb DEF RefuelReadThrows
<1>4. CASE RefuelCallAnswered \/ RefuelCallReverts
  BY <1>4 DEF RefuelCallAnswered, RefuelCallReverts, Lags
<1>5. CASE RefuelCallThrows
  BY <1>5, FaultsDisturb DEF RefuelCallThrows
<1> QED
  BY <1>1, <1>2, <1>3, <1>4, <1>5 DEF Refuel

LEMMA RefuelKeepsBalance ==
  ASSUME TypeOK, Story, Refuel
  PROVE  BalanceStory'
<1> SUFFICES ASSUME Undisturbed', lags' = 0
             PROVE  BalanceStory'
  BY DEF BalanceStory
<1>1. ~Fails /\ ~Lags /\ fails' = fails /\ crashes' = crashes /\ lags' = lags
  BY FaultsDisturb DEF Undisturbed, Refuel, bounds, ReadRelayer, ReadStrandedWeth, ReadStrandedEth,
       ReadRelayerAgain, SizeRefuel, ReadWeth, WethStaysStale, QuoteOutOfBand,
       RefuelReadThrows, RefuelCallAnswered, RefuelCallReverts, RefuelCallThrows
<1> USE <1>1 DEF Story, BalanceStory, Undisturbed, TypeOK, BeforeSwap, RecoveryPCs, Go, RefuelFails,
            wallet, history, bounds, locals
<1>2. CASE ReadRelayer \/ ReadStrandedWeth \/ ReadStrandedEth \/ ReadRelayerAgain
  BY <1>2 DEF ReadRelayer, ReadStrandedWeth, ReadStrandedEth, ReadRelayerAgain
<1>3. CASE SizeRefuel
  BY <1>3, UsdcInIsCovered DEF SizeRefuel
<1>4. CASE ReadWeth \/ WethStaysStale
  BY <1>4 DEF ReadWeth, WethStaysStale
<1>5. CASE RefuelCallAnswered
  BY <1>5 DEF RefuelCallAnswered, CallPCs
<1>6. CASE RefuelCallReverts
  BY <1>6 DEF RefuelCallReverts, CallPCs, KindOf, Feasible
<1> QED
  BY <1>2, <1>3, <1>4, <1>5, <1>6 DEF Refuel, QuoteOutOfBand, RefuelReadThrows, RefuelCallThrows

LEMMA RefuelKeepsCadence ==
  ASSUME TypeOK, Story, Refuel
  PROVE  CadenceStory'
<1>1. /\ tickAt' = tickAt /\ lastSwept' = lastSwept /\ lastOk' = lastOk /\ last' = last /\ now' = now
      /\ pc \in RefuelPCs /\ ~(pc \in {"idle", "lastSweep", "sweepRow", "sweep"})
      /\ ~(pc' \in {"idle", "lastSweep", "sweepRow", "sweep"})
  BY DEF Refuel, locals, history, Go, RefuelFails, RefuelPCs, RecoveryPCs, CallPCs,
       ReadRelayer, ReadStrandedWeth, ReadStrandedEth,
       ReadRelayerAgain, SizeRefuel, ReadWeth, WethStaysStale, QuoteOutOfBand,
       RefuelReadThrows, RefuelCallAnswered, RefuelCallReverts, RefuelCallThrows
<1>2. Undisturbed' => Undisturbed /\ orphans' = orphans
  BY FaultsDisturb DEF TypeOK, Undisturbed, Refuel, bounds, ReadRelayer, ReadStrandedWeth, ReadStrandedEth,
       ReadRelayerAgain, SizeRefuel, ReadWeth, WethStaysStale, QuoteOutOfBand,
       RefuelReadThrows, RefuelCallAnswered, RefuelCallReverts, RefuelCallThrows, Fails
<1> QED
  BY <1>1, <1>2 DEF Story, CadenceStory, SweptNow

LEMMA ReadsKeepStory ==
  ASSUME TypeOK, Story, ReadBalance \/ ReadLastSweep \/ TickReadThrows
  PROVE  Story'
<1> USE DEF Story, TypeOK, Undisturbed, SweepTimes, bounds, history, wallet, locals, Go, EndTick
<1>1. CASE ReadBalance
  BY <1>1 DEF ReadBalance, AuditStory, BalanceStory, CadenceStory, SweptNow, AfterSwap, AfterRefuel, BeforeSwap, RecoveryPCs
<1>2. CASE ReadLastSweep
  BY <1>2 DEF ReadLastSweep, AuditStory, BalanceStory, CadenceStory, SweptNow, AfterSwap, AfterRefuel, BeforeSwap, RecoveryPCs
<1>3. CASE TickReadThrows
  BY <1>3, FaultsDisturb DEF TickReadThrows, AuditStory, BalanceStory, CadenceStory, SweptNow, AfterSwap, AfterRefuel, BeforeSwap, RecoveryPCs
<1> QED
  BY <1>1, <1>2, <1>3

LEMMA ChainKeepsStory ==
  ASSUME TypeOK, Story, CallMined \/ OrphanSettles
  PROVE  Story'
<1>1. CASE CallMined
  <2> USE <1>1 DEF CallMined, Story, CallPCs, bounds, locals
  <2>1. AuditStory'
    BY DEF AuditStory, Undisturbed, AfterSwap, AfterRefuel
  <2>2. BalanceStory'
    <3>1. Undisturbed' /\ lags' = 0 => Undisturbed /\ lags = 0
      BY DEF Undisturbed
    <3> QED
      BY <3>1 DEF BalanceStory, TypeOK, Moves, Feasible, KindOf, BeforeSwap, RecoveryPCs
  <2>3. CadenceStory'
    <3>1. lastSwept' <= now
      BY DEF Moves, CadenceStory, TypeOK
    <3>2. pc # "sweep" => lastSwept' = lastSwept
      BY DEF Moves, KindOf
    <3> QED
      BY <3>1, <3>2 DEF CadenceStory, SweptNow, Undisturbed
  <2> QED
    BY <2>1, <2>2, <2>3
<1>2. CASE OrphanSettles
  <2>1. ~Undisturbed /\ ~Undisturbed'
    BY <1>2 DEF OrphanSettles, Story, CadenceStory, Undisturbed, bounds
  <2>2. AuditStory' /\ BalanceStory'
    BY <1>2, <2>1 DEF OrphanSettles, Story, AuditStory, BalanceStory
  <2>3. lastSwept' \in {lastSwept, now} /\ UNCHANGED <<now, lastOk, pc, locals>>
    BY <1>2 DEF OrphanSettles, Moves
  <2> QED
    BY <2>1, <2>2, <2>3 DEF Story, CadenceStory, TypeOK, locals
<1> QED
  BY <1>1, <1>2

LEMMA SweepKeepsStory ==
  ASSUME TypeOK, Story,
         \/ ReadUsdcAgain \/ ReadUsdcAgainFails \/ Decide \/ SweepAnswered \/ SweepReverts
         \/ SweepThrows \/ LogSweep \/ LogSweepThrows \/ Crash
  PROVE  Story'
<1> USE DEF Story, TypeOK, Undisturbed, SweepTimes, bounds, history, wallet, locals, Go, EndTick,
            AuditStory, BalanceStory, CadenceStory, SweptNow, AfterSwap, AfterRefuel, BeforeSwap, RecoveryPCs, CallPCs
<1>1. CASE ReadUsdcAgain
  BY <1>1 DEF ReadUsdcAgain
<1>2. CASE ReadUsdcAgainFails
  BY <1>2, FaultsDisturb DEF ReadUsdcAgainFails
<1>3. CASE Decide
  BY <1>3 DEF Decide
<1>4. CASE SweepAnswered
  BY <1>4 DEF SweepAnswered
<1>5. CASE SweepReverts
  BY <1>5, FaultsDisturb DEF SweepReverts
<1>6. CASE SweepThrows
  BY <1>6, FaultsDisturb DEF SweepThrows
<1>7. CASE LogSweep
  BY <1>7 DEF LogSweep
<1>8. CASE LogSweepThrows
  BY <1>8, FaultsDisturb DEF LogSweepThrows
<1>9. CASE Crash
  BY <1>9 DEF Crash
<1> QED
  BY <1>1, <1>2, <1>3, <1>4, <1>5, <1>6, <1>7, <1>8, <1>9

LEMMA StepKeepsStory == TypeOK /\ Story /\ [Next]_vars => Story'
<1>1. TypeOK /\ Story /\ UNCHANGED vars => Story'
  BY DEF vars, Story, AuditStory, BalanceStory, CadenceStory, SweptNow, Undisturbed, wallet, history,
         locals, bounds
<1> QED
  BY <1>1, OutsideKeepsStory, RefuelKeepsAudit, RefuelKeepsBalance, RefuelKeepsCadence,
     ReadsKeepStory, ChainKeepsStory, SweepKeepsStory DEF Next, Loop, Story

LEMMA Stories == Spec => [](TypeOK /\ Story)
BY InitHasTypes, InitHasStory, StepKeepsTypes, StepKeepsStory, PTL DEF Spec

(* No refuel that moved real USDC is logged as failed without its swap, but  *)
(* for errors that are no RefuelStepError (refuel/index.ts:180).             *)
THEOREM AuditRowsHaveTheirSwap == Spec => []AuditSpine
<1>1. Story => AuditSpine
  BY DEF Story, AuditStory, AuditSpine
<1> QED
  BY <1>1, Stories, PTL

(* The sweep never asks for more USDC than there is, whatever the refuel of  *)
(* its tick spent (index.ts:145).                                            *)
THEOREM SweepsSeeReality == Spec => []SweepSeesReality
<1>1. Story => SweepSeesReality
  BY DEF Story, BalanceStory, SweepSeesReality
<1> QED
  BY <1>1, Stories, PTL

(* Below the threshold a sweep waits a cadence after the last, though the    *)
(* time of the last is read at the start of the tick (trigger.ts, log.ts:47). *)
THEOREM SweepsKeepTheCadence == Spec => SweepsAreSpaced
<1>1. TypeOK /\ Story /\ [Next]_vars
        => [Undisturbed /\ usdc' < usdc /\ weth' = weth /\ usdc - usdc' < Threshold
              => now - lastSwept >= Cadence]_vars
  <2> SUFFICES ASSUME TypeOK, Story, Next, Undisturbed, usdc' < usdc, weth' = weth,
                      usdc - usdc' < Threshold
               PROVE  now - lastSwept >= Cadence
    OBVIOUS
  <2> USE DEF TypeOK
  <2>1. CASE CallMined
    <3>1. KindOf(pc) = "sweep" /\ usdc' = usdc - amt
      BY <2>1 DEF CallMined, Moves
    <3>2. pc = "sweep" /\ ~mined
      BY <2>1, <3>1 DEF CallMined, KindOf, CallPCs
    <3>3. lastSwept <= last /\ tickAt <= now /\ ShouldSweep(amt, last, tickAt)
      BY <3>2 DEF Story, CadenceStory, SweptNow
    <3>4. ~(amt >= Threshold)
      BY <3>1, ConstantsOK DEF ConstantsOK
    <3>5. tickAt - last >= Cadence
      BY <3>3, <3>4 DEF ShouldSweep
    <3> QED
      BY <3>3, <3>5, ConstantsOK DEF ConstantsOK, SweepTimes, NeverSwept
  <2>2. CASE OrphanSettles
    BY <2>2 DEF OrphanSettles, Story, CadenceStory
  <2>3. CASE ~CallMined /\ ~OrphanSettles
    <3>1. CASE Outside
      BY <3>1 DEF Outside, Tick, Earn, RelayerPaysGas, wallet
    <3>2. CASE Crash
      BY <3>2 DEF Crash, wallet
    <3>3. CASE Refuel
      <4>1. wallet' = wallet
        BY <3>3 DEF Refuel, ReadRelayer, ReadStrandedWeth, ReadStrandedEth,
             ReadRelayerAgain, SizeRefuel, ReadWeth, WethStaysStale, QuoteOutOfBand,
             RefuelReadThrows, RefuelCallAnswered, RefuelCallReverts, RefuelCallThrows
      <4> QED
        BY <4>1 DEF wallet
    <3>4. CASE Loop /\ ~Refuel
      BY <2>3, <3>4 DEF Loop, wallet, ReadBalance, ReadLastSweep, TickReadThrows, ReadUsdcAgain,
           ReadUsdcAgainFails, Decide, SweepAnswered, SweepReverts, SweepThrows, LogSweep,
           LogSweepThrows
    <3> QED
      BY <2>3, <3>1, <3>2, <3>3, <3>4 DEF Next
  <2> QED
    BY <2>1, <2>2, <2>3
<1> QED
  BY <1>1, Stories, PTL DEF Spec, SweepsAreSpaced

===============================================================================
