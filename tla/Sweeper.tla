-------------------------------- MODULE Sweeper --------------------------------
(***************************************************************************)
(* The treasury daemon: packages/grey-sweeper.  Every tick reads the       *)
(* agent's USDC and the time of the last sweep, refuels the relayer with   *)
(* ETH when it runs low (swap USDC -> WETH, unwrap, deliver), recovers     *)
(* what an earlier refuel left behind, and then decides whether to sweep   *)
(* the USDC to the pool wallet.  runTick, runRefuel, recoverStranded,      *)
(* executeRefuel, executeSweep.                                            *)
(*                                                                         *)
(* One action per await.  The loop is sequential, so the hazards are not   *)
(* its own interleavings but those with the chain: a call may be mined     *)
(* without its caller being told, a read may come from a lagging node, and *)
(* the process may die between any two steps.  One unit of USDC buys one   *)
(* unit of WETH; gas, slippage and alerts are left out.                    *)
(***************************************************************************)
EXTENDS Integers

CONSTANTS
  RefuelEnabled,  \* GREY_REFUEL_ENABLED
  Threshold,      \* THRESHOLD_USDC
  Cadence,        \* CADENCE_MS, in ticks of the clock
  Floor, Target,  \* floorWei, targetWei of the relayer
  MaxPerTick,     \* maxUsdcPerTick
  MinUsdcIn,      \* MIN_USDC_IN
  MaxIncome,      \* bound: USDC the agent earns
  MaxNow,         \* bound: the clock
  MaxFaults,      \* bound: calls that throw and deaths of the process
  MaxLags         \* bound: stale reads, reverts and refused quotes

ASSUME ConstantsOK ==
  /\ RefuelEnabled \in BOOLEAN
  /\ Threshold \in Nat \ {0} /\ Cadence \in Nat \ {0} /\ MinUsdcIn \in Nat \ {0}
  /\ Floor \in Nat /\ Target \in Nat /\ Target > Floor /\ MaxPerTick \in Nat
  /\ MaxIncome \in Nat /\ MaxNow \in Nat /\ MaxFaults \in Nat /\ MaxLags \in Nat

CallPCs == {"unwrapStranded", "deliverStranded", "swap", "unwrap", "deliver", "sweep"}
RecoveryPCs == {"relayer", "strandedWeth", "unwrapStranded", "strandedEth",
                "deliverStranded", "relayerAgain"}
RefuelPCs == RecoveryPCs \cup {"size", "swap", "weth", "unwrap", "deliver"}
PCs == {"idle", "lastSweep", "usdcAgain", "decide", "sweep", "sweepRow"} \cup RefuelPCs
Kinds == {"swap", "unwrap", "deliver", "sweep"}
NeverSwept == -Cadence
SweepTimes == Nat \cup {NeverSwept}

VARIABLES
  usdc, weth, eth,  \* the agent's wallet; eth is what exceeds the gas reserve
  relayer,          \* the relayer's ETH
  now,              \* the clock
  income,           \* history: USDC earned so far
  lastSwept,        \* history: when a sweep was last mined
  orphans,          \* calls sent that nobody waits for, <<kind, amount>>
  lastOk,           \* sweep_log: time of the last 'ok' row
  row,              \* refuel_log: the row of this tick
  swapped,          \* history: a swap of this tick was mined
  pc,               \* where the tick awaits
  mined,            \* the call it awaits was mined
  tickAt, bal, last, seen, spend, amt,  \* locals: now, balance, lastSweepAt,
                                        \* relayerEth, usdcIn, amount of the call
  fails, lags, crashes

wallet == <<usdc, weth, eth, relayer>>
history == <<income, lastSwept, swapped>>
locals == <<tickAt, bal, last, seen, spend, amt>>
bounds == <<fails, lags, crashes>>
vars == <<wallet, now, history, orphans, lastOk, row, pc, mined, locals, bounds>>

(* An earlier process may have left WETH or ETH behind.                    *)
Init ==
  /\ usdc = 0
  /\ weth \in 0..1
  /\ eth \in 0..1
  /\ relayer \in 0..Target
  /\ now = 0
  /\ income = 0
  /\ lastSwept = NeverSwept
  /\ orphans = {}
  /\ lastOk = NeverSwept
  /\ row = "none"
  /\ swapped = FALSE
  /\ pc = "idle"
  /\ mined = FALSE
  /\ tickAt = 0 /\ bal = 0 /\ last = NeverSwept /\ seen = 0 /\ spend = 0 /\ amt = 0
  /\ fails = 0 /\ lags = 0 /\ crashes = 0

Fails == fails + crashes < MaxFaults /\ fails' = fails + 1
Lags == lags < MaxLags /\ lags' = lags + 1

-------------------------------------------------------------------------------
(* Time, revenue and the relayer's expenses (external). *)

Tick ==
  /\ now < MaxNow
  /\ now' = now + 1
  /\ UNCHANGED <<wallet, history, orphans, lastOk, row, pc, mined, locals, bounds>>

Earn ==
  /\ income < MaxIncome
  /\ income' = income + 1
  /\ usdc' = usdc + 1
  /\ UNCHANGED <<weth, eth, relayer, now, lastSwept, swapped, orphans, lastOk,
                 row, pc, mined, locals, bounds>>

RelayerPaysGas ==
  /\ relayer > 0
  /\ relayer' = relayer - 1
  /\ UNCHANGED <<usdc, weth, eth, now, history, orphans, lastOk, row, pc, mined,
                 locals, bounds>>

-------------------------------------------------------------------------------
(* Calls to the chain.  The nonces are consecutive: a call is mined only   *)
(* when no earlier one is still on its way.                                *)

KindOf(p) ==
  CASE p = "unwrapStranded"  -> "unwrap"
    [] p = "deliverStranded" -> "deliver"
    [] OTHER                 -> p

Feasible(k, n) ==
  \/ k \in {"swap", "sweep"} /\ usdc >= n
  \/ k = "unwrap" /\ weth >= n
  \/ k = "deliver" /\ eth >= n

Moves(k, n) ==
  /\ Feasible(k, n)
  /\ \/ /\ k = "swap"
        /\ usdc' = usdc - n /\ weth' = weth + n
        /\ UNCHANGED <<eth, relayer, lastSwept>>
     \/ /\ k = "unwrap"
        /\ weth' = weth - n /\ eth' = eth + n
        /\ UNCHANGED <<usdc, relayer, lastSwept>>
     \/ /\ k = "deliver"
        /\ eth' = eth - n /\ relayer' = relayer + n
        /\ UNCHANGED <<usdc, weth, lastSwept>>
     \/ /\ k = "sweep"
        /\ usdc' = usdc - n /\ lastSwept' = now
        /\ UNCHANGED <<weth, eth, relayer>>

CallMined ==
  /\ pc \in CallPCs
  /\ ~mined
  /\ orphans = {}
  /\ Moves(KindOf(pc), amt)
  /\ mined' = TRUE
  /\ swapped' = (swapped \/ pc = "swap")
  /\ UNCHANGED <<now, income, orphans, lastOk, row, pc, locals, bounds>>

OrphanSettles ==
  \E c \in orphans :
    /\ orphans' = orphans \ {c}
    /\ Moves(c[1], c[2]) \/ UNCHANGED <<wallet, lastSwept>>
    /\ UNCHANGED <<now, income, swapped, lastOk, row, pc, mined, locals, bounds>>

-------------------------------------------------------------------------------
(* runTick: the reads. *)

Go(p) == pc' = p /\ mined' = FALSE

EndTick ==
  /\ Go("idle")
  /\ bal' = 0 /\ seen' = 0 /\ spend' = 0 /\ amt' = 0
  /\ UNCHANGED <<tickAt, last>>

ReadBalance ==
  /\ pc = "idle"
  /\ Go("lastSweep")
  /\ tickAt' = now
  /\ bal' = usdc
  /\ row' = "none"
  /\ swapped' = FALSE
  /\ UNCHANGED <<wallet, now, income, lastSwept, orphans, lastOk, last, seen,
                 spend, amt, bounds>>

ReadLastSweep ==
  /\ pc = "lastSweep"
  /\ Go(IF RefuelEnabled THEN "relayer" ELSE "decide")
  /\ last' = lastOk
  /\ UNCHANGED <<wallet, now, history, orphans, lastOk, row, tickAt, bal, seen,
                 spend, amt, bounds>>

TickReadThrows ==
  /\ pc \in {"idle", "lastSweep"}
  /\ Fails
  /\ EndTick
  /\ UNCHANGED <<wallet, now, history, orphans, lastOk, row, lags, crashes>>

-------------------------------------------------------------------------------
(* runRefuel: the relayer's balance, then recoverStranded. *)

\* Mutant: recovery only when the relayer is low.
ReadRelayerFloorFirst ==
  /\ pc = "relayer"
  /\ seen' = relayer
  /\ Go(IF relayer >= Floor THEN "decide" ELSE "strandedWeth")
  /\ UNCHANGED <<wallet, now, history, orphans, lastOk, row, tickAt, bal, last,
                 spend, amt, bounds>>

ReadRelayer ==
  /\ pc = "relayer"
  /\ seen' = relayer
  /\ Go("strandedWeth")
  /\ UNCHANGED <<wallet, now, history, orphans, lastOk, row, tickAt, bal, last,
                 spend, amt, bounds>>

(* A lagging node still shows an empty balance. *)
ReadStrandedWeth ==
  /\ pc = "strandedWeth"
  /\ \/ weth > 0 /\ Go("unwrapStranded") /\ amt' = weth /\ UNCHANGED lags
     \/ weth = 0 /\ Go("strandedEth") /\ UNCHANGED <<amt, lags>>
     \/ weth > 0 /\ Lags /\ Go("strandedEth") /\ UNCHANGED amt
  /\ UNCHANGED <<wallet, now, history, orphans, lastOk, row, tickAt, bal, last,
                 seen, spend, fails, crashes>>

ReadStrandedEth ==
  /\ pc = "strandedEth"
  /\ \/ eth > 0 /\ Go("deliverStranded") /\ amt' = eth /\ UNCHANGED lags
     \/ eth = 0 /\ Go("size") /\ UNCHANGED <<amt, lags>>
     \/ eth > 0 /\ Lags /\ Go("size") /\ UNCHANGED amt
  /\ UNCHANGED <<wallet, now, history, orphans, lastOk, row, tickAt, bal, last,
                 seen, spend, fails, crashes>>

ReadRelayerAgain ==
  /\ pc = "relayerAgain"
  /\ seen' = relayer
  /\ Go("size")
  /\ UNCHANGED <<wallet, now, history, orphans, lastOk, row, tickAt, bal, last,
                 spend, amt, bounds>>

-------------------------------------------------------------------------------
(* runRefuel: the floor decision, then executeRefuel.  The approval moves  *)
(* nothing and stands with the swap.                                       *)

Least(S) == CHOOSE n \in S : \A k \in S : n <= k
UsdcIn == Least({Target - seen, MaxPerTick, bal})

SizeRefuel ==
  /\ pc = "size"
  /\ IF seen >= Floor \/ UsdcIn < MinUsdcIn
     THEN Go("decide") /\ UNCHANGED <<spend, amt>>
     ELSE Go("swap") /\ spend' = UsdcIn /\ amt' = UsdcIn
  /\ UNCHANGED <<wallet, now, history, orphans, lastOk, row, tickAt, bal, last,
                 seen, bounds>>

(* The post-swap read waits until the node shows at least minOut.          *)
ReadWeth ==
  /\ pc = "weth"
  /\ weth >= spend
  /\ Go("unwrap")
  /\ amt' = weth
  /\ UNCHANGED <<wallet, now, history, orphans, lastOk, row, tickAt, bal, last,
                 seen, spend, bounds>>

(* The audit row of a failed refuel, with the swap's hash or without it.   *)
RefuelFails(withHash) ==
  /\ row' = IF withHash THEN "failedWithSwap" ELSE "failed"
  /\ Go("decide")

(* Eight reads in a row below minOut: a RefuelStepError.                   *)
WethStaysStale ==
  /\ pc = "weth"
  /\ (weth < spend /\ UNCHANGED lags) \/ Lags
  /\ RefuelFails(TRUE)
  /\ UNCHANGED <<wallet, now, history, orphans, lastOk, locals, fails, crashes>>

QuoteOutOfBand ==
  /\ pc = "size"
  /\ seen < Floor /\ UsdcIn >= MinUsdcIn
  /\ Lags
  /\ RefuelFails(FALSE)
  /\ UNCHANGED <<wallet, now, history, orphans, lastOk, locals, fails, crashes>>

(* Any read of runRefuel throws; past the swap too, the error is not a     *)
(* RefuelStepError and carries no hash.                                    *)
RefuelReadThrows ==
  /\ pc \in RefuelPCs \ CallPCs
  /\ Fails
  /\ RefuelFails(FALSE)
  /\ UNCHANGED <<wallet, now, history, orphans, lastOk, locals, lags, crashes>>

-------------------------------------------------------------------------------
(* What a call is followed by. *)

RefuelCallAnswered ==
  /\ pc \in CallPCs \ {"sweep"}
  /\ mined
  /\ \/ pc = "unwrapStranded" /\ Go("strandedEth") /\ UNCHANGED row
     \/ pc = "deliverStranded" /\ Go("relayerAgain") /\ UNCHANGED row
     \/ pc = "swap" /\ Go("weth") /\ UNCHANGED row
     \/ pc = "unwrap" /\ Go("deliver") /\ UNCHANGED row
     \/ pc = "deliver" /\ Go("usdcAgain") /\ row' = "ok"
  /\ UNCHANGED <<wallet, now, history, orphans, lastOk, locals, bounds>>

\* Mutant: executeRefuel rethrows the step error without the swap's hash.
RefuelCallRevertsBare ==
  /\ pc \in CallPCs \ {"sweep"}
  /\ ~mined
  /\ (~Feasible(KindOf(pc), amt) /\ UNCHANGED lags) \/ Lags
  /\ RefuelFails(FALSE)
  /\ UNCHANGED <<wallet, now, history, orphans, lastOk, locals, fails, crashes>>

(* The simulation fails or the receipt says reverted: a RefuelStepError,   *)
(* which past the swap carries the swap's hash.                            *)
RefuelCallReverts ==
  /\ pc \in CallPCs \ {"sweep"}
  /\ ~mined
  /\ (~Feasible(KindOf(pc), amt) /\ UNCHANGED lags) \/ Lags
  /\ RefuelFails(pc \in {"unwrap", "deliver"})
  /\ UNCHANGED <<wallet, now, history, orphans, lastOk, locals, fails, crashes>>

(* The call in hand is left alone: it was mined, or it may be, or never.   *)
Abandon ==
  IF pc \in CallPCs /\ ~mined
  THEN orphans' \in {orphans, orphans \cup {<<KindOf(pc), amt>>}}
  ELSE UNCHANGED orphans

RefuelCallThrows ==
  /\ pc \in CallPCs \ {"sweep"}
  /\ Fails
  /\ Abandon
  /\ RefuelFails(FALSE)
  /\ UNCHANGED <<wallet, now, history, lastOk, locals, lags, crashes>>

-------------------------------------------------------------------------------
(* runTick: after the refuel, the sweep decision and the sweep. *)

\* Mutant: the balance is not read again after a refuel.
ReadUsdcAgainNot ==
  /\ pc = "usdcAgain"
  /\ Go("decide")
  /\ UNCHANGED <<wallet, now, history, orphans, lastOk, row, locals, bounds>>

ReadUsdcAgain ==
  /\ pc = "usdcAgain"
  /\ Go("decide")
  /\ bal' = usdc
  /\ UNCHANGED <<wallet, now, history, orphans, lastOk, row, tickAt, last, seen,
                 spend, amt, bounds>>

\* Mutant: the arithmetic takes off what was delivered, and does not stop at 0.
ReadUsdcAgainFailsUnclamped ==
  /\ pc = "usdcAgain"
  /\ Go("decide")
  /\ \/ Fails /\ bal' = bal - amt /\ UNCHANGED lags
     \/ Lags /\ UNCHANGED <<bal, fails>>
  /\ UNCHANGED <<wallet, now, history, orphans, lastOk, row, tickAt, last, seen,
                 spend, amt, crashes>>

(* Read failed: arithmetic stands in; or the node shows the old balance.   *)
ReadUsdcAgainFails ==
  /\ pc = "usdcAgain"
  /\ Go("decide")
  /\ \/ Fails /\ bal' = (IF bal > spend THEN bal - spend ELSE 0) /\ UNCHANGED lags
     \/ Lags /\ UNCHANGED <<bal, fails>>
  /\ UNCHANGED <<wallet, now, history, orphans, lastOk, row, tickAt, last, seen,
                 spend, amt, crashes>>

\* Mutant: any balance is swept, the cadence is forgotten.
ShouldSweepAny(b, l, t) == b > 0

ShouldSweep(b, l, t) == b >= Threshold \/ (t - l >= Cadence /\ b > 0)

Decide ==
  /\ pc = "decide"
  /\ IF ShouldSweep(bal, last, tickAt)
     THEN /\ Go("sweep")
          /\ amt' = bal
          /\ UNCHANGED <<tickAt, bal, last, seen, spend>>
     ELSE EndTick
  /\ UNCHANGED <<wallet, now, history, orphans, lastOk, row, bounds>>

SweepAnswered ==
  /\ pc = "sweep"
  /\ mined
  /\ Go("sweepRow")
  /\ UNCHANGED <<wallet, now, history, orphans, lastOk, row, locals, bounds>>

SweepReverts ==
  /\ pc = "sweep"
  /\ ~mined
  /\ (~Feasible("sweep", amt) /\ UNCHANGED lags) \/ Lags
  /\ EndTick
  /\ UNCHANGED <<wallet, now, history, orphans, lastOk, row, fails, crashes>>

SweepThrows ==
  /\ pc = "sweep"
  /\ Fails
  /\ Abandon
  /\ EndTick
  /\ UNCHANGED <<wallet, now, history, lastOk, row, lags, crashes>>

LogSweep ==
  /\ pc = "sweepRow"
  /\ lastOk' = now
  /\ EndTick
  /\ UNCHANGED <<wallet, now, history, orphans, row, bounds>>

(* safeLog swallows the failed INSERT.                                     *)
LogSweepThrows ==
  /\ pc = "sweepRow"
  /\ Fails
  /\ EndTick
  /\ UNCHANGED <<wallet, now, history, orphans, lastOk, row, lags, crashes>>

Crash ==
  /\ fails + crashes < MaxFaults
  /\ crashes' = crashes + 1
  /\ Abandon
  /\ EndTick
  /\ UNCHANGED <<wallet, now, history, lastOk, row, fails, lags>>

-------------------------------------------------------------------------------
Outside == Tick \/ Earn \/ RelayerPaysGas

Refuel ==
  \/ ReadRelayer \/ ReadStrandedWeth \/ ReadStrandedEth \/ ReadRelayerAgain
  \/ SizeRefuel \/ ReadWeth \/ WethStaysStale \/ QuoteOutOfBand
  \/ RefuelReadThrows \/ RefuelCallAnswered \/ RefuelCallReverts \/ RefuelCallThrows

Loop ==
  \/ ReadBalance \/ ReadLastSweep \/ TickReadThrows
  \/ Refuel
  \/ CallMined
  \/ ReadUsdcAgain \/ ReadUsdcAgainFails
  \/ Decide \/ SweepAnswered \/ SweepReverts \/ SweepThrows
  \/ LogSweep \/ LogSweepThrows

Next == Outside \/ Loop \/ OrphanSettles \/ Crash

Spec == Init /\ [][Next]_vars

(* runLoop ticks for ever; a transaction sent is mined or dropped in the   *)
(* end, and the call the loop awaits is answered.                          *)
FairSpec == Spec /\ WF_vars(Loop) /\ WF_vars(OrphanSettles)

-------------------------------------------------------------------------------
(* Properties. *)

(* Balances are never negative and the tick's locals keep their types.     *)
TypeOK ==
  /\ usdc \in Nat /\ weth \in Nat /\ eth \in Nat /\ relayer \in Nat /\ now \in Nat
  /\ income \in 0..MaxIncome
  /\ lastSwept \in SweepTimes /\ lastOk \in SweepTimes /\ last \in SweepTimes
  /\ orphans \subseteq Kinds \X Nat
  /\ row \in {"none", "ok", "failed", "failedWithSwap"}
  /\ pc \in PCs
  /\ mined \in BOOLEAN /\ swapped \in BOOLEAN
  /\ tickAt \in Nat /\ bal \in Nat /\ seen \in Nat /\ spend \in Nat /\ amt \in Nat
  /\ fails \in 0..MaxFaults
  /\ lags \in 0..MaxLags
  /\ crashes \in 0..MaxFaults

(* Nothing threw and no process died so far: what the next three are about. *)
Undisturbed == fails = 0 /\ crashes = 0

(* "The audit row can never say 'failed, swap_tx=null' while real USDC     *)
(* moved on-chain": true of every step that fails as a RefuelStepError, by *)
(* a failed simulation, a revert, a refused quote or a stale read.         *)
AuditSpine == Undisturbed /\ row = "failed" => ~swapped

(* "Re-read the balance so the sweep decision sees reality": while no read *)
(* lags and no call reverts, the sweep never asks for more USDC than the   *)
(* agent holds, whatever the refuel of this tick spent.                    *)
SweepSeesReality == Undisturbed /\ lags = 0 /\ pc = "sweep" /\ ~mined => amt <= usdc

(* Below the threshold USDC leaves for the pool at most once per cadence.  *)
SweepsAreSpaced ==
  [][Undisturbed /\ usdc' < usdc /\ weth' = weth /\ usdc - usdc' < Threshold
       => now - lastSwept >= Cadence]_vars

(* "Recover any stranded value BEFORE the floor decision": WETH or surplus *)
(* ETH left with the agent by a failed, reverted or killed refuel does not *)
(* stay there, whatever the relayer holds.                                 *)
StrandedIsDelivered ==
  /\ weth > 0 ~> weth = 0
  /\ eth > 0 ~> eth = 0
================================================================================
