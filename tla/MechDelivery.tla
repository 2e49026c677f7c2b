--------------------------- MODULE MechDelivery ---------------------------
(***************************************************************************)
(* The mech at work: the poll loop of main.ts, pollAndRespond and          *)
(* deliverSigned of mechAdapter.ts, task intake, the response pinner and   *)
(* the Safe client, with the operator's self-test-request.ts as one of the *)
(* requesters. The chain, its mempool, Filebase, the gateway and the other *)
(* mechs are external. A block is the unit of time.                        *)
(***************************************************************************)
EXTENDS Naturals, Sequences, FiniteSets, SequencesExt

CONSTANTS
    Requests,        \* requests addressed to this mech
    SelfTest,        \* the one the operator's self-test submits
    Responses,       \* response documents: equal documents have one hash
    Envs,            \* environments the process may be started with
    MaxAttempts,     \* DEFAULT_PIN_VERIFY_POLL.maxAttempts
    ResponseTimeout, \* blocks after which another mech may deliver
    MaxHead,         \* bound on the chain's height
    MaxFaults        \* bound on failures of the network and of the process

ASSUME DeliveryAssumption ==
    /\ IsFiniteSet(Requests) /\ SelfTest \in Requests /\ MaxAttempts \in Nat \ {0}
    /\ ResponseTimeout \in Nat \ {0} /\ MaxHead \in Nat /\ MaxFaults \in Nat

VARIABLES
    head, at, status, by, tool, nonce, mempool,    \* the chain
    pinned, resolvable,                            \* Filebase, and the gateway's view of it
    env, pc, cursor, upto, queue, routed, doc, attempts, signed, aborted,   \* the process
    tester,                                        \* self-test-request.ts
    faults, lagged, crashes, unknowns,             \* faults so far, by kind
    seen, sends, from                              \* history

chain   == <<head, at, status, by, tool, nonce, mempool>>
store   == <<pinned, resolvable>>
tick    == <<upto, queue, routed, doc, attempts, signed>>
process == <<pc, cursor, tick, aborted>>
kinds   == <<lagged, crashes, unknowns>>
history == <<seen, sends, from>>
vars    == <<chain, store, env, process, tester, faults, kinds, history>>

GREY_MECH_REGISTERED_TOOLS == {"prediction_market_research", "resolution_evidence_compiler"}
Tools == {"prediction_market_research", "unknown"}   \* the registered tools take one path
NoDoc == "none"
Signatures == [nonce : Nat, ids : SUBSET Requests, docs : SUBSET Responses]
NoSignature == [nonce |-> 0, ids |-> {}, docs |-> {}]

---------------------------------------------------------------------------
(* Configuration *)

RequiredEnv == {"BASE_MECH_PAY_TO", "BASE_MECH_POOL_WALLET", "GREY_DATABASE_URL",
                "BASE_MECH_AGENT_INSTANCE_PRIVATE_KEY", "MECH_ADAPTER_FILEBASE"}
loadChainId(e) == IF "MECH_ADAPTER_CHAIN_ID=100" \in e THEN "gnosis" ELSE "base"
loadMechIdentity(e) == loadChainId(e) = "base" \/ {"MECH_ADDRESS", "MECH_MULTISIG_ADDRESS"} \subseteq e
loadConfig(e) == RequiredEnv \subseteq e
rpcChain(e) ==
    IF "MECH_ADAPTER_RPC_URL" \notin e /\ "BASE_RPC_URL" \in e THEN "base" ELSE loadChainId(e)
observeOnly == "MECH_ADAPTER_OBSERVE_ONLY=false" \notin env

\* numMechs of the chain's own marketplace must answer: on another chain's RPC nothing is there.
start == rpcChain(env) = loadChainId(env)

---------------------------------------------------------------------------
TypeOK ==
    /\ head \in 0..MaxHead /\ at \in [Requests -> 0..MaxHead]
    /\ status \in [Requests -> {"none", "requested", "delivered"}]
    /\ by \in [Requests -> {"none", "grey", "other"}] /\ tool \in [Requests -> Tools]
    /\ nonce \in Nat /\ mempool \subseteq Signatures
    /\ pinned \subseteq Responses /\ resolvable \subseteq pinned
    /\ env \in Envs /\ aborted \in BOOLEAN /\ cursor \in 0..(MaxHead + 1) /\ upto \in 0..MaxHead
    /\ pc \in {"down", "refused", "idle", "logs", "route", "pin", "verify", "build", "send",
               "receipt", "sleep", "stopped"}
    /\ queue \in Seq(Requests) /\ routed \in Seq([id : Requests, doc : Responses])
    /\ doc \in Responses \cup {NoDoc} /\ attempts \in 0..MaxAttempts /\ signed \in Signatures
    /\ tester \in {"off", "confirmed", "watching", "delivered", "proved", "ended"}
    /\ faults \in 0..MaxFaults /\ lagged \in Nat /\ crashes \in Nat /\ unknowns \in Nat
    /\ lagged + crashes + unknowns <= faults
    /\ seen \subseteq Requests /\ sends \in [Requests -> Nat] /\ from \in 0..MaxHead

Init ==
    /\ head = 0 /\ at = [q \in Requests |-> 0] /\ status = [q \in Requests |-> "none"]
    /\ by = [q \in Requests |-> "none"] /\ tool \in [Requests -> Tools] /\ nonce = 0 /\ mempool = {}
    /\ tool[SelfTest] = "prediction_market_research"
    /\ pinned = {} /\ resolvable = {} /\ env \in Envs
    /\ pc = "down" /\ cursor = 0 /\ upto = 0 /\ queue = <<>> /\ routed = <<>>
    /\ doc = NoDoc /\ attempts = 0
    /\ signed = NoSignature /\ aborted = FALSE /\ tester = "off"
    /\ faults = 0 /\ lagged = 0 /\ crashes = 0 /\ unknowns = 0
    /\ seen = {} /\ sends = [q \in Requests |-> 0] /\ from = 0

Fault == faults < MaxFaults /\ faults' = faults + 1

---------------------------------------------------------------------------
(* The chain, Filebase's network, the other mechs *)

\* A buyer's request is mined in the next block.
Mined(q) ==
    /\ status[q] = "none" /\ head < MaxHead
    /\ head' = head + 1 /\ at' = [at EXCEPT ![q] = head + 1]
    /\ status' = [status EXCEPT ![q] = "requested"]
    /\ UNCHANGED <<by, tool, nonce, mempool, store, env, process, faults, kinds, history>>

Request(q) == q # SelfTest /\ Mined(q) /\ UNCHANGED tester

NewBlock ==
    /\ head < MaxHead /\ head' = head + 1
    /\ UNCHANGED <<at, status, by, tool, nonce, mempool, store, env, process, tester, faults, kinds,
                   history>>

\* The marketplace lets any mech deliver once the response timeout has passed.
OtherDelivers(q) ==
    /\ status[q] = "requested" /\ head > at[q] + ResponseTimeout
    /\ status' = [status EXCEPT ![q] = "delivered"] /\ by' = [by EXCEPT ![q] = "other"]
    /\ UNCHANGED <<head, at, tool, nonce, mempool, store, env, process, tester, faults, kinds, history>>

\* A pinned document spreads to the public gateway.
Propagate(d) ==
    /\ d \in pinned \ resolvable /\ resolvable' = resolvable \cup {d}
    /\ UNCHANGED <<chain, pinned, env, process, tester, faults, kinds, history>>

\* The Safe takes its next transaction: the marketplace skips what is delivered already.
MineDelivery(t) ==
    /\ t \in mempool /\ mempool' = mempool \ {t}
    /\ IF t.nonce = nonce
       THEN LET open == {q \in t.ids : status[q] = "requested"} IN
            /\ nonce' = nonce + 1
            /\ status' = [q \in Requests |-> IF q \in open THEN "delivered" ELSE status[q]]
            /\ by' = [q \in Requests |-> IF q \in open THEN "grey" ELSE by[q]]
       ELSE UNCHANGED <<nonce, status, by>>
    /\ UNCHANGED <<head, at, tool, store, env, process, tester, faults, kinds, history>>

\* The same Safe executes another call its owner signed (buildSignedCall, executeCall).
executeCall ==
    /\ Fault /\ nonce' = nonce + 1
    /\ UNCHANGED <<head, at, status, by, tool, mempool, store, env, process, tester, kinds, history>>

---------------------------------------------------------------------------
(* main.ts *)

\* Mutant: the cursor starts after the head.
MainAfterHead ==
    /\ pc = "down"
    /\ IF loadConfig(env) /\ loadMechIdentity(env) /\ start
       THEN pc' = "idle" /\ cursor' = head + 1 /\ from' = head
       ELSE pc' = "refused" /\ UNCHANGED <<cursor, from>>
    /\ UNCHANGED <<chain, store, env, tick, aborted, tester, faults, kinds, seen, sends>>

\* Fail-closed configuration and a marketplace that answers, then the cursor starts at
\* the head: no backfill.
Main ==
    /\ pc = "down"
    /\ IF loadConfig(env) /\ loadMechIdentity(env) /\ start
       THEN pc' = "idle" /\ cursor' = head /\ from' = head
       ELSE pc' = "refused" /\ UNCHANGED <<cursor, from>>
    /\ UNCHANGED <<chain, store, env, tick, aborted, tester, faults, kinds, seen, sends>>

installSignalAbort ==
    /\ pc \notin {"down", "refused", "stopped"} /\ ~aborted /\ aborted' = TRUE
    /\ UNCHANGED <<chain, store, env, pc, cursor, tick, tester, faults, kinds, history>>

\* The top of the loop: leave if aborted, or read the head and open a tick.
PollHead ==
    /\ pc = "idle"
    /\ IF aborted THEN pc' = "stopped" /\ UNCHANGED upto
       ELSE IF head >= cursor THEN pc' = "logs" /\ upto' = head
       ELSE pc' = "sleep" /\ UNCHANGED upto
    /\ UNCHANGED <<chain, store, env, cursor, queue, routed, doc, attempts, signed, aborted, tester,
                   faults, kinds, history>>

Forget == upto' = 0 /\ queue' = <<>> /\ routed' = <<>> /\ signed' = NoSignature /\ doc' = NoDoc /\ attempts' = 0

\* Mutant: the cursor passes the head of the tick's end, not that of its start.
EndTickAtHead == pc' = "sleep" /\ cursor' = head + 1 /\ Forget

\* Mutant: the next range begins with the last block of this one.
EndTickInclusive == pc' = "sleep" /\ cursor' = upto /\ Forget

\* A tick ends: the cursor passes the range whatever became of its requests.
EndTick == pc' = "sleep" /\ cursor' = upto + 1 /\ Forget
\* A tick throws: the range is polled again.
TickError == pc' = "sleep" /\ UNCHANGED cursor /\ Forget

Sleep ==
    /\ pc = "sleep" /\ pc' = IF aborted THEN "stopped" ELSE "idle"
    /\ UNCHANGED <<chain, store, env, cursor, tick, aborted, tester, faults, kinds, history>>

Crash ==
    /\ pc \notin {"down", "refused", "stopped"} /\ Fault /\ crashes' = crashes + 1
    /\ pc' = "down" /\ Forget
    /\ UNCHANGED <<chain, store, env, cursor, aborted, tester, lagged, unknowns, history>>

---------------------------------------------------------------------------
(* MechAdapter.pollAndRespond *)

\* getLogs answers in the order of the blocks.
InBlockOrder(Q) == {s \in SetToSeqs(Q) : \A i, j \in DOMAIN s : i < j => at[s[i]] <= at[s[j]]}

\* One getLogs over the range; a backend behind the head misses its last block.
pollForOwnRequests ==
    /\ pc = "logs"
    /\ \E last \in {upto, upto - 1} :
        LET found == {q \in Requests : status[q] # "none" /\ at[q] \in cursor..last} IN
        /\ IF last = upto THEN UNCHANGED <<faults, lagged>>
           ELSE upto > 0 /\ Fault /\ lagged' = lagged + 1
        /\ queue' \in InBlockOrder(found) /\ seen' = seen \cup found
        /\ pc' = "route" /\ routed' = <<>>
    /\ UNCHANGED <<chain, store, env, cursor, upto, doc, attempts, signed, aborted, tester, crashes,
                   unknowns, sends, from>>

PollThrows ==
    /\ pc = "logs" /\ Fault /\ TickError
    /\ UNCHANGED <<chain, store, env, aborted, tester, kinds, history>>

\* A request whose routing threw is left out; the rest of the batch goes on.
Skips == pc' = "route" /\ queue' = Tail(queue) /\ doc' = NoDoc /\ attempts' = 0 /\ UNCHANGED routed

\* The document imported as unixfs: some hash, the same for equal documents.
deriveResponseHash == doc' \in Responses

\* The request's content names a registered tool: the shared handler answers it, or throws.
routeRequest ==
    /\ pc = "route" /\ queue # <<>> /\ tool[Head(queue)] \in GREY_MECH_REGISTERED_TOOLS
    /\ \/ deriveResponseHash /\ pc' = "pin" /\ attempts' = 0 /\ UNCHANGED <<queue, routed, faults>>
       \/ Fault /\ Skips
    /\ UNCHANGED <<chain, store, env, cursor, upto, signed, aborted, tester, kinds, history>>

\* Content of no schema known here, or naming another tool, throws.
UnknownTool ==
    /\ pc = "route" /\ queue # <<>> /\ tool[Head(queue)] \notin GREY_MECH_REGISTERED_TOOLS
    /\ Skips
    /\ UNCHANGED <<chain, store, env, cursor, upto, signed, aborted, tester, faults, kinds, history>>

\* The gateway does not serve the request's content under either of its paths.
fetchRequestContentFails ==
    /\ pc = "route" /\ queue # <<>> /\ Fault /\ Skips
    /\ UNCHANGED <<chain, store, env, cursor, upto, signed, aborted, tester, kinds, history>>

\* Mutant: a pin is taken for a document the gateway serves.
pinUnverified ==
    /\ pc = "pin" /\ pinned' = pinned \cup {doc}
    /\ pc' = "route" /\ queue' = Tail(queue) /\ doc' = NoDoc /\ attempts' = 0
    /\ routed' = Append(routed, [id |-> Head(queue), doc |-> doc])
    /\ UNCHANGED <<chain, resolvable, env, cursor, upto, signed, aborted, tester, faults, kinds, history>>

\* The CAR is imported under the document's own hash.
pinAndVerify ==
    /\ pc = "pin" /\ pinned' = pinned \cup {doc} /\ pc' = "verify"
    /\ UNCHANGED <<chain, resolvable, env, cursor, upto, queue, routed, doc, attempts, signed, aborted,
                   tester, faults, kinds, history>>

\* A failed PUT, or a vendor that reports another CID, throws.
PinFails ==
    /\ pc = "pin" /\ Fault /\ Skips
    /\ UNCHANGED <<chain, store, env, cursor, upto, signed, aborted, tester, kinds, history>>

\* The pinned result joins the batch.
Routes ==
    /\ pc' = "route" /\ queue' = Tail(queue) /\ doc' = NoDoc /\ attempts' = 0
    /\ routed' = Append(routed, [id |-> Head(queue), doc |-> doc])

\* One fetch from the independent gateway: routed once it resolves, given up after maxAttempts.
verifyResolvable ==
    /\ pc = "verify"
    /\ \/ doc \in resolvable /\ Routes /\ UNCHANGED faults
       \/ IF attempts + 1 = MaxAttempts THEN Fault /\ Skips
          ELSE attempts' = attempts + 1 /\ UNCHANGED <<pc, queue, routed, doc, faults>>
    /\ UNCHANGED <<chain, store, env, cursor, upto, signed, aborted, tester, kinds, history>>

\* Nothing routed: the tick is over. Otherwise one delivery for everything routed.
BatchRouted ==
    /\ pc = "route" /\ queue = <<>>
    /\ IF routed = <<>> THEN EndTick ELSE pc' = "build" /\ UNCHANGED <<cursor, tick>>
    /\ UNCHANGED <<chain, store, env, aborted, tester, faults, kinds, history>>

---------------------------------------------------------------------------
(* MechAdapter.deliverSigned and the Safe client *)

\* One calldata for everything routed, and what the owner signs: the Safe's hash of it
\* at the nonce just read.
encodeDeliverToMarketplaceCalldata ==
    [ids |-> {routed[k].id : k \in DOMAIN routed}, docs |-> {routed[k].doc : k \in DOMAIN routed}]
signSafeTransactionHash(data) == [nonce |-> nonce, ids |-> data.ids, docs |-> data.docs]

buildSignedDelivery ==
    /\ pc = "build" /\ pc' = "send"
    /\ signed' = signSafeTransactionHash(encodeDeliverToMarketplaceCalldata)
    /\ UNCHANGED <<chain, store, env, cursor, upto, queue, routed, doc, attempts, aborted, tester, faults,
                   kinds, history>>

\* simulateContract refuses a signature over a used nonce.
simulateDelivery == signed.nonce = nonce

\* observeOnly stops after the simulation; the batch is sent otherwise.
deliverSigned ==
    /\ pc = "send"
    /\ IF ~simulateDelivery THEN TickError /\ UNCHANGED <<mempool, sends>>
       ELSE IF observeOnly THEN EndTick /\ UNCHANGED <<mempool, sends>>
       ELSE /\ pc' = "receipt" /\ mempool' = mempool \cup {signed}
            /\ sends' = [q \in Requests |-> IF q \in signed.ids THEN sends[q] + 1 ELSE sends[q]]
            /\ UNCHANGED <<cursor, tick>>
    /\ UNCHANGED <<head, at, status, by, tool, nonce, store, env, aborted, tester,
                   faults, kinds, seen, from>>

DeliveryThrows ==
    /\ pc \in {"build", "send"} /\ Fault /\ TickError
    /\ UNCHANGED <<chain, store, env, aborted, tester, kinds, history>>

\* ExecutionSuccess or not, the tick is complete.
executeDelivery ==
    /\ pc = "receipt" /\ signed \notin mempool /\ EndTick
    /\ UNCHANGED <<chain, store, env, aborted, tester, faults, kinds, history>>

\* waitForTransactionReceipt gives up on a transaction that may still be mined.
ReceiptUnknown ==
    /\ pc = "receipt" /\ Fault /\ unknowns' = unknowns + 1 /\ TickError
    /\ UNCHANGED <<chain, store, env, aborted, tester, lagged, crashes, history>>

---------------------------------------------------------------------------
(* self-test-request.ts *)

Tester(before, after) ==
    /\ tester = before /\ tester' = after
    /\ UNCHANGED <<store, env, process, faults, kinds, history>>

\* The request's own content is pinned and verified, request() simulated, REQUEST typed
\* or not; any of them failing ends the script with nothing sent.
Preflight == \E answer \in {"confirmed", "ended"} : Tester("off", answer) /\ UNCHANGED chain

\* The transaction is mined and its event gives the request id.
SubmitRequest ==
    /\ tester = "confirmed" /\ tester' = "watching" /\ Mined(SelfTest)

\* getRequestStatus until Delivered, or until maxWaitSeconds have passed.
WatchStatus ==
    \/ status[SelfTest] = "delivered" /\ Tester("watching", "delivered") /\ UNCHANGED chain
    \/ head > at[SelfTest] + ResponseTimeout /\ Tester("watching", "ended") /\ UNCHANGED chain

\* The mech's own Deliver event, then its content from the gateway.
FetchDelivered ==
    /\ Tester("delivered", IF by[SelfTest] = "grey" THEN "proved" ELSE "ended")
    /\ UNCHANGED chain

---------------------------------------------------------------------------
Poll == PollHead \/ pollForOwnRequests \/ routeRequest \/ UnknownTool \/ pinAndVerify
        \/ verifyResolvable \/ BatchRouted
Deliver == buildSignedDelivery \/ deliverSigned \/ executeDelivery
Network == (\E d \in Responses : Propagate(d)) \/ (\E t \in mempool : MineDelivery(t))

Next ==
    \/ \E q \in Requests : Request(q) \/ OtherDelivers(q)
    \/ NewBlock \/ Network \/ executeCall
    \/ Main \/ installSignalAbort \/ Sleep \/ Crash \/ Poll \/ PollThrows
    \/ fetchRequestContentFails \/ PinFails \/ Deliver \/ DeliveryThrows \/ ReceiptUnknown
    \/ Preflight \/ SubmitRequest \/ WatchStatus \/ FetchDelivered

Spec == Init /\ [][Next]_vars

\* systemd restarts the process, its loop runs on, pins spread and transactions are mined.
FairSpec ==
    /\ Spec /\ WF_vars(Main) /\ WF_vars(Sleep) /\ WF_vars(Poll) /\ WF_vars(Deliver)
    /\ WF_vars(\E d \in Responses : Propagate(d)) /\ WF_vars(\E t \in mempool : MineDelivery(t))

---------------------------------------------------------------------------
(* Properties *)

\* A hash is delivered only for content the independent gateway has served
\* (responsePinner.ts: callers must not deliver on a thrown result).
DeliveredIsResolvable ==
    /\ \A k \in DOMAIN routed : routed[k].doc \in resolvable
    /\ \A t \in mempool : t.docs \subseteq resolvable

\* The cursor leaves no gap: a request mined since the process started and before
\* the cursor was in some poll, unless a backend behind the head answered one.
NoRequestSkipped ==
    lagged = 0
        => \A q \in Requests : status[q] # "none" /\ from <= at[q] /\ at[q] < cursor => q \in seen

\* Ticks that end well answer disjoint ranges: a request is sent twice only after
\* a crash or a receipt that never came.
SentOnce == crashes = 0 /\ unknowns = 0 => \A q \in Requests : sends[q] <= 1

\* A stop waits for the tick: no delivery is left in flight by a clean shutdown.
StopIsClean == pc = "stopped" /\ crashes = 0 /\ unknowns = 0 => mempool = {}

\* A request to a registered tool that the running process can see is delivered,
\* when nothing fails and nobody stops the process.
EveryRequestIsDelivered ==
    \A q \in Requests :
        (status[q] = "requested" /\ from <= at[q] /\ pc \notin {"down", "refused"}
           /\ tool[q] \in GREY_MECH_REGISTERED_TOOLS /\ ~observeOnly)
          ~> (status[q] = "delivered" \/ faults > 0 \/ aborted)

\* The self-test reports the cycle confirmed only when this mech delivered it.
SelfTestProvesDelivery ==
    tester = "proved" => by[SelfTest] = "grey" /\ sends[SelfTest] > 0

\* What holds of every state: its shape, no hash without its content, a clean stop
\* and an honest self-test.
DeliveryInv == TypeOK /\ DeliveredIsResolvable /\ StopIsClean /\ SelfTestProvesDelivery
===========================================================================
