------------------------------- MODULE X402Gate -------------------------------
(***************************************************************************)
(* Paid HTTP: adapters/x402-middleware and the routes of packages/         *)
(* grey-core/src/server.                                                   *)
(*                                                                         *)
(* A request carries an EIP-3009 transfer authorization.  The gate checks  *)
(* that it is there, the body is validated, the payment is verified,       *)
(* simulated, broadcast and waited for, and only then does the offering's  *)
(* handler run.  Four routes share this order: the offerings, the trust    *)
(* rung and the MCP tools settle with Grey's relayer, the CDP route with a *)
(* facilitator.  The Bankr bridge asks for a secret and no payment.        *)
(*                                                                         *)
(* One action per stretch of code between two awaits.  Reads may come from *)
(* a node behind the head; a broadcast transfer outlives the request and   *)
(* the process.                                                            *)
(***************************************************************************)
EXTENDS Naturals, FiniteSets

CONSTANTS
  Reqs,          \* requests
  Auths,         \* authorizations signed by buyers
  NoAuth,        \* the credential of a request without one
  BridgeSecret,  \* the credential of Bankr's calls
  Offered,       \* bound: the offerings buyers ask for
  Signed,        \* bound: what the authorizations buyers sign may say
  Envs,          \* the environments the process may be started in
  MaxNow,        \* bound: the clock of the chain and of the server
  MaxFaults      \* bound: calls that throw and deaths of the process

PAID == {"legitimacy_scan", "verify_whitepaper", "verify_full_tech",
         "claim_extraction", "claim_history", "quick_protocol_facts"}
PAID_SLUG_ORDER == {"legitimacy_scan", "verify_whitepaper", "verify_full_tech",
                    "claim_extraction", "claim_history", "quick_protocol_facts"}
BANKR_BRIDGE_SLUGS == {"legitimacy_scan", "verify_whitepaper", "verify_full_tech",
                       "claim_extraction", "claim_history", "quick_protocol_facts"}
TRUST_RUNG_SLUG == "legitimacy_scan_trust_rung"

(* Prices in cents; x402 multiplies the canonical price by one. *)
PRICING_TABLE ==
  [s \in PAID \cup {TRUST_RUNG_SLUG} |->
     CASE s = "legitimacy_scan" -> 25
       [] s = "verify_whitepaper" -> 150
       [] s = "verify_full_tech" -> 300
       [] s = "claim_extraction" -> 75
       [] s = "claim_history" -> 25
       [] s = "quick_protocol_facts" -> 30
       [] OTHER -> 10]

RelayerRoutes == {"offering", "trustRung", "mcp"}
PaidRoutes == RelayerRoutes \cup {"cdp"}
Routes == PaidRoutes \cup {"bridge"}
Credentials == Auths \cup {NoAuth, BridgeSecret}

(* A set of environment variables: are those of the payment gate complete  *)
(* and valid, how many of the three CDP ones are there, the two switches.  *)
AllEnvs == [payment : BOOLEAN, cdp : {"all", "some", "none"},
            trustRung : BOOLEAN, bridge : BOOLEAN]
(* An authorization: its amount, its validity window, and whether network, *)
(* payTo and signature are right.                                          *)
Terms == [value : Nat, from : Nat, before : Nat, sound : BOOLEAN]
Asks == [route : Routes, slug : PAID \cup {TRUST_RUNG_SLUG}, cred : Credentials, body : BOOLEAN]

(* Where a request awaits, and the status it was answered with. *)
WorkPCs == {"arrived", "present", "valid", "verified", "simulated", "waiting",
            "settled", "recorded"}
Refusals == {"400", "402", "403"}
Answers == Refusals \cup {"200", "500", "502", "gone"}

ASSUME ConstantsOK ==
  /\ NoAuth \notin Auths
  /\ BridgeSecret \notin Auths
  /\ Reqs \cap {"nobody", "other"} = {}
  /\ Offered \subseteq PAID
  /\ Signed \subseteq Terms
  /\ Envs \subseteq AllEnvs
  /\ MaxNow \in Nat
  /\ MaxFaults \in Nat

VARIABLES
  env,      \* the process's environment
  up,       \* the server listens
  terms,    \* what each authorization says
  ask,      \* what each request asks, fixed when it arrives
  pc,       \* where each request is
  tx,       \* the transfer broadcast for each request
  spentBy,  \* the chain: authorizations spent, and for whom
  ledger,   \* grey_two.revenue_events: the cents recorded for each request
  now, faults

setup == <<env, terms>>
chain == <<tx, spentBy>>
bounds == <<now, faults>>
vars == <<setup, up, ask, pc, chain, ledger, bounds>>

-------------------------------------------------------------------------------
(* Configuration and boot.                                                 *)

loadX402Config(e) == e.payment /\ e.cdp # "some"

Mounted(e) ==
  {"offering", "mcp"}
    \cup (IF e.trustRung THEN {"trustRung"} ELSE {})
    \cup (IF e.cdp = "all" THEN {"cdp"} ELSE {})
    \cup (IF e.bridge THEN {"bridge"} ELSE {})

SlugsOf(route) ==
  CASE route = "trustRung" -> {TRUST_RUNG_SLUG}
    [] route = "bridge" -> BANKR_BRIDGE_SLUGS \cap Offered
    [] OTHER -> PAID \cap Offered

CredentialsOf(route) == IF route = "bridge" THEN {BridgeSecret, NoAuth} ELSE Auths \cup {NoAuth}

Init ==
  /\ env \in Envs
  /\ terms \in [Auths -> Signed]
  /\ up = FALSE
  /\ ask = [r \in Reqs |-> [route |-> "offering", slug |-> "legitimacy_scan",
                            cred |-> NoAuth, body |-> FALSE]]
  /\ pc = [r \in Reqs |-> "unsent"]
  /\ tx = [r \in Reqs |-> "none"]
  /\ spentBy = [a \in Auths |-> "nobody"]
  /\ ledger = [r \in Reqs |-> 0]
  /\ now = 0
  /\ faults = 0

InFlight == {r \in Reqs : pc[r] \in WorkPCs}

(* The process exits at once when the configuration does not load. *)
Boot ==
  /\ ~up
  /\ loadX402Config(env)
  /\ up' = TRUE
  /\ UNCHANGED <<setup, ask, pc, chain, ledger, bounds>>

(* The connections die with the process; the transfers it sent do not. *)
Crash ==
  /\ up
  /\ faults < MaxFaults
  /\ faults' = faults + 1
  /\ up' = FALSE
  /\ pc' = [r \in Reqs |-> IF r \in InFlight THEN "gone" ELSE pc[r]]
  /\ UNCHANGED <<setup, ask, chain, ledger, now>>

-------------------------------------------------------------------------------
(* The chain (external).                                                   *)

Open(a) == terms[a].from <= now /\ now < terms[a].before
Used(a) == spentBy[a] # "nobody"

(* A read of authorizationState, which a lagging node answers late. *)
ReadUsed(a) == {FALSE, Used(a)}

Mine(r) ==
  /\ tx[r] = "pending"
  /\ LET a == ask[r].cred IN
       IF ~Used(a) /\ Open(a)
       THEN /\ spentBy' = [spentBy EXCEPT ![a] = r]
            /\ tx' = [tx EXCEPT ![r] = "success"]
       ELSE /\ UNCHANGED spentBy
            /\ tx' = [tx EXCEPT ![r] = "reverted"]
  /\ UNCHANGED <<setup, up, ask, pc, ledger, bounds>>

(* The buyer cancels his authorization or has it executed himself. *)
SpendElsewhere(a) ==
  /\ ~Used(a)
  /\ spentBy' = [spentBy EXCEPT ![a] = "other"]
  /\ UNCHANGED <<setup, up, ask, pc, tx, ledger, bounds>>

Tick ==
  /\ now < MaxNow
  /\ now' = now + 1
  /\ UNCHANGED <<setup, up, ask, pc, chain, ledger, faults>>

-------------------------------------------------------------------------------
(* A request until its payment is verified.                                *)

Moves(r, to) == pc' = [pc EXCEPT ![r] = to]
Waits(r) == UNCHANGED <<setup, up, ask, chain, ledger, now>>
NoFault == UNCHANGED faults
Fault == faults < MaxFaults /\ faults' = faults + 1

(* slugFromUrl: a slug missing from the price list would pass ungated. *)
Gated(r) == ask[r].route = "trustRung" \/ ask[r].slug \in PAID_SLUG_ORDER
Carries(r) == ask[r].cred # NoAuth

Arrive(r) ==
  /\ up
  /\ pc[r] = "unsent"
  /\ \E route \in Mounted(env), body \in BOOLEAN :
       \E slug \in SlugsOf(route), cred \in CredentialsOf(route) :
         ask' = [ask EXCEPT ![r] = [route |-> route, slug |-> slug, cred |-> cred, body |-> body]]
  /\ Moves(r, "arrived")
  /\ UNCHANGED <<setup, up, chain, ledger, bounds>>

(* preValidation: the header's presence, whatever the body. *)
HeaderCheck(r) ==
  /\ pc[r] = "arrived"
  /\ Moves(r, IF Gated(r) /\ ~Carries(r) THEN "402" ELSE "present")
  /\ Waits(r) /\ NoFault
x402PaymentPresenceCheck(r) == ask[r].route = "offering" /\ HeaderCheck(r)
trustRungPaymentPresenceCheck(r) == ask[r].route = "trustRung" /\ HeaderCheck(r)
cdpX402PaymentPresenceCheck(r) == ask[r].route = "cdp" /\ HeaderCheck(r)
McpCall(r) == ask[r].route = "mcp" /\ HeaderCheck(r)

\* Mutant: the payment is taken before the body is looked at.
BodyCheckAfterwards(r, at) ==
  pc[r] = at /\ Moves(r, "valid") /\ Waits(r) /\ NoFault

(* The body is validated before anything is charged. *)
BodyCheck(r, at) ==
  /\ pc[r] = at
  /\ Moves(r, IF ask[r].body THEN "valid" ELSE "400")
  /\ Waits(r) /\ NoFault
Validate(r) ==
  IF ask[r].route = "bridge" THEN BodyCheck(r, "arrived")
  ELSE ask[r].route # "mcp" /\ BodyCheck(r, "present")
McpValidate(r) == ask[r].route = "mcp" /\ BodyCheck(r, "present")

priceAtomicFor(r) == PRICING_TABLE[ask[r].slug]

(* The amount a 402 asks for. *)
buildPaymentRequirements(slug) == PRICING_TABLE[slug]
buildTrustRungPaymentRequirements == PRICING_TABLE[TRUST_RUNG_SLUG]
buildCdpPaymentRequirementsEntry(slug) == PRICING_TABLE[slug]
buildCdpChallenge(slug) == buildCdpPaymentRequirementsEntry(slug)
Quote(route, slug) ==
  CASE route = "trustRung" -> buildTrustRungPaymentRequirements
    [] route = "cdp" -> buildCdpChallenge(slug)
    [] OTHER -> buildPaymentRequirements(slug)

decodePaymentHeader(r) == ask[r].cred \in Auths

(* verifyPayment, given what the read answered. *)
verifyPayment(r, used) ==
  LET a == ask[r].cred IN
  /\ decodePaymentHeader(r)
  /\ terms[a].sound
  /\ terms[a].value >= priceAtomicFor(r)
  /\ Open(a)
  /\ ~used

Verify(r) ==
  /\ pc[r] = "valid"
  /\ \/ \E used \in IF ask[r].cred \in Auths THEN ReadUsed(ask[r].cred) ELSE {FALSE} :
          Moves(r, IF verifyPayment(r, used) THEN "verified" ELSE "402")
        /\ NoFault
     \/ Moves(r, "402") /\ Fault
  /\ Waits(r)

(* An ungated slug goes straight to the handler. *)
Gate(r) ==
  IF Gated(r) THEN Verify(r) ELSE pc[r] = "valid" /\ Moves(r, "settled") /\ Waits(r) /\ NoFault

-------------------------------------------------------------------------------
(* Settlement with the relayer.                                            *)

(* Whatever the simulation throws is a refusal. *)
Simulate(r) ==
  /\ pc[r] = "verified"
  /\ \/ \E used \in ReadUsed(ask[r].cred) :
          Moves(r, IF ~used /\ Open(ask[r].cred) THEN "simulated" ELSE "402")
        /\ NoFault
     \/ Moves(r, "402") /\ Fault
  /\ Waits(r)

Sends(r, to) ==
  /\ tx' = [tx EXCEPT ![r] = "pending"]
  /\ Moves(r, to)
  /\ UNCHANGED <<setup, up, ask, spentBy, ledger, now>>

Broadcast(r) ==
  /\ pc[r] = "simulated"
  /\ Sends(r, "waiting")
  /\ NoFault

(* The sequencer refuses a transfer whose authorization is spent or out of *)
(* its window: isAuthStateRejection.                                       *)
BroadcastRejected(r) ==
  /\ pc[r] = "simulated"
  /\ Used(ask[r].cred) \/ ~Open(ask[r].cred)
  /\ Moves(r, "402")
  /\ Waits(r) /\ NoFault

(* Any other error is a 502, whether or not the transfer got through. *)
BroadcastThrows(r) ==
  /\ pc[r] = "simulated"
  /\ \/ Moves(r, "502") /\ Waits(r)
     \/ Sends(r, "502")
  /\ Fault

ReceiptArrives(r) ==
  /\ pc[r] = "waiting"
  /\ tx[r] \in {"success", "reverted"}
  /\ Moves(r, IF tx[r] = "success" THEN "settled" ELSE "502")
  /\ Waits(r) /\ NoFault

\* Mutant: a broadcast counts as a settlement.
ReceiptWaitTrusts(r) ==
  /\ pc[r] = "waiting"
  /\ Moves(r, "settled")
  /\ IF tx[r] = "pending" THEN NoFault ELSE Fault
  /\ Waits(r)

\* Mutant: the wait has no timeout.
ReceiptWaitForever(r) ==
  /\ pc[r] = "waiting"
  /\ tx[r] # "pending"
  /\ Moves(r, "502")
  /\ Fault
  /\ Waits(r)

(* The wait times out while the transfer is pending, or the RPC fails. *)
ReceiptWaitThrows(r) ==
  /\ pc[r] = "waiting"
  /\ Moves(r, "502")
  /\ IF tx[r] = "pending" THEN NoFault ELSE Fault
  /\ Waits(r)

settle(r) ==
  \/ Simulate(r) \/ Broadcast(r) \/ BroadcastRejected(r) \/ BroadcastThrows(r)
  \/ ReceiptArrives(r) \/ ReceiptWaitThrows(r)

x402PreHandler(r) == ask[r].route = "offering" /\ (Gate(r) \/ settle(r))
trustRungPreHandler(r) == ask[r].route = "trustRung" /\ (Verify(r) \/ settle(r))
McpPays(r) == ask[r].route = "mcp" /\ (Gate(r) \/ settle(r))

(* The facilitator's verify (external) checks what the entry asks. *)
CdpVerify(r) ==
  \/ Verify(r)
  \/ pc[r] = "valid" /\ Moves(r, "502") /\ Fault /\ Waits(r)

(* Settlement through the facilitator (external): it broadcasts and waits  *)
(* in one call, and an error it reports is a transfer that does not stand. *)
CdpSettle(r) ==
  /\ pc[r] = "verified"
  /\ \/ Sends(r, "waiting") /\ NoFault
     \/ Moves(r, "402") /\ Waits(r) /\ (IF Used(ask[r].cred) \/ ~Open(ask[r].cred) THEN NoFault ELSE Fault)
     \/ Sends(r, "502") /\ Fault
     \/ Moves(r, "502") /\ Waits(r) /\ Fault

CdpSettled(r) ==
  /\ pc[r] = "waiting"
  /\ tx[r] \in {"success", "reverted"}
  /\ Moves(r, IF tx[r] = "success" THEN "settled" ELSE "402")
  /\ Waits(r) /\ NoFault

CdpWaitThrows(r) == ReceiptWaitThrows(r)

cdpX402PreHandler(r) ==
  ask[r].route = "cdp" /\ (CdpVerify(r) \/ CdpSettle(r) \/ CdpSettled(r) \/ CdpWaitThrows(r))

-------------------------------------------------------------------------------
(* The handler.                                                            *)

(* Revenue is recorded before the handler runs; a failed write is logged. *)
Records(r, cents) ==
  /\ Moves(r, "recorded")
  /\ \/ ledger' = [ledger EXCEPT ![r] = cents] /\ NoFault
     \/ UNCHANGED ledger /\ Fault
  /\ UNCHANGED <<setup, up, ask, chain, now>>

\* Mutant: revenue is booked when the payment is verified, not when it stands.
OfferingRecordsEarly(r) ==
  /\ pc[r] \in {"verified", "settled"}
  /\ ask[r].route = "offering"
  /\ IF Gated(r) THEN Records(r, PRICING_TABLE[ask[r].slug]) ELSE Records(r, 0)

OfferingRecords(r) ==
  /\ pc[r] = "settled"
  /\ ask[r].route = "offering"
  /\ IF Gated(r) THEN Records(r, PRICING_TABLE[ask[r].slug]) ELSE Records(r, 0)
CdpRecords(r) ==
  pc[r] = "settled" /\ ask[r].route = "cdp" /\ Records(r, PRICING_TABLE[ask[r].slug])
TrustRungRecords(r) ==
  pc[r] = "settled" /\ ask[r].route = "trustRung" /\ Records(r, PRICING_TABLE[TRUST_RUNG_SLUG])
McpRecords(r) ==
  pc[r] = "settled" /\ ask[r].route = "mcp" /\ Records(r, PRICING_TABLE[ask[r].slug])

(* The bridge checks its secret in the handler and records a use, no money. *)
BridgeHandles(r) ==
  /\ ask[r].route = "bridge"
  /\ pc[r] = "valid"
  /\ IF ask[r].cred = BridgeSecret THEN Records(r, 0) ELSE Moves(r, "403") /\ Waits(r) /\ NoFault

(* The offering's handler, then the envelope, whose price must exist. *)
Responds(r) ==
  /\ pc[r] = "recorded"
  /\ \/ Moves(r, IF Gated(r) THEN "200" ELSE "500") /\ NoFault
     \/ Moves(r, "500") /\ Fault
  /\ Waits(r)
OfferingResponds(r) == ask[r].route = "offering" /\ Responds(r)
CdpResponds(r) == ask[r].route = "cdp" /\ Responds(r)
TrustRungResponds(r) == ask[r].route = "trustRung" /\ Responds(r)
McpResponds(r) == ask[r].route = "mcp" /\ Responds(r)
BridgeResponds(r) == ask[r].route = "bridge" /\ Responds(r)

-------------------------------------------------------------------------------
Handle(r) ==
  \/ x402PaymentPresenceCheck(r) \/ trustRungPaymentPresenceCheck(r)
  \/ cdpX402PaymentPresenceCheck(r) \/ McpCall(r)
  \/ Validate(r) \/ McpValidate(r)
  \/ x402PreHandler(r) \/ trustRungPreHandler(r) \/ McpPays(r) \/ cdpX402PreHandler(r)
  \/ OfferingRecords(r) \/ CdpRecords(r) \/ TrustRungRecords(r) \/ McpRecords(r)
  \/ BridgeHandles(r)
  \/ OfferingResponds(r) \/ CdpResponds(r) \/ TrustRungResponds(r)
  \/ McpResponds(r) \/ BridgeResponds(r)

Next ==
  \/ Boot \/ Crash \/ Tick
  \/ \E a \in Auths : SpendElsewhere(a)
  \/ \E r \in Reqs : Arrive(r) \/ Mine(r) \/ Handle(r)

Spec == Init /\ [][Next]_vars

(* Every await of a request ends: calls return or throw, and the wait for  *)
(* a receipt has a timeout.  Whether a transfer is ever mined is not ours. *)
FairSpec == Spec /\ \A r \in Reqs : WF_vars(Handle(r))

-------------------------------------------------------------------------------
(* Properties.                                                             *)

TypeOK ==
  /\ env \in Envs
  /\ up \in BOOLEAN
  /\ terms \in [Auths -> Signed]
  /\ ask \in [Reqs -> Asks]
  /\ pc \in [Reqs -> {"unsent"} \cup WorkPCs \cup Answers]
  /\ tx \in [Reqs -> {"none", "pending", "success", "reverted"}]
  /\ spentBy \in [Auths -> Reqs \cup {"nobody", "other"}]
  /\ ledger \in [Reqs -> Nat]
  /\ now \in 0..MaxNow
  /\ faults \in 0..MaxFaults

(* Nothing is broadcast for a malformed body, for a bridge call, or on an  *)
(* authorization that does not pay what the 402 of the route asks          *)
(* (preHandler.ts:11-15, mcp.ts:168-179).                                  *)
ChargedOnlyWhenDue ==
  \A r \in Reqs : tx[r] # "none" =>
    /\ ask[r].body
    /\ ask[r].route \in PaidRoutes
    /\ ask[r].cred \in Auths
    /\ terms[ask[r].cred].sound
    /\ terms[ask[r].cred].value >= Quote(ask[r].route, ask[r].slug)

(* A buyer who signs what the 402 asks and sends a valid body in time is   *)
(* refused only if something failed or the authorization was spent: a node *)
(* behind the head never turns him away (settle.ts:40-43).                 *)
HonestIsNotRefused ==
  \A r \in Reqs :
    LET a == ask[r].cred IN
      pc[r] \in Refusals /\ ask[r].body /\ ask[r].route \in PaidRoutes /\ a \in Auths
        /\ terms[a].sound /\ terms[a].from = 0
        /\ terms[a].value >= Quote(ask[r].route, ask[r].slug)
      => faults > 0 \/ Used(a) \/ ~Open(a)

(* The ledger records a settlement once it stands and never more than was  *)
(* paid; without a failed write it holds the price of every served request *)
(* (offerings.ts:70-84).                                                   *)
LedgerIsEarned ==
  \A r \in Reqs :
    /\ ledger[r] > 0 => spentBy[ask[r].cred] = r /\ ledger[r] <= terms[ask[r].cred].value
    /\ pc[r] = "200" /\ ask[r].route \in PaidRoutes /\ faults = 0 =>
         ledger[r] = Quote(ask[r].route, ask[r].slug)

(* What holds of every state: its shape, and the two promises above about  *)
(* honest buyers and the ledger.                                           *)
GateInv == TypeOK /\ HonestIsNotRefused /\ LedgerIsEarned

(* The gate implements the promise of PaidService: one authorization, one  *)
(* request; served only when paid; refused and never charged.              *)
Outcome(r) ==
  IF ask[r].route = "bridge" THEN "none"
  ELSE CASE pc[r] = "200" -> "served"
         [] pc[r] \in Refusals -> "refused"
         [] pc[r] \in {"500", "502", "gone"} -> "failed"
         [] OTHER -> "none"
Service == INSTANCE PaidService WITH
  outcome <- [r \in Reqs |-> Outcome(r)], Nobody <- "nobody", Other <- "other"
ImplementsPaidService == Service!Spec

(* Every request is answered or loses its connection with the process.     *)
EveryRequestIsAnswered == \A r \in Reqs : pc[r] = "arrived" ~> pc[r] \in Answers
===============================================================================
