---------------------------- MODULE X402GateProofs ----------------------------
(* Proofs about the paid routes, for any number of requests and             *)
(* authorizations, whatever the buyers sign.                                *)
EXTENDS X402Gate, TLAPS

-------------------------------------------------------------------------------
(* The steps of a request have one shape: it moves on, and has at most      *)
(* broadcast its transfer or had its row written.                           *)

PCs == {"unsent"} \cup WorkPCs \cup Answers

MovesOn(r) ==
  /\ \E to \in PCs : Moves(r, to)
  /\ tx' = tx \/ tx' = [tx EXCEPT ![r] = "pending"]
  /\ \/ ledger' = ledger
     \/ \E cents \in {0} \cup {PRICING_TABLE[s] : s \in DOMAIN PRICING_TABLE} :
          ledger' = [ledger EXCEPT ![r] = cents]
  /\ faults' = faults \/ Fault
  /\ UNCHANGED <<setup, up, ask, spentBy, now>>

LEMMA PricesAreNaturals ==
  ASSUME NEW s \in DOMAIN PRICING_TABLE
  PROVE  PRICING_TABLE[s] \in Nat
BY DEF PRICING_TABLE, PAID, TRUST_RUNG_SLUG

LEMMA ChecksMoveOn ==
  ASSUME NEW r, \/ x402PaymentPresenceCheck(r) \/ trustRungPaymentPresenceCheck(r)
                \/ cdpX402PaymentPresenceCheck(r) \/ McpCall(r)
                \/ Validate(r) \/ McpValidate(r)
  PROVE  MovesOn(r)
<1> USE DEF MovesOn, PCs, WorkPCs, Answers, Refusals, Waits, chain, NoFault
<1>1. ASSUME HeaderCheck(r)
      PROVE  MovesOn(r)
  BY <1>1 DEF HeaderCheck
<1>2. ASSUME NEW at, BodyCheck(r, at)
      PROVE  MovesOn(r)
  BY <1>2 DEF BodyCheck
<1> QED
  BY <1>1, <1>2 DEF x402PaymentPresenceCheck, trustRungPaymentPresenceCheck,
       cdpX402PaymentPresenceCheck, McpCall, Validate, McpValidate

LEMMA PaymentMovesOn ==
  ASSUME NEW r, \/ x402PreHandler(r) \/ trustRungPreHandler(r)
                \/ McpPays(r) \/ cdpX402PreHandler(r)
  PROVE  MovesOn(r)
<1> USE DEF MovesOn, PCs, WorkPCs, Answers, Refusals, Waits, chain, NoFault
<1>1. ASSUME Verify(r)
      PROVE  MovesOn(r)
  BY <1>1 DEF Verify
<1>2. ASSUME Gate(r)
      PROVE  MovesOn(r)
  BY <1>1, <1>2 DEF Gate
<1>3. ASSUME settle(r)
      PROVE  MovesOn(r)
  <2>1. CASE Simulate(r)
    BY <2>1 DEF Simulate
  <2>2. CASE Broadcast(r)
    BY <2>2 DEF Broadcast, Sends
  <2>3. CASE BroadcastRejected(r)
    BY <2>3 DEF BroadcastRejected
  <2>4. CASE BroadcastThrows(r)
    BY <2>4 DEF BroadcastThrows, Sends
  <2>5. CASE ReceiptArrives(r)
    BY <2>5 DEF ReceiptArrives
  <2>6. CASE ReceiptWaitThrows(r)
    BY <2>6 DEF ReceiptWaitThrows
  <2> QED
    BY <1>3, <2>1, <2>2, <2>3, <2>4, <2>5, <2>6 DEF settle
<1>4. ASSUME CdpVerify(r)
      PROVE  MovesOn(r)
  BY <1>1, <1>4 DEF CdpVerify
<1>5. ASSUME CdpSettle(r)
      PROVE  MovesOn(r)
  BY <1>5 DEF CdpSettle, Sends
<1>6. ASSUME CdpSettled(r) \/ CdpWaitThrows(r)
      PROVE  MovesOn(r)
  BY <1>6 DEF CdpSettled, CdpWaitThrows, ReceiptWaitThrows
<1> QED
  BY <1>1, <1>2, <1>3, <1>4, <1>5, <1>6
     DEF x402PreHandler, trustRungPreHandler, McpPays, cdpX402PreHandler

LEMMA HandlerMovesOn ==
  ASSUME TypeOK, NEW r \in Reqs,
         \/ OfferingRecords(r) \/ CdpRecords(r) \/ TrustRungRecords(r) \/ McpRecords(r)
         \/ BridgeHandles(r)
         \/ OfferingResponds(r) \/ CdpResponds(r) \/ TrustRungResponds(r)
         \/ McpResponds(r) \/ BridgeResponds(r)
  PROVE  MovesOn(r)
<1> DEFINE Cents == {0} \cup {PRICING_TABLE[s] : s \in DOMAIN PRICING_TABLE}
<1>1. PRICING_TABLE[ask[r].slug] \in Cents /\ PRICING_TABLE[TRUST_RUNG_SLUG] \in Cents
  BY DEF TypeOK, Asks, PRICING_TABLE
<1>2. ASSUME NEW cents \in Cents, Records(r, cents)
      PROVE  MovesOn(r)
  BY <1>2 DEF Records, MovesOn, PCs, WorkPCs, chain, NoFault
<1>3. ASSUME Responds(r)
      PROVE  MovesOn(r)
  BY <1>3 DEF Responds, MovesOn, PCs, Answers, Waits, chain, NoFault
<1>4. ASSUME BridgeHandles(r)
      PROVE  MovesOn(r)
  BY <1>2, <1>4 DEF BridgeHandles, MovesOn, PCs, Answers, Refusals, Waits, chain, NoFault
<1>5. ASSUME OfferingRecords(r) \/ CdpRecords(r) \/ TrustRungRecords(r) \/ McpRecords(r)
      PROVE  MovesOn(r)
  BY <1>1, <1>2, <1>5 DEF OfferingRecords, CdpRecords, TrustRungRecords, McpRecords
<1> QED
  BY <1>3, <1>4, <1>5
     DEF OfferingResponds, CdpResponds, TrustRungResponds, McpResponds, BridgeResponds

LEMMA HandleMovesOn ==
  ASSUME TypeOK, NEW r \in Reqs, Handle(r)
  PROVE  MovesOn(r)
<1>1. CASE \/ x402PaymentPresenceCheck(r) \/ trustRungPaymentPresenceCheck(r)
           \/ cdpX402PaymentPresenceCheck(r) \/ McpCall(r)
           \/ Validate(r) \/ McpValidate(r)
  BY <1>1, ChecksMoveOn
<1>2. CASE \/ x402PreHandler(r) \/ trustRungPreHandler(r)
           \/ McpPays(r) \/ cdpX402PreHandler(r)
  BY <1>2, PaymentMovesOn
<1>3. CASE ~ \/ x402PaymentPresenceCheck(r) \/ trustRungPaymentPresenceCheck(r)
             \/ cdpX402PaymentPresenceCheck(r) \/ McpCall(r)
             \/ Validate(r) \/ McpValidate(r)
             \/ x402PreHandler(r) \/ trustRungPreHandler(r)
             \/ McpPays(r) \/ cdpX402PreHandler(r)
  BY <1>3, HandlerMovesOn DEF Handle
<1> QED
  BY <1>1, <1>2, <1>3

-------------------------------------------------------------------------------
(* Type correctness.                                                        *)

LEMMA HandleKeepsTypes ==
  ASSUME TypeOK, NEW r \in Reqs, Handle(r)
  PROVE  TypeOK'
<1> USE DEF TypeOK, setup
<1>1. MovesOn(r)
  BY HandleMovesOn
<1>2. PICK to \in PCs : pc' = [pc EXCEPT ![r] = to]
  BY <1>1 DEF MovesOn, Moves
<1>3. pc' \in [Reqs -> {"unsent"} \cup WorkPCs \cup Answers]
  BY <1>2 DEF PCs
<1>4. tx' \in [Reqs -> {"none", "pending", "success", "reverted"}]
  BY <1>1 DEF MovesOn
<1>5. ledger' \in [Reqs -> Nat]
  <2>1. CASE ledger' = ledger
    BY <2>1
  <2>2. ASSUME NEW cents \in {0} \cup {PRICING_TABLE[s] : s \in DOMAIN PRICING_TABLE},
               ledger' = [ledger EXCEPT ![r] = cents]
        PROVE  ledger' \in [Reqs -> Nat]
    <3>1. cents \in Nat
      BY PricesAreNaturals
    <3> QED
      BY <2>2, <3>1
  <2> QED
    BY <1>1, <2>1, <2>2 DEF MovesOn
<1>6. faults' \in 0..MaxFaults
  BY <1>1, ConstantsOK DEF MovesOn, Fault
<1> QED
  BY <1>1, <1>3, <1>4, <1>5, <1>6 DEF MovesOn

LEMMA ArriveKeepsTypes ==
  ASSUME TypeOK, NEW r \in Reqs, Arrive(r)
  PROVE  TypeOK'
<1> USE DEF TypeOK, setup, chain, bounds
<1>1. PICK route \in Mounted(env), body \in BOOLEAN :
        \E slug \in SlugsOf(route), cred \in CredentialsOf(route) :
          ask' = [ask EXCEPT ![r] = [route |-> route, slug |-> slug, cred |-> cred, body |-> body]]
  BY DEF Arrive
<1>2. route \in Routes
  BY DEF Mounted, Routes, PaidRoutes, RelayerRoutes
<1>3. SlugsOf(route) \subseteq PAID \cup {TRUST_RUNG_SLUG}
  <2>1. CASE route = "trustRung"
    BY <2>1 DEF SlugsOf
  <2>2. CASE route = "bridge"
    <3>1. SlugsOf(route) = BANKR_BRIDGE_SLUGS \cap Offered
      BY <2>2 DEF SlugsOf
    <3> QED
      BY <3>1 DEF PAID, BANKR_BRIDGE_SLUGS
  <2>3. CASE route \notin {"trustRung", "bridge"}
    <3>1. SlugsOf(route) = PAID \cap Offered
      BY <2>3 DEF SlugsOf
    <3> QED
      BY <3>1
  <2> QED
    BY <2>1, <2>2, <2>3
<1>4. CredentialsOf(route) \subseteq Credentials
  BY DEF CredentialsOf, Credentials
<1>5. ask' \in [Reqs -> Asks]
  BY <1>1, <1>2, <1>3, <1>4 DEF Asks
<1>6. pc' \in [Reqs -> {"unsent"} \cup WorkPCs \cup Answers]
  BY DEF Arrive, Moves, WorkPCs
<1> QED
  BY <1>5, <1>6 DEF Arrive

LEMMA StepKeepsTypes == TypeOK /\ [Next]_vars => TypeOK'
<1> SUFFICES ASSUME TypeOK, [Next]_vars
             PROVE  TypeOK'
  OBVIOUS
<1> USE DEF TypeOK, setup, chain, bounds
<1>1. CASE Boot
  BY <1>1 DEF Boot
<1>2. CASE Crash
  <2>1. pc' \in [Reqs -> {"unsent"} \cup WorkPCs \cup Answers]
    BY <1>2 DEF Crash, Answers
  <2>2. faults' \in 0..MaxFaults
    BY <1>2, ConstantsOK DEF Crash
  <2> QED
    BY <1>2, <2>1, <2>2 DEF Crash
<1>3. CASE Tick
  BY <1>3, ConstantsOK DEF Tick
<1>4. ASSUME NEW a \in Auths, SpendElsewhere(a)
      PROVE  TypeOK'
  BY <1>4 DEF SpendElsewhere
<1>5. ASSUME NEW r \in Reqs, Arrive(r)
      PROVE  TypeOK'
  BY <1>5, ArriveKeepsTypes
<1>6. ASSUME NEW r \in Reqs, Mine(r)
      PROVE  TypeOK'
  BY <1>6 DEF Mine
<1>7. ASSUME NEW r \in Reqs, Handle(r)
      PROVE  TypeOK'
  BY <1>7, HandleKeepsTypes
<1>8. CASE UNCHANGED vars
  BY <1>8 DEF vars
<1> QED
  BY <1>1, <1>2, <1>3, <1>4, <1>5, <1>6, <1>7, <1>8 DEF Next

LEMMA InitHasTypes == Init => TypeOK
<1> SUFFICES ASSUME Init
             PROVE  TypeOK
  OBVIOUS
<1>1. [route |-> "offering", slug |-> "legitimacy_scan", cred |-> NoAuth, body |-> FALSE] \in Asks
  BY DEF Asks, Routes, PaidRoutes, RelayerRoutes, Credentials, PAID
<1>2. ask \in [Reqs -> Asks]
  BY <1>1 DEF Init
<1>3. now \in 0..MaxNow /\ faults \in 0..MaxFaults
  BY ConstantsOK DEF Init
<1> QED
  BY <1>2, <1>3 DEF Init, TypeOK

(* The state keeps its types: statuses of requests, transfers and           *)
(* authorizations, the ledger.                                              *)
THEOREM TypeCorrect == Spec => []TypeOK
BY InitHasTypes, StepKeepsTypes, PTL DEF Spec

-------------------------------------------------------------------------------
(* What the gate knows of a request it charges.                             *)

Due(r) ==
  /\ ask[r].body
  /\ ask[r].route \in PaidRoutes
  /\ ask[r].cred \in Auths
  /\ terms[ask[r].cred].sound
  /\ terms[ask[r].cred].value >= Quote(ask[r].route, ask[r].slug)

BeforeTransfer == {"unsent", "arrived", "present", "valid", "verified", "simulated", "400", "403"}
OnPaidRoutes == {"verified", "simulated", "waiting", "settled"}

(* The story of a request: where it stands, its transfer, the chain.        *)
RouteStory(r) ==
  /\ ask[r].slug \in PAID \/ (ask[r].route = "trustRung" /\ ask[r].slug = TRUST_RUNG_SLUG)
  /\ ask[r].route = "trustRung" => ask[r].slug = TRUST_RUNG_SLUG
  /\ ask[r].route = "bridge" => tx[r] = "none" /\ pc[r] \notin OnPaidRoutes
  /\ pc[r] = "valid" => ask[r].body
  /\ pc[r] \in {"verified", "simulated", "waiting"} \/ tx[r] # "none" => Due(r)

TransferStory(r) ==
  /\ tx[r] # "none" => pc[r] \notin BeforeTransfer
  /\ tx[r] = "pending" => pc[r] \in {"waiting", "502", "gone"}
  /\ pc[r] = "402" => tx[r] # "success"
  /\ pc[r] \in {"settled", "recorded", "200"} /\ ask[r].route # "bridge" => tx[r] = "success"

ChainStory(r) ==
  /\ tx[r] = "success" => spentBy[ask[r].cred] = r
  /\ \A a \in Auths : spentBy[a] = r => tx[r] = "success" /\ ask[r].cred = a

GateStory == \A r \in Reqs : RouteStory(r) /\ TransferStory(r) /\ ChainStory(r)

(* A request of which nothing changed keeps its story. *)
LEMMA OthersKeepTheirStory ==
  ASSUME NEW q, RouteStory(q), TransferStory(q),
         ask'[q] = ask[q], pc'[q] = pc[q], tx'[q] = tx[q], terms' = terms
  PROVE  RouteStory(q)' /\ TransferStory(q)'
BY DEF RouteStory, TransferStory, Due

LEMMA QuoteIsThePrice ==
  ASSUME NEW r, RouteStory(r)
  PROVE  /\ Quote(ask[r].route, ask[r].slug) = PRICING_TABLE[ask[r].slug]
         /\ Gated(r)
BY DEF RouteStory, Quote, buildTrustRungPaymentRequirements, buildCdpChallenge,
       buildCdpPaymentRequirementsEntry, buildPaymentRequirements, Gated, PAID, PAID_SLUG_ORDER

(* Only a payment that pays the price is taken on. *)
LEMMA VerifyKeepsStory ==
  ASSUME TypeOK, NEW r \in Reqs, RouteStory(r), TransferStory(r), Verify(r),
         ask[r].route \in PaidRoutes
  PROVE  RouteStory(r)' /\ TransferStory(r)'
<1> USE DEF TypeOK
<1>1. tx[r] = "none" /\ tx' = tx /\ ask' = ask /\ terms' = terms /\ pc[r] = "valid"
  BY DEF Verify, TransferStory, BeforeTransfer, Waits, chain, setup
<1>2. pc'[r] \in {"verified", "402"}
  BY DEF Verify, Moves
<1>3. CASE pc'[r] = "402"
  BY <1>1, <1>3 DEF RouteStory, TransferStory, Due, OnPaidRoutes, PaidRoutes, RelayerRoutes, BeforeTransfer
<1>4. CASE pc'[r] = "verified"
  <2>1. PICK used : verifyPayment(r, used)
    BY <1>4 DEF Verify, Moves
  <2>2. Due(r)
    BY <1>1, <2>1, QuoteIsThePrice DEF verifyPayment, decodePaymentHeader, priceAtomicFor, Due, RouteStory
  <2> QED
    BY <1>1, <1>4, <2>2 DEF RouteStory, TransferStory, Due, OnPaidRoutes, PaidRoutes, RelayerRoutes, BeforeTransfer
<1> QED
  BY <1>2, <1>3, <1>4

(* A check before the payment. *)
LEMMA ChecksKeepStory ==
  ASSUME TypeOK, NEW r \in Reqs, RouteStory(r), TransferStory(r),
         \/ ask[r].route \in PaidRoutes /\ HeaderCheck(r)
         \/ ask[r].route \in PaidRoutes /\ BodyCheck(r, "present")
         \/ ask[r].route = "bridge" /\ BodyCheck(r, "arrived")
  PROVE  RouteStory(r)' /\ TransferStory(r)'
<1> USE DEF TypeOK
<1>1. pc[r] \in {"arrived", "present"} /\ tx' = tx /\ ask' = ask /\ terms' = terms
  BY DEF HeaderCheck, BodyCheck, Waits, chain, setup
<1>2. tx[r] = "none"
  BY <1>1 DEF TransferStory, BeforeTransfer
<1>3. \/ pc'[r] \in {"402", "present"} /\ ask[r].route \in PaidRoutes
      \/ pc'[r] = "valid" /\ ask[r].body
      \/ pc'[r] = "400"
  BY DEF HeaderCheck, BodyCheck, Moves
<1> QED
  BY <1>1, <1>2, <1>3
     DEF RouteStory, TransferStory, Due, OnPaidRoutes, PaidRoutes, RelayerRoutes, BeforeTransfer

(* The settlement: a transfer is sent once, and only a mined one settles. *)
LEMMA SettlementKeepsStory ==
  ASSUME TypeOK, NEW r \in Reqs, RouteStory(r), TransferStory(r),
         ask[r].route \in PaidRoutes, settle(r) \/ CdpSettle(r) \/ CdpSettled(r)
  PROVE  RouteStory(r)' /\ TransferStory(r)'
<1> USE DEF TypeOK, OnPaidRoutes, PaidRoutes, RelayerRoutes, BeforeTransfer
<1>1. ask' = ask /\ terms' = terms /\ pc[r] \in {"verified", "simulated", "waiting"}
  BY DEF settle, Simulate, Broadcast, BroadcastRejected, BroadcastThrows, ReceiptArrives,
         ReceiptWaitThrows, CdpSettle, CdpSettled, Sends, Waits, chain, setup
<1>2. Due(r) /\ Due(r)'
  BY <1>1 DEF RouteStory, Due
<1>3. CASE pc[r] # "waiting"
  <2>1. tx[r] = "none"
    BY <1>1, <1>3 DEF TransferStory
  <2>2. \/ tx' = tx /\ pc'[r] \in {"simulated", "402", "502"}
        \/ tx'[r] = "pending" /\ pc'[r] \in {"waiting", "502"}
    BY <1>3 DEF settle, Simulate, Broadcast, BroadcastRejected, BroadcastThrows, ReceiptArrives,
         ReceiptWaitThrows, CdpSettle, CdpSettled, Sends, Waits, chain, Moves
  <2> QED
    BY <1>1, <1>2, <2>1, <2>2 DEF RouteStory, TransferStory
<1>4. CASE pc[r] = "waiting"
  <2>1. \/ pc'[r] = "settled" /\ tx[r] = "success"
        \/ pc'[r] = "502"
        \/ pc'[r] = "402" /\ tx[r] = "reverted"
    BY <1>4 DEF settle, Simulate, Broadcast, BroadcastRejected, BroadcastThrows, ReceiptArrives,
         ReceiptWaitThrows, CdpSettle, CdpSettled, Moves
  <2>2. tx' = tx
    BY <1>4 DEF settle, Simulate, Broadcast, BroadcastRejected, BroadcastThrows, ReceiptArrives,
         ReceiptWaitThrows, CdpSettle, CdpSettled, Waits, chain
  <2> QED
    BY <1>1, <1>2, <2>1, <2>2 DEF RouteStory, TransferStory
<1> QED
  BY <1>3, <1>4

(* The handler and the ledger change nothing of the payment. *)
LEMMA HandlerKeepsStory ==
  ASSUME TypeOK, NEW r \in Reqs, RouteStory(r), TransferStory(r),
         \/ pc[r] = "settled" /\ \E cents : Records(r, cents)
         \/ BridgeHandles(r)
         \/ Responds(r)
  PROVE  RouteStory(r)' /\ TransferStory(r)'
<1> USE DEF TypeOK, OnPaidRoutes, BeforeTransfer
<1>1. tx' = tx /\ ask' = ask /\ terms' = terms
  BY DEF Records, BridgeHandles, Responds, Waits, chain, setup
<1>2. \/ pc[r] = "settled" /\ pc'[r] = "recorded"
      \/ ask[r].route = "bridge" /\ pc'[r] \in {"recorded", "403"}
      \/ pc[r] = "recorded" /\ pc'[r] \in {"200", "500"}
  BY DEF Records, BridgeHandles, Responds, Moves
<1> QED
  BY <1>1, <1>2 DEF RouteStory, TransferStory, Due

LEMMA HandleKeepsItsStory ==
  ASSUME TypeOK, NEW r \in Reqs, RouteStory(r), TransferStory(r), Handle(r)
  PROVE  RouteStory(r)' /\ TransferStory(r)'
<1> USE DEF PaidRoutes, RelayerRoutes
<1>1. CASE \/ x402PaymentPresenceCheck(r) \/ trustRungPaymentPresenceCheck(r)
           \/ cdpX402PaymentPresenceCheck(r) \/ McpCall(r)
           \/ Validate(r) \/ McpValidate(r)
  <2>1. ask[r].route \in Routes
    BY DEF TypeOK, Asks
  <2> QED
    BY <1>1, <2>1, ChecksKeepStory
       DEF x402PaymentPresenceCheck, trustRungPaymentPresenceCheck,
           cdpX402PaymentPresenceCheck, McpCall, Validate, McpValidate, Routes
<1>2. CASE \/ x402PreHandler(r) \/ trustRungPreHandler(r)
           \/ McpPays(r) \/ cdpX402PreHandler(r)
  <2>1. ask[r].route \in PaidRoutes
    BY <1>2 DEF x402PreHandler, trustRungPreHandler, McpPays, cdpX402PreHandler
  <2>2. Gate(r) => Verify(r)
    BY QuoteIsThePrice DEF Gate
  <2>3. CASE Verify(r)
    BY <2>1, <2>3, VerifyKeepsStory
  <2>4. CASE settle(r) \/ CdpSettle(r) \/ CdpSettled(r)
    BY <2>1, <2>4, SettlementKeepsStory
  <2>5. CASE pc[r] = "valid" /\ Moves(r, "502") /\ Waits(r)
    <3>1. tx[r] = "none" /\ tx' = tx /\ ask' = ask /\ terms' = terms /\ pc'[r] = "502"
      BY <2>5 DEF TypeOK, TransferStory, BeforeTransfer, Waits, Moves, chain, setup
    <3> QED
      BY <3>1, <2>5 DEF RouteStory, TransferStory, Due, OnPaidRoutes, BeforeTransfer
  <2> QED
    BY <1>2, <2>2, <2>3, <2>4, <2>5
       DEF x402PreHandler, trustRungPreHandler, McpPays, cdpX402PreHandler,
           CdpVerify, CdpWaitThrows, settle
<1>3. CASE OfferingRecords(r) \/ CdpRecords(r) \/ TrustRungRecords(r) \/ McpRecords(r)
  <2>1. pc[r] = "settled" /\ \E cents : Records(r, cents)
    BY <1>3 DEF OfferingRecords, CdpRecords, TrustRungRecords, McpRecords
  <2> QED
    BY <2>1, HandlerKeepsStory
<1>4. CASE \/ BridgeHandles(r)
           \/ OfferingResponds(r) \/ CdpResponds(r) \/ TrustRungResponds(r)
           \/ McpResponds(r) \/ BridgeResponds(r)
  <2>1. BridgeHandles(r) \/ Responds(r)
    BY <1>4 DEF OfferingResponds, CdpResponds, TrustRungResponds, McpResponds, BridgeResponds
  <2> QED
    BY <2>1, HandlerKeepsStory
<1> QED
  BY <1>1, <1>2, <1>3, <1>4 DEF Handle

(* An authorization is spent for the request whose transfer was mined.      *)
LEMMA HandleKeepsStories ==
  ASSUME TypeOK, GateStory, NEW r \in Reqs, Handle(r)
  PROVE  GateStory'
<1> USE DEF TypeOK
<1>1. MovesOn(r)
  BY HandleMovesOn
<1>2. PICK to \in PCs : pc' = [pc EXCEPT ![r] = to]
  BY <1>1 DEF MovesOn, Moves
<1>3. /\ ask' = ask /\ terms' = terms /\ spentBy' = spentBy
      /\ \A q \in Reqs \ {r} : pc'[q] = pc[q] /\ tx'[q] = tx[q]
  BY <1>1, <1>2 DEF MovesOn, setup
<1>4. ASSUME NEW q \in Reqs
      PROVE  RouteStory(q)' /\ TransferStory(q)'
  <2>1. RouteStory(q) /\ TransferStory(q)
    BY DEF GateStory
  <2> QED
    BY <1>3, <2>1, HandleKeepsItsStory, OthersKeepTheirStory
<1>5. ASSUME NEW q \in Reqs
      PROVE  ChainStory(q)'
  <2>1. ChainStory(q) /\ TransferStory(q)
    BY DEF GateStory
  <2>2. tx'[q] = "success" <=> tx[q] = "success"
    <3>1. CASE tx' = tx
      BY <3>1
    <3>2. CASE tx' = [tx EXCEPT ![r] = "pending"]
      <4>1. tx[r] = "success" => tx'[r] # "pending"
        <5> SUFFICES ASSUME tx[r] = "success"
                     PROVE  tx'[r] # "pending"
          OBVIOUS
        <5>1. pc[r] \in {"waiting", "settled", "recorded", "200", "500", "502", "gone"}
          BY DEF GateStory, TransferStory, BeforeTransfer, WorkPCs, Answers, Refusals
        <5> USE DEF Waits, chain
        <5>2. CASE \/ x402PaymentPresenceCheck(r) \/ trustRungPaymentPresenceCheck(r)
                   \/ cdpX402PaymentPresenceCheck(r) \/ McpCall(r)
                   \/ Validate(r) \/ McpValidate(r)
          BY <5>1, <5>2
             DEF x402PaymentPresenceCheck, trustRungPaymentPresenceCheck,
                 cdpX402PaymentPresenceCheck, McpCall, Validate, McpValidate, HeaderCheck, BodyCheck
        <5>3. CASE \/ x402PreHandler(r) \/ trustRungPreHandler(r)
                   \/ McpPays(r) \/ cdpX402PreHandler(r)
          BY <5>1, <5>3
             DEF x402PreHandler, trustRungPreHandler, McpPays, cdpX402PreHandler, CdpVerify,
                 CdpSettle, CdpSettled, CdpWaitThrows, Gate, Verify, settle, Simulate, Broadcast,
                 BroadcastRejected, BroadcastThrows, ReceiptArrives, ReceiptWaitThrows
        <5>4. CASE \/ OfferingRecords(r) \/ CdpRecords(r) \/ TrustRungRecords(r) \/ McpRecords(r)
                   \/ BridgeHandles(r)
                   \/ OfferingResponds(r) \/ CdpResponds(r) \/ TrustRungResponds(r)
                   \/ McpResponds(r) \/ BridgeResponds(r)
          BY <5>4
             DEF OfferingRecords, CdpRecords, TrustRungRecords, McpRecords, Records, BridgeHandles,
                 OfferingResponds, CdpResponds, TrustRungResponds, McpResponds, BridgeResponds, Responds
        <5> QED
          BY <5>2, <5>3, <5>4 DEF Handle
      <4> QED
        BY <3>2, <4>1
    <3> QED
      BY <1>1, <3>1, <3>2 DEF MovesOn
  <2> QED
    BY <1>3, <2>1, <2>2 DEF ChainStory
<1> QED
  BY <1>4, <1>5 DEF GateStory

LEMMA ArriveKeepsStories ==
  ASSUME TypeOK, GateStory, NEW r \in Reqs, Arrive(r)
  PROVE  GateStory'
<1> USE DEF TypeOK
<1>0. PICK route \in Mounted(env), body \in BOOLEAN :
        \E slug \in SlugsOf(route), cred \in CredentialsOf(route) :
          ask' = [ask EXCEPT ![r] = [route |-> route, slug |-> slug, cred |-> cred, body |-> body]]
  BY DEF Arrive
<1>1. PICK slug \in SlugsOf(route), cred \in CredentialsOf(route) :
        ask' = [ask EXCEPT ![r] = [route |-> route, slug |-> slug, cred |-> cred, body |-> body]]
  BY <1>0
<1>2. pc[r] = "unsent" /\ pc' = [pc EXCEPT ![r] = "arrived"] /\ tx' = tx /\ spentBy' = spentBy /\ terms' = terms
  BY DEF Arrive, Moves, chain, setup
<1>3. tx[r] = "none"
  BY <1>2 DEF GateStory, TransferStory, BeforeTransfer
<1>4. slug \in PAID \/ (route = "trustRung" /\ slug = TRUST_RUNG_SLUG)
  BY DEF SlugsOf, PAID, BANKR_BRIDGE_SLUGS
<1>5. route = "trustRung" => slug = TRUST_RUNG_SLUG
  BY DEF SlugsOf
<1>6. ask'[r].route = route /\ ask'[r].slug = slug /\ pc'[r] = "arrived" /\ tx'[r] = "none"
  BY <1>1, <1>2, <1>3
<1>7. RouteStory(r)' /\ TransferStory(r)'
  BY <1>4, <1>5, <1>6 DEF RouteStory, TransferStory, OnPaidRoutes
<1>8. ASSUME NEW q \in Reqs
      PROVE  RouteStory(q)' /\ TransferStory(q)' /\ ChainStory(q)'
  <2>1. RouteStory(q) /\ TransferStory(q) /\ ChainStory(q)
    BY DEF GateStory
  <2>2. CASE q = r
    BY <1>2, <1>3, <1>7, <2>1, <2>2 DEF ChainStory
  <2>3. CASE q # r
    BY <1>1, <1>2, <2>1, <2>3, OthersKeepTheirStory DEF ChainStory
  <2> QED
    BY <2>2, <2>3
<1> QED
  BY <1>8 DEF GateStory

LEMMA ChainKeepsStories ==
  ASSUME TypeOK, GateStory,
         (\E r \in Reqs : Mine(r)) \/ (\E a \in Auths : SpendElsewhere(a))
  PROVE  GateStory'
<1> USE ConstantsOK DEF TypeOK, setup
<1>1. ASSUME NEW r \in Reqs, Mine(r)
      PROVE  GateStory'
  <2>1. RouteStory(r) /\ TransferStory(r) /\ Due(r) /\ tx[r] = "pending"
    BY <1>1 DEF Mine, GateStory, RouteStory
  <2>2. ask' = ask /\ terms' = terms /\ pc' = pc /\ ask[r].cred \in Auths
    BY <1>1, <2>1 DEF Mine, Due
  <2>3. ASSUME NEW q \in Reqs
        PROVE  RouteStory(q)' /\ TransferStory(q)'
    <3>1. RouteStory(q) /\ TransferStory(q)
      BY DEF GateStory
    <3>2. CASE q = r
      <4>1. tx'[r] \in {"success", "reverted"}
        BY <1>1 DEF Mine
      <4>2. Due(r)'
        BY <2>1, <2>2 DEF Due
      <4> QED
        BY <2>1, <2>2, <3>2, <4>1, <4>2 DEF RouteStory, TransferStory, PaidRoutes, RelayerRoutes, Due
    <3>3. CASE q # r
      BY <1>1, <2>2, <3>1, <3>3, OthersKeepTheirStory DEF Mine
    <3> QED
      BY <3>2, <3>3
  <2>4. ASSUME NEW q \in Reqs
        PROVE  ChainStory(q)'
    <3>1. ChainStory(q) /\ ChainStory(r)
      BY DEF GateStory
    <3>2. CASE ~Used(ask[r].cred) /\ Open(ask[r].cred)
      <4>1. /\ spentBy' = [spentBy EXCEPT ![ask[r].cred] = r] /\ spentBy[ask[r].cred] = "nobody"
            /\ tx' = [tx EXCEPT ![r] = "success"]
        BY <1>1, <3>2 DEF Mine, Used
      <4>2. CASE q = r
        BY <2>1, <2>2, <3>1, <4>1, <4>2 DEF ChainStory
      <4>3. CASE q # r
        <5>1. tx'[q] = tx[q] /\ q # "nobody"
          BY <4>1, <4>3
        <5>2. tx[q] = "success" => ask[q].cred \in Auths /\ ask[q].cred # ask[r].cred
          BY <3>1, <4>1, <5>1 DEF GateStory, RouteStory, Due, ChainStory
        <5> QED
          BY <2>2, <3>1, <4>1, <4>3, <5>1, <5>2 DEF ChainStory
      <4> QED
        BY <4>2, <4>3
    <3>3. CASE ~(~Used(ask[r].cred) /\ Open(ask[r].cred))
      BY <1>1, <2>1, <2>2, <3>1, <3>3 DEF Mine, ChainStory
    <3> QED
      BY <3>2, <3>3
  <2> QED
    BY <2>3, <2>4 DEF GateStory
<1>2. ASSUME NEW a \in Auths, SpendElsewhere(a)
      PROVE  GateStory'
  <2>1. ASSUME NEW q \in Reqs
        PROVE  RouteStory(q)' /\ TransferStory(q)'
    BY <1>2, OthersKeepTheirStory DEF SpendElsewhere, GateStory
  <2>2. ASSUME NEW q \in Reqs
        PROVE  ChainStory(q)'
    <3>1. ChainStory(q) /\ RouteStory(q)
      BY DEF GateStory
    <3>2. tx[q] = "success" => ask[q].cred \in Auths /\ ask[q].cred # a
      BY <1>2, <3>1 DEF SpendElsewhere, ChainStory, RouteStory, Due, Used
    <3> QED
      BY <1>2, <3>1, <3>2 DEF SpendElsewhere, ChainStory
  <2> QED
    BY <2>1, <2>2 DEF GateStory
<1> QED
  BY <1>1, <1>2

LEMMA StepKeepsStories == TypeOK /\ GateStory /\ [Next]_vars => GateStory'
<1> SUFFICES ASSUME TypeOK, GateStory, [Next]_vars
             PROVE  GateStory'
  OBVIOUS
<1>1. CASE Boot \/ Tick \/ UNCHANGED vars
  BY <1>1, OthersKeepTheirStory
     DEF Boot, Tick, vars, setup, chain, GateStory, ChainStory
<1>2. CASE Crash
  <2>1. ask' = ask /\ terms' = terms /\ tx' = tx /\ spentBy' = spentBy
    BY <1>2 DEF Crash, setup, chain
  <2>2. ASSUME NEW q \in Reqs
        PROVE  RouteStory(q)' /\ TransferStory(q)' /\ ChainStory(q)'
    <3>1. RouteStory(q) /\ TransferStory(q) /\ ChainStory(q)
      BY DEF GateStory
    <3>2. pc'[q] = pc[q] \/ pc'[q] = "gone"
      BY <1>2 DEF Crash
    <3> QED
      BY <2>1, <3>1, <3>2
         DEF RouteStory, TransferStory, ChainStory, Due, OnPaidRoutes, BeforeTransfer
  <2> QED
    BY <2>2 DEF GateStory
<1> QED
  BY <1>1, <1>2, HandleKeepsStories, ArriveKeepsStories, ChainKeepsStories DEF Next

LEMMA InitHasStories == Init => GateStory
<1> SUFFICES ASSUME Init, NEW r \in Reqs
             PROVE  RouteStory(r) /\ TransferStory(r) /\ ChainStory(r)
  BY DEF GateStory
<1>1. /\ ask[r] = [route |-> "offering", slug |-> "legitimacy_scan", cred |-> NoAuth, body |-> FALSE]
      /\ pc[r] = "unsent" /\ tx[r] = "none" /\ \A a \in Auths : spentBy[a] = "nobody"
  BY DEF Init
<1>2. RouteStory(r)
  BY <1>1 DEF RouteStory, PAID
<1>3. TransferStory(r) /\ ChainStory(r)
  BY <1>1, ConstantsOK DEF TransferStory, ChainStory
<1> QED
  BY <1>2, <1>3

LEMMA Stories == Spec => [](TypeOK /\ GateStory)
BY InitHasTypes, InitHasStories, StepKeepsTypes, StepKeepsStories, PTL DEF Spec

(* Nothing is ever broadcast for a malformed body, for a bridge call or on  *)
(* an authorization that does not pay what its route asks: whatever the     *)
(* order of the hooks, no gap between check and broadcast lets one through  *)
(* (preHandler.ts:11-15, mcp.ts:168-179).                                   *)
THEOREM NothingIsChargedUndue == Spec => []ChargedOnlyWhenDue
<1>1. TypeOK /\ GateStory => ChargedOnlyWhenDue
  BY DEF GateStory, RouteStory, Due, ChargedOnlyWhenDue
<1> QED
  BY <1>1, Stories, PTL

-------------------------------------------------------------------------------
(* Refinement: the gate implements PaidService.                             *)

Told == [r \in Reqs |-> Outcome(r)]

LEMMA HandleIsAtWork ==
  ASSUME NEW r, Handle(r)
  PROVE  pc[r] \in WorkPCs
<1> USE DEF WorkPCs
<1>1. CASE \/ x402PaymentPresenceCheck(r) \/ trustRungPaymentPresenceCheck(r)
           \/ cdpX402PaymentPresenceCheck(r) \/ McpCall(r)
           \/ Validate(r) \/ McpValidate(r)
  BY <1>1 DEF x402PaymentPresenceCheck, trustRungPaymentPresenceCheck,
              cdpX402PaymentPresenceCheck, McpCall, Validate, McpValidate, HeaderCheck, BodyCheck
<1>2. CASE \/ x402PreHandler(r) \/ trustRungPreHandler(r)
           \/ McpPays(r) \/ cdpX402PreHandler(r)
  BY <1>2 DEF x402PreHandler, trustRungPreHandler, McpPays, cdpX402PreHandler, CdpVerify,
              CdpSettle, CdpSettled, CdpWaitThrows, Gate, Verify, settle, Simulate, Broadcast,
              BroadcastRejected, BroadcastThrows, ReceiptArrives, ReceiptWaitThrows
<1>3. CASE \/ OfferingRecords(r) \/ CdpRecords(r) \/ TrustRungRecords(r) \/ McpRecords(r)
           \/ BridgeHandles(r)
           \/ OfferingResponds(r) \/ CdpResponds(r) \/ TrustRungResponds(r)
           \/ McpResponds(r) \/ BridgeResponds(r)
  BY <1>3 DEF OfferingRecords, CdpRecords, TrustRungRecords, McpRecords, BridgeHandles,
              OfferingResponds, CdpResponds, TrustRungResponds, McpResponds, BridgeResponds, Responds
<1> QED
  BY <1>1, <1>2, <1>3 DEF Handle

(* A step of a request leaves its outcome open or answers it, as the       *)
(* abstract service may.                                                    *)
LEMMA HandleAnswers ==
  ASSUME TypeOK, GateStory, GateStory', NEW r \in Reqs, Handle(r)
  PROVE  [Service!Next]_<<Told, spentBy>>
<1> USE DEF TypeOK
<1>1. PICK to \in PCs : pc' = [pc EXCEPT ![r] = to]
  BY HandleMovesOn DEF MovesOn, Moves
<1>2. ask' = ask /\ spentBy' = spentBy
  BY HandleMovesOn DEF MovesOn
<1>3. Outcome(r) = "none"
  BY HandleIsAtWork DEF Outcome, WorkPCs, Refusals
<1>4. Told' = [Told EXCEPT ![r] = Outcome(r)']
  <2>1. ASSUME NEW q \in Reqs, q # r
        PROVE  Outcome(q)' = Outcome(q)
    BY <1>1, <1>2, <2>1 DEF Outcome
  <2> QED
    BY <2>1 DEF Told
<1>5. Outcome(r)' \in {"none", "served", "refused", "failed"}
  BY DEF Outcome
<1>6. CASE Outcome(r)' = "none"
  BY <1>2, <1>3, <1>4, <1>6 DEF Told
<1>7. CASE Outcome(r)' = "failed"
  <2>1. Told' = [q \in Reqs |-> IF q \in {r} THEN "failed" ELSE Told[q]]
    BY <1>4, <1>7 DEF Told
  <2>2. \A q \in {r} : Told[q] = "none"
    BY <1>3 DEF Told
  <2>3. Service!Fail({r})
    BY <1>2, <2>1, <2>2 DEF Service!Fail, Told
  <2> QED
    BY <2>3 DEF Service!Next
<1>8. CASE Outcome(r)' = "served"
  <2>1. pc'[r] = "200" /\ ask'[r].route # "bridge"
    BY <1>8 DEF Outcome
  <2>2. tx'[r] = "success"
    BY <2>1 DEF GateStory, TransferStory
  <2>3. spentBy[ask[r].cred] = r /\ ask[r].cred \in Auths
    BY <1>2, <2>2 DEF GateStory, ChainStory, RouteStory, Due
  <2>4. Service!Answer(r, "served")
    BY <1>2, <1>3, <1>4, <1>8, <2>3 DEF Service!Answer, Told
  <2> QED
    BY <2>4 DEF Service!Next, Service!Outcomes
<1>9. CASE Outcome(r)' = "refused"
  <2>1. pc'[r] \in Refusals
    BY <1>9 DEF Outcome
  <2>2. tx'[r] # "success"
    BY <2>1 DEF GateStory, TransferStory, BeforeTransfer, Refusals
  <2>3. \A a \in Auths : spentBy[a] # r
    BY <1>2, <2>2 DEF GateStory, ChainStory
  <2>4. Service!Answer(r, "refused")
    BY <1>2, <1>3, <1>4, <1>9, <2>3 DEF Service!Answer, Told
  <2> QED
    BY <2>4 DEF Service!Next, Service!Outcomes
<1> QED
  BY <1>5, <1>6, <1>7, <1>8, <1>9

(* A mined transfer charges a request that is open, or failed. *)
LEMMA MineCharges ==
  ASSUME TypeOK, GateStory, NEW r \in Reqs, Mine(r)
  PROVE  [Service!Next]_<<Told, spentBy>>
<1> USE DEF TypeOK
<1>1. pc' = pc /\ ask' = ask
  BY DEF Mine
<1>2. Told' = Told
  BY <1>1 DEF Told, Outcome
<1>3. tx[r] = "pending"
  BY DEF Mine
<1>4. Told[r] \in {"none", "failed"}
  BY <1>3 DEF GateStory, TransferStory, Told, Outcome, Refusals
<1>5. ask[r].cred \in Auths /\ \A b \in Auths : spentBy[b] # r
  BY <1>3 DEF GateStory, RouteStory, ChainStory, Due
<1>6. CASE ~Used(ask[r].cred) /\ Open(ask[r].cred)
  <2>1. Service!Charge(r, ask[r].cred)
    BY <1>2, <1>4, <1>5, <1>6 DEF Mine, Used, Service!Charge, Told
  <2> QED
    BY <1>5, <2>1 DEF Service!Next
<1>7. CASE ~(~Used(ask[r].cred) /\ Open(ask[r].cred))
  BY <1>2, <1>7 DEF Mine
<1> QED
  BY <1>6, <1>7

LEMMA StepServes ==
  TypeOK /\ GateStory /\ GateStory' /\ [Next]_vars => [Service!Next]_<<Told, spentBy>>
<1> SUFFICES ASSUME TypeOK, GateStory, GateStory', [Next]_vars
             PROVE  [Service!Next]_<<Told, spentBy>>
  OBVIOUS
<1> USE DEF TypeOK
<1>1. CASE Boot \/ Tick \/ UNCHANGED vars
  BY <1>1 DEF Boot, Tick, vars, chain, Told, Outcome
<1>2. CASE Crash
  <2> DEFINE S == {q \in InFlight : ask[q].route # "bridge"}
  <2>1. ask' = ask /\ spentBy' = spentBy
    BY <1>2 DEF Crash, chain
  <2>2. pc' = [q \in Reqs |-> IF q \in InFlight THEN "gone" ELSE pc[q]]
    BY <1>2 DEF Crash
  <2>3. ASSUME NEW q \in Reqs
        PROVE  Outcome(q)' = IF q \in S THEN "failed" ELSE Outcome(q)
    <3>1. CASE q \in InFlight
      BY <2>1, <2>2, <3>1 DEF Outcome, Refusals
    <3>2. CASE q \notin InFlight
      BY <2>1, <2>2, <3>2 DEF Outcome
    <3> QED
      BY <3>1, <3>2
  <2>4. \A q \in S : Told[q] = "none"
    BY DEF InFlight, Told, Outcome, WorkPCs, Refusals
  <2>5. Told' = [q \in Reqs |-> IF q \in S THEN "failed" ELSE Told[q]]
    BY <2>3 DEF Told
  <2>6. Service!Fail(S)
    BY <2>1, <2>4, <2>5 DEF Service!Fail, Told
  <2> QED
    BY <2>6 DEF Service!Next, InFlight
<1>3. ASSUME NEW a \in Auths, SpendElsewhere(a)
      PROVE  [Service!Next]_<<Told, spentBy>>
  <2>1. Told' = Told
    BY <1>3 DEF SpendElsewhere, Told, Outcome
  <2>2. Service!SpendElsewhere(a)
    BY <1>3, <2>1 DEF SpendElsewhere, Used, Service!SpendElsewhere, Told
  <2> QED
    BY <2>2 DEF Service!Next
<1>4. ASSUME NEW r \in Reqs, Arrive(r)
      PROVE  [Service!Next]_<<Told, spentBy>>
  <2>1. spentBy' = spentBy /\ pc[r] = "unsent" /\ pc'[r] = "arrived"
    BY <1>4 DEF Arrive, Moves, chain
  <2>2. \A q \in Reqs \ {r} : ask'[q] = ask[q] /\ pc'[q] = pc[q]
    BY <1>4 DEF Arrive, Moves
  <2>3. \A q \in Reqs : Outcome(q)' = Outcome(q)
    BY <2>1, <2>2 DEF Outcome, Refusals
  <2> QED
    BY <2>1, <2>3 DEF Told
<1> QED
  BY <1>1, <1>2, <1>3, <1>4, HandleAnswers, MineCharges DEF Next

(* The gate implements PaidService, for any number of concurrent requests   *)
(* on any routes: one authorization pays for one request, who is served has *)
(* paid, who is refused is not charged then or later (settle.ts:35-54).     *)
THEOREM GateImplementsPaidService == Spec => ImplementsPaidService
<1>1. Init => Service!Init
  BY DEF Init, Service!Init, Outcome, Refusals
<1>2. TypeOK /\ GateStory /\ GateStory' /\ [Next]_vars
        => [Service!Next]_<<[r \in Reqs |-> Outcome(r)], spentBy>>
  BY StepServes DEF Told
<1> QED
  BY <1>1, <1>2, Stories, PTL DEF Spec, ImplementsPaidService, Service!Spec

-------------------------------------------------------------------------------
(* The promises to honest buyers and of the ledger.                         *)

(* What the buyer could do, he did: a refusal needs a cause of its own.  A  *)
(* transfer that reverted is remembered with the reason it reverted for.    *)
Honest(r) == Due(r) /\ terms[ask[r].cred].from = 0
HonestStory(r) ==
  Honest(r) /\ (pc[r] \in Refusals \/ tx[r] = "reverted")
    => faults > 0 \/ Used(ask[r].cred) \/ ~Open(ask[r].cred)

(* A row is the price of a transfer that stands; it is there once the       *)
(* write was passed, unless a write failed.                                 *)
LedgerStory(r) ==
  /\ ledger[r] > 0 => tx[r] = "success" /\ ledger[r] = Quote(ask[r].route, ask[r].slug)
  /\ pc[r] \in {"recorded", "200"} /\ ask[r].route \in PaidRoutes /\ faults = 0
       => ledger[r] = Quote(ask[r].route, ask[r].slug)

PromiseStory == \A r \in Reqs : HonestStory(r) /\ LedgerStory(r)

(* What spends an authorization or lets it expire is never undone. *)
LEMMA CausesRemain ==
  ASSUME TypeOK, GateStory, [Next]_vars
  PROVE  /\ terms' = terms
         /\ faults > 0 => faults' > 0
         /\ now' >= now
         /\ \A a \in Auths : Used(a) => Used(a)'
<1> USE ConstantsOK DEF TypeOK, setup, chain, bounds, Used
<1>1. CASE Boot \/ Tick \/ UNCHANGED vars
  BY <1>1 DEF Boot, Tick, vars
<1>2. CASE Crash
  BY <1>2 DEF Crash
<1>3. ASSUME NEW a \in Auths, SpendElsewhere(a)
      PROVE  /\ terms' = terms /\ faults' = faults /\ now' = now
             /\ \A b \in Auths : spentBy[b] # "nobody" => spentBy'[b] # "nobody"
  BY <1>3 DEF SpendElsewhere
<1>4. ASSUME NEW r \in Reqs, Arrive(r)
      PROVE  terms' = terms /\ faults' = faults /\ now' = now /\ spentBy' = spentBy
  BY <1>4 DEF Arrive
<1>5. ASSUME NEW r \in Reqs, Mine(r)
      PROVE  /\ terms' = terms /\ faults' = faults /\ now' = now
             /\ \A b \in Auths : spentBy[b] # "nobody" => spentBy'[b] # "nobody"
  BY <1>5 DEF Mine
<1>6. ASSUME NEW r \in Reqs, Handle(r)
      PROVE  terms' = terms /\ (faults' = faults \/ faults' = faults + 1) /\ now' = now /\ spentBy' = spentBy
  BY <1>6, HandleMovesOn DEF MovesOn, Fault
<1> QED
  BY <1>1, <1>2, <1>3, <1>4, <1>5, <1>6 DEF Next

(* A request of which nothing changed keeps its promises. *)
LEMMA OthersKeepTheirPromises ==
  ASSUME TypeOK, GateStory, [Next]_vars, NEW q \in Reqs, HonestStory(q), LedgerStory(q),
         ask'[q] = ask[q], tx'[q] = tx[q], ledger'[q] = ledger[q],
         pc'[q] = pc[q] \/ pc'[q] = "gone"
  PROVE  HonestStory(q)' /\ LedgerStory(q)'
<1>1. /\ terms' = terms /\ now' >= now /\ now \in Nat /\ now' \in Nat
      /\ faults > 0 => faults' > 0
      /\ \A a \in Auths : Used(a) => Used(a)'
      /\ faults \in Nat
  BY CausesRemain, StepKeepsTypes, ConstantsOK DEF TypeOK
<1>2. HonestStory(q)'
  <2> SUFFICES ASSUME Honest(q)', (pc[q] \in Refusals \/ tx[q] = "reverted")
               PROVE  (faults > 0 \/ Used(ask[q].cred) \/ ~Open(ask[q].cred))'
    BY DEF HonestStory, Refusals
  <2>1. Honest(q) /\ ask[q].cred \in Auths
    BY <1>1 DEF Honest, Due
  <2>2. terms[ask[q].cred] \in Terms /\ terms[ask[q].cred].from = 0
    BY <2>1, ConstantsOK DEF TypeOK, Honest
  <2>3. faults > 0 \/ Used(ask[q].cred) \/ ~Open(ask[q].cred)
    BY <2>1 DEF HonestStory
  <2>4. ~Open(ask[q].cred) => ~Open(ask[q].cred)'
    BY <1>1, <2>2 DEF Open, Terms
  <2> QED
    BY <1>1, <2>1, <2>3, <2>4
<1>3. LedgerStory(q)'
  <2>1. faults' = 0 => faults = 0
    BY <1>1
  <2> QED
    BY <2>1 DEF LedgerStory
<1> QED
  BY <1>2, <1>3

(* Refused is who did not do his part, or whose authorization is spent or   *)
(* out of its window, or who met a fault.                                   *)
LEMMA RefusedForAReason ==
  ASSUME TypeOK, GateStory, NEW r \in Reqs, Handle(r), Honest(r), pc'[r] \in Refusals
  PROVE  Fault \/ Used(ask[r].cred) \/ ~Open(ask[r].cred) \/ tx[r] = "reverted"
<1> USE ConstantsOK DEF TypeOK, Refusals
<1>1. /\ ask[r].cred \in Auths /\ ask[r].body /\ ask[r].route \in PaidRoutes
      /\ RouteStory(r)
  BY DEF Honest, Due, GateStory
<1>2. ~HeaderCheck(r)
  BY <1>1 DEF HeaderCheck, Moves, Carries
<1>3. ASSUME NEW at
      PROVE  ~BodyCheck(r, at)
  BY <1>1 DEF BodyCheck, Moves
<1>4. CASE Verify(r)
  <2>1. CASE ~Used(ask[r].cred) /\ Open(ask[r].cred)
    <3>1. \A used \in ReadUsed(ask[r].cred) : verifyPayment(r, used)
      BY <1>1, <2>1, QuoteIsThePrice
         DEF ReadUsed, verifyPayment, decodePaymentHeader, priceAtomicFor, Honest, Due
    <3> QED
      BY <1>1, <1>4, <3>1 DEF Verify, Moves
  <2> QED
    BY <2>1
<1>5. CASE Simulate(r)
  BY <1>5 DEF Simulate, ReadUsed, Moves
<1>6. CASE Broadcast(r) \/ BroadcastRejected(r) \/ BroadcastThrows(r)
  BY <1>6 DEF Broadcast, BroadcastRejected, BroadcastThrows, Sends, Moves
<1>7. CASE ReceiptArrives(r) \/ ReceiptWaitThrows(r) \/ CdpSettled(r)
  BY <1>7 DEF ReceiptArrives, ReceiptWaitThrows, CdpSettled, Moves
<1>8. CASE CdpSettle(r)
  BY <1>8 DEF CdpSettle, Sends, Moves
<1>9. ASSUME \/ OfferingRecords(r) \/ CdpRecords(r) \/ TrustRungRecords(r) \/ McpRecords(r)
             \/ BridgeHandles(r)
             \/ OfferingResponds(r) \/ CdpResponds(r) \/ TrustRungResponds(r)
             \/ McpResponds(r) \/ BridgeResponds(r)
      PROVE  FALSE
  BY <1>1, <1>9
     DEF OfferingRecords, CdpRecords, TrustRungRecords, McpRecords, Records, Moves, PaidRoutes,
         RelayerRoutes, BridgeHandles, OfferingResponds, CdpResponds, TrustRungResponds,
         McpResponds, BridgeResponds, Responds
<1>10. CASE Gate(r)
  BY <1>4, <1>10 DEF Gate, Moves
<1>11. CASE CdpVerify(r)
  BY <1>4, <1>11 DEF CdpVerify
<1>12. CASE \/ x402PreHandler(r) \/ trustRungPreHandler(r)
            \/ McpPays(r) \/ cdpX402PreHandler(r)
  BY <1>4, <1>5, <1>6, <1>7, <1>8, <1>10, <1>11, <1>12
     DEF x402PreHandler, trustRungPreHandler, McpPays, cdpX402PreHandler, settle, CdpWaitThrows
<1> QED
  BY <1>2, <1>3, <1>9, <1>12
     DEF Handle, x402PaymentPresenceCheck, trustRungPaymentPresenceCheck,
         cdpX402PaymentPresenceCheck, McpCall, Validate, McpValidate

(* The ledger is written when the transfer stands, with the route's price. *)
LEMMA RecordsThePrice ==
  ASSUME TypeOK, GateStory, PromiseStory, NEW r \in Reqs, Handle(r)
  PROVE  \/ ledger' = ledger /\ pc'[r] \notin {"recorded", "200"}
         \/ /\ pc'[r] = "recorded"
            /\ \/ ledger' = ledger /\ (Fault \/ ask[r].route = "bridge")
               \/ /\ tx[r] = "success" /\ ask[r].route \in PaidRoutes
                  /\ ledger' = [ledger EXCEPT ![r] = Quote(ask[r].route, ask[r].slug)]
         \/ pc[r] = "recorded" /\ pc'[r] = "200" /\ ledger' = ledger
<1> USE DEF TypeOK
<1>1. /\ RouteStory(r) /\ TransferStory(r) /\ Gated(r)
      /\ Quote(ask[r].route, ask[r].slug) = PRICING_TABLE[ask[r].slug]
      /\ ask[r].route = "trustRung" => ask[r].slug = TRUST_RUNG_SLUG
  BY QuoteIsThePrice DEF GateStory, RouteStory
<1>2. CASE OfferingRecords(r) \/ CdpRecords(r) \/ TrustRungRecords(r) \/ McpRecords(r)
  <2>1. /\ pc[r] = "settled" /\ ask[r].route \in PaidRoutes
        /\ Records(r, Quote(ask[r].route, ask[r].slug))
    BY <1>1, <1>2
       DEF OfferingRecords, CdpRecords, TrustRungRecords, McpRecords, PaidRoutes, RelayerRoutes
  <2>2. tx[r] = "success"
    BY <1>1, <2>1 DEF TransferStory, PaidRoutes, RelayerRoutes
  <2> QED
    BY <2>1, <2>2 DEF Records, Moves
<1>3. CASE BridgeHandles(r)
  <2>1. ask[r].route = "bridge" /\ tx[r] = "none"
    BY <1>1, <1>3 DEF BridgeHandles, RouteStory
  <2>2. [ledger EXCEPT ![r] = 0] = ledger
    BY <2>1 DEF PromiseStory, LedgerStory
  <2> QED
    BY <1>3, <2>1, <2>2 DEF BridgeHandles, Records, Moves, Waits
<1>4. CASE \/ OfferingResponds(r) \/ CdpResponds(r) \/ TrustRungResponds(r)
           \/ McpResponds(r) \/ BridgeResponds(r)
  BY <1>4 DEF OfferingResponds, CdpResponds, TrustRungResponds, McpResponds, BridgeResponds,
              Responds, Moves, Waits
<1>5. CASE \/ x402PaymentPresenceCheck(r) \/ trustRungPaymentPresenceCheck(r)
           \/ cdpX402PaymentPresenceCheck(r) \/ McpCall(r)
           \/ Validate(r) \/ McpValidate(r)
  BY <1>5 DEF x402PaymentPresenceCheck, trustRungPaymentPresenceCheck,
       cdpX402PaymentPresenceCheck, McpCall, Validate, McpValidate, HeaderCheck, BodyCheck,
       Moves, Waits
<1>6. CASE \/ x402PreHandler(r) \/ trustRungPreHandler(r)
           \/ McpPays(r) \/ cdpX402PreHandler(r)
  BY <1>6 DEF x402PreHandler, trustRungPreHandler, McpPays, cdpX402PreHandler, CdpVerify,
       CdpSettle, CdpSettled, CdpWaitThrows, Gate, Verify, settle, Simulate, Broadcast,
       BroadcastRejected, BroadcastThrows, ReceiptArrives, ReceiptWaitThrows, Sends, Moves, Waits
<1> QED
  BY <1>2, <1>3, <1>4, <1>5, <1>6 DEF Handle

LEMMA HandleKeepsPromises ==
  ASSUME TypeOK, GateStory, PromiseStory, NEW r \in Reqs, Handle(r)
  PROVE  PromiseStory'
<1> USE DEF TypeOK
<1>1. MovesOn(r) /\ [Next]_vars
  BY HandleMovesOn DEF Next
<1>2. PICK to \in PCs : pc' = [pc EXCEPT ![r] = to]
  BY <1>1 DEF MovesOn, Moves
<1>3. /\ ask' = ask /\ terms' = terms /\ spentBy' = spentBy /\ now' = now
      /\ faults \in Nat /\ (faults' = faults \/ Fault)
      /\ tx'[r] = tx[r] \/ tx'[r] = "pending"
  BY <1>1, ConstantsOK DEF MovesOn, setup
<1>4. ASSUME NEW q \in Reqs, q # r
      PROVE  HonestStory(q)' /\ LedgerStory(q)'
  <2>1. ledger'[q] = ledger[q] /\ tx'[q] = tx[q] /\ pc'[q] = pc[q] /\ ask'[q] = ask[q]
    BY <1>1, <1>2, <1>3, <1>4 DEF MovesOn
  <2> QED
    BY <1>1, <2>1, OthersKeepTheirPromises DEF PromiseStory
<1>5. HonestStory(r)'
  <2> SUFFICES ASSUME Honest(r)', (pc[r] \in Refusals \/ tx[r] = "reverted")'
               PROVE  (faults > 0 \/ Used(ask[r].cred) \/ ~Open(ask[r].cred))'
    BY DEF HonestStory
  <2>1. Honest(r)
    BY <1>3 DEF Honest, Due
  <2>2. Fault \/ Used(ask[r].cred) \/ ~Open(ask[r].cred) \/ tx[r] = "reverted"
    BY <1>3, <2>1, RefusedForAReason
  <2>3. faults > 0 \/ Fault \/ Used(ask[r].cred) \/ ~Open(ask[r].cred)
    BY <2>1, <2>2 DEF PromiseStory, HonestStory
  <2> QED
    BY <1>3, <2>3 DEF Fault, Used, Open
<1>6. LedgerStory(r)'
  <2>1. LedgerStory(r) /\ TransferStory(r) /\ TransferStory(r)'
    BY HandleKeepsStories DEF PromiseStory, GateStory
  <2>2. tx[r] = "success" => tx'[r] = "success"
    <3>1. tx[r] = "success" => spentBy[ask[r].cred] = r /\ ask[r].cred \in Auths
      BY DEF GateStory, ChainStory, RouteStory, Due
    <3>2. ChainStory(r)'
      BY HandleKeepsStories DEF GateStory
    <3> QED
      BY <1>3, <3>1, <3>2 DEF ChainStory
  <2>3. faults' = 0 => faults = 0 /\ ~Fault
    BY <1>3 DEF Fault
  <2>4. ledger \in [Reqs -> Nat] /\ ask[r].route = "bridge" => ask[r].route \notin PaidRoutes
    BY DEF PaidRoutes, RelayerRoutes
  <2> QED
    BY <1>3, <2>1, <2>2, <2>3, <2>4, RecordsThePrice DEF LedgerStory
<1> QED
  BY <1>4, <1>5, <1>6 DEF PromiseStory

LEMMA StepKeepsPromises ==
  TypeOK /\ GateStory /\ PromiseStory /\ [Next]_vars => PromiseStory'
<1> SUFFICES ASSUME TypeOK, GateStory, PromiseStory, [Next]_vars
             PROVE  PromiseStory'
  OBVIOUS
<1> USE DEF TypeOK
<1>1. CASE Boot \/ Crash \/ Tick \/ UNCHANGED vars \/ \E a \in Auths : SpendElsewhere(a)
  <2>1. ask' = ask /\ tx' = tx /\ ledger' = ledger /\ \A q \in Reqs : pc'[q] = pc[q] \/ pc'[q] = "gone"
    BY <1>1 DEF Boot, Crash, Tick, vars, chain, SpendElsewhere
  <2> QED
    BY <2>1, OthersKeepTheirPromises DEF PromiseStory
<1>2. ASSUME NEW r \in Reqs, Arrive(r)
      PROVE  PromiseStory'
  <2>1. pc[r] = "unsent" /\ pc' = [pc EXCEPT ![r] = "arrived"] /\ tx' = tx /\ ledger' = ledger
    BY <1>2 DEF Arrive, Moves, chain
  <2>2. tx[r] = "none"
    BY <2>1 DEF GateStory, TransferStory, BeforeTransfer
  <2>3. HonestStory(r)' /\ LedgerStory(r)'
    BY <2>1, <2>2 DEF HonestStory, LedgerStory, PromiseStory, Refusals
  <2>4. ASSUME NEW q \in Reqs, q # r
        PROVE  HonestStory(q)' /\ LedgerStory(q)'
    <3>1. ask'[q] = ask[q] /\ pc'[q] = pc[q]
      BY <1>2, <2>1, <2>4 DEF Arrive
    <3> QED
      BY <2>1, <3>1, OthersKeepTheirPromises DEF PromiseStory
  <2> QED
    BY <2>3, <2>4 DEF PromiseStory
<1>3. ASSUME NEW r \in Reqs, Mine(r)
      PROVE  PromiseStory'
  <2>1. /\ pc' = pc /\ ask' = ask /\ ledger' = ledger /\ tx[r] = "pending" /\ faults' = faults
        /\ terms' = terms /\ now' = now
    BY <1>3 DEF Mine, bounds, setup
  <2>2. pc[r] \in {"waiting", "502", "gone"} /\ Due(r) /\ ask[r].cred \in Auths
    BY <2>1 DEF GateStory, TransferStory, RouteStory, Due
  <2>3. /\ tx'[r] = "success" => pc'[r] \notin Refusals
        /\ tx'[r] = "reverted" => (Used(ask[r].cred) \/ ~Open(ask[r].cred))'
        /\ tx'[r] \in {"success", "reverted"}
    BY <1>3, <2>1, <2>2 DEF Mine, Used, Open, Refusals
  <2>4. HonestStory(r)' /\ LedgerStory(r)'
    BY <2>1, <2>2, <2>3 DEF HonestStory, LedgerStory, PromiseStory, Refusals
  <2>5. ASSUME NEW q \in Reqs, q # r
        PROVE  HonestStory(q)' /\ LedgerStory(q)'
    <3>1. tx'[q] = tx[q]
      BY <1>3, <2>5 DEF Mine
    <3> QED
      BY <2>1, <3>1, OthersKeepTheirPromises DEF PromiseStory
  <2> QED
    BY <2>4, <2>5 DEF PromiseStory
<1> QED
  BY <1>1, <1>2, <1>3, HandleKeepsPromises DEF Next

LEMMA InitHasPromises == Init => PromiseStory
BY DEF Init, PromiseStory, HonestStory, LedgerStory, Refusals

(* A buyer who signs what the 402 asks and sends a valid body in time is    *)
(* refused only for a fault or a spent authorization; the ledger holds the  *)
(* price of a request only once its transfer stands, never more than it     *)
(* paid, and that of every served request when no write failed              *)
(* (settle.ts:40-43, offerings.ts:70-84).                                   *)
THEOREM PromisesAreKept == Spec => []GateInv
<1>1. TypeOK /\ GateStory /\ PromiseStory => HonestIsNotRefused
  <2> SUFFICES ASSUME PromiseStory, NEW r \in Reqs, Honest(r), pc[r] \in Refusals
               PROVE  faults > 0 \/ Used(ask[r].cred) \/ ~Open(ask[r].cred)
    BY DEF HonestIsNotRefused, Honest, Due
  <2> QED
    BY DEF PromiseStory, HonestStory
<1>2. TypeOK /\ GateStory /\ PromiseStory => LedgerIsEarned
  BY DEF GateStory, RouteStory, ChainStory, Due, PromiseStory, LedgerStory, LedgerIsEarned
<1>3. TypeOK /\ GateStory /\ PromiseStory => GateInv
  BY <1>1, <1>2 DEF GateInv
<1> QED
  BY <1>3, InitHasTypes, InitHasStories, InitHasPromises, StepKeepsTypes, StepKeepsStories,
     StepKeepsPromises, PTL DEF Spec
===============================================================================
