-------------------------- MODULE MechDeliveryProofs --------------------------
(* Proofs about the mech at work, for any finite set of requests, any        *)
(* documents, any height of the chain and any number of faults.              *)
EXTENDS MechDelivery, TLAPS, FiniteSetTheorems, SequenceTheorems

-------------------------------------------------------------------------------
(* The strengthening.                                                        *)

InTick == {"logs", "route", "pin", "verify", "build", "send", "receipt"}
Polled == InTick \ {"logs"}
RoutedIds == {routed[k].id : k \in DOMAIN routed}
RoutedDocs == {routed[k].doc : k \in DOMAIN routed}
Held == ToSet(queue) \cup RoutedIds \cup signed.ids

(* The cursor is at most one past the head, a tick's range lies between the  *)
(* two, a document is worked on for the first request of the queue, and      *)
(* between ticks the process holds nothing.                                  *)
PlaceStory ==
    /\ cursor <= head + 1
    /\ pc \in InTick => cursor <= upto /\ upto <= head
    /\ pc \notin InTick => Held = {}
    /\ pc \in {"pin", "verify"} => queue # <<>> /\ doc \in Responses /\ attempts < MaxAttempts

(* Whatever a tick holds was mined in the tick's own range. *)
RangeStory ==
    \A q \in Held : status[q] # "none" /\ cursor <= at[q] /\ at[q] <= upto

(* The blocks from the start up to the cursor, and up to the end of a range  *)
(* that was polled, hold no request that was not seen.                       *)
SeenStory ==
    lagged = 0 =>
        \A q \in Requests :
            /\ status[q] # "none" /\ from <= at[q]
            /\ at[q] < cursor \/ (pc \in Polled /\ at[q] <= upto)
            => q \in seen

Calm == crashes = 0 /\ unknowns = 0

(* While every receipt came and nothing crashed, a request is sent once, and *)
(* by then the cursor has passed it or its receipt is still to come.         *)
SentStory ==
    /\ \A q \in Requests : sends[q] > 0 => status[q] # "none"
    /\ Calm => \A q \in Requests :
                 /\ sends[q] <= 1
                 /\ sends[q] = 1 => \/ pc = "receipt" /\ q \in signed.ids
                                    \/ pc \notin {"down", "refused"} /\ at[q] < cursor

(* Then the one delivery in flight is the one whose receipt is awaited. *)
FlightStory == Calm => \A t \in mempool : pc = "receipt" /\ t = signed

(* Only what the gateway serves gets into a batch, and so into a delivery.   *)
ContentStory ==
    /\ RoutedDocs \subseteq resolvable /\ signed.docs \subseteq resolvable
    /\ \A t \in mempool : t.docs \subseteq resolvable

(* What is delivered under this mech's name was sent by it.                  *)
HonestStory ==
    /\ \A t \in mempool : \A q \in t.ids : sends[q] > 0
    /\ \A q \in Requests : by[q] = "grey" => status[q] = "delivered" /\ sends[q] > 0
    /\ tester = "proved" => by[SelfTest] = "grey"

DeliveryStory ==
    /\ TypeOK /\ PlaceStory /\ RangeStory /\ SeenStory
    /\ SentStory /\ FlightStory /\ ContentStory /\ HonestStory

-------------------------------------------------------------------------------
(* The operators of the model.                                               *)

(* Dropping the first request of the queue leaves a part of the queue.       *)
LEMMA TailOfTheQueue ==
    ASSUME TypeOK, queue # <<>>
    PROVE  /\ Head(queue) \in ToSet(queue) /\ Tail(queue) \in Seq(Requests)
           /\ ToSet(Tail(queue)) \subseteq ToSet(queue)
           /\ Head(queue) \in Requests
  <1>1. queue \in Seq(Requests)
    BY DEF TypeOK
  <1>2. /\ Head(queue) \in Requests /\ Tail(queue) \in Seq(Requests)
        /\ Len(Tail(queue)) = Len(queue) - 1 /\ Len(queue) \in Nat \ {0}
        /\ \A i \in 1..Len(Tail(queue)) : Tail(queue)[i] = queue[i + 1]
    BY <1>1, HeadTailProperties, EmptySeq, LenProperties
  <1>3. Head(queue) \in ToSet(queue)
    BY <1>1, <1>2 DEF ToSet
  <1>4. \A i \in DOMAIN Tail(queue) : Tail(queue)[i] = queue[i + 1] /\ i + 1 \in DOMAIN queue
    BY <1>1, <1>2
  <1>5. ToSet(Tail(queue)) \subseteq ToSet(queue)
    BY <1>4 DEF ToSet
  <1> QED
    BY <1>2, <1>3, <1>5

(* A routed result joins the batch; nothing else does.                       *)
LEMMA RoutedGrows ==
    ASSUME TypeOK, Routes, queue # <<>>, doc \in Responses
    PROVE  /\ routed' \in Seq([id : Requests, doc : Responses])
           /\ RoutedIds' = RoutedIds \cup {Head(queue)}
           /\ RoutedDocs' = RoutedDocs \cup {doc}
  <1> DEFINE new == [id |-> Head(queue), doc |-> doc]
             Batch == [id : Requests, doc : Responses]
  <1>1. new \in Batch /\ routed \in Seq(Batch) /\ routed' = Append(routed, new)
    BY TailOfTheQueue DEF TypeOK, Routes
  <1>2. new.id = Head(queue) /\ new.doc = doc
    OBVIOUS
  <1> HIDE DEF new
  <1>3. /\ routed' \in Seq(Batch) /\ Len(routed') = Len(routed) + 1
        /\ \A k \in 1..Len(routed) : routed'[k] = routed[k]
        /\ routed'[Len(routed) + 1] = new
    BY <1>1, AppendProperties
  <1>4. Len(routed) \in Nat /\ DOMAIN routed = 1..Len(routed)
    BY <1>1, LenProperties
  <1>5. DOMAIN routed' = DOMAIN routed \cup {Len(routed) + 1}
    BY <1>3, <1>4, LenProperties
  <1>6. RoutedIds' = RoutedIds \cup {Head(queue)}
    BY <1>2, <1>3, <1>4, <1>5 DEF RoutedIds
  <1>7. RoutedDocs' = RoutedDocs \cup {doc}
    BY <1>2, <1>3, <1>4, <1>5 DEF RoutedDocs
  <1> QED
    BY <1>3, <1>6, <1>7

(* What is routed is requests and documents.                                 *)
LEMMA RoutedIsTyped ==
    ASSUME TypeOK
    PROVE  RoutedIds \subseteq Requests /\ RoutedDocs \subseteq Responses
  <1> DEFINE Batch == [id : Requests, doc : Responses]
  <1>1. routed \in Seq(Batch)
    BY DEF TypeOK
  <1>2. \A k \in DOMAIN routed : routed[k] \in Batch
    <2> HIDE DEF Batch
    <2> QED
      BY <1>1, ElementOfSeq, LenProperties
  <1> QED
    BY <1>2 DEF RoutedIds, RoutedDocs

(* The end of a tick, or its failure, leaves nothing behind.                 *)
LEMMA NothingIsKept ==
    ASSUME Forget
    PROVE  /\ ToSet(queue') = {} /\ RoutedIds' = {} /\ RoutedDocs' = {}
           /\ signed' \in Signatures /\ signed'.ids = {} /\ signed'.docs = {}
           /\ queue' \in Seq(Requests) /\ routed' \in Seq([id : Requests, doc : Responses])
  <1>1. queue' = <<>> /\ routed' = <<>> /\ signed' = NoSignature
    BY DEF Forget
  <1>2. ToSet(queue') = {} /\ RoutedIds' = {} /\ RoutedDocs' = {}
    BY <1>1 DEF ToSet, RoutedIds, RoutedDocs
  <1>3. signed' \in Signatures /\ signed'.ids = {} /\ signed'.docs = {}
    BY <1>1 DEF NoSignature, Signatures
  <1> QED
    BY <1>1, <1>2, <1>3

(* The answer of getLogs is a sequence of what was found.                    *)
LEMMA BlockOrder ==
    ASSUME NEW Q \in SUBSET Requests, NEW s \in InBlockOrder(Q)
    PROVE  s \in Seq(Requests) /\ ToSet(s) \subseteq Q
  <1>1. IsFiniteSet(Q) /\ Cardinality(Q) \in Nat
    BY DeliveryAssumption, FS_Subset, FS_CardinalityType
  <1>2. s \in [1..Cardinality(Q) -> Q]
    BY DEF InBlockOrder, SetToSeqs
  <1>3. s \in Seq(Q)
    BY <1>1, <1>2
  <1> QED
    BY <1>3 DEF ToSet

(* What the owner signs is the batch.                                        *)
LEMMA TheBatchIsSigned ==
    ASSUME TypeOK, buildSignedDelivery
    PROVE  /\ signed' = [nonce |-> nonce, ids |-> RoutedIds, docs |-> RoutedDocs]
           /\ signed' \in Signatures /\ signed'.ids = RoutedIds /\ signed'.docs = RoutedDocs
  <1>1. signed' = [nonce |-> nonce, ids |-> RoutedIds, docs |-> RoutedDocs]
    BY DEF buildSignedDelivery, signSafeTransactionHash, encodeDeliverToMarketplaceCalldata,
           RoutedIds, RoutedDocs
  <1> QED
    BY <1>1, RoutedIsTyped DEF TypeOK, Signatures

-------------------------------------------------------------------------------
(* The shape of the state, and where a tick stands in the chain.             *)

(* A skipped request leaves the queue and nothing else.                      *)
LEMMA SkipIsTyped ==
    ASSUME TypeOK, Skips, queue # <<>>
    PROVE  /\ queue' \in Seq(Requests) /\ routed' = routed /\ pc' = "route"
           /\ doc' = NoDoc /\ attempts' = 0 /\ ToSet(queue') \subseteq ToSet(queue)
  BY TailOfTheQueue DEF Skips

LEMMA NumbersOK ==
    /\ MaxAttempts \in Nat \ {0} /\ MaxHead \in Nat /\ MaxFaults \in Nat
    /\ SelfTest \in Requests /\ 0 \in 0..MaxAttempts /\ 0 \in 0..MaxHead
  BY DeliveryAssumption

(* Every action keeps the shape of the state.                                *)
LEMMA TypeKept ==
    ASSUME TypeOK, PlaceStory, [Next]_vars
    PROVE  TypeOK'
  <1> USE NumbersOK
  <1>0. ASSUME Skips, queue # <<>>, UNCHANGED faults \/ (faults < MaxFaults /\ faults' = faults + 1),
               UNCHANGED <<chain, store, env, cursor, upto, signed, aborted, tester, kinds, history>>
        PROVE  TypeOK'
    <2>1. faults' \in 0..MaxFaults /\ lagged + crashes + unknowns <= faults'
      BY <1>0 DEF TypeOK
    <2>2. /\ queue' \in Seq(Requests) /\ routed' = routed /\ pc' = "route"
          /\ doc' = NoDoc /\ attempts' = 0
      BY <1>0, SkipIsTyped
    <2> QED
      BY <1>0, <2>1, <2>2 DEF TypeOK, chain, store, kinds, history
  <1>1. ASSUME NEW q \in Requests, Mined(q), tester' \in {tester, "watching"}
        PROVE  TypeOK'
    BY <1>1 DEF TypeOK, Mined, store, process, tick, kinds, history
  <1>2. ASSUME NEW q \in Requests, Request(q) \/ OtherDelivers(q)
        PROVE  TypeOK'
    <2>1. CASE Request(q)
      BY <1>1, <2>1 DEF Request
    <2>2. CASE OtherDelivers(q)
      BY <2>2 DEF TypeOK, OtherDelivers, store, process, tick, kinds, history
    <2> QED
      BY <1>2, <2>1, <2>2
  <1>3. CASE NewBlock
    BY <1>3 DEF TypeOK, NewBlock, store, process, tick, kinds, history
  <1>4. ASSUME NEW d \in Responses, Propagate(d)
        PROVE  TypeOK'
    BY <1>4 DEF TypeOK, Propagate, chain, process, tick, kinds, history
  <1>5. ASSUME NEW t \in mempool, MineDelivery(t)
        PROVE  TypeOK'
    BY <1>5 DEF TypeOK, MineDelivery, store, process, tick, kinds, history
  <1>6. CASE executeCall
    BY <1>6 DEF TypeOK, executeCall, Fault, store, process, tick, kinds, history
  <1>7. CASE Main
    BY <1>7 DEF TypeOK, Main, chain, store, process, tick, kinds, history
  <1>8. CASE installSignalAbort
    BY <1>8 DEF TypeOK, installSignalAbort, chain, store, process, tick, kinds, history
  <1>9. CASE Sleep
    BY <1>9 DEF TypeOK, Sleep, chain, store, process, tick, kinds, history
  <1>10. CASE Crash
    <2>1. faults' \in 0..MaxFaults /\ crashes' \in Nat /\ lagged + crashes' + unknowns <= faults'
      BY <1>10 DEF Crash, Fault, TypeOK
    <2>2. /\ queue' \in Seq(Requests) /\ routed' \in Seq([id : Requests, doc : Responses])
          /\ signed' \in Signatures
      BY <1>10, NothingIsKept DEF Crash
    <2>3. upto' \in 0..MaxHead /\ doc' \in Responses \cup {NoDoc} /\ attempts' \in 0..MaxAttempts
      BY <1>10 DEF Crash, Forget
    <2> QED
      BY <1>10, <2>1, <2>2, <2>3 DEF TypeOK, Crash, chain, store, history
  <1>11. CASE PollHead
    BY <1>11 DEF TypeOK, PollHead, chain, store, process, tick, kinds, history
  <1>12. CASE pollForOwnRequests
    <2>1. queue' \in Seq(Requests)
      BY <1>12, BlockOrder DEF pollForOwnRequests
    <2>2. routed' \in Seq([id : Requests, doc : Responses])
      BY <1>12 DEF pollForOwnRequests
    <2>3. faults' \in 0..MaxFaults /\ lagged' \in Nat /\ lagged' + crashes + unknowns <= faults'
      BY <1>12 DEF pollForOwnRequests, Fault, TypeOK
    <2> QED
      BY <1>12, <2>1, <2>2, <2>3 DEF TypeOK, pollForOwnRequests, chain, store, history
  <1>13. CASE routeRequest
    <2>1. CASE deriveResponseHash /\ pc' = "pin" /\ attempts' = 0 /\ UNCHANGED <<queue, routed, faults>>
      BY <1>13, <2>1 DEF TypeOK, routeRequest, deriveResponseHash, chain, store, kinds, history
    <2>2. CASE Fault /\ Skips
      BY <1>13, <2>2, <1>0 DEF routeRequest, Fault
    <2> QED
      BY <1>13, <2>1, <2>2 DEF routeRequest
  <1>14. CASE UnknownTool \/ fetchRequestContentFails
    BY <1>14, <1>0 DEF UnknownTool, fetchRequestContentFails, Fault
  <1>15. CASE pinAndVerify
    BY <1>15 DEF TypeOK, PlaceStory, pinAndVerify, chain, process, tick, kinds, history
  <1>16. CASE PinFails
    BY <1>16, <1>0 DEF PlaceStory, PinFails, Fault
  <1>17. CASE verifyResolvable
    <2>1. queue # <<>> /\ doc \in Responses /\ attempts < MaxAttempts
      BY <1>17 DEF verifyResolvable, PlaceStory
    <2>2. CASE Routes /\ UNCHANGED faults
      BY <1>17, <2>1, <2>2, RoutedGrows, TailOfTheQueue DEF TypeOK, verifyResolvable, Routes, chain, store,
            kinds, history
    <2>3. CASE Fault /\ Skips
      BY <1>17, <2>1, <2>3, <1>0 DEF verifyResolvable, Fault
    <2>4. CASE attempts' = attempts + 1 /\ UNCHANGED <<pc, queue, routed, doc, faults>>
      BY <1>17, <2>1, <2>4 DEF TypeOK, verifyResolvable, chain, store, kinds, history
    <2> QED
      BY <1>17, <2>2, <2>3, <2>4 DEF verifyResolvable
  <1>18. ASSUME EndTick \/ TickError,
                PlaceStory, upto + 1 <= MaxHead + 1,
                faults' \in 0..MaxFaults, UNCHANGED <<head, at, status, by, tool, nonce, store, env, aborted,
                  tester, seen, from, lagged, crashes>>, mempool' \subseteq Signatures,
                sends' \in [Requests -> Nat], unknowns' \in Nat, lagged + crashes + unknowns' <= faults'
         PROVE  TypeOK'
    <2>1. pc' = "sleep" /\ cursor' \in {cursor, upto + 1} /\ Forget
      BY <1>18 DEF EndTick, TickError
    <2>2. /\ queue' \in Seq(Requests) /\ routed' \in Seq([id : Requests, doc : Responses])
          /\ signed' \in Signatures
      BY <2>1, NothingIsKept
    <2>3. upto' \in 0..MaxHead /\ doc' \in Responses \cup {NoDoc} /\ attempts' \in 0..MaxAttempts
      BY <2>1 DEF Forget
    <2>4. cursor' \in 0..(MaxHead + 1)
      BY <1>18, <2>1 DEF TypeOK
    <2> QED
      BY <1>18, <2>1, <2>2, <2>3, <2>4 DEF TypeOK, store
  <1>19. upto + 1 <= MaxHead + 1 /\ faults \in 0..MaxFaults /\ lagged + crashes + unknowns <= faults
         /\ mempool \subseteq Signatures /\ sends \in [Requests -> Nat] /\ unknowns \in Nat
         /\ lagged \in Nat /\ crashes \in Nat
    BY DEF TypeOK
  <1>20. CASE BatchRouted
    <2>1. CASE EndTick
      BY <1>20, <1>18, <1>19, <2>1 DEF BatchRouted, chain, kinds, history
    <2>2. CASE pc' = "build" /\ UNCHANGED <<cursor, tick>>
      BY <1>20, <2>2 DEF TypeOK, BatchRouted, chain, store, tick, kinds, history
    <2> QED
      BY <1>20, <2>1, <2>2 DEF BatchRouted
  <1>21. CASE PollThrows \/ DeliveryThrows
    BY <1>21, <1>18, <1>19 DEF PollThrows, DeliveryThrows, Fault, chain, kinds, history
  <1>22. CASE buildSignedDelivery
    BY <1>22, TheBatchIsSigned DEF TypeOK, buildSignedDelivery, chain, store, kinds, history
  <1>23. CASE deliverSigned
    <2>1. CASE TickError /\ UNCHANGED <<mempool, sends>>
      BY <1>23, <1>18, <1>19, <2>1 DEF deliverSigned, kinds
    <2>2. CASE EndTick /\ UNCHANGED <<mempool, sends>>
      BY <1>23, <1>18, <1>19, <2>2 DEF deliverSigned, kinds
    <2>3. CASE /\ pc' = "receipt" /\ mempool' = mempool \cup {signed}
               /\ sends' = [q \in Requests |-> IF q \in signed.ids THEN sends[q] + 1 ELSE sends[q]]
               /\ UNCHANGED <<cursor, tick>>
      <3>1. sends' \in [Requests -> Nat]
        BY <1>19, <2>3
      <3> QED
        BY <1>23, <2>3, <3>1 DEF TypeOK, deliverSigned, store, tick, kinds
    <2> QED
      BY <1>23, <2>1, <2>2, <2>3 DEF deliverSigned
  <1>24. CASE executeDelivery
    BY <1>24, <1>18, <1>19 DEF executeDelivery, chain, kinds, history
  <1>25. CASE ReceiptUnknown
    BY <1>25, <1>18, <1>19 DEF ReceiptUnknown, Fault, chain, history
  <1>26. CASE Preflight \/ WatchStatus \/ FetchDelivered
    BY <1>26 DEF TypeOK, Preflight, WatchStatus, FetchDelivered, Tester, chain, store, process, tick, kinds,
                 history
  <1>27. CASE SubmitRequest
    BY <1>27, <1>1 DEF SubmitRequest
  <1>28. CASE UNCHANGED vars
    BY <1>28 DEF TypeOK, vars, chain, store, process, tick, kinds, history
  <1> QED
    BY <1>2, <1>3, <1>4, <1>5, <1>6, <1>7, <1>8, <1>9, <1>10, <1>11, <1>12, <1>13, <1>14, <1>15, <1>16,
       <1>17, <1>20, <1>21, <1>22, <1>23, <1>24, <1>25, <1>26, <1>27, <1>28
       DEF Next, Poll, Deliver, Network

(* The world around the process and the signal handler move no tick.         *)
World ==
    \/ \E q \in Requests : Request(q) \/ OtherDelivers(q)
    \/ NewBlock \/ Network \/ executeCall \/ installSignalAbort
    \/ Preflight \/ SubmitRequest \/ WatchStatus \/ FetchDelivered

LEMMA WorldMovesNoTick ==
    ASSUME TypeOK, World \/ UNCHANGED vars
    PROVE  /\ UNCHANGED <<pc, cursor, from, seen, sends, lagged, crashes, unknowns>> /\ UNCHANGED tick
           /\ head <= head'
  <1>1. head \in Nat
    BY NumbersOK DEF TypeOK
  <1>2. ASSUME NEW q \in Requests, Request(q) \/ OtherDelivers(q)
        PROVE  UNCHANGED <<process, kinds, history>> /\ head <= head'
    BY <1>1, <1>2 DEF Request, Mined, OtherDelivers
  <1>3. CASE Network
    BY <1>1, <1>3 DEF Network, Propagate, MineDelivery, chain, process, kinds, history
  <1>4. CASE NewBlock \/ executeCall
    BY <1>1, <1>4 DEF NewBlock, executeCall, process, kinds, history
  <1>5. CASE installSignalAbort
    BY <1>1, <1>5 DEF installSignalAbort, chain, process, kinds, history
  <1>6. CASE Preflight \/ WatchStatus \/ FetchDelivered
    BY <1>1, <1>6 DEF Preflight, WatchStatus, FetchDelivered, Tester, chain, process, kinds, history
  <1>7. CASE SubmitRequest
    BY <1>1, <1>7 DEF SubmitRequest, Mined, process, kinds, history
  <1>8. CASE UNCHANGED vars
    BY <1>1, <1>8 DEF vars, chain, process, kinds, history
  <1> QED
    BY <1>2, <1>3, <1>4, <1>5, <1>6, <1>7, <1>8 DEF World, process, kinds, history

(* A process that has its tick unchanged holds what it held.                 *)
LEMMA SameTick ==
    ASSUME UNCHANGED tick
    PROVE  Held' = Held /\ RoutedIds' = RoutedIds /\ RoutedDocs' = RoutedDocs /\ upto' = upto
  BY DEF tick, Held, RoutedIds, RoutedDocs

(* An action takes a part of what the tick holds on, drops it, or polls.     *)
LEMMA HeldMoves ==
    ASSUME TypeOK, PlaceStory, [Next]_vars
    PROVE  \/ Held' \subseteq Held /\ UNCHANGED <<cursor, upto>>
           \/ Held' = {}
           \/ pollForOwnRequests
  <1>1. CASE World \/ UNCHANGED vars
    BY <1>1, WorldMovesNoTick, SameTick
  <1>2. ASSUME UNCHANGED tick, pc \notin InTick \/ UNCHANGED cursor
        PROVE  Held' = {} \/ (Held' = Held /\ UNCHANGED <<cursor, upto>>)
    BY <1>2, SameTick DEF PlaceStory
  <1>3. CASE Main \/ Sleep
    BY <1>2, <1>3 DEF Main, Sleep, InTick
  <1>4. CASE PollHead
    <2>1. UNCHANGED <<queue, routed, signed>> /\ pc \notin InTick
      BY <1>4 DEF PollHead, InTick
    <2> QED
      BY <2>1 DEF Held, RoutedIds, PlaceStory
  <1>5. ASSUME Skips, queue # <<>>, UNCHANGED <<cursor, upto, signed>>
        PROVE  Held' \subseteq Held /\ UNCHANGED <<cursor, upto>>
    BY <1>5, SkipIsTyped DEF Held, RoutedIds
  <1>6. CASE routeRequest
    BY <1>5, <1>6 DEF routeRequest, Held, RoutedIds
  <1>7. CASE UnknownTool \/ fetchRequestContentFails \/ PinFails
    BY <1>5, <1>7 DEF UnknownTool, fetchRequestContentFails, PinFails, PlaceStory
  <1>8. CASE pinAndVerify
    BY <1>8 DEF pinAndVerify, Held, RoutedIds
  <1>9. CASE verifyResolvable
    <2>1. queue # <<>> /\ doc \in Responses
      BY <1>9 DEF verifyResolvable, PlaceStory
    <2>2. CASE Routes
      <3>1. RoutedIds' = RoutedIds \cup {Head(queue)} /\ queue' = Tail(queue)
        BY <2>1, <2>2, RoutedGrows DEF Routes
      <3> QED
        BY <1>9, <2>1, <3>1, TailOfTheQueue DEF verifyResolvable, Held
    <2>3. CASE Skips
      BY <1>5, <1>9, <2>1, <2>3 DEF verifyResolvable
    <2>4. CASE UNCHANGED <<queue, routed>>
      BY <1>9, <2>4 DEF verifyResolvable, Held, RoutedIds
    <2> QED
      BY <1>9, <2>2, <2>3, <2>4 DEF verifyResolvable
  <1>10. ASSUME Forget
         PROVE  Held' = {}
    BY <1>10, NothingIsKept DEF Held
  <1>11. CASE Crash \/ PollThrows \/ DeliveryThrows \/ executeDelivery \/ ReceiptUnknown
    BY <1>10, <1>11 DEF Crash, PollThrows, DeliveryThrows, executeDelivery, ReceiptUnknown, EndTick, TickError
  <1>12. CASE BatchRouted
    BY <1>2, <1>10, <1>12 DEF BatchRouted, EndTick
  <1>13. CASE buildSignedDelivery
    <2>1. signed'.ids = RoutedIds
      BY <1>13, TheBatchIsSigned
    <2> QED
      BY <1>13, <2>1 DEF buildSignedDelivery, Held, RoutedIds
  <1>14. CASE deliverSigned
    BY <1>2, <1>10, <1>14 DEF deliverSigned, EndTick, TickError
  <1> QED
    BY <1>1, <1>3, <1>4, <1>6, <1>7, <1>8, <1>9, <1>11, <1>12, <1>13, <1>14 DEF Next, Poll, Deliver, World

(* One past the head stays at most one past it as the chain grows.           *)
LEMMA HeadGrows ==
    ASSUME NEW c \in Nat, NEW m \in Nat, NEW n \in Nat, c <= m + 1, m <= n
    PROVE  c <= n + 1
  OBVIOUS

(* Every action keeps the tick in its place.                                 *)
LEMMA PlaceKept ==
    ASSUME TypeOK, PlaceStory, [Next]_vars
    PROVE  PlaceStory'
  <1> DEFINE Bounds == cursor <= head + 1 /\ (pc \in InTick => cursor <= upto /\ upto <= head)
             AtWork == pc \in {"pin", "verify"} => queue # <<>> /\ doc \in Responses /\ attempts < MaxAttempts
  <1>1. head \in Nat /\ cursor \in Nat /\ upto \in Nat /\ attempts \in Nat /\ MaxAttempts \in Nat \ {0}
    BY NumbersOK DEF TypeOK
  <1>2. PlaceStory <=> Bounds /\ AtWork /\ (pc \notin InTick => Held = {})
    BY DEF PlaceStory
  <1>3. CASE World \/ UNCHANGED vars
    <2>1. UNCHANGED <<pc, cursor>> /\ UNCHANGED tick /\ head <= head'
      BY <1>3, WorldMovesNoTick
    <2>2. head' \in Nat /\ head <= head'
      <3>1. TypeOK'
        BY TypeKept
      <3> QED
        BY <2>1, <3>1, NumbersOK DEF TypeOK
    <2>3. UNCHANGED <<upto, queue, doc, attempts, Held>>
      BY <2>1, SameTick DEF tick
    <2>4. pc' = pc /\ cursor' = cursor /\ upto' = upto
      BY <2>1, <2>3
    <2>5. cursor <= head + 1
      BY <1>2
    <2>6. cursor' <= head' + 1
      BY <1>1, <2>2, <2>4, <2>5, HeadGrows
    <2>7. pc \in InTick => cursor <= upto /\ upto <= head
      BY <1>2
    <2>8. pc' \in InTick => cursor' <= upto' /\ upto' <= head'
      BY <1>1, <2>2, <2>4, <2>7
    <2> QED
      BY <1>2, <2>1, <2>3, <2>6, <2>8 DEF PlaceStory, InTick
  <1>4. ASSUME pc' \notin InTick, Held' = {}, head' = head, cursor' <= head + 1
        PROVE  PlaceStory'
    BY <1>4 DEF PlaceStory, InTick
  <1>5. CASE Main
    BY <1>1, <1>4, <1>5, SameTick DEF Main, PlaceStory, InTick, chain
  <1>6. CASE Sleep
    BY <1>4, <1>6, SameTick DEF Sleep, PlaceStory, InTick, chain
  <1>7. ASSUME Forget, pc' \notin InTick, head' = head, cursor' = cursor \/ (pc \in InTick /\ cursor' = upto + 1)
        PROVE  PlaceStory'
    <2>1. Held' = {}
      BY <1>7, NothingIsKept DEF Held
    <2>2. cursor' <= head + 1
      BY <1>1, <1>7 DEF PlaceStory
    <2> QED
      BY <1>4, <1>7, <2>1, <2>2
  <1>8. CASE Crash \/ PollThrows \/ DeliveryThrows \/ executeDelivery \/ ReceiptUnknown
    BY <1>7, <1>8 DEF Crash, PollThrows, DeliveryThrows, executeDelivery, ReceiptUnknown, EndTick, TickError,
                      InTick, chain
  <1>9. CASE PollHead
    <2>1. Held' = {}
      BY <1>9 DEF PollHead, PlaceStory, Held, RoutedIds, InTick
    <2> QED
      BY <1>1, <1>9, <2>1 DEF PollHead, PlaceStory, InTick, chain
  <1>10. ASSUME pc \in InTick, pc' \in InTick, UNCHANGED <<head, cursor, upto>>, AtWork'
         PROVE  PlaceStory'
    BY <1>10 DEF PlaceStory
  <1>11. CASE pollForOwnRequests
    BY <1>10, <1>11 DEF pollForOwnRequests, InTick, chain
  <1>12. ASSUME Skips \/ Routes, pc \in InTick, UNCHANGED <<head, cursor, upto>>
         PROVE  PlaceStory'
    BY <1>10, <1>12 DEF Skips, Routes, InTick
  <1>13. CASE routeRequest
    <2>1. CASE Skips
      BY <1>12, <1>13, <2>1 DEF routeRequest, InTick, chain
    <2>2. CASE deriveResponseHash /\ pc' = "pin" /\ attempts' = 0 /\ UNCHANGED queue
      BY <1>1, <1>10, <1>13, <2>2 DEF routeRequest, deriveResponseHash, InTick, chain
    <2> QED
      BY <1>13, <2>1, <2>2 DEF routeRequest
  <1>14. CASE UnknownTool \/ fetchRequestContentFails \/ PinFails
    BY <1>12, <1>14 DEF UnknownTool, fetchRequestContentFails, PinFails, InTick, chain
  <1>15. CASE pinAndVerify
    <2>1. UNCHANGED <<head, cursor, upto, queue, doc, attempts>> /\ pc = "pin" /\ pc' = "verify"
      BY <1>15 DEF pinAndVerify, chain
    <2> QED
      BY <1>10, <2>1 DEF PlaceStory, InTick
  <1>16. CASE verifyResolvable
    BY <1>1, <1>10, <1>12, <1>16 DEF verifyResolvable, PlaceStory, InTick, chain
  <1>17. CASE BatchRouted
    BY <1>7, <1>10, <1>17 DEF BatchRouted, EndTick, InTick, chain, tick
  <1>18. CASE buildSignedDelivery
    BY <1>10, <1>18 DEF buildSignedDelivery, InTick, chain
  <1>19. CASE deliverSigned
    BY <1>7, <1>10, <1>19 DEF deliverSigned, EndTick, TickError, InTick, tick
  <1> QED
    BY <1>3, <1>5, <1>6, <1>8, <1>9, <1>11, <1>13, <1>14, <1>15, <1>16, <1>17, <1>18, <1>19
       DEF Next, Poll, Deliver, World

-------------------------------------------------------------------------------
(* What becomes of the chain and of Filebase, whoever moves.                 *)

(* The process changes neither the chain nor the gateway's view.             *)
LEMMA ProcessLeavesTheChain ==
    ASSUME [Next]_vars, ~World
    PROVE  UNCHANGED <<head, at, status, by, tool, nonce, resolvable, tester>>
  BY DEF World, Next, Poll, Deliver, Main, Sleep, Crash, PollHead, pollForOwnRequests, routeRequest,
         UnknownTool, fetchRequestContentFails, PinFails, pinAndVerify, verifyResolvable, BatchRouted,
         PollThrows, DeliveryThrows, buildSignedDelivery, deliverSigned, executeDelivery, ReceiptUnknown,
         chain, store, vars

(* A request is mined once, above the head, stays where it is, and what is   *)
(* delivered stays delivered; what the gateway serves it goes on serving.    *)
LEMMA ChainOnlyGrows ==
    ASSUME TypeOK, [Next]_vars, NEW q \in Requests
    PROVE  /\ status[q] # "none" => status'[q] # "none" /\ at'[q] = at[q]
           /\ status[q] = "none" /\ status'[q] # "none" => at'[q] = head + 1
           /\ status[q] = "delivered" => status'[q] = "delivered" /\ by'[q] = by[q]
           /\ resolvable \subseteq resolvable'
  <1> DEFINE Kept == /\ status[q] # "none" => status'[q] # "none" /\ at'[q] = at[q]
                     /\ status[q] = "none" /\ status'[q] # "none" => at'[q] = head + 1
                     /\ status[q] = "delivered" => status'[q] = "delivered" /\ by'[q] = by[q]
  <1>1. ASSUME UNCHANGED <<at, status, by>>
        PROVE  Kept
    BY <1>1
  <1>2. ASSUME NEW r \in Requests, Mined(r)
        PROVE  Kept /\ resolvable \subseteq resolvable'
    <2>1. /\ at' = [at EXCEPT ![r] = head + 1] /\ status' = [status EXCEPT ![r] = "requested"]
          /\ status[r] = "none" /\ by' = by /\ resolvable' = resolvable
      BY <1>2 DEF Mined, store
    <2> QED
      BY <2>1 DEF TypeOK
  <1>3. ASSUME NEW r \in Requests, OtherDelivers(r)
        PROVE  Kept /\ resolvable \subseteq resolvable'
    <2>1. /\ status' = [status EXCEPT ![r] = "delivered"] /\ by' = [by EXCEPT ![r] = "other"]
          /\ status[r] = "requested" /\ at' = at /\ resolvable' = resolvable
      BY <1>3 DEF OtherDelivers, store
    <2> QED
      BY <2>1 DEF TypeOK
  <1>4. ASSUME NEW t \in mempool, MineDelivery(t)
        PROVE  Kept /\ resolvable \subseteq resolvable'
    BY <1>4 DEF MineDelivery, TypeOK, store
  <1>5. ASSUME NEW d \in Responses, Propagate(d)
        PROVE  Kept /\ resolvable \subseteq resolvable'
    BY <1>5 DEF Propagate, chain
  <1>6. CASE NewBlock \/ executeCall \/ installSignalAbort \/ Preflight \/ WatchStatus \/ FetchDelivered
    <2>1. UNCHANGED <<at, status, by, resolvable>>
      BY <1>6 DEF NewBlock, executeCall, installSignalAbort, Preflight, WatchStatus, FetchDelivered, Tester,
                  chain, store
    <2> QED
      BY <1>1, <2>1
  <1>7. CASE ~World
    BY <1>1, <1>7, ProcessLeavesTheChain
  <1>8. CASE SubmitRequest
    BY <1>2, <1>8, NumbersOK DEF SubmitRequest
  <1> QED
    BY <1>2, <1>3, <1>4, <1>5, <1>6, <1>7, <1>8 DEF World, Network, Request

-------------------------------------------------------------------------------
(* Ranges.                                                                   *)

(* Every action keeps what a tick holds within the tick's range.             *)
LEMMA RangeKept ==
    ASSUME TypeOK, PlaceStory, RangeStory, [Next]_vars
    PROVE  RangeStory'
  <1>1. Held \subseteq Requests
    <2>1. ToSet(queue) \subseteq Requests /\ signed.ids \subseteq Requests
      BY ElementOfSeq, LenProperties DEF TypeOK, ToSet, Signatures
    <2> QED
      BY <2>1, RoutedIsTyped DEF Held
  <1>2. CASE Held' \subseteq Held /\ UNCHANGED <<cursor, upto>>
    BY <1>1, <1>2, ChainOnlyGrows DEF RangeStory
  <1>3. CASE Held' = {}
    BY <1>3 DEF RangeStory
  <1>4. CASE pollForOwnRequests
    <2>1. PICK last \in {upto, upto - 1} :
            LET found == {q \in Requests : status[q] # "none" /\ at[q] \in cursor..last}
            IN  queue' \in InBlockOrder(found)
      BY <1>4 DEF pollForOwnRequests
    <2> DEFINE found == {q \in Requests : status[q] # "none" /\ at[q] \in cursor..last}
    <2>2. ToSet(queue') \subseteq found
      BY <2>1, BlockOrder
    <2>3. upto \in Nat /\ cursor \in Nat /\ \A q \in Requests : at[q] \in Nat
      BY NumbersOK DEF TypeOK
    <2>4. \A q \in found : status[q] # "none" /\ cursor <= at[q] /\ at[q] <= upto
      BY <2>3
    <2>5. RoutedIds' = {} /\ UNCHANGED <<signed, cursor, upto, at, status>>
      BY <1>4 DEF pollForOwnRequests, RoutedIds, chain
    <2>6. Held' \subseteq found \cup Held
      BY <2>2, <2>5 DEF Held
    <2> HIDE DEF found
    <2> QED
      BY <2>4, <2>5, <2>6 DEF RangeStory
  <1> QED
    BY <1>2, <1>3, <1>4, HeldMoves

(* A poll sees every request of its range, but for a backend behind the head. *)
LEMMA PollSees ==
    ASSUME TypeOK, pollForOwnRequests, lagged' = 0, NEW q \in Requests, status[q] # "none",
           cursor <= at[q], at[q] <= upto
    PROVE  q \in seen'
  <1>1. PICK last \in {upto, upto - 1} :
          LET found == {r \in Requests : status[r] # "none" /\ at[r] \in cursor..last}
          IN  /\ IF last = upto THEN UNCHANGED <<faults, lagged>>
                 ELSE upto > 0 /\ Fault /\ lagged' = lagged + 1
              /\ seen' = seen \cup found
    BY DEF pollForOwnRequests
  <1>2. lagged \in Nat /\ upto \in Nat /\ cursor \in Nat /\ at[q] \in Nat
    BY NumbersOK DEF TypeOK
  <1>3. last = upto
    BY <1>1, <1>2
  <1> QED
    BY <1>1, <1>2, <1>3

(* What was seen stays seen, and a lag is not forgotten.                     *)
LEMMA SeenGrows ==
    ASSUME TypeOK, [Next]_vars
    PROVE  seen \subseteq seen' /\ (lagged' = 0 => lagged = 0)
  <1>1. CASE World \/ UNCHANGED vars
    BY <1>1, WorldMovesNoTick
  <1>2. CASE pollForOwnRequests
    BY <1>2 DEF pollForOwnRequests, TypeOK
  <1>3. CASE ~World /\ ~pollForOwnRequests
    BY <1>3 DEF World, Next, Poll, Deliver, Main, Sleep, Crash, PollHead, routeRequest,
         UnknownTool, fetchRequestContentFails, PinFails, pinAndVerify, verifyResolvable, BatchRouted,
         PollThrows, DeliveryThrows, buildSignedDelivery, deliverSigned, executeDelivery, ReceiptUnknown,
         history, kinds, vars
  <1> QED
    BY <1>1, <1>2, <1>3

LEMMA PlacesAreNumbers ==
    ASSUME TypeOK
    PROVE  /\ head \in Nat /\ cursor \in Nat /\ upto \in Nat /\ from \in Nat
           /\ \A q \in Requests : at[q] \in Nat
  BY NumbersOK DEF TypeOK

(* Every action keeps the cursor from passing a request nobody saw.          *)
LEMMA SeenKept ==
    ASSUME TypeOK, PlaceStory, SeenStory, [Next]_vars
    PROVE  SeenStory'
  <1> SUFFICES ASSUME lagged' = 0, NEW q \in Requests, status'[q] # "none", from' <= at'[q],
                      at'[q] < cursor' \/ (pc' \in Polled /\ at'[q] <= upto')
               PROVE  q \in seen'
    BY DEF SeenStory, Polled, InTick
  <1> USE DEF Polled, InTick
  <1>1. /\ status[q] # "none" /\ from <= at[q]
        /\ at[q] < cursor \/ (pc \in Polled /\ at[q] <= upto)
        => q \in seen'
    BY SeenGrows DEF SeenStory
  <1>2. CASE World \/ UNCHANGED vars
    <2>1. UNCHANGED <<pc, cursor, from, upto>>
      BY <1>2, WorldMovesNoTick, SameTick
    <2>2. CASE status[q] # "none"
      BY <1>1, <2>1, <2>2, ChainOnlyGrows
    <2>3. CASE status[q] = "none"
      <3>1. at'[q] = head + 1
        BY <2>3, ChainOnlyGrows
      <3>2. FALSE
        BY <2>1, <3>1, PlacesAreNumbers DEF PlaceStory
      <3> QED
        BY <3>2
    <2> QED
      BY <2>2, <2>3
  <1>3. ASSUME ~World
        PROVE  UNCHANGED <<at, status>>
    BY <1>3, ProcessLeavesTheChain
  <1>4. ASSUME ~World, UNCHANGED <<cursor, from>>, pc' \in Polled => pc \in Polled /\ upto' = upto
        PROVE  q \in seen'
    BY <1>1, <1>3, <1>4
  <1>5. ASSUME ~World, EndTick, from' = from, pc \in Polled
        PROVE  q \in seen'
    <2>1. at[q] < upto + 1
      BY <1>3, <1>5 DEF EndTick
    <2>2. at[q] <= upto
      BY <2>1, PlacesAreNumbers
    <2> QED
      BY <1>1, <1>3, <1>5, <2>2
  <1>6. CASE ~World /\ pollForOwnRequests
    <2>1. UNCHANGED <<cursor, from, upto>> /\ status[q] # "none" /\ from <= at[q]
          /\ (at[q] < cursor \/ at[q] <= upto)
      BY <1>3, <1>6 DEF pollForOwnRequests
    <2>2. CASE at[q] < cursor
      BY <1>1, <2>1, <2>2
    <2>3. CASE cursor <= at[q] /\ at[q] <= upto
      BY <1>6, <2>1, <2>3, PollSees
    <2> QED
      BY <2>1, <2>2, <2>3, PlacesAreNumbers
  <1>7. CASE ~World /\ Main
    <2>1. CASE cursor' = head /\ from' = head /\ pc' = "idle"
      <3>1. FALSE
        BY <1>3, <1>7, <2>1, PlacesAreNumbers
      <3> QED
        BY <3>1
    <2>2. CASE UNCHANGED <<cursor, from>> /\ pc' = "refused"
      BY <1>4, <1>7, <2>2
    <2> QED
      BY <1>7, <2>1, <2>2 DEF Main
  <1>8. CASE ~World /\ (Sleep \/ Crash \/ PollHead \/ PollThrows \/ DeliveryThrows \/ ReceiptUnknown)
    BY <1>4, <1>8 DEF Sleep, Crash, PollHead, PollThrows, DeliveryThrows, ReceiptUnknown, TickError, history
  <1>9. CASE ~World /\ (routeRequest \/ UnknownTool \/ fetchRequestContentFails \/ PinFails \/ pinAndVerify
                          \/ verifyResolvable \/ buildSignedDelivery)
    BY <1>4, <1>9 DEF routeRequest, UnknownTool, fetchRequestContentFails, PinFails, pinAndVerify,
          verifyResolvable, buildSignedDelivery, history
  <1>10. CASE ~World /\ BatchRouted
    BY <1>4, <1>5, <1>10 DEF BatchRouted, history, tick
  <1>11. CASE ~World /\ deliverSigned
    BY <1>4, <1>5, <1>11 DEF deliverSigned, TickError, tick
  <1>12. CASE ~World /\ executeDelivery
    BY <1>5, <1>12 DEF executeDelivery, history
  <1> QED
    BY <1>2, <1>6, <1>7, <1>8, <1>9, <1>10, <1>11, <1>12 DEF World, Next, Poll, Deliver

-------------------------------------------------------------------------------
(* Deliveries.                                                               *)

(* Faults are not forgotten; the history of sends and the mempool change     *)
(* where a delivery is sent or mined, and nowhere else.                      *)
LEMMA CalmWasCalm ==
    ASSUME TypeOK, [Next]_vars, Calm'
    PROVE  Calm /\ ~Crash /\ ~ReceiptUnknown
  <1>1. crashes \in Nat /\ unknowns \in Nat /\ crashes' = 0 /\ unknowns' = 0
    BY DEF TypeOK, Calm
  <1>2. ~Crash /\ ~ReceiptUnknown
    BY <1>1 DEF Crash, ReceiptUnknown
  <1>3. UNCHANGED <<crashes, unknowns>>
    <2>1. CASE World \/ UNCHANGED vars
      BY <2>1, WorldMovesNoTick
    <2>2. CASE ~World
      BY <1>2, <2>2 DEF World, Next, Poll, Deliver, Main, Sleep, PollHead, pollForOwnRequests, routeRequest,
         UnknownTool, fetchRequestContentFails, PinFails, pinAndVerify, verifyResolvable, BatchRouted,
         PollThrows, DeliveryThrows, buildSignedDelivery, deliverSigned, executeDelivery, kinds, vars
    <2> QED
      BY <2>1, <2>2
  <1> QED
    BY <1>1, <1>2, <1>3 DEF Calm

LEMMA SendsOnlyGrow ==
    ASSUME TypeOK, [Next]_vars
    PROVE  sends' = sends \/ deliverSigned
  <1>1. CASE World \/ UNCHANGED vars
    BY <1>1, WorldMovesNoTick
  <1>2. CASE ~World
    BY <1>2 DEF World, Next, Poll, Deliver, Main, Sleep, Crash, PollHead, pollForOwnRequests, routeRequest,
         UnknownTool, fetchRequestContentFails, PinFails, pinAndVerify, verifyResolvable, BatchRouted,
         PollThrows, DeliveryThrows, buildSignedDelivery, executeDelivery, ReceiptUnknown,
         history, vars
  <1> QED
    BY <1>1, <1>2

(* deliverSigned gives up, ends the tick without sending, or sends the batch. *)
Sends ==
    /\ pc' = "receipt" /\ mempool' = mempool \cup {signed} /\ UNCHANGED <<cursor, tick>>
    /\ sends' = [q \in Requests |-> IF q \in signed.ids THEN sends[q] + 1 ELSE sends[q]]

LEMMA DeliveryCases ==
    ASSUME deliverSigned
    PROVE  \/ (TickError \/ EndTick) /\ UNCHANGED <<mempool, sends>>
           \/ Sends
  BY DEF deliverSigned, Sends

(* A send is counted for the requests of the batch, once each.               *)
LEMMA SendCounts ==
    ASSUME TypeOK, Sends, NEW q \in Requests
    PROVE  /\ q \in signed.ids => sends'[q] = sends[q] + 1
           /\ q \notin signed.ids => sends'[q] = sends[q]
           /\ sends[q] \in Nat /\ sends'[q] \in Nat /\ (sends[q] > 0 => sends'[q] > 0)
  <1>1. sends[q] \in Nat
    BY DEF TypeOK
  <1>2. sends'[q] = IF q \in signed.ids THEN sends[q] + 1 ELSE sends[q]
    BY DEF Sends
  <1> QED
    BY <1>1, <1>2

(* Only a send puts a transaction into the mempool.                          *)
LEMMA MempoolMoves ==
    ASSUME [Next]_vars
    PROVE  mempool' \subseteq mempool \/ deliverSigned
  <1>1. CASE World
    BY <1>1 DEF World, Network, Request, Mined, OtherDelivers, NewBlock, Propagate, MineDelivery, executeCall,
          installSignalAbort, Preflight, SubmitRequest, WatchStatus, FetchDelivered, chain
  <1>2. CASE ~World
    BY <1>2 DEF World, Next, Poll, Deliver, Main, Sleep, Crash, PollHead, pollForOwnRequests, routeRequest,
         UnknownTool, fetchRequestContentFails, PinFails, pinAndVerify, verifyResolvable, BatchRouted,
         PollThrows, DeliveryThrows, buildSignedDelivery, executeDelivery, ReceiptUnknown, chain, vars
  <1> QED
    BY <1>1, <1>2

(* Every action keeps a request from being sent twice.                       *)
LEMMA SentKept ==
    ASSUME TypeOK, PlaceStory, RangeStory, SentStory, [Next]_vars
    PROVE  SentStory'
  <1> DEFINE Awaited(q) == pc = "receipt" /\ q \in signed.ids
             Passed(q)  == pc \notin {"down", "refused"} /\ at[q] < cursor
  <1>1. ASSUME NEW q \in Requests, sends'[q] > 0
        PROVE  status'[q] # "none"
    <2>1. CASE sends' = sends
      BY <1>1, <2>1, ChainOnlyGrows DEF SentStory
    <2>2. CASE Sends
      <3>1. CASE q \in signed.ids
        BY <3>1, ChainOnlyGrows DEF RangeStory, Held
      <3>2. CASE q \notin signed.ids
        BY <1>1, <2>2, <3>2, SendCounts, ChainOnlyGrows DEF SentStory
      <3> QED
        BY <3>1, <3>2
    <2> QED
      BY <2>1, <2>2, SendsOnlyGrow, DeliveryCases
  <1>2. ASSUME Calm', NEW q \in Requests
        PROVE  sends'[q] <= 1 /\ (sends'[q] = 1 => Awaited(q)' \/ Passed(q)')
    <2>1. Calm /\ ~Crash /\ ~ReceiptUnknown
      BY <1>2, CalmWasCalm
    <2>2. sends[q] \in Nat /\ sends[q] <= 1 /\ (sends[q] = 1 => Awaited(q) \/ Passed(q))
      BY <2>1 DEF SentStory, TypeOK
    <2>3. sends[q] = 1 => at'[q] = at[q]
      BY ChainOnlyGrows DEF SentStory
    <2>4. ASSUME sends' = sends, UNCHANGED <<pc, cursor, signed>>
          PROVE  sends'[q] <= 1 /\ (sends'[q] = 1 => Awaited(q)' \/ Passed(q)')
      BY <2>2, <2>3, <2>4
    <2>5. ASSUME sends' = sends, pc # "receipt", pc' \notin {"down", "refused"}, UNCHANGED cursor
          PROVE  sends'[q] <= 1 /\ (sends'[q] = 1 => Awaited(q)' \/ Passed(q)')
      BY <2>2, <2>3, <2>5
    <2>6. ASSUME sends' = sends, EndTick, pc \in InTick
          PROVE  sends'[q] <= 1 /\ (sends'[q] = 1 => Awaited(q)' \/ Passed(q)')
      <3>1. Awaited(q) => at[q] <= upto
        BY DEF RangeStory, Held
      <3>2. sends[q] = 1 => at[q] < upto + 1
        BY <2>2, <2>6, <3>1, PlacesAreNumbers DEF PlaceStory
      <3> QED
        BY <2>2, <2>3, <2>6, <3>2 DEF EndTick
    <2>7. CASE World \/ UNCHANGED vars
      BY <2>4, <2>7, WorldMovesNoTick DEF tick
    <2>8. CASE Main
      <3>1. sends' = sends /\ sends[q] # 1
        BY <2>2, <2>8 DEF Main
      <3> QED
        BY <2>2, <3>1
    <2>9. CASE Sleep \/ PollHead \/ PollThrows \/ DeliveryThrows
      BY <2>5, <2>9 DEF Sleep, PollHead, PollThrows, DeliveryThrows, TickError, history
    <2>10. CASE pollForOwnRequests \/ routeRequest \/ UnknownTool \/ fetchRequestContentFails
      BY <2>5, <2>10 DEF pollForOwnRequests, routeRequest, UnknownTool, fetchRequestContentFails, Skips, history
    <2>11. CASE PinFails \/ pinAndVerify \/ verifyResolvable \/ buildSignedDelivery
      BY <2>5, <2>11 DEF PinFails, pinAndVerify, verifyResolvable, buildSignedDelivery, Skips, Routes, history
    <2>12. CASE BatchRouted
      BY <2>5, <2>6, <2>12 DEF BatchRouted, InTick, history
    <2>13. CASE executeDelivery
      BY <2>6, <2>13 DEF executeDelivery, InTick, history
    <2>14. CASE deliverSigned
      <3>1. pc = "send"
        BY <2>14 DEF deliverSigned
      <3>2. CASE TickError /\ sends' = sends
        BY <2>5, <3>1, <3>2 DEF TickError
      <3>3. CASE EndTick /\ sends' = sends
        BY <2>6, <3>1, <3>3 DEF InTick
      <3>4. CASE Sends /\ q \in signed.ids
        <4>1. cursor <= at[q]
          BY <3>4 DEF RangeStory, Held
        <4>2. sends[q] = 0
          BY <2>2, <3>1, <4>1, PlacesAreNumbers
        <4>3. sends'[q] = 1
          BY <3>4, <4>2, SendCounts
        <4>4. pc' = "receipt" /\ signed' = signed
          BY <3>4 DEF Sends, tick
        <4> QED
          BY <3>4, <4>3, <4>4
      <3>5. CASE Sends /\ q \notin signed.ids
        <4>1. sends'[q] = sends[q]
          BY <3>5, SendCounts
        <4>2. pc' = "receipt" /\ cursor' = cursor
          BY <3>5 DEF Sends
        <4> QED
          BY <2>2, <2>3, <3>1, <4>1, <4>2
      <3> QED
        BY <2>14, <3>2, <3>3, <3>4, <3>5, DeliveryCases
    <2> QED
      BY <2>1, <2>7, <2>8, <2>9, <2>10, <2>11, <2>12, <2>13, <2>14 DEF World, Next, Poll, Deliver
  <1> QED
    BY <1>1, <1>2 DEF SentStory

(* Every action keeps the mempool free of deliveries nobody waits for.       *)
LEMMA FlightKept ==
    ASSUME TypeOK, FlightStory, [Next]_vars
    PROVE  FlightStory'
  <1> SUFFICES ASSUME Calm', NEW t \in mempool'
               PROVE  pc' = "receipt" /\ t = signed'
    BY DEF FlightStory
  <1>1. Calm /\ ~Crash /\ ~ReceiptUnknown
    BY CalmWasCalm
  <1>2. \A u \in mempool : pc = "receipt" /\ u = signed
    BY <1>1 DEF FlightStory
  <1>3. CASE World \/ UNCHANGED vars
    <2>1. UNCHANGED <<pc, signed>>
      BY <1>3, WorldMovesNoTick DEF tick
    <2>2. t \in mempool
      BY <1>3, MempoolMoves DEF deliverSigned, World, Network, Request, Mined, OtherDelivers, NewBlock, Propagate,
            MineDelivery, executeCall, installSignalAbort, Preflight, SubmitRequest, WatchStatus, FetchDelivered,
            chain, vars
    <2> QED
      BY <1>2, <2>1, <2>2
  <1>4. CASE deliverSigned
    <2>1. pc = "send"
      BY <1>4 DEF deliverSigned
    <2>2. mempool = {}
      BY <1>2, <2>1
    <2> QED
      BY <1>4, <2>2, DeliveryCases DEF Sends, tick
  <1>5. CASE executeDelivery
    BY <1>2, <1>5 DEF executeDelivery, chain
  <1>6. CASE ~World /\ ~deliverSigned /\ ~executeDelivery
    <2>1. t \in mempool
      BY <1>6, MempoolMoves
    <2>2. UNCHANGED vars
      BY <1>1, <1>2, <1>6, <2>1 DEF World, Next, Poll, Deliver, Main, Sleep, PollHead, pollForOwnRequests,
         routeRequest, UnknownTool, fetchRequestContentFails, PinFails, pinAndVerify, verifyResolvable,
         BatchRouted, PollThrows, DeliveryThrows, buildSignedDelivery
    <2> QED
      BY <1>3, <2>2
  <1> QED
    BY <1>3, <1>4, <1>5, <1>6

(* A document joins the batch after the gateway served it, and is signed     *)
(* with the batch.                                                           *)
LEMMA DocsMove ==
    ASSUME TypeOK, PlaceStory, [Next]_vars
    PROVE  RoutedDocs' \subseteq RoutedDocs \cup resolvable /\ signed'.docs \subseteq signed.docs \cup RoutedDocs
  <1>1. ASSUME UNCHANGED <<routed, signed>>
        PROVE  RoutedDocs' = RoutedDocs /\ signed' = signed
    BY <1>1 DEF RoutedDocs
  <1>2. CASE World \/ UNCHANGED vars
    BY <1>1, <1>2, WorldMovesNoTick DEF tick
  <1>3. CASE Main \/ Sleep \/ PollHead \/ routeRequest \/ UnknownTool \/ fetchRequestContentFails \/ PinFails
             \/ pinAndVerify
    BY <1>1, <1>3 DEF Main, Sleep, PollHead, routeRequest, UnknownTool, fetchRequestContentFails, PinFails,
          pinAndVerify, Skips, tick
  <1>4. CASE pollForOwnRequests
    BY <1>4 DEF pollForOwnRequests, RoutedDocs
  <1>5. CASE verifyResolvable
    <2>1. queue # <<>> /\ doc \in Responses /\ signed' = signed
      BY <1>5 DEF verifyResolvable, PlaceStory
    <2>2. CASE doc \in resolvable /\ Routes
      BY <2>1, <2>2, RoutedGrows
    <2>3. CASE UNCHANGED routed
      BY <1>1, <2>1, <2>3
    <2> QED
      BY <1>5, <2>2, <2>3 DEF verifyResolvable, Skips
  <1>6. CASE Forget
    BY <1>6, NothingIsKept
  <1>7. CASE Crash \/ PollThrows \/ DeliveryThrows \/ executeDelivery \/ ReceiptUnknown
    BY <1>6, <1>7 DEF Crash, PollThrows, DeliveryThrows, executeDelivery, ReceiptUnknown, EndTick, TickError
  <1>8. CASE BatchRouted
    BY <1>1, <1>6, <1>8 DEF BatchRouted, EndTick, tick
  <1>9. CASE deliverSigned
    BY <1>1, <1>6, <1>9, DeliveryCases DEF EndTick, TickError, Sends, tick
  <1>10. CASE buildSignedDelivery
    <2>1. signed'.docs = RoutedDocs /\ routed' = routed
      BY <1>10, TheBatchIsSigned DEF buildSignedDelivery
    <2> QED
      BY <2>1 DEF RoutedDocs
  <1> QED
    BY <1>2, <1>3, <1>4, <1>5, <1>7, <1>8, <1>9, <1>10 DEF World, Next, Poll, Deliver

(* Every action keeps hashes without content out of a delivery.              *)
LEMMA ContentKept ==
    ASSUME TypeOK, PlaceStory, ContentStory, [Next]_vars
    PROVE  ContentStory'
  <1>1. resolvable \subseteq resolvable'
    BY ChainOnlyGrows, NumbersOK
  <1>2. RoutedDocs' \subseteq resolvable' /\ signed'.docs \subseteq resolvable'
    BY <1>1, DocsMove DEF ContentStory
  <1>3. ASSUME NEW t \in mempool'
        PROVE  t.docs \subseteq resolvable'
    <2>1. t \in mempool \/ t = signed
      BY <1>3, MempoolMoves, DeliveryCases DEF Sends
    <2> QED
      BY <1>1, <2>1 DEF ContentStory
  <1> QED
    BY <1>2, <1>3 DEF ContentStory

(* This mech's name gets onto a request through one of its transactions.     *)
LEMMA NameMoves ==
    ASSUME TypeOK, [Next]_vars, NEW q \in Requests, by'[q] = "grey"
    PROVE  by[q] = "grey" \/ (status'[q] = "delivered" /\ \E t \in mempool : q \in t.ids)
  <1>1. CASE by' = by
    BY <1>1
  <1>2. ASSUME NEW r \in Requests, OtherDelivers(r)
        PROVE  by[q] = "grey"
    BY <1>2 DEF OtherDelivers, TypeOK
  <1>3. ASSUME NEW t \in mempool, MineDelivery(t)
        PROVE  by[q] = "grey" \/ (status'[q] = "delivered" /\ q \in t.ids)
    BY <1>3 DEF MineDelivery, TypeOK
  <1>4. CASE ~World
    BY <1>1, <1>4, ProcessLeavesTheChain
  <1>5. CASE (\E r \in Requests : Request(r)) \/ NewBlock \/ executeCall \/ installSignalAbort \/ Preflight
             \/ SubmitRequest \/ WatchStatus \/ FetchDelivered \/ \E d \in Responses : Propagate(d)
    BY <1>1, <1>5 DEF Request, Mined, NewBlock, executeCall, installSignalAbort, Preflight, SubmitRequest,
          WatchStatus, FetchDelivered, Propagate, Tester, chain
  <1> QED
    BY <1>2, <1>3, <1>4, <1>5 DEF World, Network

(* The self-test reports success on reading the mech's own Deliver event.    *)
LEMMA ProofMoves ==
    ASSUME [Next]_vars, tester' = "proved"
    PROVE  tester = "proved" \/ by[SelfTest] = "grey"
  <1>1. CASE World
    BY <1>1 DEF World, Network, Request, Mined, OtherDelivers, NewBlock, Propagate, MineDelivery, executeCall,
          installSignalAbort, Preflight, SubmitRequest, WatchStatus, FetchDelivered, Tester
  <1>2. CASE ~World
    BY <1>2, ProcessLeavesTheChain
  <1> QED
    BY <1>1, <1>2

(* Every action keeps the mech's name to what the mech sent.                 *)
LEMMA HonestKept ==
    ASSUME TypeOK, HonestStory, [Next]_vars
    PROVE  HonestStory'
  <1>1. ASSUME NEW q \in Requests, sends[q] > 0
        PROVE  sends'[q] > 0
    BY <1>1, SendsOnlyGrow, DeliveryCases, SendCounts
  <1>2. ASSUME NEW t \in mempool', NEW q \in t.ids
        PROVE  sends'[q] > 0
    <2>1. CASE t \in mempool
      <3>1. q \in Requests /\ sends[q] > 0
        BY <2>1 DEF HonestStory, TypeOK, Signatures
      <3> QED
        BY <1>1, <3>1
    <2>2. CASE t \notin mempool
      <3>1. t = signed /\ Sends
        BY <2>2, MempoolMoves, DeliveryCases DEF Sends
      <3>2. q \in Requests
        BY <3>1 DEF TypeOK, Signatures
      <3>3. sends'[q] = sends[q] + 1 /\ sends[q] \in Nat
        BY <3>1, <3>2, SendCounts
      <3> QED
        BY <3>3
    <2> QED
      BY <2>1, <2>2
  <1>3. ASSUME NEW q \in Requests, by'[q] = "grey"
        PROVE  status'[q] = "delivered" /\ sends'[q] > 0
    <2>1. CASE by[q] = "grey"
      BY <1>1, <2>1, ChainOnlyGrows DEF HonestStory
    <2>2. CASE status'[q] = "delivered" /\ \E t \in mempool : q \in t.ids
      BY <1>1, <2>2 DEF HonestStory
    <2> QED
      BY <1>3, <2>1, <2>2, NameMoves
  <1>4. ASSUME tester' = "proved"
        PROVE  by'[SelfTest] = "grey"
    <2>1. by[SelfTest] = "grey"
      BY <1>4, ProofMoves DEF HonestStory
    <2> QED
      BY <2>1, ChainOnlyGrows, NumbersOK DEF HonestStory
  <1> QED
    BY <1>2, <1>3, <1>4 DEF HonestStory

-------------------------------------------------------------------------------
(* Theorems.                                                                 *)

LEMMA StoryBegins == Init => DeliveryStory
  <1> SUFFICES ASSUME Init
               PROVE  DeliveryStory
    OBVIOUS
  <1>1. /\ queue = <<>> /\ routed = <<>> /\ signed = NoSignature /\ mempool = {} /\ pc = "down"
        /\ head = 0 /\ cursor = 0 /\ upto = 0 /\ tester = "off" /\ resolvable = {}
        /\ by = [q \in Requests |-> "none"] /\ status = [q \in Requests |-> "none"]
        /\ sends = [q \in Requests |-> 0]
    BY DEF Init
  <1>2. ToSet(queue) = {} /\ RoutedIds = {} /\ RoutedDocs = {} /\ signed.ids = {} /\ signed.docs = {}
        /\ signed \in Signatures
    BY <1>1 DEF ToSet, RoutedIds, RoutedDocs, NoSignature, Signatures
  <1>3. Held = {}
    BY <1>2 DEF Held
  <1>4. TypeOK
    <2>1. 0 \in 0..MaxHead /\ 0 \in 0..MaxAttempts /\ 0 \in 0..MaxFaults /\ 0 \in 0..(MaxHead + 1)
      BY NumbersOK
    <2>2. /\ at \in [Requests -> 0..MaxHead] /\ status \in [Requests -> {"none", "requested", "delivered"}]
          /\ by \in [Requests -> {"none", "grey", "other"}] /\ sends \in [Requests -> Nat]
      BY <1>1, <2>1 DEF Init
    <2>3. queue \in Seq(Requests) /\ routed \in Seq([id : Requests, doc : Responses])
      BY <1>1
    <2>4. /\ faults = 0 /\ lagged = 0 /\ crashes = 0 /\ unknowns = 0 /\ attempts = 0 /\ from = 0
          /\ nonce = 0 /\ doc = NoDoc /\ seen = {} /\ pinned = {} /\ aborted = FALSE /\ env \in Envs
          /\ tool \in [Requests -> Tools]
      BY DEF Init
    <2>5. lagged + crashes + unknowns <= faults
      BY <2>4
    <2> QED
      BY <1>1, <1>2, <2>1, <2>2, <2>3, <2>4, <2>5 DEF TypeOK
  <1>5. PlaceStory /\ RangeStory
    BY <1>1, <1>3 DEF PlaceStory, RangeStory, InTick
  <1>6. SeenStory /\ SentStory /\ FlightStory
    BY <1>1 DEF SeenStory, SentStory, FlightStory
  <1>7. ContentStory /\ HonestStory
    BY <1>1, <1>2 DEF ContentStory, HonestStory
  <1> QED
    BY <1>4, <1>5, <1>6, <1>7 DEF DeliveryStory

LEMMA StoryHolds == Spec => []DeliveryStory
  <1>1. DeliveryStory /\ [Next]_vars => DeliveryStory'
    BY TypeKept, PlaceKept, RangeKept, SeenKept, SentKept, FlightKept, ContentKept, HonestKept DEF DeliveryStory
  <1> QED
    BY <1>1, StoryBegins, PTL DEF Spec

(* Whatever fails, whoever else delivers and however often the process is    *)
(* restarted: no hash is delivered without its content, a clean stop leaves  *)
(* nothing in flight, and the self-test is honest.                           *)
THEOREM DeliveriesAreSound == Spec => []DeliveryInv
  <1>1. DeliveryStory => DeliveryInv
    <2> SUFFICES ASSUME DeliveryStory
                 PROVE  DeliveryInv
      OBVIOUS
    <2>1. DeliveredIsResolvable
      BY DEF DeliveryStory, ContentStory, DeliveredIsResolvable, RoutedDocs
    <2>2. StopIsClean
      BY DEF DeliveryStory, FlightStory, StopIsClean, Calm
    <2>3. SelfTestProvesDelivery
      BY NumbersOK DEF DeliveryStory, HonestStory, SelfTestProvesDelivery
    <2> QED
      BY <2>1, <2>2, <2>3 DEF DeliveryInv, DeliveryStory
  <1> QED
    BY <1>1, StoryHolds, PTL

(* The cursor leaves no gap behind it.                                       *)
THEOREM CursorLeavesNoGap == Spec => []NoRequestSkipped
  <1>1. DeliveryStory => NoRequestSkipped
    BY DEF DeliveryStory, SeenStory, NoRequestSkipped
  <1> QED
    BY <1>1, StoryHolds, PTL

(* Without a crash or a lost receipt no request is sent twice.               *)
THEOREM NothingIsSentTwice == Spec => []SentOnce
  <1>1. DeliveryStory => SentOnce
    BY DEF DeliveryStory, SentStory, SentOnce, Calm
  <1> QED
    BY <1>1, StoryHolds, PTL
===============================================================================
