------------------------- MODULE BuyerReputationProofs -------------------------
(* Proofs about the buyer reputation, for every set of jobs, buyers, sweeps  *)
(* and socket handlers, and every bound.                                     *)
EXTENDS BuyerReputation, FiniteSetTheorems, TLAPS

-------------------------------------------------------------------------------
(* Type correctness. *)

LEMMA TransitionType ==
  ASSUME NEW rec \in Records, NEW t \in Nat
  PROVE  Transition(rec, t) \in Records
BY ConstantsOK DEF Transition, Records, BuyerStatuses

LEMMA EmptyRecords == NoRecord \in Records /\ Stub \in Records
BY DEF NoRecord, Stub, Records, BuyerStatuses

(* Leaving a job resets the worker's locals. *)
LEMMA LeaveKeepsTypes ==
  ASSUME TypeOK, NEW w \in Workers, NEW j, Leave(w, j)
  PROVE  /\ pc' \in [Workers -> PCs]
         /\ rows' \in [Workers -> SUBSET Jobs]
         /\ cur' \in [Workers -> Jobs \cup {NoJob}]
         /\ verdict' \in [Workers -> Terminals]
         /\ pending' \in [Workers -> Records]
BY EmptyRecords DEF TypeOK, Leave, PCs, Terminals

LEMMA ObserveKeepsTypes ==
  ASSUME TypeOK, NEW w \in Workers, NEW j \in Jobs, onChain[j] \in Terminals, Observe(w, j)
  PROVE  /\ pc' \in [Workers -> PCs]
         /\ rows' \in [Workers -> SUBSET Jobs]
         /\ cur' \in [Workers -> Jobs \cup {NoJob}]
         /\ verdict' \in [Workers -> Terminals]
         /\ pending' \in [Workers -> Records]
BY DEF TypeOK, Observe, PCs

(* A worker in the middle of a job knows its job. *)
Located == \A w \in Workers : pc[w] \in {"resolve", "read", "write"} => cur[w] \in Jobs

(* The steps of the clock, the chain, the gate and the tracking INSERT. *)
World ==
  \/ Tick
  \/ \E j \in Jobs :
       \/ BuyerSettles(j) \/ KeeperExpires(j) \/ Deliver(j)
       \/ GateAccepts(j) \/ GateRefuses(j) \/ GateReadThrows(j)
       \/ TrackSubmitted(j) \/ TrackThrows(j)
  \/ \E b \in Buyers : StubInserted(b) \/ StubThrows(b)

LEMMA WorldKeepsTypes ==
  ASSUME TypeOK, World
  PROVE  TypeOK'
<1> USE ConstantsOK DEF TypeOK, world, db, work, Fails
<1>1. CASE Tick
  BY <1>1 DEF Tick
<1>2. ASSUME NEW j \in Jobs, NEW to \in ChainStatuses, ChainMoves(j, to), UNCHANGED untracked
      PROVE  TypeOK'
  BY <1>2 DEF ChainMoves
<1>3. ASSUME NEW j \in Jobs, BuyerSettles(j) \/ KeeperExpires(j) \/ GateRefuses(j)
      PROVE  TypeOK'
  <2>1. {"completed", "rejected", "expired", "refused"} \subseteq ChainStatuses
    BY DEF ChainStatuses, Terminals
  <2> QED
    BY <1>2, <1>3, <2>1 DEF BuyerSettles, KeeperExpires, GateRefuses
<1>4. ASSUME NEW j \in Jobs, Deliver(j)
      PROVE  TypeOK'
  BY <1>4 DEF Deliver, ChainMoves, ChainStatuses
<1>5. ASSUME NEW j \in Jobs, GateAccepts(j)
      PROVE  TypeOK'
  BY <1>5 DEF GateAccepts, ChainStatuses
<1>6. ASSUME NEW j \in Jobs, GateReadThrows(j)
      PROVE  TypeOK'
  BY <1>6 DEF GateReadThrows, ChainStatuses
<1>7. ASSUME NEW j \in Jobs, TrackSubmitted(j)
      PROVE  TypeOK'
  BY <1>7 DEF TrackSubmitted, RowStatuses
<1>8. ASSUME NEW j \in Jobs, TrackThrows(j)
      PROVE  TypeOK'
  BY <1>8 DEF TrackThrows
<1>9. ASSUME NEW b \in Buyers, StubInserted(b)
      PROVE  TypeOK'
  <2>1. records' \in [Buyers -> Records]
    BY <1>9, EmptyRecords DEF StubInserted
  <2> QED
    BY <1>9, <2>1 DEF StubInserted
<1>10. ASSUME NEW b \in Buyers, StubThrows(b)
      PROVE  TypeOK'
  BY <1>10 DEF StubThrows
<1> QED
  BY <1>1, <1>3, <1>4, <1>5, <1>6, <1>7, <1>8, <1>9, <1>10 DEF World

LEMMA SweepKeepsTypes ==
  ASSUME TypeOK, NEW s \in Sweeps, Sweep(s)
  PROVE  TypeOK'
<1> s \in Workers
  BY DEF Workers
<1>1. CASE SweepLists(s)
  BY <1>1 DEF TypeOK, SweepLists, Oldest, ExpiredSubmitted, PCs, world, db
<1>2. CASE SweepReadsStatus(s)
  <2>1. PICK j \in Jobs : IF onChain[j] \in Terminals THEN Observe(s, j) ELSE Leave(s, j)
    BY <1>2 DEF SweepReadsStatus
  <2> QED
    BY <1>2, <2>1, LeaveKeepsTypes, ObserveKeepsTypes DEF TypeOK, SweepReadsStatus, world, db
<1>3. CASE SweepStatusThrows(s)
  <2>1. PICK j \in Jobs : Leave(s, j)
    BY <1>3 DEF SweepStatusThrows
  <2> QED
    BY <1>3, <2>1, LeaveKeepsTypes, ConstantsOK DEF TypeOK, SweepStatusThrows, Fails, world, db
<1> QED
  BY <1>1, <1>2, <1>3 DEF Sweep

LEMMA TerminalKeepsTypes ==
  ASSUME TypeOK, Located, NEW w \in Workers, Terminal(w)
  PROVE  TypeOK'
<1>0. pc[w] \in {"resolve", "read", "write"} => cur[w] \in Jobs /\ BuyerOf[cur[w]] \in Buyers
  BY ConstantsOK DEF Located
<1>1. CASE ResolveIfSubmitted(w)
  <2>1. tracked' \in [Jobs -> RowStatuses]
    BY <1>1 DEF TypeOK, ResolveIfSubmitted, RowStatuses
  <2>2. CASE Leave(w, cur[w])
    BY <1>1, <2>1, <2>2, LeaveKeepsTypes DEF TypeOK, ResolveIfSubmitted, world
  <2>3. CASE pc' = [pc EXCEPT ![w] = "read"] /\ UNCHANGED <<rows, cur, verdict, pending>>
    BY <1>1, <2>1, <2>3 DEF TypeOK, ResolveIfSubmitted, PCs, world
  <2> QED
    BY <1>1, <2>2, <2>3 DEF ResolveIfSubmitted
<1>2. CASE ReadRecord(w)
  <2>1. Transition(records[BuyerOf[cur[w]]], now) \in Records
    BY <1>0, <1>2, TransitionType DEF TypeOK, ReadRecord
  <2> QED
    BY <1>2, <2>1 DEF TypeOK, ReadRecord, PCs, world, db
<1>3. CASE WriteStiff(w)
  BY <1>0, <1>3, LeaveKeepsTypes DEF TypeOK, WriteStiff, world
<1>4. CASE WorkThrows(w)
  <2>1. tracked' \in [Jobs -> RowStatuses] /\ records' \in [Buyers -> Records]
    BY <1>0, <1>4 DEF TypeOK, WorkThrows, RowStatuses, db
  <2> QED
    BY <1>4, <2>1, LeaveKeepsTypes, ConstantsOK DEF TypeOK, WorkThrows, Fails, world
<1> QED
  BY <1>1, <1>2, <1>3, <1>4 DEF Terminal

LEMMA StepKeepsTypes ==
  ASSUME TypeOK, Located, [Next]_vars
  PROVE  TypeOK'
<1>1. ASSUME NEW w \in Sockets, NEW j \in Jobs, SocketEvent(w, j)
      PROVE  TypeOK'
  <2> w \in Workers
    BY DEF Workers
  <2>1. onChain[j] \in Terminals
    BY <1>1 DEF SocketEvent, SocketEvents, Terminals
  <2> QED
    BY <1>1, <2>1, ObserveKeepsTypes DEF TypeOK, SocketEvent, world, db
<1>2. CASE Crash
  BY <1>2, EmptyRecords, ConstantsOK DEF Crash, TypeOK, PCs, Terminals, world, db
<1>3. CASE UNCHANGED vars
  BY <1>3 DEF TypeOK, vars, world, db, work
<1> QED
  BY <1>1, <1>2, <1>3, WorldKeepsTypes, SweepKeepsTypes, TerminalKeepsTypes DEF Next, World
(* A worker of a job knows the job: Observe sets it, Leave and a crash end the work. *)
LEMMA StepKeepsLocated ==
  ASSUME TypeOK, Located, [Next]_vars
  PROVE  Located'
<1>1. CASE World \/ UNCHANGED vars
  <2>1. UNCHANGED <<pc, cur>>
    BY <1>1 DEF World, Tick, BuyerSettles, KeeperExpires, Deliver, GateAccepts, GateRefuses,
                GateReadThrows, TrackSubmitted, TrackThrows, StubInserted, StubThrows,
                ChainMoves, vars, work
  <2> QED
    BY <2>1 DEF Located
<1>2. ASSUME NEW w \in Workers, NEW j, Leave(w, j)
      PROVE  Located'
  BY <1>2 DEF TypeOK, Located, Leave
<1>3. ASSUME NEW w \in Workers, NEW j \in Jobs, Observe(w, j)
      PROVE  Located'
  BY <1>3 DEF TypeOK, Located, Observe
<1>4. ASSUME NEW s \in Sweeps, Sweep(s)
      PROVE  Located'
  <2> s \in Workers
    BY DEF Workers
  <2>1. CASE SweepLists(s)
    BY <2>1 DEF SweepLists, TypeOK, Located
  <2> QED
    BY <1>2, <1>3, <1>4, <2>1 DEF Sweep, SweepReadsStatus, SweepStatusThrows
<1>5. ASSUME NEW w \in Sockets, NEW j \in Jobs, SocketEvent(w, j)
      PROVE  Located'
  BY <1>3, <1>5 DEF SocketEvent, Workers
<1>6. ASSUME NEW w \in Workers, Terminal(w)
      PROVE  Located'
  <2>1. CASE ReadRecord(w)
    BY <2>1 DEF ReadRecord, TypeOK, Located
  <2>2. CASE ResolveIfSubmitted(w)
    <3>1. CASE pc' = [pc EXCEPT ![w] = "read"] /\ UNCHANGED <<rows, cur, verdict, pending>>
      BY <2>2, <3>1 DEF ResolveIfSubmitted, TypeOK, Located
    <3> QED
      BY <1>2, <2>2, <3>1 DEF ResolveIfSubmitted
  <2> QED
    BY <1>2, <1>6, <2>1, <2>2 DEF Terminal, WriteStiff, WorkThrows
<1>7. CASE Crash
  BY <1>7 DEF Crash, Located
<1> QED
  BY <1>1, <1>4, <1>5, <1>6, <1>7 DEF Next, World

LEMMA InitHasTypes == Init => TypeOK /\ Located
BY EmptyRecords, ConstantsOK
   DEF Init, TypeOK, Located, ChainStatuses, RowStatuses, PCs, Terminals

LEMMA TypesInvariant == Spec => [](TypeOK /\ Located)
<1>1. Init => TypeOK /\ Located
  BY InitHasTypes
<1>2. TypeOK /\ Located /\ [Next]_vars => TypeOK' /\ Located'
  BY StepKeepsTypes, StepKeepsLocated
<1> QED
  BY <1>1, <1>2, PTL DEF Spec

(* The two tables and the locals of every sweep and socket handler keep      *)
(* their types: onJobTerminal never writes a status outside the CHECK        *)
(* constraints of the two tables.                                            *)
THEOREM TypeCorrect == Spec => []TypeOK
BY TypesInvariant, PTL

-------------------------------------------------------------------------------
(* The ladder.                                                               *)

(* The two columns agree in the table, and in every record a worker is about *)
(* to write.                                                                 *)
LadderInv == LadderIsConsistent /\ \A w \in Workers : pending[w].status \in Rung(pending[w])

(* The ladder goes up one rung, and counts it, from every consistent record. *)
LEMMA TransitionClimbs ==
  ASSUME NEW rec \in Records, rec.status \in Rung(rec), NEW t \in Nat
  PROVE  /\ Transition(rec, t).strikes = rec.strikes + 1
         /\ Transition(rec, t).status \in Rung(Transition(rec, t))
<1>1. rec.strikes \in Nat /\ rec.status \in BuyerStatuses
  BY DEF Records
<1>2. CASE rec.strikes = 0
  BY <1>2 DEF Transition, Rung
<1>3. CASE rec.strikes = 1
  BY <1>3 DEF Transition, Rung
<1>4. CASE rec.strikes = 2
  BY <1>4 DEF Transition, Rung
<1>5. CASE rec.strikes = 3
  BY <1>5 DEF Transition, Rung
<1>6. CASE rec.strikes > 3
  <2>1. rec.status = "blocked"
    BY <1>1, <1>6 DEF Rung
  <2>2. Transition(rec, t) = [rec EXCEPT !.strikes = @ + 1]
    BY <2>1 DEF Transition
  <2>3. Transition(rec, t).strikes = rec.strikes + 1 /\ Transition(rec, t).status = "blocked"
    BY <1>1, <2>1, <2>2 DEF Records
  <2> QED
    BY <1>1, <1>6, <2>3 DEF Rung
<1> QED
  BY <1>1, <1>2, <1>3, <1>4, <1>5, <1>6

(* What a step can do to the records: nothing, insert a stub, or write what  *)
(* a worker has pending.                                                     *)
RecordsMove ==
  \/ UNCHANGED records
  \/ \E b \in Buyers : records[b] = NoRecord /\ records' = [records EXCEPT ![b] = Stub]
  \/ \E w \in Workers :
       /\ pc[w] = "write"
       /\ records' = [records EXCEPT ![BuyerOf[cur[w]]] = pending[w]]

(* And to what the workers have pending. *)
PendingMove ==
  \/ UNCHANGED pending
  \/ \E w \in Workers : pending' = [pending EXCEPT ![w] = NoRecord]
  \/ pending' = [w \in Workers |-> NoRecord]
  \/ \E w \in Workers : ReadRecord(w)

LEMMA StepMovesRecords ==
  ASSUME TypeOK, [Next]_vars
  PROVE  RecordsMove
<1> USE DEF db, RecordsMove
<1>1. CASE World
  BY <1>1 DEF World, Tick, BuyerSettles, KeeperExpires, Deliver, GateAccepts, GateRefuses,
              GateReadThrows, TrackSubmitted, TrackThrows, StubInserted, StubThrows, ChainMoves
<1>2. ASSUME NEW s \in Sweeps, Sweep(s)
      PROVE  RecordsMove
  BY <1>2 DEF Sweep, SweepLists, SweepReadsStatus, SweepStatusThrows
<1>3. ASSUME NEW w \in Workers, Terminal(w)
      PROVE  RecordsMove
  BY <1>3 DEF Terminal, ResolveIfSubmitted, ReadRecord, WriteStiff, WorkThrows
<1>4. ASSUME NEW w \in Sockets, NEW j \in Jobs, SocketEvent(w, j)
      PROVE  RecordsMove
  BY <1>4 DEF SocketEvent
<1>5. CASE Crash \/ UNCHANGED vars
  BY <1>5 DEF Crash, vars
<1> QED
  BY <1>1, <1>2, <1>3, <1>4, <1>5 DEF Next, World

LEMMA StepMovesPending ==
  ASSUME TypeOK, [Next]_vars
  PROVE  PendingMove
<1> USE DEF work, PendingMove
<1>1. CASE World
  BY <1>1 DEF World, Tick, BuyerSettles, KeeperExpires, Deliver, GateAccepts, GateRefuses,
              GateReadThrows, TrackSubmitted, TrackThrows, StubInserted, StubThrows, ChainMoves
<1>2. ASSUME NEW s \in Sweeps, Sweep(s)
      PROVE  PendingMove
  BY <1>2 DEF Sweep, SweepLists, SweepReadsStatus, SweepStatusThrows, Observe, Leave, Workers
<1>3. ASSUME NEW w \in Workers, Terminal(w)
      PROVE  PendingMove
  BY <1>3 DEF Terminal, ResolveIfSubmitted, WriteStiff, WorkThrows, Leave
<1>4. ASSUME NEW w \in Sockets, NEW j \in Jobs, SocketEvent(w, j)
      PROVE  PendingMove
  BY <1>4 DEF SocketEvent, Observe
<1>5. CASE Crash \/ UNCHANGED vars
  BY <1>5 DEF Crash, vars
<1> QED
  BY <1>1, <1>2, <1>3, <1>4, <1>5 DEF Next, World

LEMMA StepKeepsLadder ==
  ASSUME TypeOK, Located, LadderInv, [Next]_vars
  PROVE  LadderInv'
<1>0. NoRecord.status \in Rung(NoRecord) /\ Stub.status \in Rung(Stub)
  BY DEF NoRecord, Stub, Rung
<1>1. LadderIsConsistent'
  <2>1. PICK rec : \A b \in Buyers :
          records'[b] = records[b] \/ (records'[b] = rec /\ rec.status \in Rung(rec))
    BY <1>0, StepMovesRecords DEF RecordsMove, TypeOK, LadderInv
  <2> QED
    BY <2>1 DEF LadderInv, LadderIsConsistent, Rung
<1>2. ASSUME NEW w \in Workers
      PROVE  pending'[w].status \in Rung(pending'[w])
  <2>1. ASSUME NEW v \in Workers, ReadRecord(v)
        PROVE  pending'[w].status \in Rung(pending'[w])
    <3>1. BuyerOf[cur[v]] \in Buyers
      BY <2>1, ConstantsOK DEF ReadRecord, Located
    <3>2. LET new == Transition(records[BuyerOf[cur[v]]], now) IN new.status \in Rung(new)
      BY <3>1, TransitionClimbs DEF LadderInv, LadderIsConsistent, TypeOK
    <3>3. pending'[w] = IF w = v THEN Transition(records[BuyerOf[cur[v]]], now) ELSE pending[w]
      BY <2>1 DEF ReadRecord, TypeOK
    <3> QED
      BY <3>2, <3>3 DEF LadderInv
  <2>2. pending'[w] \in {pending[w], NoRecord} \/ \E v \in Workers : ReadRecord(v)
    BY StepMovesPending DEF PendingMove, TypeOK
  <2> QED
    BY <1>0, <2>1, <2>2 DEF LadderInv
<1> QED
  BY <1>1, <1>2 DEF LadderInv

LEMMA LadderInvariant == Spec => [](TypeOK /\ Located /\ LadderInv)
<1>1. Init => LadderInv
  BY DEF Init, LadderInv, LadderIsConsistent, Rung, NoRecord
<1>2. TypeOK /\ Located /\ LadderInv /\ [Next]_vars => LadderInv'
  BY StepKeepsLadder
<1> QED
  BY <1>1, <1>2, TypesInvariant, PTL DEF Spec

(* The status and the strikes of a buyer_records row tell the same rung,     *)
(* however many sweeps and socket handlers write it from stale reads: a      *)
(* transition is computed whole from one read and written whole.             *)
THEOREM LadderConsistent == Spec => []LadderIsConsistent
<1>1. LadderInv => LadderIsConsistent
  BY DEF LadderInv
<1> QED
  BY <1>1, LadderInvariant, PTL

-------------------------------------------------------------------------------
(* Strikes.  A strike is a debt paid from the stiffs of a buyer: every       *)
(* worker between the UPDATE that resolved a stiff and its read of the       *)
(* record holds one of them, and the table and every pending record have at  *)
(* most the rest.                                                            *)

Reading(b) == {w \in Workers : pc[w] = "read" /\ BuyerOf[cur[w]] = b}
Room(b) == Cardinality(Stiffs(b)) - Cardinality(Reading(b))

StrikeInv ==
  /\ \A b \in Buyers : records[b].strikes <= Room(b)
  /\ \A w \in Workers : pc[w] = "write" => pending[w].strikes <= Room(BuyerOf[cur[w]])

(* A row is resolved as the chain says, and the chain does not change its    *)
(* mind about a terminal job.                                                *)
ResolvedInv ==
  /\ \A j \in Jobs : tracked[j] \in Terminals => onChain[j] = tracked[j]
  /\ \A w \in Workers : pc[w] = "resolve" => onChain[cur[w]] = verdict[w]

LEMMA FiniteParts ==
  ASSUME NEW b
  PROVE  /\ IsFiniteSet(Stiffs(b)) /\ Cardinality(Stiffs(b)) \in Nat
         /\ IsFiniteSet(Reading(b)) /\ Cardinality(Reading(b)) \in Nat
         /\ Room(b) \in Int
<1>1. IsFiniteSet(Stiffs(b)) /\ IsFiniteSet(Reading(b))
  BY FS_Subset, ConstantsOK DEF Stiffs, Reading
<1>2. Cardinality(Stiffs(b)) \in Nat /\ Cardinality(Reading(b)) \in Nat
  BY <1>1, FS_CardinalityType
<1> QED
  BY <1>1, <1>2 DEF Room

LEMMA FinitePartsPrime ==
  ASSUME NEW b
  PROVE  /\ IsFiniteSet(Stiffs(b)') /\ Cardinality(Stiffs(b)') \in Nat
         /\ IsFiniteSet(Reading(b)') /\ Cardinality(Reading(b)') \in Nat
<1>1. IsFiniteSet(Stiffs(b)') /\ IsFiniteSet(Reading(b)')
  BY FS_Subset, ConstantsOK DEF Stiffs, Reading
<1> QED
  BY <1>1, FS_CardinalityType

(* The room of a buyer does not shrink while its stiffs stay and nobody      *)
(* starts to read.                                                           *)
LEMMA RoomGrows ==
  ASSUME NEW b, Stiffs(b) \subseteq Stiffs(b)', Reading(b)' \subseteq Reading(b)
  PROVE  Room(b)' >= Room(b)
<1>1. Cardinality(Stiffs(b)) <= Cardinality(Stiffs(b)')
  BY FS_Subset, FinitePartsPrime
<1>2. Cardinality(Reading(b)') <= Cardinality(Reading(b))
  BY FS_Subset, FiniteParts
<1> QED
  BY <1>1, <1>2, FiniteParts, FinitePartsPrime DEF Room

(* What a step can do to one worker: nothing, end its job, give it a job,    *)
(* take it past the UPDATE of a stiff, or past the read of the record.       *)
Enters(v) ==
  /\ pc[v] = "resolve"
  /\ pc' = [pc EXCEPT ![v] = "read"]
  /\ tracked[cur[v]] = "submitted"
  /\ tracked' = [tracked EXCEPT ![cur[v]] = "expired"]
  /\ UNCHANGED <<cur, pending, records>>

WorkerMove(v) ==
  \/ UNCHANGED <<pc[v], cur[v], verdict[v], pending[v]>>
  \/ pc'[v] \in {"idle", "status"}
  \/ /\ pc'[v] = "resolve"
     /\ cur'[v] \in Jobs
     /\ verdict'[v] = onChain[cur'[v]]
     /\ UNCHANGED onChain
  \/ Enters(v)
  \/ ReadRecord(v)

LEMMA StepMovesWorkers ==
  ASSUME TypeOK, [Next]_vars, NEW v \in Workers
  PROVE  WorkerMove(v)
<1>1. CASE World \/ UNCHANGED vars
  <2>1. UNCHANGED work
    BY <1>1 DEF World, Tick, BuyerSettles, KeeperExpires, Deliver, GateAccepts, GateRefuses,
                GateReadThrows, TrackSubmitted, TrackThrows, StubInserted, StubThrows,
                ChainMoves, vars
  <2> QED
    BY <2>1 DEF work, WorkerMove
<1>2. ASSUME NEW w \in Workers, NEW j, Leave(w, j)
      PROVE  WorkerMove(v)
  BY <1>2 DEF TypeOK, WorkerMove, Leave
<1>3. ASSUME NEW w \in Workers, NEW j \in Jobs, Observe(w, j), UNCHANGED onChain
      PROVE  WorkerMove(v)
  BY <1>3 DEF TypeOK, WorkerMove, Observe
<1>4. ASSUME NEW s \in Sweeps, Sweep(s)
      PROVE  WorkerMove(v)
  <2> s \in Workers
    BY DEF Workers
  <2>1. CASE SweepLists(s)
    BY <2>1 DEF SweepLists, TypeOK, WorkerMove
  <2> QED
    BY <1>2, <1>3, <1>4, <2>1 DEF Sweep, SweepReadsStatus, SweepStatusThrows, world
<1>5. ASSUME NEW w \in Sockets, NEW j \in Jobs, SocketEvent(w, j)
      PROVE  WorkerMove(v)
  BY <1>3, <1>5 DEF SocketEvent, Workers, world
<1>6. ASSUME NEW w \in Workers, Terminal(w)
      PROVE  WorkerMove(v)
  <2>1. CASE ReadRecord(w)
    <3>1. CASE w = v
      BY <2>1, <3>1 DEF WorkerMove
    <3>2. CASE w # v
      BY <2>1, <3>2 DEF ReadRecord, TypeOK, WorkerMove
    <3> QED
      BY <3>1, <3>2
  <2>2. CASE ResolveIfSubmitted(w)
    <3>1. CASE tracked[cur[w]] = "submitted" /\ verdict[w] = "expired"
      <4>1. Enters(w) /\ UNCHANGED verdict
        BY <2>2, <3>1 DEF ResolveIfSubmitted, Enters
      <4>2. CASE w = v
        BY <4>1, <4>2 DEF WorkerMove
      <4>3. CASE w # v
        BY <4>1, <4>3 DEF Enters, TypeOK, WorkerMove
      <4> QED
        BY <4>2, <4>3
    <3>2. CASE ~(tracked[cur[w]] = "submitted" /\ verdict[w] = "expired")
      BY <1>2, <2>2, <3>2 DEF ResolveIfSubmitted
    <3> QED
      BY <3>1, <3>2
  <2> QED
    BY <1>2, <1>6, <2>1, <2>2 DEF Terminal, WriteStiff, WorkThrows
<1>7. CASE Crash
  BY <1>7 DEF Crash, WorkerMove
<1> QED
  BY <1>1, <1>4, <1>5, <1>6, <1>7 DEF Next, World

(* What a step can do to a row of tracked_jobs. *)
RowMove(j) ==
  \/ UNCHANGED tracked[j]
  \/ tracked'[j] = "submitted"
  \/ /\ tracked[j] = "submitted"
     /\ \E w \in Workers : pc[w] = "resolve" /\ cur[w] = j /\ tracked'[j] = verdict[w]
     /\ UNCHANGED onChain

LEMMA StepMovesRows ==
  ASSUME TypeOK, [Next]_vars, NEW j \in Jobs
  PROVE  RowMove(j) /\ (tracked[j] \in Terminals => tracked'[j] = tracked[j])
<1> USE DEF db, RowMove, Terminals
<1>1. CASE World
  <2>1. UNCHANGED tracked \/ \E k \in Jobs : TrackSubmitted(k)
    BY <1>1 DEF World, Tick, BuyerSettles, KeeperExpires, Deliver, GateAccepts, GateRefuses,
                GateReadThrows, TrackThrows, StubInserted, StubThrows, ChainMoves
  <2> QED
    BY <2>1 DEF TrackSubmitted, TypeOK
<1>2. ASSUME NEW s \in Sweeps, Sweep(s)
      PROVE  UNCHANGED tracked
  BY <1>2 DEF Sweep, SweepLists, SweepReadsStatus, SweepStatusThrows
<1>3. ASSUME NEW w \in Workers, Terminal(w)
      PROVE  RowMove(j) /\ (tracked[j] \in Terminals => tracked'[j] = tracked[j])
  <2>1. \/ UNCHANGED tracked
        \/ /\ pc[w] = "resolve" /\ tracked[cur[w]] = "submitted"
           /\ tracked' = [tracked EXCEPT ![cur[w]] = verdict[w]]
           /\ UNCHANGED onChain
    BY <1>3 DEF Terminal, ResolveIfSubmitted, ReadRecord, WriteStiff, WorkThrows, world
  <2> QED
    BY <2>1 DEF TypeOK
<1>4. ASSUME NEW w \in Sockets, NEW k \in Jobs, SocketEvent(w, k)
      PROVE  UNCHANGED tracked
  BY <1>4 DEF SocketEvent
<1>5. CASE Crash \/ UNCHANGED vars
  BY <1>5 DEF Crash, vars
<1> QED
  BY <1>1, <1>2, <1>3, <1>4, <1>5 DEF Next, World

LEMMA TerminalsStay ==
  ASSUME TypeOK, [Next]_vars, NEW j \in Jobs, onChain[j] \in Terminals
  PROVE  onChain'[j] = onChain[j]
<1> USE DEF Terminals, world
<1>1. CASE World
  BY <1>1 DEF World, Tick, BuyerSettles, KeeperExpires, Deliver, GateAccepts, GateRefuses,
              GateReadThrows, TrackSubmitted, TrackThrows, StubInserted, StubThrows, ChainMoves,
              TypeOK
<1>2. CASE ~World
  <2>1. UNCHANGED onChain
    BY <1>2 DEF Next, World, Sweep, SweepLists, SweepReadsStatus, SweepStatusThrows, SocketEvent,
                Terminal, ResolveIfSubmitted, ReadRecord, WriteStiff, WorkThrows, Crash, vars
  <2> QED
    BY <2>1
<1> QED
  BY <1>1, <1>2

LEMMA StepKeepsResolved ==
  ASSUME TypeOK, Located, ResolvedInv, [Next]_vars
  PROVE  ResolvedInv'
<1>1. ASSUME NEW j \in Jobs, tracked'[j] \in Terminals
      PROVE  onChain'[j] = tracked'[j]
  BY <1>1, StepMovesRows, TerminalsStay DEF RowMove, ResolvedInv, TypeOK, Terminals
<1>2. ASSUME NEW w \in Workers, pc'[w] = "resolve"
      PROVE  onChain'[cur'[w]] = verdict'[w]
  <2>1. WorkerMove(w)
    BY StepMovesWorkers
  <2>2. CASE UNCHANGED <<pc[w], cur[w], verdict[w], pending[w]>>
    BY <1>2, <2>2, TerminalsStay DEF ResolvedInv, TypeOK, Located
  <2> QED
    BY <1>2, <2>1, <2>2 DEF WorkerMove, Enters, ReadRecord, TypeOK
<1> QED
  BY <1>1, <1>2 DEF ResolvedInv

(* No step takes room away: a worker that enters its read has just turned    *)
(* its own row into a stiff.  The read itself gives one strike of room.      *)
LEMMA StepKeepsRoom ==
  ASSUME TypeOK, Located, [Next]_vars, NEW b
  PROVE  /\ Room(b)' >= Room(b)
         /\ \A v \in Workers :
              ReadRecord(v) /\ b = BuyerOf[cur[v]] => Room(b)' = Room(b) + 1
<1>1. Stiffs(b) \subseteq Stiffs(b)'
  BY StepMovesRows DEF Stiffs, Terminals
<1>2. ASSUME NEW v \in Workers, Enters(v), BuyerOf[cur[v]] = b
      PROVE  Room(b)' >= Room(b)
  <2>1. Stiffs(b)' = Stiffs(b) \cup {cur[v]} /\ cur[v] \notin Stiffs(b)
    BY <1>2 DEF Enters, Stiffs, TypeOK, Located
  <2>2. Reading(b)' = Reading(b) \cup {v} /\ v \notin Reading(b)
    BY <1>2 DEF Enters, Reading, TypeOK
  <2>3. Cardinality(Stiffs(b)') = Cardinality(Stiffs(b)) + 1
    BY <2>1, FS_AddElement, FiniteParts
  <2>4. Cardinality(Reading(b)') = Cardinality(Reading(b)) + 1
    BY <2>2, FS_AddElement, FiniteParts
  <2> QED
    BY <2>3, <2>4, FiniteParts DEF Room
<1>3. ASSUME \A v \in Workers : ~(Enters(v) /\ BuyerOf[cur[v]] = b)
      PROVE  Room(b)' >= Room(b)
  <2>1. Reading(b)' \subseteq Reading(b)
    <3> SUFFICES ASSUME NEW v \in Workers, pc'[v] = "read", BuyerOf[cur'[v]] = b
                 PROVE  pc[v] = "read" /\ BuyerOf[cur[v]] = b
      BY DEF Reading
    <3>1. WorkerMove(v)
      BY StepMovesWorkers
    <3>2. ~Enters(v)
      BY <1>3 DEF Enters
    <3> QED
      BY <3>1, <3>2 DEF WorkerMove, ReadRecord, TypeOK
  <2> QED
    BY <1>1, <2>1, RoomGrows
<1>4. ASSUME NEW v \in Workers, ReadRecord(v), b = BuyerOf[cur[v]]
      PROVE  Room(b)' = Room(b) + 1
  <2>1. Stiffs(b)' = Stiffs(b)
    BY <1>4 DEF ReadRecord, Stiffs, db
  <2>2. Reading(b)' = Reading(b) \ {v} /\ v \in Reading(b)
    BY <1>4 DEF ReadRecord, Reading, TypeOK
  <2>3. Cardinality(Reading(b)') = Cardinality(Reading(b)) - 1
    BY <2>2, FS_RemoveElement, FiniteParts
  <2> QED
    BY <2>1, <2>3, FiniteParts DEF Room
<1> QED
  BY <1>2, <1>3, <1>4

LEMMA StepKeepsStrikes ==
  ASSUME TypeOK, Located, LadderInv, StrikeInv, [Next]_vars
  PROVE  StrikeInv'
<1>1. ASSUME NEW b \in Buyers
      PROVE  records'[b].strikes <= Room(b)'
  <2>1. records'[b].strikes <= Room(b)
    BY StepMovesRecords DEF RecordsMove, StrikeInv, TypeOK, NoRecord, Stub
  <2>2. records'[b].strikes \in Nat
    BY StepKeepsTypes DEF TypeOK, Records
  <2> QED
    BY <2>1, <2>2, StepKeepsRoom, FiniteParts, FinitePartsPrime DEF Room
<1>2. ASSUME NEW v \in Workers, pc'[v] = "write"
      PROVE  \E b \in Buyers : b = BuyerOf[cur'[v]] /\ pending'[v].strikes <= Room(b)'
  <2>1. WorkerMove(v)
    BY StepMovesWorkers
  <2>2. pc[v] \in {"read", "write"} /\ cur'[v] = cur[v]
    BY <1>2, <2>1 DEF WorkerMove, Enters, ReadRecord, TypeOK
  <2>3. PICK b \in Buyers : b = BuyerOf[cur[v]]
    BY <2>2, ConstantsOK DEF Located
  <2>4. records[b].strikes \in Nat /\ records[b].strikes <= Room(b)
    BY DEF TypeOK, Records, StrikeInv
  <2>5. CASE ReadRecord(v)
    <3>1. pending'[v].strikes = records[b].strikes + 1
      BY <2>3, <2>5, TransitionClimbs DEF ReadRecord, TypeOK, LadderInv, LadderIsConsistent
    <3>2. Room(b)' = Room(b) + 1
      BY <2>3, <2>5, StepKeepsRoom
    <3> QED
      BY <2>2, <2>3, <2>4, <3>1, <3>2, FiniteParts
  <2>6. CASE ~ReadRecord(v)
    <3>1. pc[v] = "write" /\ pending'[v] = pending[v]
      BY <1>2, <2>1, <2>6 DEF WorkerMove, Enters, TypeOK
    <3>2. pending[v].strikes \in Nat /\ pending[v].strikes <= Room(b)
      BY <2>3, <3>1 DEF TypeOK, Records, StrikeInv
    <3>3. Room(b)' >= Room(b)
      BY StepKeepsRoom
    <3> QED
      BY <2>2, <2>3, <3>1, <3>2, <3>3, FiniteParts, FinitePartsPrime DEF Room
  <2> QED
    BY <2>5, <2>6
<1> QED
  BY <1>1, <1>2 DEF StrikeInv

LEMMA InitHasStrikes == Init => StrikeInv /\ ResolvedInv
<1> SUFFICES ASSUME Init
             PROVE  StrikeInv /\ ResolvedInv
  OBVIOUS
<1>1. ASSUME NEW b
      PROVE  Room(b) = 0
  <2>1. Stiffs(b) = {} /\ Reading(b) = {}
    BY DEF Init, Stiffs, Reading
  <2> QED
    BY <2>1, FS_EmptySet DEF Room
<1> QED
  BY <1>1 DEF Init, StrikeInv, ResolvedInv, NoRecord, Terminals

LEMMA StrikesInvariant == Spec => [](TypeOK /\ LadderInv /\ NoFalseStrike)
<1>1. Init => StrikeInv /\ ResolvedInv
  BY InitHasStrikes
<1>2. TypeOK /\ Located /\ LadderInv /\ StrikeInv /\ ResolvedInv /\ [Next]_vars
        => StrikeInv' /\ ResolvedInv'
  BY StepKeepsStrikes, StepKeepsResolved
<1>3. TypeOK /\ StrikeInv /\ ResolvedInv => NoFalseStrike
  <2> SUFFICES ASSUME TypeOK, StrikeInv, ResolvedInv, NEW b \in Buyers
               PROVE  records[b].strikes <= Cardinality(Stiffs(b))
    BY DEF NoFalseStrike, ResolvedInv
  <2>1. records[b].strikes \in Nat /\ records[b].strikes <= Room(b)
    BY DEF StrikeInv, TypeOK, Records
  <2> QED
    BY <2>1, FiniteParts DEF Room
<1> QED
  BY <1>1, <1>2, <1>3, LadderInvariant, PTL DEF Spec

(* Any number of overlapping sweeps and socket handlers, dying and failing   *)
(* between any two of their calls, never give a buyer more strikes than it   *)
(* let delivered jobs expire, and never resolve a row against the chain: the *)
(* WHERE status = 'submitted' of resolveIfSubmitted admits one observer per  *)
(* job.                                                                      *)
THEOREM NoFalseStrikes == Spec => []NoFalseStrike
BY StrikesInvariant, PTL

(* Enforcing, evaluateAcceptance refuses only a buyer that let at least two  *)
(* delivered jobs expire: only those have a rung above warned.               *)
THEOREM OnlyStiffersRefused == Spec => OnlyStiffersAreRefused
<1> DEFINE Fair == \A j \in Jobs : onChain[j] = "new" /\ onChain'[j] = "refused" =>
                     Cardinality(Stiffs(BuyerOf[j])) >= 2
<1>1. TypeOK /\ LadderInv /\ NoFalseStrike /\ [Next]_vars => [Fair]_vars
  <2> SUFFICES ASSUME TypeOK, LadderInv, NoFalseStrike, [Next]_vars,
                      NEW j \in Jobs, onChain[j] = "new", onChain'[j] = "refused"
               PROVE  Cardinality(Stiffs(BuyerOf[j])) >= 2
    OBVIOUS
  <2>1. GateRefuses(j)
    <3>1. ASSUME NEW k \in Jobs, GateRefuses(k)
          PROVE  k = j
      BY <3>1 DEF GateRefuses, ChainMoves, TypeOK
    <3>2. \E k \in Jobs : GateRefuses(k)
      <4>1. CASE World
        BY <4>1 DEF World, Tick, BuyerSettles, KeeperExpires, Deliver, GateAccepts, GateReadThrows,
                    TrackSubmitted, TrackThrows, StubInserted, StubThrows, ChainMoves, world, TypeOK
      <4>2. CASE ~World
        <5>1. UNCHANGED onChain
          BY <4>2 DEF Next, World, Sweep, SweepLists, SweepReadsStatus, SweepStatusThrows,
                      SocketEvent, Terminal, ResolveIfSubmitted, ReadRecord, WriteStiff,
                      WorkThrows, Crash, vars, world
        <5> QED
          BY <5>1
      <4> QED
        BY <4>1, <4>2
    <3> QED
      BY <3>1, <3>2
  <2>2. PICK b \in Buyers : b = BuyerOf[j]
    BY ConstantsOK
  <2>3. records[b].strikes >= 2 /\ records[b].strikes \in Nat
    <3>1. records[b].status \notin {"none", "clean", "warned"}
      BY <2>1, <2>2 DEF GateRefuses, Accepts, InActiveTimeout
    <3>2. records[b].status \in Rung(records[b]) /\ records[b].strikes \in Nat
      BY DEF LadderInv, LadderIsConsistent, TypeOK, Records
    <3>3. records[b].strikes # 0 /\ records[b].strikes # 1
      BY <3>1, <3>2 DEF Rung
    <3> QED
      BY <3>2, <3>3
  <2>4. records[b].strikes <= Cardinality(Stiffs(b)) /\ Cardinality(Stiffs(b)) \in Nat
    BY FiniteParts DEF NoFalseStrike
  <2> QED
    BY <2>2, <2>3, <2>4
<1> QED
  BY <1>1, StrikesInvariant, PTL DEF Spec, OnlyStiffersAreRefused

-------------------------------------------------------------------------------
(* Every stiff counts.  When no two sweeps overlap, the strikes of a buyer   *)
(* and the transitions under way for it add up to its stiffs: the other half *)
(* of the account, which a second sweep breaks by writing from a stale read. *)

(* The socket delivers completions only, so a socket handler never comes to  *)
(* the read of a record.                                                     *)
SocketsNeverStrike ==
  \A w \in Sockets : pc[w] \notin {"read", "write"} /\ (pc[w] = "resolve" => verdict[w] \in SocketEvents)

Owed(b) == {w \in Workers : pc[w] \in {"read", "write"} /\ BuyerOf[cur[w]] = b}

AccountInv ==
  fails = 0 /\ crashes = 0 =>
    /\ \A b \in Buyers : records[b].strikes + Cardinality(Owed(b)) = Cardinality(Stiffs(b))
    /\ \A w \in Workers :
         pc[w] = "write" => pending[w].strikes = records[BuyerOf[cur[w]]].strikes + 1

(* A step that neither enters nor takes a transition of the ladder: no       *)
(* worker starts or ends one, no row becomes a stiff and no strike is given. *)
Quiet ==
  /\ \A v \in Workers : pc[v] \in {"read", "write"} \/ pc'[v] \in {"read", "write"} =>
       UNCHANGED <<pc[v], cur[v], pending[v]>>
  /\ \A j \in Jobs : tracked[j] = "expired" <=> tracked'[j] = "expired"
  /\ \A b \in Buyers : records'[b].strikes = records[b].strikes

LEMMA OwedIsFinite ==
  ASSUME NEW b
  PROVE  /\ IsFiniteSet(Owed(b)) /\ Cardinality(Owed(b)) \in Nat
         /\ IsFiniteSet(Owed(b)') /\ Cardinality(Owed(b)') \in Nat
<1>1. IsFiniteSet(Owed(b)) /\ IsFiniteSet(Owed(b)')
  BY FS_Subset, ConstantsOK DEF Owed
<1> QED
  BY <1>1, FS_CardinalityType

LEMMA StepKeepsSockets ==
  ASSUME TypeOK, SocketsNeverStrike, [Next]_vars
  PROVE  SocketsNeverStrike'
<1> SUFFICES ASSUME NEW w \in Sockets
             PROVE  /\ pc'[w] \notin {"read", "write"}
                    /\ pc'[w] = "resolve" => verdict'[w] \in SocketEvents
  BY DEF SocketsNeverStrike, SocketEvents
<1> w \in Workers /\ w \notin Sweeps
  BY ConstantsOK DEF Workers
<1>1. CASE UNCHANGED <<pc[w], verdict[w]>>
  BY <1>1 DEF SocketsNeverStrike
<1>2. ASSUME NEW v \in Workers, NEW j, Leave(v, j)
      PROVE  UNCHANGED <<pc[w], verdict[w]>> \/ pc'[w] \in {"idle", "status"}
  BY <1>2 DEF Leave, TypeOK
<1>3. CASE World \/ UNCHANGED vars
  <2>1. UNCHANGED work
    BY <1>3 DEF World, Tick, BuyerSettles, KeeperExpires, Deliver, GateAccepts, GateRefuses,
                GateReadThrows, TrackSubmitted, TrackThrows, StubInserted, StubThrows,
                ChainMoves, vars
  <2> QED
    BY <1>1, <2>1 DEF work
<1>4. ASSUME NEW s \in Sweeps, Sweep(s)
      PROVE  UNCHANGED <<pc[w], verdict[w]>>
  <2> s \in Workers /\ s # w
    BY DEF Workers
  <2> QED
    BY <1>4 DEF Sweep, SweepLists, SweepReadsStatus, SweepStatusThrows, Observe, Leave, TypeOK
<1>5. ASSUME NEW v \in Sockets, NEW j \in Jobs, SocketEvent(v, j)
      PROVE  UNCHANGED <<pc[w], verdict[w]>> \/ (pc'[w] = "resolve" /\ verdict'[w] \in SocketEvents)
  BY <1>5 DEF SocketEvent, Observe, TypeOK, Workers
<1>6. ASSUME NEW v \in Workers, Terminal(v)
      PROVE  UNCHANGED <<pc[w], verdict[w]>> \/ pc'[w] \in {"idle", "status"}
  <2>1. CASE ReadRecord(v)
    <3>1. v # w
      BY <2>1 DEF ReadRecord, SocketsNeverStrike
    <3> QED
      BY <2>1, <3>1 DEF ReadRecord, TypeOK
  <2>2. CASE ResolveIfSubmitted(v)
    <3>1. CASE tracked[cur[v]] = "submitted" /\ verdict[v] = "expired"
      <4>1. v # w
        BY <2>2, <3>1 DEF ResolveIfSubmitted, SocketsNeverStrike, SocketEvents
      <4> QED
        BY <2>2, <3>1, <4>1 DEF ResolveIfSubmitted, TypeOK
    <3> QED
      BY <1>2, <2>2, <3>1 DEF ResolveIfSubmitted
  <2> QED
    BY <1>2, <1>6, <2>1, <2>2 DEF Terminal, WriteStiff, WorkThrows
<1>7. CASE Crash
  BY <1>7 DEF Crash
<1> QED
  BY <1>1, <1>3, <1>4, <1>5, <1>6, <1>7 DEF Next, World

(* Without failures and crashes, every other step than the three of a        *)
(* transition is quiet.                                                      *)
LEMMA OtherStepsAreQuiet ==
  ASSUME TypeOK, Located, [Next]_vars, fails' = 0, crashes' = 0
  PROVE  Quiet \/ \E v \in Workers : Enters(v) \/ ReadRecord(v) \/ WriteStiff(v)
<1>1. CASE World \/ UNCHANGED vars
  <2>1. UNCHANGED <<pc, cur, pending>>
    BY <1>1 DEF World, Tick, BuyerSettles, KeeperExpires, Deliver, GateAccepts, GateRefuses,
                GateReadThrows, TrackSubmitted, TrackThrows, StubInserted, StubThrows,
                ChainMoves, vars, work
  <2>2. UNCHANGED tracked \/ \E k \in Jobs : TrackSubmitted(k)
    BY <1>1 DEF World, Tick, BuyerSettles, KeeperExpires, Deliver, GateAccepts, GateRefuses,
                GateReadThrows, TrackThrows, StubInserted, StubThrows, ChainMoves, vars, db
  <2>3. UNCHANGED records \/ \E b \in Buyers : StubInserted(b)
    BY <1>1 DEF World, Tick, BuyerSettles, KeeperExpires, Deliver, GateAccepts, GateRefuses,
                GateReadThrows, TrackSubmitted, TrackThrows, StubThrows, ChainMoves, vars, db
  <2>4. \A j \in Jobs : tracked[j] = "expired" <=> tracked'[j] = "expired"
    BY <2>2 DEF TrackSubmitted, TypeOK
  <2>5. \A b \in Buyers : records'[b].strikes = records[b].strikes
    BY <2>3 DEF StubInserted, NoRecord, Stub, TypeOK
  <2> QED
    BY <2>1, <2>4, <2>5 DEF Quiet
<1>2. ASSUME NEW w \in Workers, NEW j, Leave(w, j), pc[w] \notin {"read", "write"}, UNCHANGED db
      PROVE  Quiet
  BY <1>2 DEF Leave, Quiet, TypeOK, db
<1>3. ASSUME NEW w \in Workers, NEW j, Observe(w, j), pc[w] \notin {"read", "write"}, UNCHANGED db
      PROVE  Quiet
  BY <1>3 DEF Observe, Quiet, TypeOK, db
<1>4. ASSUME NEW s \in Sweeps, Sweep(s)
      PROVE  Quiet
  <2> s \in Workers
    BY DEF Workers
  <2>1. CASE SweepLists(s)
    BY <2>1 DEF SweepLists, Quiet, TypeOK, db
  <2>2. CASE SweepReadsStatus(s)
    BY <1>2, <1>3, <2>2 DEF SweepReadsStatus
  <2>3. CASE SweepStatusThrows(s)
    BY <1>2, <2>3 DEF SweepStatusThrows
  <2> QED
    BY <1>4, <2>1, <2>2, <2>3 DEF Sweep
<1>5. ASSUME NEW w \in Sockets, NEW j \in Jobs, SocketEvent(w, j)
      PROVE  Quiet
  BY <1>3, <1>5 DEF SocketEvent, Workers
<1>6. ASSUME NEW w \in Workers, ResolveIfSubmitted(w)
      PROVE  Quiet \/ Enters(w)
  <2>1. CASE tracked[cur[w]] = "submitted" /\ verdict[w] = "expired"
    BY <1>6, <2>1 DEF ResolveIfSubmitted, Enters
  <2>2. CASE ~(tracked[cur[w]] = "submitted" /\ verdict[w] = "expired")
    <3>1. Leave(w, cur[w]) /\ UNCHANGED records /\ pc[w] = "resolve"
      BY <1>6, <2>2 DEF ResolveIfSubmitted
    <3>2. \A j \in Jobs : tracked[j] = "expired" <=> tracked'[j] = "expired"
      BY <1>6, <2>2 DEF ResolveIfSubmitted, TypeOK
    <3> QED
      BY <3>1, <3>2 DEF Leave, Quiet, TypeOK
  <2> QED
    BY <2>1, <2>2
<1>7. ASSUME NEW w \in Workers, Terminal(w)
      PROVE  Quiet \/ Enters(w) \/ ReadRecord(w) \/ WriteStiff(w)
  <2>1. ~WorkThrows(w)
    BY DEF WorkThrows, Fails, TypeOK
  <2> QED
    BY <1>6, <1>7, <2>1 DEF Terminal
<1>8. ~Crash
  BY DEF Crash, TypeOK
<1> QED
  BY <1>1, <1>4, <1>5, <1>7, <1>8 DEF Next, World

(* No step takes a failure or a crash back. *)
LEMMA FailuresAreKept ==
  ASSUME TypeOK, [Next]_vars, fails' = 0, crashes' = 0
  PROVE  fails = 0 /\ crashes = 0
<1>1. fails' = fails \/ fails' = fails + 1
  BY DEF Next, Tick, BuyerSettles, KeeperExpires, Deliver, GateAccepts, GateRefuses,
         GateReadThrows, TrackSubmitted, TrackThrows, StubInserted, StubThrows, ChainMoves,
         Sweep, SweepLists, SweepReadsStatus, SweepStatusThrows, SocketEvent,
         Terminal, ResolveIfSubmitted, ReadRecord, WriteStiff, WorkThrows, Crash, Fails, vars
<1>2. crashes' = crashes \/ crashes' = crashes + 1
  BY DEF Next, Tick, BuyerSettles, KeeperExpires, Deliver, GateAccepts, GateRefuses,
         GateReadThrows, TrackSubmitted, TrackThrows, StubInserted, StubThrows, ChainMoves,
         Sweep, SweepLists, SweepReadsStatus, SweepStatusThrows, SocketEvent,
         Terminal, ResolveIfSubmitted, ReadRecord, WriteStiff, WorkThrows, Crash, vars
<1> QED
  BY <1>1, <1>2 DEF TypeOK

LEMMA StepKeepsAccount ==
  ASSUME \A s, t \in Sweeps : s = t,
         TypeOK, Located, LadderInv, SocketsNeverStrike, AccountInv, [Next]_vars
  PROVE  AccountInv'
<1> SUFFICES ASSUME fails' = 0, crashes' = 0
             PROVE  /\ \A b \in Buyers :
                         records'[b].strikes + Cardinality(Owed(b)') = Cardinality(Stiffs(b)')
                    /\ \A w \in Workers : pc'[w] = "write" =>
                         pending'[w].strikes = records'[BuyerOf[cur'[w]]].strikes + 1
  BY DEF AccountInv
<1>1. /\ \A b \in Buyers : records[b].strikes + Cardinality(Owed(b)) = Cardinality(Stiffs(b))
      /\ \A w \in Workers :
           pc[w] = "write" => pending[w].strikes = records[BuyerOf[cur[w]]].strikes + 1
  BY FailuresAreKept DEF AccountInv
<1>2. \A b \in Buyers : records[b].strikes \in Nat
  BY DEF TypeOK, Records
<1>3. ASSUME NEW v \in Workers, NEW w \in Workers,
             pc[v] \in {"read", "write"}, pc[w] \in {"read", "write"}
      PROVE  v = w
  <2>1. v \in Sweeps /\ w \in Sweeps
    BY <1>3 DEF SocketsNeverStrike, Workers
  <2>2. \A s, t \in Sweeps : s = t
    OBVIOUS
  <2> QED
    BY <2>1, <2>2
<1>4. ASSUME NEW v \in Workers, pc[v] \in {"resolve", "read", "write"}
      PROVE  cur[v] \in Jobs /\ BuyerOf[cur[v]] \in Buyers
  BY <1>4, ConstantsOK DEF Located
<1>5. CASE Quiet
  <2>1. ASSUME NEW b \in Buyers
        PROVE  records'[b].strikes + Cardinality(Owed(b)') = Cardinality(Stiffs(b)')
    <3>1. Owed(b)' = Owed(b)
      BY <1>5 DEF Quiet, Owed
    <3>2. Stiffs(b)' = Stiffs(b)
      BY <1>5 DEF Quiet, Stiffs
    <3> QED
      BY <1>1, <1>5, <3>1, <3>2 DEF Quiet
  <2>2. ASSUME NEW w \in Workers, pc'[w] = "write"
        PROVE  pending'[w].strikes = records'[BuyerOf[cur'[w]]].strikes + 1
    <3>1. pc[w] = "write" /\ cur'[w] = cur[w] /\ pending'[w] = pending[w]
      BY <1>5, <2>2 DEF Quiet
    <3>2. BuyerOf[cur[w]] \in Buyers
      BY <1>4, <3>1
    <3>3. records'[BuyerOf[cur[w]]].strikes = records[BuyerOf[cur[w]]].strikes
      BY <1>5, <3>2 DEF Quiet
    <3> QED
      BY <1>1, <3>1, <3>3
  <2> QED
    BY <2>1, <2>2
<1>6. ASSUME NEW v \in Workers, Enters(v), NEW b \in Buyers
      PROVE  records'[b].strikes + Cardinality(Owed(b)') = Cardinality(Stiffs(b)')
  <2>1. CASE BuyerOf[cur[v]] = b
    <3>1. Stiffs(b)' = Stiffs(b) \cup {cur[v]} /\ cur[v] \notin Stiffs(b)
      BY <1>6, <2>1 DEF Enters, Stiffs, TypeOK, Located
    <3>2. Owed(b)' = Owed(b) \cup {v} /\ v \notin Owed(b)
      BY <1>6, <2>1 DEF Enters, Owed, TypeOK
    <3>3. Cardinality(Stiffs(b)') = Cardinality(Stiffs(b)) + 1
      BY <3>1, FS_AddElement, FiniteParts
    <3>4. Cardinality(Owed(b)') = Cardinality(Owed(b)) + 1
      BY <3>2, FS_AddElement, OwedIsFinite
    <3>5. records'[b].strikes = records[b].strikes
      BY <1>6 DEF Enters
    <3> QED
      BY <1>1, <1>2, <3>3, <3>4, <3>5, OwedIsFinite, FiniteParts
  <2>2. CASE BuyerOf[cur[v]] # b
    <3>1. Stiffs(b)' = Stiffs(b)
      BY <1>6, <2>2 DEF Enters, Stiffs, TypeOK
    <3>2. Owed(b)' = Owed(b)
      BY <1>6, <2>2 DEF Enters, Owed, TypeOK
    <3>3. records'[b].strikes = records[b].strikes
      BY <1>6 DEF Enters
    <3> QED
      BY <1>1, <3>1, <3>2, <3>3
  <2> QED
    BY <2>1, <2>2
<1>7. ASSUME NEW v \in Workers, Enters(v), NEW w \in Workers, pc'[w] = "write"
      PROVE  pending'[w].strikes = records'[BuyerOf[cur'[w]]].strikes + 1
  <2>1. pc[w] = "write"
    BY <1>7 DEF Enters, TypeOK
  <2> QED
    BY <1>1, <1>7, <2>1 DEF Enters
<1>8. ASSUME NEW v \in Workers, ReadRecord(v), NEW b \in Buyers
      PROVE  records'[b].strikes + Cardinality(Owed(b)') = Cardinality(Stiffs(b)')
  <2>1. Owed(b)' = Owed(b)
    BY <1>8 DEF ReadRecord, Owed, TypeOK
  <2>2. Stiffs(b)' = Stiffs(b) /\ records' = records
    BY <1>8 DEF ReadRecord, Stiffs, db
  <2> QED
    BY <1>1, <2>1, <2>2
<1>9. ASSUME NEW v \in Workers, ReadRecord(v), NEW w \in Workers, pc'[w] = "write"
      PROVE  pending'[w].strikes = records'[BuyerOf[cur'[w]]].strikes + 1
  <2>1. cur' = cur /\ records' = records
    BY <1>9 DEF ReadRecord, db
  <2>2. CASE w = v
    <3>1. PICK b \in Buyers : b = BuyerOf[cur[v]]
      BY <1>4, <1>9 DEF ReadRecord
    <3>2. pending'[v] = Transition(records[b], now)
      BY <1>9, <3>1 DEF ReadRecord, TypeOK
    <3>3. records[b] \in Records /\ records[b].status \in Rung(records[b]) /\ now \in Nat
      BY DEF LadderInv, LadderIsConsistent, TypeOK
    <3>4. pending'[v].strikes = records[b].strikes + 1
      BY <3>2, <3>3, TransitionClimbs
    <3> QED
      BY <2>1, <2>2, <3>1, <3>4
  <2>3. CASE w # v
    <3>1. pc[w] = "write" /\ pending'[w] = pending[w]
      BY <1>9, <2>3 DEF ReadRecord, TypeOK
    <3> QED
      BY <1>1, <2>1, <3>1
  <2> QED
    BY <2>2, <2>3
<1>10. ASSUME NEW v \in Workers, WriteStiff(v), NEW b \in Buyers
       PROVE  records'[b].strikes + Cardinality(Owed(b)') = Cardinality(Stiffs(b)')
  <2>0. pc[v] = "write" /\ Leave(v, cur[v]) /\ tracked' = tracked
        /\ records' = [records EXCEPT ![BuyerOf[cur[v]]] = pending[v]]
    BY <1>10 DEF WriteStiff
  <2>1. Stiffs(b)' = Stiffs(b)
    BY <2>0 DEF Stiffs
  <2>2. CASE BuyerOf[cur[v]] = b
    <3>1. Owed(b)' = Owed(b) \ {v} /\ v \in Owed(b)
      BY <2>0, <2>2 DEF Leave, Owed, TypeOK
    <3>2. Cardinality(Owed(b)') = Cardinality(Owed(b)) - 1
      BY <3>1, FS_RemoveElement, OwedIsFinite
    <3>3. records'[b] = pending[v]
      BY <2>0, <2>2 DEF TypeOK
    <3>4. pending[v].strikes = records[b].strikes + 1
      BY <1>1, <2>0, <2>2
    <3> QED
      BY <1>1, <1>2, <2>1, <3>2, <3>3, <3>4, OwedIsFinite, FiniteParts
  <2>3. CASE BuyerOf[cur[v]] # b
    <3>1. Owed(b)' = Owed(b)
      BY <2>0, <2>3 DEF Leave, Owed, TypeOK
    <3>2. records'[b] = records[b]
      BY <2>0, <2>3 DEF TypeOK
    <3> QED
      BY <1>1, <2>1, <3>1, <3>2
  <2> QED
    BY <2>2, <2>3
(* The writer was the only worker in a transition, so none is left with a    *)
(* record from before the write.                                             *)
<1>11. ASSUME NEW v \in Workers, WriteStiff(v), NEW w \in Workers, pc'[w] = "write"
       PROVE  FALSE
  <2>1. pc[v] = "write" /\ Leave(v, cur[v])
    BY <1>11 DEF WriteStiff
  <2>2. pc[w] = "write" /\ w # v
    BY <1>11, <2>1 DEF Leave, TypeOK
  <2> QED
    BY <1>3, <2>1, <2>2
<1>12. Quiet \/ \E v \in Workers : Enters(v) \/ ReadRecord(v) \/ WriteStiff(v)
  BY OtherStepsAreQuiet
<1> QED
  BY <1>5, <1>6, <1>7, <1>8, <1>9, <1>10, <1>11, <1>12

LEMMA InitHasAccount == Init => SocketsNeverStrike /\ AccountInv
<1> SUFFICES ASSUME Init
             PROVE  SocketsNeverStrike /\ AccountInv
  OBVIOUS
<1>1. ASSUME NEW b
      PROVE  Cardinality(Owed(b)) = 0 /\ Cardinality(Stiffs(b)) = 0
  <2>1. Stiffs(b) = {} /\ Owed(b) = {}
    BY DEF Init, Stiffs, Owed
  <2> QED
    BY <2>1, FS_EmptySet
<1> QED
  BY <1>1 DEF Init, SocketsNeverStrike, AccountInv, NoRecord, Workers

LEMMA AccountIsSettled ==
  ASSUME TypeOK, AccountInv
  PROVE  OneStepPerStiff
<1> SUFFICES ASSUME NEW b \in Buyers, Settled(b), fails = 0, crashes = 0
             PROVE  records[b].strikes = Cardinality(Stiffs(b))
  BY DEF OneStepPerStiff
<1>1. Cardinality(Owed(b)) = 0
  <2>1. Owed(b) = {}
    BY DEF Settled, Owed
  <2> QED
    BY <2>1, FS_EmptySet
<1>2. records[b].strikes + Cardinality(Owed(b)) = Cardinality(Stiffs(b))
  BY DEF AccountInv
<1> QED
  BY <1>1, <1>2 DEF TypeOK, Records

(* With one sweep at a time, any number of socket handlers and no call that  *)
(* throws, applyStiffTransition climbs exactly one rung for every delivered  *)
(* job a buyer lets expire: "one step per stiff".                            *)
THEOREM OneSweepCountsEveryStiff ==
  ASSUME \A s, t \in Sweeps : s = t
  PROVE  Spec => []OneStepPerStiff
<1>1. Init => SocketsNeverStrike /\ AccountInv
  BY InitHasAccount
<1>2. TypeOK /\ Located /\ LadderInv /\ SocketsNeverStrike /\ AccountInv /\ [Next]_vars
        => SocketsNeverStrike' /\ AccountInv'
  BY StepKeepsSockets, StepKeepsAccount
<1>3. TypeOK /\ AccountInv => OneStepPerStiff
  BY AccountIsSettled
<1> QED
  BY <1>1, <1>2, <1>3, LadderInvariant, PTL DEF Spec
================================================================================
