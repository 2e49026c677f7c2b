---------------------------- MODULE BuyerReputation ----------------------------
(***************************************************************************)
(* Buyer reputation of the ACP seller: the gate that accepts or refuses a  *)
(* buyer's job, the tracked jobs, the strike ladder, and the sweep that    *)
(* resolves jobs whose expiry the SDK never reports.                       *)
(* adapters/acp-adapter/src/reputation/*.ts, and the adapter's calls of it *)
(* (acpAdapter.ts: evaluateAcceptance, onJobSubmitted, onJobTerminal,      *)
(* runReconcileSweep).                                                     *)
(*                                                                         *)
(* Every await of the code is a step boundary.  A row of tracked_jobs and  *)
(* a row of buyer_records live in Postgres and survive a death of the      *)
(* process; the sweeps and the socket handlers do not.  Two poll ticks may *)
(* overlap: setInterval does not wait for the sweep it started.            *)
(***************************************************************************)
EXTENDS Integers, FiniteSets

CONSTANTS
  Jobs,         \* jobs, each named by the tick of its expires_at
  Buyers,
  BuyerOf,      \* the buyer of each job
  Sweeps,       \* reconciliation sweeps that may run at once
  Sockets,      \* socket handlers of terminal events that may run at once
  BlockEnabled, \* BUYER_GATING_BLOCK_ENABLED; FALSE is shadow mode
  Timeout1h, Timeout12h,  \* the two timeouts, in ticks of the clock
  Limit,        \* rows a sweep lists
  MaxNow,       \* bound: the clock
  MaxFails,     \* bound: database or API calls that throw
  MaxCrashes    \* bound: deaths of the process

Terminals == {"completed", "rejected", "expired"}
ChainStatuses == {"new", "funded", "submitted", "refused"} \cup Terminals
RowStatuses == {"none", "submitted"} \cup Terminals
BuyerStatuses == {"none", "clean", "warned", "timeout_1h", "timeout_12h", "blocked"}
Workers == Sweeps \cup Sockets
NoJob == 0

(* handleEntry knows three terminal events; the SDK delivers this one.     *)
SocketEvents == {"completed"}
PCs == {"idle", "status", "resolve", "read", "write"}

ASSUME ConstantsOK ==
  /\ Jobs \subseteq Nat \ {NoJob}
  /\ IsFiniteSet(Jobs)
  /\ BuyerOf \in [Jobs -> Buyers]
  /\ IsFiniteSet(Workers)
  /\ Sweeps \cap Sockets = {}
  /\ BlockEnabled \in BOOLEAN
  /\ Timeout1h \in Nat \ {0}
  /\ Timeout12h \in Nat \ {0}
  /\ Limit \in Nat \ {0}
  /\ MaxNow \in Nat
  /\ MaxFails \in Nat
  /\ MaxCrashes \in Nat

(* A row of buyer_records; status "none" stands for no row. *)
Records == [status : BuyerStatuses, strikes : Nat, timeoutUntil : Nat]
NoRecord == [status |-> "none", strikes |-> 0, timeoutUntil |-> 0]
Stub == [status |-> "clean", strikes |-> 0, timeoutUntil |-> 0]

VARIABLES
  now,        \* the clock
  onChain,    \* status of each job on chain
  untracked,  \* submitted jobs whose INSERT the delivery has yet to send
  tracked,    \* tracked_jobs.status of each job
  records,    \* buyer_records of each buyer
  contacts,   \* first contacts whose stub INSERT is on its way
  pc,         \* where each worker awaits
  rows,       \* the rows a sweep still has to visit
  cur,        \* the job a worker is at
  verdict,    \* the terminal status it was told
  pending,    \* the buyer record it is about to write
  fails, crashes

db == <<tracked, records>>
world == <<now, onChain>>
work == <<pc, rows, cur, verdict, pending>>
vars == <<world, untracked, db, contacts, work, fails, crashes>>

Init ==
  /\ now = 0
  /\ onChain = [j \in Jobs |-> "new"]
  /\ untracked = {}
  /\ tracked = [j \in Jobs |-> "none"]
  /\ records = [b \in Buyers |-> NoRecord]
  /\ contacts = {}
  /\ pc = [w \in Workers |-> "idle"]
  /\ rows = [w \in Workers |-> {}]
  /\ cur = [w \in Workers |-> NoJob]
  /\ verdict = [w \in Workers |-> "completed"]
  /\ pending = [w \in Workers |-> NoRecord]
  /\ fails = 0
  /\ crashes = 0

Fails == fails < MaxFails /\ fails' = fails + 1

-------------------------------------------------------------------------------
(* Time, the buyers and the chain (external). *)

Tick ==
  /\ now < MaxNow
  /\ now' = now + 1
  /\ UNCHANGED <<onChain, untracked, db, contacts, work, fails, crashes>>

ChainMoves(j, to) ==
  /\ onChain' = [onChain EXCEPT ![j] = to]
  /\ UNCHANGED <<now, db, contacts, work, fails, crashes>>

BuyerSettles(j) ==
  /\ onChain[j] = "submitted"
  /\ ChainMoves(j, "completed") \/ ChainMoves(j, "rejected")
  /\ UNCHANGED untracked

(* The keeper marks a job past its SLA, delivered or not. *)
KeeperExpires(j) ==
  /\ onChain[j] \in {"funded", "submitted"}
  /\ j <= now
  /\ ChainMoves(j, "expired")
  /\ UNCHANGED untracked

(* The fallback deliverable of a failed handler is submitted untracked.    *)
Deliver(j) ==
  /\ onChain[j] = "funded"
  /\ ChainMoves(j, "submitted")
  /\ untracked' \in {untracked, untracked \cup {j}}

-------------------------------------------------------------------------------
(* Acceptance: evaluateAcceptance and computeDecision. *)

InActiveTimeout(rec, t) ==
  rec.status \in {"timeout_1h", "timeout_12h"} /\ rec.timeoutUntil > t

\* Mutant: a warning already turns the buyer away.
AcceptsOnlyClean(rec, t) == rec.status \in {"none", "clean"}

Accepts(rec, t) == rec.status # "blocked" /\ ~InActiveTimeout(rec, t)

(* A buyer without a record is accepted and a stub is sent on its way.     *)
GateAccepts(j) ==
  LET b == BuyerOf[j] IN
  /\ onChain[j] = "new"
  /\ ~BlockEnabled \/ Accepts(records[b], now)
  /\ onChain' = [onChain EXCEPT ![j] = "funded"]
  /\ contacts' = IF records[b] = NoRecord THEN contacts \cup {b} ELSE contacts
  /\ UNCHANGED <<now, untracked, db, work, fails, crashes>>

GateRefuses(j) ==
  /\ onChain[j] = "new"
  /\ BlockEnabled
  /\ ~Accepts(records[BuyerOf[j]], now)
  /\ ChainMoves(j, "refused")
  /\ UNCHANGED untracked

GateReadThrows(j) ==
  /\ onChain[j] = "new"
  /\ Fails
  /\ onChain' = [onChain EXCEPT ![j] = "funded"]
  /\ UNCHANGED <<now, untracked, db, contacts, work, crashes>>

(* INSERT ... ON CONFLICT DO NOTHING, fire-and-forget.  The cross-provider *)
(* upsert likewise adds a clean row or leaves status and strikes alone.    *)
StubInserted(b) ==
  /\ b \in contacts
  /\ contacts' = contacts \ {b}
  /\ records' = IF records[b] = NoRecord THEN [records EXCEPT ![b] = Stub] ELSE records
  /\ UNCHANGED <<world, untracked, tracked, work, fails, crashes>>

StubThrows(b) ==
  /\ b \in contacts
  /\ contacts' = contacts \ {b}
  /\ Fails
  /\ UNCHANGED <<world, untracked, db, work, crashes>>

-------------------------------------------------------------------------------
(* onJobSubmitted: INSERT ... ON CONFLICT DO NOTHING, after the submit.    *)

TrackSubmitted(j) ==
  /\ j \in untracked
  /\ untracked' = untracked \ {j}
  /\ tracked' = IF tracked[j] = "none" THEN [tracked EXCEPT ![j] = "submitted"] ELSE tracked
  /\ UNCHANGED <<world, records, contacts, work, fails, crashes>>

TrackThrows(j) ==
  /\ j \in untracked
  /\ untracked' = untracked \ {j}
  /\ Fails
  /\ UNCHANGED <<world, db, contacts, work, crashes>>

-------------------------------------------------------------------------------
(* onJobTerminal and its two callers. *)

(* The worker is done with job j: a socket handler ends, a sweep visits    *)
(* its next row or ends.                                                   *)
Leave(w, j) ==
  /\ rows' = [rows EXCEPT ![w] = @ \ {j}]
  /\ pc' = [pc EXCEPT ![w] = IF rows[w] \subseteq {j} THEN "idle" ELSE "status"]
  /\ cur' = [cur EXCEPT ![w] = NoJob]
  /\ verdict' = [verdict EXCEPT ![w] = "completed"]
  /\ pending' = [pending EXCEPT ![w] = NoRecord]

Observe(w, j) ==
  /\ cur' = [cur EXCEPT ![w] = j]
  /\ verdict' = [verdict EXCEPT ![w] = onChain[j]]
  /\ pc' = [pc EXCEPT ![w] = "resolve"]
  /\ UNCHANGED <<rows, pending>>

Oldest(S) == {j \in S : Cardinality({i \in S : i < j}) < Limit}

(* The row a sweep is at: the rows come ORDER BY expires_at ASC.           *)
IsHead(w, j) == j \in rows[w] /\ \A i \in rows[w] : j <= i

ExpiredSubmitted == {j \in Jobs : tracked[j] = "submitted" /\ j < now}

SweepLists(s) ==
  /\ pc[s] = "idle"
  /\ ExpiredSubmitted # {}
  /\ rows' = [rows EXCEPT ![s] = Oldest(ExpiredSubmitted)]
  /\ pc' = [pc EXCEPT ![s] = "status"]
  /\ UNCHANGED <<world, untracked, db, contacts, cur, verdict, pending, fails, crashes>>

\* Mutant: toTerminal without its case for rejected.
SweepIgnoresRejected(s) ==
  \E j \in Jobs :
    /\ pc[s] = "status"
    /\ IsHead(s, j)
    /\ IF onChain[j] \in {"completed", "expired"} THEN Observe(s, j) ELSE Leave(s, j)
    /\ UNCHANGED <<world, untracked, db, contacts, fails, crashes>>

(* toTerminal: only the three terminal strings act on the row. *)
SweepReadsStatus(s) ==
  \E j \in Jobs :
    /\ pc[s] = "status"
    /\ IsHead(s, j)
    /\ IF onChain[j] \in Terminals THEN Observe(s, j) ELSE Leave(s, j)
    /\ UNCHANGED <<world, untracked, db, contacts, fails, crashes>>

SweepStatusThrows(s) ==
  \E j \in Jobs :
    /\ pc[s] = "status"
    /\ IsHead(s, j)
    /\ Fails
    /\ Leave(s, j)
    /\ UNCHANGED <<world, untracked, db, contacts, crashes>>

SocketEvent(w, j) ==
  /\ pc[w] = "idle"
  /\ onChain[j] \in SocketEvents
  /\ Observe(w, j)
  /\ UNCHANGED <<world, untracked, db, contacts, fails, crashes>>

\* Mutant: the UPDATE lost its WHERE status = 'submitted'.
ResolveAgain(w) ==
  /\ pc[w] = "resolve"
  /\ tracked' = [tracked EXCEPT ![cur[w]] = verdict[w]]
  /\ IF verdict[w] = "expired"
     THEN pc' = [pc EXCEPT ![w] = "read"] /\ UNCHANGED <<rows, cur, verdict, pending>>
     ELSE Leave(w, cur[w])
  /\ UNCHANGED <<world, untracked, records, contacts, fails, crashes>>

\* Mutant: a rejected deliverable counts as a stiff.
ResolveStrikingRejected(w) ==
  LET j == cur[w] IN
  /\ pc[w] = "resolve"
  /\ IF tracked[j] = "submitted"
     THEN tracked' = [tracked EXCEPT ![j] = verdict[w]]
     ELSE UNCHANGED tracked
  /\ IF tracked[j] = "submitted" /\ verdict[w] # "completed"
     THEN pc' = [pc EXCEPT ![w] = "read"] /\ UNCHANGED <<rows, cur, verdict, pending>>
     ELSE Leave(w, j)
  /\ UNCHANGED <<world, untracked, records, contacts, fails, crashes>>

(* UPDATE ... WHERE status = 'submitted' RETURNING buyer_address: the first *)
(* observer gets the buyer, any later one gets nothing.                    *)
ResolveIfSubmitted(w) ==
  LET j == cur[w] IN
  /\ pc[w] = "resolve"
  /\ IF tracked[j] = "submitted"
     THEN tracked' = [tracked EXCEPT ![j] = verdict[w]]
     ELSE UNCHANGED tracked
  /\ IF tracked[j] = "submitted" /\ verdict[w] = "expired"
     THEN pc' = [pc EXCEPT ![w] = "read"] /\ UNCHANGED <<rows, cur, verdict, pending>>
     ELSE Leave(w, j)
  /\ UNCHANGED <<world, untracked, records, contacts, fails, crashes>>

\* Mutant: the switch has no case for a warned buyer.
TransitionStuckAtWarned(rec, t) ==
  IF rec.status \in {"none", "clean"}
  THEN [status |-> "warned", strikes |-> 1, timeoutUntil |-> 0]
  ELSE [rec EXCEPT !.strikes = @ + 1]

(* applyStiffTransition: the ladder. *)
Transition(rec, t) ==
  CASE rec.status \in {"none", "clean"} ->
         [status |-> "warned", strikes |-> 1, timeoutUntil |-> 0]
    [] rec.status = "warned" ->
         [status |-> "timeout_1h", strikes |-> 2, timeoutUntil |-> t + Timeout1h]
    [] rec.status = "timeout_1h" ->
         [status |-> "timeout_12h", strikes |-> 3, timeoutUntil |-> t + Timeout12h]
    [] rec.status = "timeout_12h" ->
         [status |-> "blocked", strikes |-> 4, timeoutUntil |-> 0]
    [] OTHER -> [rec EXCEPT !.strikes = @ + 1]

ReadRecord(w) ==
  /\ pc[w] = "read"
  /\ pending' = [pending EXCEPT ![w] = Transition(records[BuyerOf[cur[w]]], now)]
  /\ pc' = [pc EXCEPT ![w] = "write"]
  /\ UNCHANGED <<world, untracked, db, contacts, rows, cur, verdict, fails, crashes>>

WriteStiff(w) ==
  /\ pc[w] = "write"
  /\ records' = [records EXCEPT ![BuyerOf[cur[w]]] = pending[w]]
  /\ Leave(w, cur[w])
  /\ UNCHANGED <<world, untracked, tracked, contacts, fails, crashes>>

(* One of the three calls throws, before or after its statement committed; *)
(* the row or the event is given up.                                       *)
WorkThrows(w) ==
  /\ pc[w] \in {"resolve", "read", "write"}
  /\ Fails
  /\ \/ UNCHANGED db
     \/ /\ pc[w] = "resolve"
        /\ tracked[cur[w]] = "submitted"
        /\ tracked' = [tracked EXCEPT ![cur[w]] = verdict[w]]
        /\ UNCHANGED records
     \/ /\ pc[w] = "write"
        /\ records' = [records EXCEPT ![BuyerOf[cur[w]]] = pending[w]]
        /\ UNCHANGED tracked
  /\ Leave(w, cur[w])
  /\ UNCHANGED <<world, untracked, contacts, crashes>>

Crash ==
  /\ crashes < MaxCrashes
  /\ crashes' = crashes + 1
  /\ untracked' = {}
  /\ contacts' = {}
  /\ pc' = [w \in Workers |-> "idle"]
  /\ rows' = [w \in Workers |-> {}]
  /\ cur' = [w \in Workers |-> NoJob]
  /\ verdict' = [w \in Workers |-> "completed"]
  /\ pending' = [w \in Workers |-> NoRecord]
  /\ UNCHANGED <<world, db, fails>>

-------------------------------------------------------------------------------
Sweep(s) == SweepLists(s) \/ SweepReadsStatus(s) \/ SweepStatusThrows(s)
Terminal(w) == ResolveIfSubmitted(w) \/ ReadRecord(w) \/ WriteStiff(w) \/ WorkThrows(w)

Next ==
  \/ Tick
  \/ \E j \in Jobs :
       \/ BuyerSettles(j) \/ KeeperExpires(j) \/ Deliver(j)
       \/ GateAccepts(j) \/ GateRefuses(j) \/ GateReadThrows(j)
       \/ TrackSubmitted(j) \/ TrackThrows(j)
  \/ \E b \in Buyers : StubInserted(b) \/ StubThrows(b)
  \/ \E s \in Sweeps : Sweep(s)
  \/ \E w \in Sockets, j \in Jobs : SocketEvent(w, j)
  \/ \E w \in Workers : Terminal(w)
  \/ Crash

Spec == Init /\ [][Next]_vars

(* The poll timer keeps firing and the event loop runs; time passes and    *)
(* the chain's keeper marks what is past its SLA (INVARIANTS.md #29).      *)
Fairness ==
  /\ \A s \in Sweeps : WF_vars(Sweep(s))
  /\ \A w \in Workers : WF_vars(Terminal(w))
  /\ WF_vars(Tick)
  /\ \A j \in Jobs : WF_vars(KeeperExpires(j)) /\ WF_vars(TrackSubmitted(j))

FairSpec == Spec /\ Fairness

-------------------------------------------------------------------------------
(* Properties. *)

(* The two tables and the workers' locals keep their types. *)
TypeOK ==
  /\ now \in Nat
  /\ onChain \in [Jobs -> ChainStatuses]
  /\ untracked \subseteq Jobs
  /\ tracked \in [Jobs -> RowStatuses]
  /\ records \in [Buyers -> Records]
  /\ contacts \subseteq Buyers
  /\ pc \in [Workers -> PCs]
  /\ rows \in [Workers -> SUBSET Jobs]
  /\ cur \in [Workers -> Jobs \cup {NoJob}]
  /\ verdict \in [Workers -> Terminals]
  /\ pending \in [Workers -> Records]
  /\ fails \in 0..MaxFails
  /\ crashes \in 0..MaxCrashes

(* The jobs of b that were delivered and left to expire. *)
Stiffs(b) == {j \in Jobs : BuyerOf[j] = b /\ tracked[j] = "expired"}

(* "A false strike is the failure mode this discrimination prevents": a row *)
(* is resolved only as the chain says, and a buyer never has more strikes  *)
(* than jobs it let expire, whoever observes them and however often.       *)
NoFalseStrike ==
  /\ \A j \in Jobs : tracked[j] \in Terminals => onChain[j] = tracked[j]
  /\ \A b \in Buyers : records[b].strikes <= Cardinality(Stiffs(b))

(* The two columns of a buyer record tell the same rung, also after writes *)
(* from stale reads.                                                       *)
Rung(rec) ==
  CASE rec.strikes = 0 -> {"none", "clean"}
    [] rec.strikes = 1 -> {"warned"}
    [] rec.strikes = 2 -> {"timeout_1h"}
    [] rec.strikes = 3 -> {"timeout_12h"}
    [] OTHER -> {"blocked"}

LadderIsConsistent == \A b \in Buyers : records[b].status \in Rung(records[b])

(* Enforcing, the gate turns away only a buyer that has let two delivered  *)
(* jobs expire.                                                            *)
OnlyStiffersAreRefused ==
  [][\A j \in Jobs : onChain[j] = "new" /\ onChain'[j] = "refused" =>
       Cardinality(Stiffs(BuyerOf[j])) >= 2]_vars

(* "One step per stiff": when no transition is under way and none was      *)
(* broken off, a buyer has one strike for every delivered job it let       *)
(* expire.                                                                 *)
Settled(b) == \A w \in Workers : pc[w] \in {"read", "write"} => BuyerOf[cur[w]] # b

OneStepPerStiff ==
  \A b \in Buyers :
    Settled(b) /\ fails = 0 /\ crashes = 0 => records[b].strikes = Cardinality(Stiffs(b))

(* "Strands as status='submitted' forever ... This sweep closes that gap": *)
(* every tracked job is resolved, however many rows one sweep may list.    *)
EveryTrackedJobIsResolved == []<>(\A j \in Jobs : tracked[j] # "submitted")
================================================================================
