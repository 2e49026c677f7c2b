--------------------------- MODULE PipelineProofs ---------------------------
(***************************************************************************)
(* Proofs about Pipeline: what is stored under a name, what a stored       *)
(* verdict counts on, and what the requests table tells.                   *)
(***************************************************************************)
EXTENDS Pipeline, FiniteSetTheorems, TLAPS

(* The inductive invariant.  A run reads its candidates, counts their      *)
(* claims, deletes some and creates a row of its own, one statement at a   *)
(* time: most of the invariant says what it knows, at each place, of the   *)
(* rows it has read.                                                       *)

Deleting == {"delClaims", "delVers", "delPaper"}
Reading == {"findToken", "count"} \cup Deleting
Naming == Reading \cup {"createPaper"}
Linking == {"report", "dropVers", "createVer"}
BeforePaper == HandlerReads \cup Naming \cup
  {"idle", "live", "name", "request", "acquire", "extract", "evaluate", "findName"}
Judged == Naming \cup Linking \cup {"findName", "createClaim"}
Documented == Judged \cup {"name", "request", "acquire", "extract", "evaluate", "cost", "complete"}

\* The rows a run has read, and those it knows by the number of the row.
Candidates(j) == IF pc(j) \in Reading THEN job[j].todo \cup DOMAIN job[j].count ELSE {}
Known(j) == Candidates(j) \cup IF pc(j) \in Linking THEN {job[j].paper} ELSE {}

Memory == {"pc", "name", "doc", "found", "tries", "verdict", "stages", "count", "todo", "paper", "made", "ver"}

\* What a call remembers, place by place.
GoodCall(o, r) ==
  /\ DOMAIN r = Memory
  /\ r.pc \in Places
  /\ r.found \in Nat /\ r.made \in Nat /\ r.tries \in 0..ExtractRetries
  /\ r.paper \in Jobs \cup {"", Tmp}
  /\ r.stages \subseteq {"l2", "l3"}
  /\ r.doc \in DOMAIN DocumentOf \cup {""}
  /\ r.pc \in Documented => r.doc \in DOMAIN DocumentOf
  /\ r.pc = "evaluate" => r.found \in ClaimCounts(r.doc)
  /\ r.pc = "extract" => o # "legitimacy_scan"
  /\ r.pc \in Judged /\ o \in FullOfferings \cup {"legitimacy_scan"} => r.verdict \in Verdict
  /\ r.pc \in Reading => r.todo \subseteq Jobs
  /\ DOMAIN r.count \subseteq Jobs
  /\ \A p \in DOMAIN r.count : r.count[p] \in Nat
  /\ r.pc \notin {"count", "failing", "thrown"} => DOMAIN r.count = {}
  /\ r.pc \in {"delVers", "delPaper"} => r.paper \in r.todo
  /\ r.pc \in {"createClaim", "dropVers", "createVer"} => r.paper \in Jobs
  /\ r.pc = "report" => r.paper \in Jobs \cup {Tmp}
  /\ r.pc \in BeforePaper => r.made = 0

\* The requests row q and the answer a of a call of offering o that stands at place: only a
\* run that was given up has an answer before its end, and a row is closed only where the
\* run has nothing left but to answer.
RunPlaces == Places \ ({"idle", "done", "dead", "live"} \cup HandlerReads)
Ending == {"return", "failing", "thrown"}
Going == RunPlaces \ Ending
GoodAnswer(o, place, a, q) ==
  /\ q \in {"none", "received", "completed", "failed"}
  /\ a.kind \in {"pending", "hit", "miss", "live", "insufficient", "error", "lost"}
  /\ place = "idle" => a = Pending
  /\ place \notin {"idle", "done", "dead"} /\ a # Pending => place \in RunPlaces /\ a = insufficientData
  /\ q = "completed" => place \in {"return", "failing", "done", "dead"}
  /\ q = "failed" => place \in {"thrown", "done", "dead"}
  /\ place = "return" /\ o \in FullOfferings => q = "completed"
  /\ a.kind = "live" /\ o \in FullOfferings => q = "completed"
  /\ q = "completed" => a.kind \in {"live", "insufficient", "lost"} \/ place \in {"return", "failing"}
  /\ q = "failed" => a.kind \in {"insufficient", "lost"} \/ place = "thrown"

Local ==
  /\ ask \in Asks
  /\ DOMAIN requests = Jobs /\ DOMAIN costs = Jobs /\ DOMAIN job = Jobs /\ DOMAIN answer = Jobs
  /\ \A j \in Jobs : costs[j] \subseteq {"l2", "l3"}
  /\ \A j \in Jobs : GoodCall(Of(j), job[j])
  /\ \A j \in Jobs : GoodAnswer(Of(j), pc(j), answer[j], requests[j])

Shape ==
  /\ DOMAIN papers = Jobs /\ DOMAIN claims = Jobs /\ DOMAIN verifs = Jobs /\ DOMAIN kept = Jobs
  /\ \A j \in Jobs :
       /\ DOMAIN papers[j] = {"row", "name", "token", "doc"} /\ papers[j].row \in BOOLEAN
       /\ claims[j] \in Nat
       /\ verifs[j].row \in BOOLEAN
       /\ verifs[j].row => verifs[j].verdict \in Verdict /\ verifs[j].paper \in Jobs /\ verifs[j].total \in Nat
       /\ kept[j].found \in Nat
  /\ overlapped \in BOOLEAN
  /\ faults \in Nat /\ crashes \in Nat /\ faults + crashes <= MaxFaults

\* Nobody knows a row that is not created yet, and no row or candidate has a forbidden name.
Stored ==
  /\ \A p \in Jobs : pc(p) \in BeforePaper => ~papers[p].row /\ \A k \in Jobs : p \notin Known(k)
  /\ \A p \in Jobs : papers[p].row => papers[p].name \notin ViolationNames
  /\ \A k \in Jobs : \A p \in Candidates(k) : papers[p].name \notin ViolationNames
  /\ \A k \in Jobs : pc(k) \in Naming => job[k].name \notin ViolationNames
  /\ \A k \in Jobs : pc(k) = "createClaim" => papers[k].name = job[k].name /\ job[k].paper = k
  /\ \A v \in Jobs : verifs[v].row => papers[verifs[v].paper].row

\* While runs have not overlapped, the one that is writing has read every row
\* of its name, and they are all still there.
Alone ==
  ~overlapped =>
    /\ \A k, m \in Jobs : Upserting(k) /\ Upserting(m) => k = m
    /\ \A p, q \in Jobs : papers[p].row /\ papers[q].row /\ papers[p].name = papers[q].name => p = q
    /\ \A k \in Jobs : \A p \in Candidates(k) : papers[p].row
    /\ \A k \in Jobs : pc(k) \in Naming =>
         \A p \in Jobs : papers[p].row /\ papers[p].name = job[k].name => p \in Candidates(k)
    /\ \A k \in Jobs : pc(k) = "createClaim" => papers[k].row

\* A row that is gone or on its way need not have its claims.
Leaving(p) == BeingDeleted(p) \/ ~papers[p].row
Counted ==
  faults = 0 /\ crashes = 0 =>
    \A k \in Jobs :
      /\ pc(k) = "count" => \A p \in DOMAIN job[k].count : job[k].count[p] <= claims[p] \/ Leaving(p)
      /\ pc(k) = "createClaim" => job[k].made <= claims[k] \/ Leaving(k)
      /\ pc(k) \in Linking => \A p \in Jobs : job[k].paper = p => job[k].found <= claims[p] \/ Leaving(p)
      /\ verifs[k].row => \A p \in Jobs : verifs[k].paper = p => verifs[k].total <= claims[p] \/ BeingDeleted(p)

\* What a run was stored under is safe in a row nobody is about to delete, or
\* in the hands of a run that found at least as much.
Safe(name, found) ==
  \E p \in Jobs : /\ papers[p].row /\ papers[p].name = name /\ claims[p] >= found
                  /\ \A k \in Jobs : pc(k) \in Deleting => p \notin job[k].todo
InHand(name, found) ==
  \E k \in Jobs : /\ pc(k) \in Deleting \cup {"createPaper", "createClaim"}
                  /\ job[k].name = name /\ job[k].found >= found
Held(name, found) == Safe(name, found) \/ InHand(name, found)
Keeping ==
  Calm =>
    /\ \A k \in Jobs : pc(k) = "count" => \A p \in DOMAIN job[k].count : job[k].count[p] = claims[p]
    /\ \A j \in Jobs : kept[j].found > 0 => Held(kept[j].name, kept[j].found)

Store == Shape /\ Stored /\ Alone /\ Counted /\ Keeping
Inv == Local /\ Store

-----------------------------------------------------------------------------
(* One call.                                                               *)

\* s is r but for the fields F.
Same(r, s, F) == DOMAIN s = DOMAIN r /\ \A f \in DOMAIN r \ F : s[f] = r[f]

\* What a call remembers before it begins.
LEMMA IdleIs ==
  /\ DOMAIN Idle = Memory
  /\ Idle.found \in Nat /\ Idle.made \in Nat /\ Idle.tries \in 0..ExtractRetries /\ Idle.made = 0
  /\ Idle.doc = "" /\ Idle.stages = {} /\ Idle.paper = "" /\ DOMAIN Idle.count = {}
  /\ Idle.pc = "idle"
  BY DEF Idle, Memory, NoCounts, ExtractRetries

\* A call that has not begun, has ended or has died remembers nothing.
LEMMA AtRest ==
  ASSUME NEW o, NEW place \in {"idle", "done", "dead"}
  PROVE  /\ GoodCall(o, [Idle EXCEPT !.pc = place])
         /\ [Idle EXCEPT !.pc = place].pc = place
  <1> DEFINE s == [Idle EXCEPT !.pc = place]
  <1>1. s.pc = place /\ Same(Idle, s, {"pc"})
    BY IdleIs DEF Same, Memory
  <1> HIDE DEF s
  <1>2. /\ s.doc = Idle.doc /\ s.found = Idle.found /\ s.tries = Idle.tries /\ s.made = Idle.made
        /\ s.stages = Idle.stages /\ s.paper = Idle.paper /\ s.count = Idle.count /\ DOMAIN s = Memory
    BY <1>1, IdleIs DEF Same, Memory
  <1>3. /\ place \in Places
        /\ place \notin Documented /\ place \notin Judged /\ place \notin Reading
        /\ place \notin {"extract", "evaluate", "count", "failing", "delVers", "delPaper", "dropVers", "createVer", "createClaim", "report"}
    BY DEF Places, LocalSteps, Documented, Judged, Naming, Reading, Deleting, Linking
  <1>4. /\ s.pc \in Places
        /\ s.pc \notin Documented /\ s.pc \notin Judged /\ s.pc \notin Reading
        /\ s.pc \notin {"extract", "evaluate", "count", "failing", "delVers", "delPaper", "dropVers", "createVer", "createClaim", "report"}
    BY <1>1, <1>3, Zenon
  <1>5. /\ s.found \in Nat /\ s.made \in Nat /\ s.tries \in 0..ExtractRetries /\ s.made = 0
        /\ s.doc = "" /\ s.stages = {} /\ s.paper = "" /\ DOMAIN s.count = {}
    BY <1>2, IdleIs, Zenon
  <1>6. GoodCall(o, s)
    BY <1>2, <1>4, <1>5 DEF GoodCall
  <1> QED
    BY <1>1, <1>6 DEF s

\* A call that puts a good state for its own leaves the others as they are.
LEMMA PutStep ==
  ASSUME Local, NEW j \in Jobs, NEW s, GoodCall(Of(j), s), Put(j, s), ask' = ask
  PROVE  /\ DOMAIN job' = Jobs /\ job'[j] = s /\ \A k \in Jobs \ {j} : job'[k] = job[k]
         /\ \A k \in Jobs : GoodCall(Of(k), job[k])'
  <1>1. DOMAIN job' = Jobs /\ job'[j] = s /\ \A k \in Jobs \ {j} : job'[k] = job[k]
    BY DEF Put, Local
  <1>2. \A k \in Jobs : ask'[k].offering = Of(k)
    BY DEF Of
  <1>3. \A k \in Jobs : GoodCall(ask'[k].offering, job'[k])
    BY <1>1, <1>2 DEF Local
  <1>4. \A k \in Jobs : GoodCall(Of(k), job[k])'
    BY <1>3, Zenon DEF GoodCall, Of
  <1> QED
    BY <1>1, <1>4

-----------------------------------------------------------------------------
(* How a step moves a call.                                                *)

Writing == Naming \cup {"createClaim"}

\* What it may do to the verifications: drop some, or store one that counts
\* what the run found in the whitepaper it has, which is there.
Verifies(j) ==
  /\ DOMAIN verifs' = DOMAIN verifs
  /\ \A v \in Jobs :
       \/ verifs'[v] = verifs[v]
       \/ verifs'[v].row = FALSE
       \/ /\ pc(j) \in Linking /\ job[j].paper \in Jobs /\ papers[job[j].paper].row
          /\ verifs'[v].row = TRUE /\ verifs'[v].verdict \in Verdict
          /\ verifs'[v].paper = job[j].paper /\ verifs'[v].total = job[j].found

\* A step of a call that leaves whitepapers and claims alone and is not, afterwards,
\* about to write any: it goes on with the row it has, it gave up, or it ended.
Quiet(j) ==
  /\ UNCHANGED <<ask, papers, claims, kept, overlapped, crashes>> /\ Verifies(j)
  /\ faults' \in Nat /\ faults' >= faults /\ faults' + crashes <= MaxFaults
  /\ DOMAIN job' = Jobs /\ \A k \in Jobs \ {j} : job'[k] = job[k]
  /\ job'[j].pc \notin Writing
  /\ pc(j) \notin BeforePaper => job'[j].pc \notin BeforePaper
  /\ job'[j].pc \in Linking =>
       \/ job'[j].paper \notin Jobs
       \/ pc(j) \in Linking /\ job'[j].paper = job[j].paper /\ job'[j].found = job[j].found
  /\ pc(j) \in Writing => faults' # 0 \/ (pc(j) = "createClaim" /\ ~papers[j].row)

\* What a quiet step may do to the memory of a call.
Passes(j, s) ==
  /\ s.pc \notin Writing
  /\ pc(j) \notin BeforePaper => s.pc \notin BeforePaper
  /\ s.pc \in Linking =>
       s.paper \notin Jobs \/ (pc(j) \in Linking /\ s.paper = job[j].paper /\ s.found = job[j].found)

\* What a step must show of its own call for all calls to stay well formed.
LEMMA LocalStep ==
  ASSUME Local, NEW j \in Jobs, NEW s, GoodCall(Of(j), s), Put(j, s), ask' = ask,
         NEW a, NEW q, GoodAnswer(Of(j), s.pc, a, q),
         DOMAIN answer' = Jobs, answer'[j] = a, \A k \in Jobs \ {j} : answer'[k] = answer[k],
         DOMAIN requests' = Jobs, requests'[j] = q, \A k \in Jobs \ {j} : requests'[k] = requests[k],
         DOMAIN costs' = Jobs, \A k \in Jobs : costs'[k] \subseteq {"l2", "l3"}
  PROVE  Local'
  <1>1. DOMAIN job' = Jobs /\ job'[j] = s /\ \A k \in Jobs \ {j} : job'[k] = job[k]
    BY PutStep
  <1>2. \A k \in Jobs : GoodCall(Of(k), job[k])'
    BY PutStep
  <1>4. \A k \in Jobs : ask'[k].offering = Of(k)
    BY DEF Of
  <1>5. \A k \in Jobs : GoodAnswer(ask'[k].offering, job'[k].pc, answer'[k], requests'[k])
    BY <1>1, <1>4 DEF Local, pc
  <1>6. \A k \in Jobs : GoodAnswer(Of(k), pc(k), answer[k], requests[k])'
    BY <1>5, Zenon DEF GoodAnswer, Of, pc, RunPlaces, Places, LocalSteps, HandlerReads, FullOfferings, Pending,
                       insufficientData, Says
  <1>7. (ask \in Asks)'
    BY DEF Local
  <1> QED
    BY <1>1, <1>2, <1>6, <1>7 DEF Local

\* A step that changes nothing but the place and the memory of its call.
LEMMA Continues ==
  ASSUME Local, NEW j \in Jobs, NEW s, GoodCall(Of(j), s), Put(j, s),
         pc(j) \notin {"done", "dead"} \cup Ending, pc(j) \notin Writing,
         s.pc \notin {"idle", "done", "dead"} \cup Ending, pc(j) \in RunPlaces => s.pc \in Going,
         Passes(j, s), faults \in Nat, crashes \in Nat, faults + crashes <= MaxFaults,
         UNCHANGED <<ask, db, answer, kept, overlapped, faults, crashes>>
  PROVE  Local' /\ Quiet(j)
  <1>1. DOMAIN job' = Jobs /\ job'[j] = s /\ \A k \in Jobs \ {j} : job'[k] = job[k]
    BY PutStep
  <1>2. GoodAnswer(Of(j), pc(j), answer[j], requests[j])
    BY DEF Local
  <1>3. GoodAnswer(Of(j), s.pc, answer[j], requests[j])
    BY <1>2 DEF GoodAnswer, Going, Ending
  <1>4. /\ DOMAIN answer' = Jobs /\ \A k \in Jobs : answer'[k] = answer[k]
        /\ DOMAIN requests' = Jobs /\ \A k \in Jobs : requests'[k] = requests[k]
    BY DEF Local, db
  <1>5. DOMAIN costs' = Jobs /\ \A k \in Jobs : costs'[k] \subseteq {"l2", "l3"}
    BY DEF Local, db
  <1>6. Local'
    BY <1>3, <1>4, <1>5, LocalStep
  <1>7. Quiet(j)
    BY <1>1 DEF Quiet, Verifies, Passes, db
  <1> QED
    BY <1>6, <1>7

\* The end of a call: its answer counts if it is the first.
LEMMA Ended ==
  ASSUME Local, NEW j \in Jobs, NEW a, Done(j, a), pc(j) \notin {"idle", "done", "dead"},
         ask' = ask, costs' = costs,
         NEW q, DOMAIN requests' = Jobs, requests'[j] = q, \A k \in Jobs \ {j} : requests'[k] = requests[k],
         a.kind \in {"hit", "miss", "live", "insufficient", "error"},
         q \in {"none", "received", "completed", "failed"},
         a.kind = "live" /\ Of(j) \in FullOfferings => q = "completed",
         q = "completed" => a.kind \in {"live", "insufficient"}, q = "failed" => a.kind = "insufficient"
  PROVE  /\ Local'
         /\ DOMAIN job' = Jobs /\ job'[j].pc = "done" /\ \A k \in Jobs \ {j} : job'[k] = job[k]
  <1> DEFINE s == [Idle EXCEPT !.pc = "done"]
             told == IF answer[j] = Pending THEN a ELSE answer[j]
  <1>1. GoodCall(Of(j), s) /\ s.pc = "done"
    BY AtRest
  <1>2. Put(j, s)
    BY DEF Done, Put
  <1> HIDE DEF s
  <1>3. DOMAIN job' = Jobs /\ job'[j] = s /\ \A k \in Jobs \ {j} : job'[k] = job[k]
    BY <1>1, <1>2, PutStep
  <1>4. DOMAIN answer' = Jobs /\ answer'[j] = told /\ \A k \in Jobs \ {j} : answer'[k] = answer[k]
    BY DEF Done, Tell, Local
  <1>5. DOMAIN costs' = Jobs /\ \A k \in Jobs : costs'[k] \subseteq {"l2", "l3"}
    BY DEF Local
  <1>6. GoodAnswer(Of(j), pc(j), answer[j], requests[j])
    BY DEF Local
  <1>7. answer[j] # Pending => answer[j].kind = "insufficient"
    BY <1>6 DEF GoodAnswer, insufficientData, Says
  <1>8. GoodAnswer(Of(j), "done", told, q)
    BY <1>7 DEF GoodAnswer
  <1> HIDE DEF told
  <1> QED
    BY <1>1, <1>2, <1>3, <1>4, <1>5, <1>8, LocalStep

\* A call that ends without writing a row.
LEMMA EndsQuietly ==
  ASSUME Local, NEW j \in Jobs, NEW a, Done(j, a), pc(j) \notin {"idle", "done", "dead"},
         UNCHANGED <<ask, db, kept, overlapped, crashes>>,
         faults' \in Nat, faults' >= faults, faults' + crashes <= MaxFaults,
         a.kind \in {"hit", "miss", "live", "insufficient", "error"},
         pc(j) \in Ending => a.kind = IF pc(j) = "return" THEN "live" ELSE "insufficient",
         a.kind = "live" => Of(j) \notin FullOfferings \/ pc(j) = "return",
         pc(j) \in Writing => faults' # 0 \/ (pc(j) = "createClaim" /\ ~papers[j].row)
  PROVE  Local' /\ Quiet(j)
  <1>1. /\ requests[j] \in {"none", "received", "completed", "failed"}
        /\ a.kind = "live" /\ Of(j) \in FullOfferings => requests[j] = "completed"
        /\ requests[j] = "completed" => a.kind \in {"live", "insufficient"}
        /\ requests[j] = "failed" => a.kind = "insufficient"
    BY DEF Local, GoodAnswer, Ending
  <1>2. DOMAIN requests' = Jobs /\ \A k \in Jobs : requests'[k] = requests[k]
    BY DEF Local, db
  <1>3. ask' = ask /\ costs' = costs
    BY DEF db
  <1>4. /\ Local'
        /\ DOMAIN job' = Jobs /\ job'[j].pc = "done" /\ \A k \in Jobs \ {j} : job'[k] = job[k]
    BY <1>1, <1>2, <1>3, Ended
  <1>5. "done" \notin Writing \cup BeforePaper \cup Linking
    BY DEF Writing, BeforePaper, Naming, Reading, Deleting, HandlerReads, Linking
  <1>6. Quiet(j)
    BY <1>4, <1>5 DEF Quiet, Verifies, db
  <1> QED
    BY <1>4, <1>6

\* A statement that throws ends the call, or leaves it to mark its request row.
LEMMA ThrowsQuietly ==
  ASSUME Local, NEW j \in Jobs, Throws(j), pc(j) \notin {"idle", "done", "dead"}, pc(j) \in HandlerReads \cup Going \cup {"failing"},
         UNCHANGED <<ask, db, kept, overlapped, crashes>>,
         faults' \in Nat, faults' >= faults, faults' + crashes <= MaxFaults,
         pc(j) \in Writing => faults' # 0 \/ (pc(j) = "createClaim" /\ ~papers[j].row)
  PROVE  Local' /\ Quiet(j)
  <1>1. \/ Done(j, Says("error")) /\ pc(j) \notin Ending
        \/ Done(j, insufficientData) /\ pc(j) # "return"
        \/ pc(j) \in Going /\ Goto(j, "failing") /\ answer' = answer
    BY DEF Throws, HandlerReads, Ending, Going
  <1>2. Says("error").kind = "error" /\ insufficientData.kind = "insufficient"
    BY DEF Says, insufficientData
  <1>3. CASE Done(j, Says("error")) /\ pc(j) \notin Ending
    BY <1>2, <1>3, EndsQuietly
  <1>4. CASE Done(j, insufficientData) /\ pc(j) # "return"
    BY <1>2, <1>4, EndsQuietly
  <1>5. CASE pc(j) \in Going /\ Goto(j, "failing") /\ answer' = answer
    <2> DEFINE s == [job[j] EXCEPT !.pc = "failing"]
    <2>1. GoodCall(Of(j), job[j]) /\ GoodAnswer(Of(j), pc(j), answer[j], requests[j])
      BY DEF Local
    <2>2. Same(job[j], s, {"pc"}) /\ s.pc = "failing"
      BY <2>1 DEF GoodCall, Same, Memory
    <2>3. Put(j, s)
      BY <1>5 DEF Goto
    <2> HIDE DEF s
    <2>4. GoodCall(Of(j), s)
      BY <2>1, <2>2 DEF GoodCall, Same, Memory, Places, Documented, Judged, Naming, Reading, Deleting, Linking,
                        BeforePaper, HandlerReads
    <2>5. GoodAnswer(Of(j), s.pc, answer[j], requests[j])
      BY <1>5, <2>1, <2>2 DEF GoodAnswer, Going, Ending, RunPlaces, Places, LocalSteps, HandlerReads
    <2>6. /\ DOMAIN answer' = Jobs /\ \A k \in Jobs : answer'[k] = answer[k]
          /\ DOMAIN requests' = Jobs /\ \A k \in Jobs : requests'[k] = requests[k]
          /\ DOMAIN costs' = Jobs /\ \A k \in Jobs : costs'[k] \subseteq {"l2", "l3"}
      BY <1>5 DEF Local, db
    <2>7. Local'
      BY <2>3, <2>4, <2>5, <2>6, LocalStep
    <2>8. DOMAIN job' = Jobs /\ job'[j] = s /\ \A k \in Jobs \ {j} : job'[k] = job[k]
      BY <2>3, <2>4, PutStep
    <2>9. s.pc \notin Writing /\ s.pc \notin BeforePaper /\ s.pc \notin Linking
      BY <2>2 DEF Writing, BeforePaper, Naming, Reading, Deleting, HandlerReads, Linking
    <2>10. Quiet(j)
      BY <2>8, <2>9 DEF Quiet, Verifies, db
    <2> QED
      BY <2>7, <2>10
  <1> QED
    BY <1>1, <1>3, <1>4, <1>5

-----------------------------------------------------------------------------
(* The handlers: every step reads, and goes on or ends.                    *)

Bounded == faults \in Nat /\ crashes \in Nat /\ faults + crashes <= MaxFaults

\* A handler that goes on reading, or goes live.
LEMMA ReadsOn ==
  ASSUME Local, Bounded, NEW j \in Jobs, NEW s, Put(j, s), pc(j) \in HandlerReads \cup {"idle"},
         UNCHANGED <<ask, db, answer, kept, overlapped, faults, crashes>>,
         Same(job[j], s, {"pc", "name", "doc", "paper", "ver", "todo", "found"}),
         s.pc \in HandlerReads \cup {"live"}, s.doc \in DOMAIN DocumentOf \cup {""},
         s.found \in Nat, s.paper \in Jobs \cup {"", Tmp}
  PROVE  Local' /\ Quiet(j)
  <1>1. GoodCall(Of(j), job[j])
    BY DEF Local
  <1>2. /\ s.pc \in Places
        /\ s.pc \notin Documented /\ s.pc \notin Judged /\ s.pc \notin Reading /\ s.pc \notin Writing /\ s.pc \notin Linking
        /\ s.pc \notin {"idle", "done", "dead", "extract", "evaluate", "count", "failing", "delVers", "delPaper", "dropVers",
                        "createVer", "createClaim", "report"}
    BY DEF Places, LocalSteps, HandlerReads, Documented, Judged, Reading, Writing, Naming, Deleting, Linking
  <1>3. /\ pc(j) \in BeforePaper /\ pc(j) \notin RunPlaces /\ pc(j) \notin Writing
        /\ pc(j) \notin {"done", "dead", "count"} \cup Ending /\ s.pc \notin Ending
    BY DEF Ending, BeforePaper, RunPlaces, HandlerReads, Writing, Naming, Reading, Deleting
  <1>4. GoodCall(Of(j), s)
    BY <1>1, <1>2, <1>3 DEF GoodCall, Same, Memory, pc, Ending
  <1>5. Passes(j, s)
    BY <1>2, <1>3 DEF Passes
  <1> QED
    BY <1>2, <1>3, <1>4, <1>5, Continues DEF Bounded

LEMMA StartOK ==
  ASSUME Local, Bounded, NEW j \in Jobs, Start(j)
  PROVE  Local' /\ Quiet(j)
  <1> DEFINE place == IF Of(j) \in BatchOfferings THEN "batch"
                      ELSE IF Of(j) = "claim_extraction" THEN "live" ELSE "byToken"
             s == [job[j] EXCEPT !.pc = place, !.name = ask[j].name, !.doc = ask[j].doc]
  <1>1. GoodCall(Of(j), job[j]) /\ ask[j].doc \in DOMAIN DocumentOf \cup {""}
    BY DocumentAssumption DEF Local
  <1>2. /\ Same(job[j], s, {"pc", "name", "doc"}) /\ s.pc = place /\ s.doc = ask[j].doc
        /\ s.found = job[j].found /\ s.paper = job[j].paper
    BY <1>1 DEF GoodCall, Same, Memory
  <1>3. Put(j, s)
    BY DEF Start
  <1>4. place \in HandlerReads \cup {"live"}
    BY DEF HandlerReads
  <1> HIDE DEF s, place
  <1>5. /\ Same(job[j], s, {"pc", "name", "doc", "paper", "ver", "todo", "found"})
        /\ s.found \in Nat /\ s.paper \in Jobs \cup {"", Tmp}
    BY <1>1, <1>2 DEF Same, GoodCall
  <1> QED
    BY <1>1, <1>2, <1>3, <1>4, <1>5, ReadsOn DEF Start

\* A step that goes on reading with another row, its verification, or the rest of a list.
LEMMA ReadsOnWith ==
  ASSUME Local, Bounded, NEW j \in Jobs, pc(j) \in HandlerReads,
         UNCHANGED <<ask, db, answer, kept, overlapped, faults, crashes>>,
         \/ \E p \in Jobs \cup {""}, place \in HandlerReads \cup {"live"} : Put(j, [job[j] EXCEPT !.pc = place, !.paper = p])
         \/ \E place \in HandlerReads : Goto(j, place)
         \/ \E v : Put(j, [job[j] EXCEPT !.pc = "readClaims", !.ver = v])
         \/ \E rows : Put(j, [job[j] EXCEPT !.pc = "row", !.todo = rows])
         \/ \E n \in Nat : Put(j, [job[j] EXCEPT !.pc = "row", !.found = n])
  PROVE  Local' /\ Quiet(j)
  <1>1. GoodCall(Of(j), job[j])
    BY DEF Local
  <1>2. ASSUME NEW s, Put(j, s), Same(job[j], s, {"pc", "paper", "ver", "todo", "found"}),
               s.pc \in HandlerReads \cup {"live"}, s.found \in Nat, s.paper \in Jobs \cup {"", Tmp}
        PROVE  Local' /\ Quiet(j)
    <2>1. Same(job[j], s, {"pc", "name", "doc", "paper", "ver", "todo", "found"}) /\ s.doc = job[j].doc
      BY <1>1, <1>2 DEF Same, GoodCall, Memory
    <2>2. s.doc \in DOMAIN DocumentOf \cup {""}
      BY <1>1, <2>1 DEF GoodCall
    <2> QED
      BY <1>2, <2>1, <2>2, ReadsOn
  <1>3. ASSUME NEW p \in Jobs \cup {""}, NEW place \in HandlerReads \cup {"live"},
               Put(j, [job[j] EXCEPT !.pc = place, !.paper = p])
        PROVE  Local' /\ Quiet(j)
    <2> DEFINE s == [job[j] EXCEPT !.pc = place, !.paper = p]
    <2>1. Same(job[j], s, {"pc", "paper", "ver", "todo", "found"}) /\ s.pc = place /\ s.paper = p /\ s.found = job[j].found
      BY <1>1 DEF GoodCall, Same, Memory
    <2> HIDE DEF s
    <2> QED
      BY <1>1, <1>2, <1>3, <2>1 DEF GoodCall, s
  <1>4. ASSUME NEW place \in HandlerReads, Goto(j, place)
        PROVE  Local' /\ Quiet(j)
    <2> DEFINE s == [job[j] EXCEPT !.pc = place]
    <2>1. Same(job[j], s, {"pc", "paper", "ver", "todo", "found"}) /\ s.pc = place /\ s.paper = job[j].paper /\ s.found = job[j].found
      BY <1>1 DEF GoodCall, Same, Memory
    <2>2. Put(j, s)
      BY <1>4 DEF Goto
    <2> HIDE DEF s
    <2> QED
      BY <1>1, <1>2, <2>1, <2>2 DEF GoodCall
  <1>5. ASSUME NEW v, Put(j, [job[j] EXCEPT !.pc = "readClaims", !.ver = v])
        PROVE  Local' /\ Quiet(j)
    <2> DEFINE s == [job[j] EXCEPT !.pc = "readClaims", !.ver = v]
    <2>1. /\ Same(job[j], s, {"pc", "paper", "ver", "todo", "found"}) /\ s.pc = "readClaims"
          /\ s.paper = job[j].paper /\ s.found = job[j].found
      BY <1>1 DEF GoodCall, Same, Memory
    <2>2. Put(j, s) /\ "readClaims" \in HandlerReads
      BY <1>5 DEF HandlerReads
    <2> HIDE DEF s
    <2> QED
      BY <1>1, <1>2, <2>1, <2>2 DEF GoodCall
  <1>6. ASSUME NEW rows, NEW n \in Nat, NEW s, Put(j, s),
               s \in {[job[j] EXCEPT !.pc = "row", !.todo = rows], [job[j] EXCEPT !.pc = "row", !.found = n]}
        PROVE  Local' /\ Quiet(j)
    <2>1. /\ Same(job[j], s, {"pc", "paper", "ver", "todo", "found"}) /\ s.pc = "row"
          /\ s.paper = job[j].paper /\ s.found \in {job[j].found, n}
      BY <1>1, <1>6 DEF GoodCall, Same, Memory
    <2>2. s.pc \in HandlerReads
      BY <2>1 DEF HandlerReads
    <2> QED
      BY <1>1, <1>2, <1>6, <2>1, <2>2 DEF GoodCall
  <1> QED
    BY <1>3, <1>4, <1>5, <1>6

\* The reads of the cache and of the feeds.
LEMMA HandlersOK ==
  ASSUME Local, Bounded, NEW j \in Jobs,
         \/ LookupToken(j) \/ LookupName(j) \/ ReadVerification(j) \/ ReadClaims(j)
         \/ ReadBatch(j) \/ ReadRow(j) \/ ReadRowClaims(j)
  PROVE  Local' /\ Quiet(j)
  <1>1. /\ GoodCall(Of(j), job[j])
        /\ {"byToken", "byName", "readVer", "readClaims", "batch", "row", "rowClaims"} \subseteq HandlerReads
        /\ HandlerReads \cap ({"idle", "done", "dead"} \cup Writing \cup Ending) = {}
    BY DEF Ending, Local, HandlerReads, Writing, Naming, Reading, Deleting
  <1>2. /\ pc(j) \in HandlerReads
        /\ UNCHANGED <<ask, db, kept, overlapped, faults, crashes>>
    BY <1>1 DEF LookupToken, LookupName, ReadVerification, ReadClaims, ReadBatch, ReadRow, ReadRowClaims
  <1>3. /\ Says("hit").kind = "hit" /\ Says("miss").kind = "miss"
        /\ \A v, n : buildLegitimacyHit(v).kind = "hit" /\ buildVerifyWhitepaperHit(v, n).kind = "hit"
    BY DEF Says, buildLegitimacyHit, buildVerifyWhitepaperHit
  <1>4. ASSUME NEW a, Done(j, a), a.kind \in {"hit", "miss"}
        PROVE  Local' /\ Quiet(j)
    BY <1>1, <1>2, <1>4, EndsQuietly DEF Bounded
  <1>5. ASSUME NEW a, Miss(j, a), a.kind \in {"hit", "miss"}
        PROVE  Local' /\ Quiet(j)
    <2>1. CASE Done(j, a)
      BY <1>4, <1>5, <2>1
    <2>2. CASE Put(j, [job[j] EXCEPT !.pc = "live", !.paper = ""]) /\ answer' = answer
      BY <1>2, <2>2, ReadsOnWith
    <2> QED
      BY <1>5, <2>1, <2>2 DEF Miss
  <1>6. CASE LookupToken(j)
    <2>1. answer' = answer
      BY <1>6 DEF LookupToken
    <2>2. \/ Goto(j, "byName")
          \/ \E p \in Jobs : Put(j, [job[j] EXCEPT !.pc = "readVer", !.paper = p])
      BY <1>6 DEF LookupToken, findByTokenAddress
    <2> QED
      BY <1>1, <1>2, <2>1, <2>2, ReadsOnWith
  <1>7. CASE LookupName(j)
    <2>1. \/ Miss(j, Says("miss"))
          \/ answer' = answer /\ \E p \in Jobs : Put(j, [job[j] EXCEPT !.pc = "readVer", !.paper = p])
      BY <1>7 DEF LookupName, findByProjectName
    <2> QED
      BY <1>1, <1>2, <1>3, <1>5, <2>1, ReadsOnWith
  <1>8. CASE ReadVerification(j)
    <2>1. \/ Miss(j, Says("miss"))
          \/ answer' = answer /\ \E v : Put(j, [job[j] EXCEPT !.pc = "readClaims", !.ver = v])
          \/ \E v : Done(j, buildLegitimacyHit(v))
      BY <1>8 DEF ReadVerification
    <2> QED
      BY <1>1, <1>2, <1>3, <1>4, <1>5, <2>1, ReadsOnWith
  <1>9. CASE ReadClaims(j)
    <2>1. Done(j, Says("miss")) \/ \E v, n : Done(j, buildVerifyWhitepaperHit(v, n))
      BY <1>9 DEF ReadClaims
    <2> QED
      BY <1>3, <1>4, <2>1
  <1>10. CASE ReadBatch(j)
    <2>1. answer' = answer /\ \E rows : Put(j, [job[j] EXCEPT !.pc = "row", !.todo = rows])
      BY <1>10 DEF ReadBatch
    <2> QED
      BY <1>2, <2>1, ReadsOnWith
  <1>11. CASE ReadRow(j)
    <2>1. CASE job[j].todo = {}
      BY <1>3, <1>4, <1>11, <2>1 DEF ReadRow
    <2>2. CASE job[j].todo # {}
      <3>1. PICK r \in job[j].todo :
              Put(j, [job[j] EXCEPT !.todo = @ \ {r},
                                    !.pc = IF Of(j) = "daily_tech_brief" /\ papers[r[2]].row
                                           THEN "rowClaims" ELSE "row",
                                    !.found = IF Of(j) = "daily_tech_brief" THEN @ ELSE @ + 1])
        BY <1>11, <2>2 DEF ReadRow
      <3> DEFINE rows == job[j].todo \ {r}
                 place == IF Of(j) = "daily_tech_brief" /\ papers[r[2]].row THEN "rowClaims" ELSE "row"
                 n == IF Of(j) = "daily_tech_brief" THEN job[j].found ELSE job[j].found + 1
                 s == [job[j] EXCEPT !.todo = rows, !.pc = place, !.found = n]
      <3>2. Put(j, s) /\ answer' = answer
        BY <1>11, <2>2, <3>1 DEF ReadRow
      <3>3. job[j].found \in Nat
        BY <1>1 DEF GoodCall
      <3>4. place \in HandlerReads /\ n \in Nat
        BY <1>1, <3>3
      <3> HIDE DEF rows, place, n
      <3>5. /\ Same(job[j], s, {"todo", "pc", "found"}) /\ s.pc = place /\ s.found = n
            /\ s.doc = job[j].doc /\ s.paper = job[j].paper
        BY <1>1 DEF GoodCall, Same, Memory
      <3> HIDE DEF s
      <3>6. /\ Same(job[j], s, {"pc", "name", "doc", "paper", "ver", "todo", "found"})
            /\ s.doc \in DOMAIN DocumentOf \cup {""} /\ s.paper \in Jobs \cup {"", Tmp}
        BY <1>1, <3>5 DEF Same, GoodCall
      <3> QED
        BY <1>2, <3>2, <3>4, <3>5, <3>6, ReadsOn
    <2> QED
      BY <2>1, <2>2
  <1>12. CASE ReadRowClaims(j)
    <2>1. answer' = answer /\ Put(j, [job[j] EXCEPT !.pc = "row", !.found = @ + 1])
      BY <1>12 DEF ReadRowClaims
    <2>2. job[j].found \in Nat
      BY <1>1 DEF GoodCall
    <2> DEFINE n == job[j].found + 1
    <2>3. n \in Nat /\ Put(j, [job[j] EXCEPT !.pc = "row", !.found = n])
      BY <2>1, <2>2
    <2> HIDE DEF n
    <2> QED
      BY <1>2, <2>1, <2>3, ReadsOnWith
  <1> QED
    BY <1>6, <1>7, <1>8, <1>9, <1>10, <1>11, <1>12

-----------------------------------------------------------------------------
(* The run, up to the claims and after the rows.                           *)

LEMMA Verdicts3 ==
  /\ \A doc : L1Verdict(doc) \in Verdict
  /\ \A scores : aggregate(scores) \in Verdict
  /\ \A v \in Verdict : \A doc, known : ReportVerdict(v, doc, known) \in Verdict
  <1>1. \A doc : L1Verdict(doc) \in Verdict
    BY DEF L1Verdict, Verdict
  <1>2. \A scores : aggregate(scores) \in Verdict
    BY DEF aggregate, deriveVerdict, Verdict
  <1>3. \A v \in Verdict : \A doc, known : ReportVerdict(v, doc, known) \in Verdict
    BY DEF ReportVerdict, adjustVerdictForMicaDiscrepancy, Verdict
  <1> QED
    BY <1>1, <1>2, <1>3

\* The numbers of claims an extraction may find.
LEMMA ClaimCountsOK ==
  ASSUME NEW d \in DOMAIN DocumentOf
  PROVE  ClaimCounts(d) \subseteq Nat
  <1> DEFINE told == {i \in DOMAIN DocumentOf[d].claims : DocumentOf[d].claims[i].text}
  <1>1. IsFiniteSet(told)
    BY DocumentAssumption, FS_Subset
  <1>2. Cardinality(told) \in Nat
    BY <1>1, FS_CardinalityType
  <1>3. WithText(DocumentOf[d].claims) \in Nat
    BY <1>2 DEF WithText
  <1> QED
    BY <1>3 DEF ClaimCounts

\* Whatever the layers say of a document is a verdict and a set of stages.
LEMMA EvaluationOK ==
  ASSUME NEW d \in DOMAIN DocumentOf, NEW n \in ClaimCounts(d), NEW o \in DOMAIN Opinions
  PROVE  Evaluation[d][n][o].verdict \in Verdict /\ Evaluation[d][n][o].stages \subseteq {"l2", "l3"}
  <1>1. Evaluation[d][n][o] = Evaluated(d, n, o)
    BY DEF Evaluation
  <1>2. \E v, stages : /\ Evaluated(d, n, o) = [verdict |-> aggregate(v), stages |-> stages]
                       /\ stages \subseteq {"l2", "l3"}
    <2> DEFINE v == evaluateAll(SubSeq(Parsed[d], 1, n), Opinions[o])
               stages == Evaluated(d, n, o).stages
    <2>1. Evaluated(d, n, o) = [verdict |-> aggregate(v), stages |-> stages] /\ stages \subseteq {"l2", "l3"}
      BY DEF Evaluated
    <2> HIDE DEF v, stages
    <2> QED
      BY <2>1
  <1> QED
    BY <1>1, <1>2, Verdicts3

\* The places of a run that is not about to write: where it may go from each.
LEMMA RunsOn ==
  ASSUME Local, Bounded, NEW j \in Jobs, NEW s, Put(j, s), GoodCall(Of(j), s),
         UNCHANGED <<ask, db, answer, kept, overlapped, faults, crashes>>,
         \/ pc(j) \in {"live", "name", "request", "acquire", "extract", "evaluate", "findName"} /\ s.pc \notin Linking
         \/ pc(j) = "findName" /\ s.pc = "report" /\ s.paper = Tmp
         \/ pc(j) \in {"report", "dropVers"} /\ s.paper = job[j].paper /\ s.found = job[j].found
         \/ pc(j) \in {"createVer", "cost"} /\ s.pc \notin Linking,
         pc(j) \in {"report", "dropVers", "createVer", "cost"} => s.pc \notin BeforePaper,
         s.pc \in Going, s.pc \notin Writing
  PROVE  Local' /\ Quiet(j)
  <1>1. pc(j) \notin {"done", "dead"} /\ pc(j) \notin Writing
    BY DEF Writing, Naming, Reading, Deleting
  <1>2. s.pc \notin {"idle", "done", "dead"} \cup Ending /\ pc(j) \notin Ending
    BY DEF Going, Ending, RunPlaces
  <1>3. Tmp \notin Jobs
    BY DocumentAssumption
  <1>4. pc(j) \in {"live", "name", "request", "acquire", "extract", "evaluate", "findName"} => pc(j) \in BeforePaper
    BY DEF BeforePaper
  <1>5. pc(j) \in {"report", "dropVers"} => pc(j) \in Linking
    BY DEF Linking
  <1>6. Passes(j, s)
    BY <1>3, <1>4, <1>5 DEF Passes
  <1> QED
    BY <1>1, <1>2, <1>6, Continues DEF Bounded

LEMMA DiscoverOK ==
  ASSUME Local, Bounded, NEW j \in Jobs, Discover(j)
  PROVE  Local' /\ Quiet(j)
  <1>1. /\ GoodCall(Of(j), job[j]) /\ pc(j) = "live"
        /\ Discoverable[ask[j].token] \subseteq DOMAIN DocumentOf
        /\ UNCHANGED <<ask, db, kept, overlapped, faults, crashes>>
    BY DocumentAssumption DEF Local, Discover
  <1>2. ASSUME NEW d \in DOMAIN DocumentOf, NEW s, Put(j, s), answer' = answer,
               Same(job[j], s, {"pc", "doc"}), s.pc = "name", s.doc = d
        PROVE  Local' /\ Quiet(j)
    <2>1. GoodCall(Of(j), s)
      BY <1>1, <1>2 DEF GoodCall, Same, Memory, pc, Places, LocalSteps, Documented, Judged, Naming, Reading, Deleting,
                        Linking, BeforePaper, HandlerReads
    <2>2. s.pc \in Going /\ s.pc \notin Writing /\ s.pc \notin Linking
      BY <1>2 DEF Going, Ending, RunPlaces, Places, LocalSteps, HandlerReads, Writing, Naming, Reading, Deleting, Linking
    <2> QED
      BY <1>1, <1>2, <2>1, <2>2, RunsOn
  <1>3. CASE job[j].doc # "" /\ Goto(j, "name") /\ answer' = answer
    <2> DEFINE s == [job[j] EXCEPT !.pc = "name"]
    <2>1. Same(job[j], s, {"pc", "doc"}) /\ s.pc = "name" /\ s.doc = job[j].doc
      BY <1>1 DEF GoodCall, Same, Memory
    <2>2. Put(j, s) /\ job[j].doc \in DOMAIN DocumentOf
      BY <1>1, <1>3 DEF Goto, GoodCall
    <2> HIDE DEF s
    <2> QED
      BY <1>2, <1>3, <2>1, <2>2
  <1>4. ASSUME NEW d \in DOMAIN DocumentOf, Put(j, [job[j] EXCEPT !.pc = "name", !.doc = d]), answer' = answer
        PROVE  Local' /\ Quiet(j)
    <2> DEFINE s == [job[j] EXCEPT !.pc = "name", !.doc = d]
    <2>1. Same(job[j], s, {"pc", "doc"}) /\ s.pc = "name" /\ s.doc = d
      BY <1>1 DEF GoodCall, Same, Memory
    <2> HIDE DEF s
    <2> QED
      BY <1>2, <1>4, <2>1 DEF s
  <1>5. CASE Done(j, insufficientData)
    <2>1. insufficientData.kind = "insufficient" /\ pc(j) \notin Writing \cup Ending
      BY <1>1 DEF Ending, insufficientData, Says, Writing, Naming, Reading, Deleting
    <2> QED
      BY <1>1, <1>5, <2>1, EndsQuietly DEF Bounded
  <1> QED
    BY <1>1, <1>3, <1>4, <1>5 DEF Discover

LEMMA ResolveNameOK ==
  ASSUME Local, Bounded, NEW j \in Jobs, ResolveName(j)
  PROVE  Local' /\ Quiet(j)
  <1>1. PICK n : Put(j, [job[j] EXCEPT !.pc = IF Of(j) \in FullOfferings THEN "request" ELSE "acquire", !.name = n])
    BY DEF ResolveName
  <1> DEFINE s == [job[j] EXCEPT !.pc = IF Of(j) \in FullOfferings THEN "request" ELSE "acquire", !.name = n]
  <1>2. /\ GoodCall(Of(j), job[j]) /\ pc(j) = "name"
        /\ UNCHANGED <<ask, db, answer, kept, overlapped, faults, crashes>>
    BY DEF ResolveName, Local
  <1>3. Same(job[j], s, {"pc", "name"}) /\ s.pc \in {"request", "acquire"}
    BY <1>2 DEF GoodCall, Same, Memory
  <1>4. Put(j, s)
    BY <1>1
  <1> HIDE DEF s
  <1>5. GoodCall(Of(j), s)
    BY <1>2, <1>3 DEF GoodCall, Same, Memory, pc, Places, LocalSteps, Documented, Judged, Naming, Reading, Deleting,
                      Linking, BeforePaper, HandlerReads
  <1>6. s.pc \in Going /\ s.pc \notin Writing /\ s.pc \notin Linking
    BY <1>3 DEF Going, Ending, RunPlaces, Places, LocalSteps, HandlerReads, Writing, Naming, Reading, Deleting, Linking
  <1> QED
    BY <1>2, <1>4, <1>5, <1>6, RunsOn

LEMMA CreateRequestOK ==
  ASSUME Local, Bounded, NEW j \in Jobs, CreateRequest(j)
  PROVE  Local' /\ Quiet(j)
  <1> DEFINE s == [job[j] EXCEPT !.pc = "acquire"]
  <1>1. /\ GoodCall(Of(j), job[j]) /\ pc(j) = "request" /\ GoodAnswer(Of(j), pc(j), answer[j], requests[j])
        /\ UNCHANGED <<ask, papers, claims, verifs, costs, answer, kept, overlapped, faults, crashes>>
    BY DEF CreateRequest, Local
  <1>2. Same(job[j], s, {"pc"}) /\ s.pc = "acquire"
    BY <1>1 DEF GoodCall, Same, Memory
  <1>3. Put(j, s)
    BY DEF CreateRequest, Goto
  <1> HIDE DEF s
  <1>4. GoodCall(Of(j), s)
    BY <1>1, <1>2 DEF GoodCall, Same, Memory, pc, Places, LocalSteps, Documented, Judged, Naming, Reading, Deleting,
                      Linking, BeforePaper, HandlerReads
  <1>5. GoodAnswer(Of(j), s.pc, answer[j], "received")
    BY <1>1, <1>2 DEF GoodAnswer, RunPlaces, Places, LocalSteps, HandlerReads, insufficientData, Says, Pending
  <1>6. /\ DOMAIN answer' = Jobs /\ \A k \in Jobs : answer'[k] = answer[k]
        /\ DOMAIN requests' = Jobs /\ requests'[j] = "received" /\ \A k \in Jobs \ {j} : requests'[k] = requests[k]
        /\ DOMAIN costs' = Jobs /\ \A k \in Jobs : costs'[k] \subseteq {"l2", "l3"}
    BY DEF Local, CreateRequest
  <1>7. Local'
    BY <1>1, <1>3, <1>4, <1>5, <1>6, LocalStep
  <1>8. DOMAIN job' = Jobs /\ job'[j] = s /\ \A k \in Jobs \ {j} : job'[k] = job[k]
    BY <1>1, <1>3, <1>4, PutStep
  <1>9. /\ s.pc \notin Writing /\ s.pc \notin Linking /\ pc(j) \in BeforePaper /\ pc(j) \notin Writing
    BY <1>1, <1>2 DEF Writing, BeforePaper, Naming, Reading, Deleting, HandlerReads, Linking
  <1>10. Quiet(j)
    BY <1>1, <1>8, <1>9 DEF Quiet, Verifies, Bounded
  <1> QED
    BY <1>7, <1>10

\* Nothing was fetched, or the model failed.
LEMMA ThrowsInRun ==
  ASSUME Local, Bounded, NEW j \in Jobs, Throws(j), pc(j) \in {"acquire", "extract", "createVer", "cost"},
         UNCHANGED <<ask, db, kept, overlapped, faults, crashes>>
  PROVE  Local' /\ Quiet(j)
  <1>1. /\ pc(j) \notin {"idle", "done", "dead"} /\ pc(j) \in Going /\ pc(j) \notin Writing
    BY DEF Going, Ending, RunPlaces, Places, LocalSteps, HandlerReads, Writing, Naming, Reading, Deleting
  <1> QED
    BY <1>1, ThrowsQuietly DEF Bounded

LEMMA AcquireOK ==
  ASSUME Local, Bounded, NEW j \in Jobs, Acquire(j)
  PROVE  Local' /\ Quiet(j)
  <1> DEFINE scan == Of(j) = "legitimacy_scan"
             s == [job[j] EXCEPT !.pc = IF scan THEN "findName" ELSE "extract",
                                 !.verdict = IF scan THEN L1Verdict(Doc(j)) ELSE ""]
  <1>1. /\ GoodCall(Of(j), job[j]) /\ pc(j) = "acquire"
        /\ UNCHANGED <<ask, db, kept, overlapped, faults, crashes>>
        /\ Throws(j) \/ (Put(j, s) /\ answer' = answer)
    BY DEF Acquire, Local
  <1>2. CASE Throws(j)
    BY <1>1, <1>2, ThrowsInRun
  <1>3. CASE Put(j, s) /\ answer' = answer
    <2>1. Same(job[j], s, {"pc", "verdict"})
      BY <1>1 DEF GoodCall, Same, Memory
    <2>2. /\ scan => s.pc = "findName" /\ s.verdict = L1Verdict(Doc(j))
          /\ ~scan => s.pc = "extract"
      BY <1>1 DEF GoodCall, Memory
    <2> HIDE DEF s
    <2>3. scan => s.verdict \in Verdict
      BY <2>2, Verdicts3
    <2>4. GoodCall(Of(j), s)
      BY <1>1, <2>1, <2>2, <2>3 DEF GoodCall, Same, Memory, pc, Places, LocalSteps, Documented, Judged, Naming, Reading, Deleting,
                      Linking, BeforePaper, HandlerReads
    <2>5. s.pc \in Going /\ s.pc \notin Writing /\ s.pc \notin Linking
      BY <2>2 DEF Going, Ending, RunPlaces, Places, LocalSteps, HandlerReads, Writing, Naming, Reading, Deleting, Linking
    <2> QED
      BY <1>1, <1>3, <2>4, <2>5, RunsOn
  <1> QED
    BY <1>1, <1>2, <1>3

LEMMA ExtractionOK ==
  ASSUME Local, Bounded, NEW j \in Jobs, extractClaims(j) \/ RateLimited(j) \/ ExtractionFails(j)
  PROVE  Local' /\ Quiet(j)
  <1>1. /\ GoodCall(Of(j), job[j]) /\ pc(j) = "extract" /\ job[j].doc \in DOMAIN DocumentOf
        /\ UNCHANGED <<ask, db, kept, overlapped, faults, crashes>>
    BY DEF extractClaims, RateLimited, ExtractionFails, Local, GoodCall, pc, Documented
  <1>2. CASE extractClaims(j)
    <2> DEFINE full == Of(j) \in FullOfferings
    <2>1. PICK n \in ClaimCounts(job[j].doc) :
            Put(j, [job[j] EXCEPT !.pc = IF full THEN "evaluate" ELSE "findName", !.found = n, !.tries = 0])
      BY <1>2 DEF extractClaims
    <2> DEFINE s == [job[j] EXCEPT !.pc = IF full THEN "evaluate" ELSE "findName", !.found = n, !.tries = 0]
    <2>2. Same(job[j], s, {"pc", "found", "tries"}) /\ s.found = n /\ s.tries = 0
      BY <1>1 DEF GoodCall, Same, Memory
    <2>3. /\ full => s.pc = "evaluate"
          /\ ~full => s.pc = "findName"
      BY <1>1 DEF GoodCall, Memory
    <2> HIDE DEF s
    <2>4. n \in Nat /\ 0 \in 0..ExtractRetries
      BY <1>1, ClaimCountsOK DEF ExtractRetries
    <2>5. s.doc = job[j].doc /\ s.found \in Nat /\ s.tries \in 0..ExtractRetries /\ s.found \in ClaimCounts(s.doc)
      BY <1>1, <2>2, <2>4 DEF Same, GoodCall, Memory
    <2>6. GoodCall(Of(j), s)
      BY <1>1, <2>2, <2>3, <2>4, <2>5 DEF GoodCall, Same, Memory, pc, Places, LocalSteps, Documented, Judged, Naming, Reading, Deleting,
                      Linking, BeforePaper, HandlerReads
    <2>7. s.pc \in Going /\ s.pc \notin Writing /\ s.pc \notin Linking
      BY <2>3 DEF Going, Ending, RunPlaces, Places, LocalSteps, HandlerReads, Writing, Naming, Reading, Deleting, Linking
    <2> QED
      BY <1>1, <1>2, <2>1, <2>6, <2>7, RunsOn DEF extractClaims, s
  <1>3. CASE RateLimited(j)
    <2> DEFINE s == [job[j] EXCEPT !.tries = @ + 1]
    <2>1. Same(job[j], s, {"tries"}) /\ s.tries = job[j].tries + 1
      BY <1>1 DEF GoodCall, Same, Memory
    <2>2. s.pc = "extract"
      BY <1>1, <2>1 DEF Same, GoodCall, Memory, pc
    <2>3. Put(j, s) /\ answer' = answer
      BY <1>3 DEF RateLimited
    <2> HIDE DEF s
    <2>4. \A n \in 0..ExtractRetries : n < ExtractRetries => n + 1 \in 0..ExtractRetries
      BY DEF ExtractRetries
    <2>45. s.tries \in 0..ExtractRetries
      BY <1>1, <1>3, <2>1, <2>4 DEF RateLimited, GoodCall
    <2>5. GoodCall(Of(j), s)
      BY <1>1, <2>1, <2>2, <2>45 DEF GoodCall, Same, Memory, pc, Places, LocalSteps, Documented, Judged, Naming, Reading, Deleting,
                      Linking, BeforePaper, HandlerReads
    <2>6. s.pc \in Going /\ s.pc \notin Writing /\ s.pc \notin Linking
      BY <2>2 DEF Going, Ending, RunPlaces, Places, LocalSteps, HandlerReads, Writing, Naming, Reading, Deleting, Linking
    <2> QED
      BY <1>1, <2>3, <2>5, <2>6, RunsOn
  <1>4. CASE ExtractionFails(j)
    BY <1>1, <1>4, ThrowsInRun DEF ExtractionFails
  <1> QED
    BY <1>2, <1>3, <1>4

LEMMA evaluateClaimsOK ==
  ASSUME Local, Bounded, NEW j \in Jobs, evaluateClaims(j)
  PROVE  Local' /\ Quiet(j)
  <1>1. /\ GoodCall(Of(j), job[j]) /\ pc(j) = "evaluate"
        /\ UNCHANGED <<ask, db, answer, kept, overlapped, faults, crashes>>
        /\ job[j].doc \in DOMAIN DocumentOf /\ job[j].found \in ClaimCounts(job[j].doc)
    BY DEF evaluateClaims, Local, GoodCall, pc, Documented, Judged
  <1>2. PICK run : /\ Put(j, [job[j] EXCEPT !.pc = "findName", !.verdict = run.verdict, !.stages = run.stages])
                   /\ run.verdict \in Verdict /\ run.stages \subseteq {"l2", "l3"}
    BY <1>1, EvaluationOK DEF evaluateClaims
  <1> DEFINE s == [job[j] EXCEPT !.pc = "findName", !.verdict = run.verdict, !.stages = run.stages]
  <1>3. /\ Same(job[j], s, {"pc", "verdict", "stages"}) /\ s.pc = "findName"
        /\ s.verdict = run.verdict /\ s.stages = run.stages
    BY <1>1 DEF GoodCall, Same, Memory
  <1>4. Put(j, s)
    BY <1>2
  <1> HIDE DEF s
  <1>5. GoodCall(Of(j), s)
    BY <1>1, <1>2, <1>3 DEF GoodCall, Same, Memory, pc, Places, LocalSteps, Documented, Judged, Naming, Reading, Deleting,
                      Linking, BeforePaper, HandlerReads
  <1>6. s.pc \in Going /\ s.pc \notin Writing /\ s.pc \notin Linking
    BY <1>3 DEF Going, Ending, RunPlaces, Places, LocalSteps, HandlerReads, Writing, Naming, Reading, Deleting, Linking
  <1> QED
    BY <1>1, <1>4, <1>5, <1>6, RunsOn

\* Delivering: the run ends here, or stores its verification first.
LEMMA ReportOK ==
  ASSUME Local, Bounded, NEW j \in Jobs, runL1(j) \/ runL1L2(j) \/ synthesize(j)
  PROVE  Local' /\ Quiet(j)
  <1>1. /\ GoodCall(Of(j), job[j]) /\ pc(j) = "report" /\ job[j].paper \in Jobs \cup {Tmp}
        /\ UNCHANGED <<ask, db, kept, overlapped, faults, crashes>>
    BY DEF runL1, runL1L2, synthesize, Local, GoodCall, pc
  <1>2. Live(j).kind = "live" /\ "legitimacy_scan" \notin FullOfferings /\ "claim_extraction" \notin FullOfferings
    BY DEF Live, FullOfferings
  <1>3. \/ Done(j, Live(j)) /\ Of(j) \notin FullOfferings
        \/ \E place \in {"dropVers", "complete"} :
             /\ Goto(j, place) /\ answer' = answer
             /\ place = "dropVers" => job[j].paper \in Jobs
    BY <1>1, <1>2 DEF runL1, runL1L2, synthesize
  <1>4. CASE Done(j, Live(j)) /\ Of(j) \notin FullOfferings
    <2>1. pc(j) \notin Writing \cup Ending
      BY <1>1 DEF Ending, Writing, Naming, Reading, Deleting
    <2> QED
      BY <1>1, <1>2, <1>4, <2>1, EndsQuietly DEF Bounded
  <1>5. ASSUME NEW place \in {"dropVers", "complete"}, Goto(j, place), answer' = answer,
               place = "dropVers" => job[j].paper \in Jobs
        PROVE  Local' /\ Quiet(j)
    <2> DEFINE s == [job[j] EXCEPT !.pc = place]
    <2>1. Same(job[j], s, {"pc"}) /\ s.pc = place
      BY <1>1 DEF GoodCall, Same, Memory
    <2>2. Put(j, s)
      BY <1>5 DEF Goto
    <2> HIDE DEF s
    <2>3. /\ s.pc \in {"dropVers", "complete"} /\ s.paper = job[j].paper /\ s.found = job[j].found
          /\ s.pc = "dropVers" => s.paper \in Jobs
      BY <1>1, <1>5, <2>1 DEF Same, GoodCall, Memory
    <2>4. GoodCall(Of(j), s)
      BY <1>1, <2>1, <2>3 DEF GoodCall, Same, Memory, pc, Places, LocalSteps, Documented, Judged, Naming, Reading, Deleting,
                              Linking, BeforePaper, HandlerReads
    <2>5. s.pc \in Going /\ s.pc \notin Writing /\ s.pc \notin BeforePaper
      BY <2>3 DEF Going, Ending, RunPlaces, Places, LocalSteps, HandlerReads, Writing, Naming, Reading, Deleting, BeforePaper
    <2> QED
      BY <1>1, <1>5, <2>2, <2>3, <2>4, <2>5, RunsOn
  <1> QED
    BY <1>3, <1>4, <1>5

\* The request row is closed, the buyer still waits.
LEMMA ClosesOK ==
  ASSUME Local, Bounded, NEW j \in Jobs, Complete(j) \/ MarkFailed(j)
  PROVE  Local' /\ Quiet(j)
  <1>1. /\ GoodCall(Of(j), job[j]) /\ GoodAnswer(Of(j), pc(j), answer[j], requests[j])
        /\ pc(j) \in {"complete", "cost", "failing"}
        /\ UNCHANGED <<ask, papers, claims, verifs, costs, answer, kept, overlapped, faults, crashes>>
    BY DEF Complete, MarkFailed, Completing, Local
  <1>2. PICK q, place :
          /\ requests' = [requests EXCEPT ![j] = q] /\ Goto(j, place)
          /\ \/ q = "completed" /\ place = "return" /\ pc(j) # "failing"
             \/ q = "failed" /\ place = "thrown" /\ pc(j) = "failing"
    BY DEF Complete, MarkFailed, Completing
  <1> DEFINE s == [job[j] EXCEPT !.pc = place]
  <1>3. Same(job[j], s, {"pc"}) /\ s.pc = place
    BY <1>1 DEF GoodCall, Same, Memory
  <1>4. Put(j, s)
    BY <1>2 DEF Goto
  <1> HIDE DEF s
  <1>5. GoodCall(Of(j), s)
    BY <1>1, <1>2, <1>3 DEF GoodCall, Same, Memory, pc, Places, LocalSteps, Documented, Judged, Naming, Reading, Deleting,
                      Linking, BeforePaper, HandlerReads
  <1>6. place \in RunPlaces /\ pc(j) \in RunPlaces
    BY <1>1, <1>2 DEF RunPlaces, Places, LocalSteps, HandlerReads
  <1>7. GoodAnswer(Of(j), s.pc, answer[j], q)
    BY <1>1, <1>2, <1>3, <1>6 DEF GoodAnswer, insufficientData, Says, Pending
  <1>8. /\ DOMAIN requests' = Jobs /\ requests'[j] = q /\ \A k \in Jobs \ {j} : requests'[k] = requests[k]
        /\ DOMAIN answer' = Jobs /\ \A k \in Jobs : answer'[k] = answer[k]
        /\ DOMAIN costs' = Jobs /\ \A k \in Jobs : costs'[k] \subseteq {"l2", "l3"}
    BY <1>1, <1>2 DEF Local
  <1>9. Local'
    BY <1>1, <1>4, <1>5, <1>7, <1>8, LocalStep
  <1>10. DOMAIN job' = Jobs /\ job'[j] = s /\ \A k \in Jobs \ {j} : job'[k] = job[k]
    BY <1>1, <1>4, <1>5, PutStep
  <1>11. s.pc \notin Writing \cup BeforePaper \cup Linking /\ pc(j) \notin Writing
    BY <1>1, <1>2, <1>3 DEF Writing, BeforePaper, Naming, Reading, Deleting, HandlerReads, Linking
  <1> QED
    BY <1>1, <1>9, <1>10, <1>11 DEF Quiet, Verifies, Bounded

\* A statement on the request row whose reply is lost.
LEMMA ReplyLostOK ==
  ASSUME Local, Bounded, NEW j \in Jobs, ReplyLost(j)
  PROVE  Local' /\ Quiet(j)
  <1>1. /\ GoodCall(Of(j), job[j]) /\ GoodAnswer(Of(j), pc(j), answer[j], requests[j])
        /\ pc(j) \in {"request", "complete", "cost", "failing"}
        /\ UNCHANGED <<ask, papers, claims, verifs, costs, kept, overlapped, crashes>>
    BY DEF ReplyLost, Completing, Local
  <1>2. faults' \in Nat /\ faults' >= faults /\ faults' + crashes <= MaxFaults
    BY BoundsAssumption DEF ReplyLost, Bounded
  <1>3. PICK q :
          /\ requests' = [requests EXCEPT ![j] = q]
          /\ \/ q = "received" /\ pc(j) = "request"
             \/ q = "completed" /\ pc(j) \in {"complete", "cost"}
             \/ q = "failed" /\ pc(j) = "failing"
    BY <1>1 DEF ReplyLost
  <1>4. /\ DOMAIN requests' = Jobs /\ requests'[j] = q /\ \A k \in Jobs \ {j} : requests'[k] = requests[k]
        /\ DOMAIN costs' = Jobs /\ \A k \in Jobs : costs'[k] \subseteq {"l2", "l3"}
    BY <1>1, <1>3 DEF Local
  <1>5. /\ "done" \notin Writing \cup BeforePaper \cup Linking /\ "failing" \notin Writing \cup BeforePaper \cup Linking
        /\ pc(j) \notin Writing \cup HandlerReads
    BY <1>1 DEF Writing, BeforePaper, Naming, Reading, Deleting, HandlerReads, Linking
  <1>6. \/ Done(j, insufficientData)
        \/ Goto(j, "failing") /\ answer' = answer /\ pc(j) # "failing"
    BY <1>5 DEF ReplyLost, Throws
  <1>7. CASE Done(j, insufficientData)
    <2>1. insufficientData.kind = "insufficient"
      BY DEF insufficientData, Says
    <2>2. /\ Local'
          /\ DOMAIN job' = Jobs /\ job'[j].pc = "done" /\ \A k \in Jobs \ {j} : job'[k] = job[k]
      BY <1>1, <1>3, <1>4, <1>7, <2>1, Ended
    <2> QED
      BY <1>1, <1>2, <1>5, <2>2 DEF Quiet, Verifies
  <1>8. CASE Goto(j, "failing") /\ answer' = answer /\ pc(j) # "failing"
    <2> DEFINE s == [job[j] EXCEPT !.pc = "failing"]
    <2>1. Same(job[j], s, {"pc"}) /\ s.pc = "failing"
      BY <1>1 DEF GoodCall, Same, Memory
    <2>2. Put(j, s)
      BY <1>8 DEF Goto
    <2> HIDE DEF s
    <2>3. GoodCall(Of(j), s)
      BY <1>1, <2>1 DEF GoodCall, Same, Memory, pc, Places, LocalSteps, Documented, Judged, Naming, Reading, Deleting,
                        Linking, BeforePaper, HandlerReads
    <2>4. "failing" \in RunPlaces /\ pc(j) \in RunPlaces
      BY <1>1 DEF RunPlaces, Places, LocalSteps, HandlerReads
    <2>5. GoodAnswer(Of(j), s.pc, answer[j], q)
      BY <1>1, <1>3, <1>8, <2>1, <2>4 DEF GoodAnswer, insufficientData, Says, Pending
    <2>6. DOMAIN answer' = Jobs /\ \A k \in Jobs : answer'[k] = answer[k]
      BY <1>8 DEF Local
    <2>7. Local'
      BY <1>1, <1>4, <2>2, <2>3, <2>5, <2>6, LocalStep
    <2>8. DOMAIN job' = Jobs /\ job'[j] = s /\ \A k \in Jobs \ {j} : job'[k] = job[k]
      BY <1>1, <2>2, <2>3, PutStep
    <2> QED
      BY <1>1, <1>2, <1>5, <2>1, <2>7, <2>8 DEF Quiet, Verifies
  <1> QED
    BY <1>6, <1>7, <1>8

\* The answer of a run that is over.
LEMMA AnswersOK ==
  ASSUME Local, Bounded, NEW j \in Jobs, RunReturns(j) \/ RunThrows(j)
  PROVE  Local' /\ Quiet(j)
  <1>1. /\ UNCHANGED <<ask, db, kept, overlapped, faults, crashes>>
        /\ \/ pc(j) = "return" /\ Done(j, Live(j))
           \/ pc(j) = "thrown" /\ Done(j, insufficientData)
    BY DEF RunReturns, RunThrows
  <1>2. Live(j).kind = "live" /\ insufficientData.kind = "insufficient"
    BY DEF Live, insufficientData, Says
  <1>3. pc(j) \notin Writing \cup {"idle", "done", "dead"}
    BY <1>1 DEF Writing, Naming, Reading, Deleting
  <1> QED
    BY <1>1, <1>2, <1>3, EndsQuietly DEF Bounded

\* Steps that touch no row but those of the costs, and move no call.
Elsewhere == UNCHANGED <<ask, papers, claims, verifs, job, kept, overlapped, faults, crashes>>

LEMMA CreateCostEventOK ==
  ASSUME Local, Bounded, NEW j \in Jobs, CreateCostEvent(j)
  PROVE  Local' /\ (Quiet(j) \/ Elsewhere)
  <1>1. /\ pc(j) = "cost" /\ GoodCall(Of(j), job[j])
        /\ UNCHANGED <<ask, papers, claims, verifs, requests, kept, overlapped, faults, crashes>>
    BY DEF CreateCostEvent, Local
  <1>2. CASE Throws(j) /\ costs' = costs
    <2>1. UNCHANGED <<ask, db, kept, overlapped, faults, crashes>>
      BY <1>1, <1>2 DEF db
    <2> QED
      BY <1>1, <1>2, <2>1, ThrowsInRun
  <1>3. CASE /\ \E stage \in {"l2", "l3"} : costs' = [costs EXCEPT ![j] = @ \cup {stage}]
             /\ UNCHANGED <<job, answer>>
    <2>1. DOMAIN costs' = Jobs /\ \A k \in Jobs : costs'[k] \subseteq {"l2", "l3"}
      BY <1>3 DEF Local
    <2>2. \A k \in Jobs : GoodCall(ask'[k].offering, job'[k]) /\ GoodAnswer(ask'[k].offering, job'[k].pc, answer'[k], requests'[k])
      BY <1>1, <1>3 DEF Local, Of, pc
    <2>3. \A k \in Jobs : (GoodCall(Of(k), job[k]) /\ GoodAnswer(Of(k), pc(k), answer[k], requests[k]))'
      BY <2>2, Zenon DEF GoodCall, GoodAnswer, Of, pc, RunPlaces, Places, LocalSteps, HandlerReads, FullOfferings, Pending,
                         insufficientData, Says
    <2>4. Local'
      BY <1>1, <1>3, <2>1, <2>3 DEF Local
    <2> QED
      BY <1>1, <1>3, <2>4 DEF Elsewhere
  <1> QED
    BY <1>2, <1>3 DEF CreateCostEvent

\* The buyer is told that the run was given up; the run is not.
LEMMA ExpireOK ==
  ASSUME Local, Bounded, NEW j \in Jobs, Expire(j)
  PROVE  Local' /\ Elsewhere
  <1>1. /\ UNCHANGED <<ask, db, job, kept, overlapped, faults, crashes>>
        /\ answer' = [answer EXCEPT ![j] = insufficientData]
        /\ pc(j) \in RunPlaces
    BY DEF Expire, Tell, InRun, RunPlaces, Local, GoodCall, pc
  <1>2. GoodAnswer(Of(j), pc(j), answer[j], requests[j])
    BY DEF Local
  <1>3. GoodAnswer(Of(j), pc(j), insufficientData, requests[j])
    BY <1>1, <1>2 DEF GoodAnswer, insufficientData, Says, RunPlaces
  <1>4. DOMAIN answer' = Jobs /\ answer'[j] = insufficientData /\ \A k \in Jobs \ {j} : answer'[k] = answer[k]
    BY <1>1 DEF Local
  <1>5. \A k \in Jobs : GoodCall(ask'[k].offering, job'[k]) /\ GoodAnswer(ask'[k].offering, job'[k].pc, answer'[k], requests'[k])
    BY <1>1, <1>3, <1>4 DEF Local, Of, pc, db
  <1>6. \A k \in Jobs : (GoodCall(Of(k), job[k]) /\ GoodAnswer(Of(k), pc(k), answer[k], requests[k]))'
    BY <1>5, Zenon DEF GoodCall, GoodAnswer, Of, pc, RunPlaces, Places, LocalSteps, HandlerReads, FullOfferings, Pending,
                       insufficientData, Says
  <1> QED
    BY <1>1, <1>4, <1>6 DEF Local, Elsewhere, db

LEMMA StatementFailsOK ==
  ASSUME Local, Bounded, NEW j \in Jobs, StatementFails(j)
  PROVE  Local' /\ Quiet(j)
  <1>1. /\ pc(j) \notin {"idle", "done", "dead"} /\ pc(j) \in HandlerReads \cup Going \cup {"failing"}
        /\ UNCHANGED <<ask, db, kept, overlapped, crashes>> /\ Throws(j)
    BY DEF StatementFails, LocalSteps, RunPlaces, Going, Ending, Local, GoodCall, pc
  <1>2. faults' \in Nat /\ faults' >= faults /\ faults' # 0 /\ faults' + crashes <= MaxFaults
    BY BoundsAssumption DEF StatementFails, Bounded
  <1> QED
    BY <1>1, <1>2, ThrowsQuietly

\* The calls in flight are gone; who had not been answered is told nothing.
LEMMA CrashLocal ==
  ASSUME Local, Bounded, Crash
  PROVE  Local'
  <1>1. /\ UNCHANGED <<ask, db, kept, overlapped, faults>>
        /\ job' = [j \in Jobs |-> IF j \in InFlight THEN [Idle EXCEPT !.pc = "dead"] ELSE job[j]]
        /\ answer' = [j \in Jobs |-> IF j \in InFlight /\ answer[j] = Pending THEN Says("lost") ELSE answer[j]]
    BY DEF Crash
  <1>2. ASSUME NEW k \in Jobs
        PROVE  /\ GoodCall(ask'[k].offering, job'[k])
               /\ GoodAnswer(ask'[k].offering, job'[k].pc, answer'[k], requests'[k])
    <2>1. GoodCall(Of(k), job[k]) /\ GoodAnswer(Of(k), pc(k), answer[k], requests[k]) /\ ask'[k].offering = Of(k)
      BY <1>1 DEF Local, Of
    <2>2. CASE k \in InFlight
      <3>1. job'[k] = [Idle EXCEPT !.pc = "dead"] /\ GoodCall(Of(k), job'[k]) /\ job'[k].pc = "dead"
        BY <1>1, <2>2, AtRest
      <3>2. answer'[k] = IF answer[k] = Pending THEN Says("lost") ELSE answer[k]
        BY <1>1, <2>2
      <3>3. Says("lost").kind = "lost" /\ insufficientData.kind = "insufficient"
        BY DEF Says, insufficientData
      <3>4. pc(k) \notin {"idle", "done", "dead"} /\ requests'[k] = requests[k]
        BY <1>1, <2>2 DEF InFlight, db
      <3>5. GoodAnswer(Of(k), "dead", answer'[k], requests'[k])
        BY <2>1, <3>2, <3>3, <3>4 DEF GoodAnswer
      <3> QED
        BY <2>1, <3>1, <3>5
    <2>3. CASE k \notin InFlight
      BY <1>1, <2>1, <2>3 DEF pc, db
    <2> QED
      BY <2>2, <2>3
  <1>3. \A k \in Jobs : (GoodCall(Of(k), job[k]) /\ GoodAnswer(Of(k), pc(k), answer[k], requests[k]))'
    BY <1>2, Zenon DEF GoodCall, GoodAnswer, Of, pc, RunPlaces, Places, LocalSteps, HandlerReads, FullOfferings, Pending,
                       insufficientData, Says
  <1> QED
    BY <1>1, <1>3 DEF Local, db

-----------------------------------------------------------------------------
(* The writing of the rows: what each statement leaves in the memory of    *)
(* the call that runs it.                                                  *)

Others(j) == DOMAIN job' = Jobs /\ \A k \in Jobs \ {j} : job'[k] = job[k]

\* A step of a run that stays in the run and answers nobody.
LEMMA GoesOn ==
  ASSUME Local, NEW j \in Jobs, NEW s, Put(j, s), GoodCall(Of(j), s), pc(j) \in Going,
         s.pc \in Going \/ (s.pc = "return" /\ Of(j) \notin FullOfferings),
         UNCHANGED <<ask, requests, costs, answer>>
  PROVE  Local' /\ Others(j) /\ job'[j] = s
  <1>1. Others(j) /\ job'[j] = s
    BY PutStep DEF Others
  <1>2. GoodAnswer(Of(j), pc(j), answer[j], requests[j])
    BY DEF Local
  <1>3. GoodAnswer(Of(j), s.pc, answer[j], requests[j])
    <2>1. "return" \in RunPlaces
      BY DEF RunPlaces, Places, LocalSteps, HandlerReads
    <2> QED
      BY <1>2, <2>1 DEF GoodAnswer, RunPlaces, Going, Ending
  <1>4. /\ DOMAIN answer' = Jobs /\ \A k \in Jobs : answer'[k] = answer[k]
        /\ DOMAIN requests' = Jobs /\ \A k \in Jobs : requests'[k] = requests[k]
        /\ DOMAIN costs' = Jobs /\ \A k \in Jobs : costs'[k] \subseteq {"l2", "l3"}
    BY DEF Local
  <1> QED
    BY <1>1, <1>3, <1>4, LocalStep

\* The first read of the upsert: a forbidden name is quiet, any other starts the candidates.
LEMMA FindByNameLocal ==
  ASSUME Local, Bounded, NEW j \in Jobs, FindByName(j)
  PROVE  /\ Local'
         /\ \/ Quiet(j)
            \/ /\ Others(j)
               /\ job'[j].pc \in {"findToken", "count"} /\ job'[j].name = job[j].name
               /\ job'[j].todo = findByProjectName(job[j].name) /\ DOMAIN job'[j].count = {}
               /\ job[j].name \notin ViolationNames
               /\ overlapped' = (overlapped \/ \E k \in Jobs \ {j} : Upserting(k))
  <1>1. /\ GoodCall(Of(j), job[j]) /\ pc(j) = "findName"
        /\ UNCHANGED <<ask, db, answer, kept, faults, crashes>>
    BY DEF FindByName, Local
  <1>2. CASE hasViolationKeywords(job[j].name)
    <2> DEFINE s == [job[j] EXCEPT !.pc = "report", !.paper = Tmp]
    <2>1. Same(job[j], s, {"pc", "paper"}) /\ s.pc = "report" /\ s.paper = Tmp
      BY <1>1 DEF GoodCall, Same, Memory
    <2>2. Put(j, s) /\ overlapped' = overlapped
      BY <1>2 DEF FindByName
    <2> HIDE DEF s
    <2>3. GoodCall(Of(j), s)
      BY <1>1, <2>1 DEF GoodCall, Same, Memory, pc, Places, LocalSteps, Documented, Judged, Naming, Reading, Deleting,
                          Linking, BeforePaper, HandlerReads
    <2>4. s.pc \in Going /\ s.pc \notin Writing
      BY <2>1 DEF Going, Ending, RunPlaces, Places, LocalSteps, HandlerReads, Writing, Naming, Reading, Deleting
    <2> QED
      BY <1>1, <2>1, <2>2, <2>3, <2>4, RunsOn
  <1>3. CASE ~hasViolationKeywords(job[j].name)
    <2> DEFINE place == IF ask[j].token = "" THEN "count" ELSE "findToken"
               rows == findByProjectName(job[j].name)
               s == [job[j] EXCEPT !.pc = place, !.todo = rows]
    <2>1. Same(job[j], s, {"pc", "todo"}) /\ s.pc = place /\ s.todo = rows
      BY <1>1 DEF GoodCall, Same, Memory
    <2>2. Put(j, s)
      BY <1>3 DEF FindByName
    <2>3. place \in {"findToken", "count"} /\ rows \subseteq Jobs
      BY DEF findByProjectName
    <2> HIDE DEF s, place
    <2>4. GoodCall(Of(j), s)
      <3> HIDE DEF rows
      <3> QED
        BY <1>1, <2>1, <2>3 DEF GoodCall, Same, Memory, pc, Places, LocalSteps, Documented, Judged, Naming, Reading, Deleting,
                          Linking, BeforePaper, HandlerReads
    <2>5. s.pc \in Going /\ pc(j) \in Going
      BY <1>1, <2>1, <2>3 DEF Going, Ending, RunPlaces, Places, LocalSteps, HandlerReads
    <2>6. s.name = job[j].name /\ DOMAIN s.count = {}
      BY <1>1, <2>1 DEF Same, GoodCall, Memory, pc
    <2>7. UNCHANGED <<ask, requests, costs, answer>>
      BY <1>1 DEF db
    <2>8. Local' /\ Others(j) /\ job'[j] = s
      BY <2>2, <2>4, <2>5, <2>7, GoesOn
    <2>9. job[j].name \notin ViolationNames /\ overlapped' = (overlapped \/ \E k \in Jobs \ {j} : Upserting(k))
      BY <1>3 DEF FindByName, hasViolationKeywords
    <2> QED
      BY <2>1, <2>3, <2>6, <2>8, <2>9
  <1> QED
    BY <1>2, <1>3

LEMMA FindByTokenLocal ==
  ASSUME Local, NEW j \in Jobs, FindByToken(j)
  PROVE  /\ Local' /\ Others(j)
         /\ job'[j].pc = "count" /\ job'[j].name = job[j].name /\ DOMAIN job'[j].count = {}
         /\ job'[j].todo = job[j].todo \cup
              filterSameVersionFamily(findByTokenAddress(ask[j].token), job[j].name)
  <1> DEFINE rows == job[j].todo \cup filterSameVersionFamily(findByTokenAddress(ask[j].token), job[j].name)
             s == [job[j] EXCEPT !.pc = "count", !.todo = rows]
  <1>1. GoodCall(Of(j), job[j]) /\ pc(j) = "findToken" /\ UNCHANGED <<ask, requests, costs, answer>>
    BY DEF FindByToken, Local, db
  <1>2. Same(job[j], s, {"pc", "todo"}) /\ s.pc = "count" /\ s.todo = rows
    BY <1>1 DEF GoodCall, Same, Memory
  <1>3. Put(j, s)
    BY DEF FindByToken
  <1>4. rows \subseteq Jobs
    BY <1>1 DEF GoodCall, pc, Reading, filterSameVersionFamily, findByTokenAddress
  <1> HIDE DEF s
  <1>5. GoodCall(Of(j), s)
    <2> HIDE DEF rows
    <2> QED
      BY <1>1, <1>2, <1>4 DEF GoodCall, Same, Memory, pc, Places, LocalSteps, Documented, Judged, Naming, Reading, Deleting,
                          Linking, BeforePaper, HandlerReads
  <1>6. s.pc \in Going /\ pc(j) \in Going
    BY <1>1, <1>2 DEF Going, Ending, RunPlaces, Places, LocalSteps, HandlerReads
  <1>7. s.name = job[j].name /\ DOMAIN s.count = {}
    BY <1>1, <1>2 DEF Same, GoodCall, Memory, pc
  <1>8. Local' /\ Others(j) /\ job'[j] = s
    BY <1>1, <1>3, <1>5, <1>6, GoesOn
  <1> QED
    BY <1>2, <1>7, <1>8

LEMMA CountClaimsLocal ==
  ASSUME Local, Shape, NEW j \in Jobs, CountClaims(j)
  PROVE  /\ Local' /\ Others(j)
         /\ job'[j].pc = "count" /\ job'[j].name = job[j].name /\ job'[j].found = job[j].found
         /\ \E p \in job[j].todo :
              /\ job'[j].todo = job[j].todo \ {p}
              /\ DOMAIN job'[j].count = DOMAIN job[j].count \cup {p}
              /\ \A q \in DOMAIN job'[j].count : job'[j].count[q] = IF q = p THEN claims[p] ELSE job[j].count[q]
  <1>1. /\ GoodCall(Of(j), job[j]) /\ pc(j) = "count" /\ UNCHANGED <<ask, requests, costs, answer>>
        /\ job[j].todo \subseteq Jobs
    BY DEF CountClaims, Local, db, GoodCall, pc, Reading
  <1>2. PICK p \in job[j].todo :
          Put(j, [job[j] EXCEPT !.todo = @ \ {p},
                                !.count = [q \in DOMAIN @ \cup {p} |-> IF q = p THEN claims[p] ELSE @[q]]])
    BY DEF CountClaims
  <1> DEFINE counts == [q \in DOMAIN job[j].count \cup {p} |-> IF q = p THEN claims[p] ELSE job[j].count[q]]
             rest == job[j].todo \ {p}
             s == [job[j] EXCEPT !.todo = rest, !.count = counts]
  <1>3. Put(j, s)
    BY <1>2
  <1>4. Same(job[j], s, {"todo", "count"}) /\ s.todo = rest /\ s.count = counts
    <2> HIDE DEF rest, counts
    <2> QED
      BY <1>1 DEF GoodCall, Same, Memory
  <1>5. /\ DOMAIN counts = DOMAIN job[j].count \cup {p}
        /\ \A q \in DOMAIN counts : counts[q] = IF q = p THEN claims[p] ELSE job[j].count[q]
    OBVIOUS
  <1>6. DOMAIN counts \subseteq Jobs /\ (\A q \in DOMAIN counts : counts[q] \in Nat) /\ rest \subseteq Jobs
    BY <1>1, <1>5 DEF GoodCall, Shape
  <1> HIDE DEF s, counts
  <1>7. s.pc = "count" /\ s.name = job[j].name /\ s.found = job[j].found
    BY <1>1, <1>4 DEF Same, GoodCall, Memory, pc
  <1>8. GoodCall(Of(j), s)
    <2> HIDE DEF rest
    <2> QED
      BY <1>1, <1>4, <1>6, <1>7 DEF GoodCall, Same, Memory, pc, Places, LocalSteps, Documented, Judged, Naming, Reading, Deleting,
                          Linking, BeforePaper, HandlerReads
  <1>9. s.pc \in Going /\ pc(j) \in Going
    BY <1>1, <1>7 DEF Going, Ending, RunPlaces, Places, LocalSteps, HandlerReads
  <1>10. Local' /\ Others(j) /\ job'[j] = s
    BY <1>1, <1>3, <1>8, <1>9, GoesOn
  <1> QED
    BY <1>4, <1>5, <1>7, <1>10

LEMMA NothingCounted == DOMAIN NoCounts = {}
  BY DEF NoCounts

\* A candidate is taken over, replaced under its name, or they are all dropped.
LEMMA DecideLocal ==
  ASSUME Local, NEW j \in Jobs, Decide(j)
  PROVE  /\ Local' /\ Others(j) /\ job'[j].found = job[j].found
         /\ \/ \E p \in DOMAIN job[j].count :
                 /\ job[j].count[p] >= job[j].found
                 /\ job'[j].pc = "report" /\ job'[j].paper = p
                 /\ kept' = [kept EXCEPT ![j] = [name |-> papers[p].name, found |-> job[j].found]]
            \/ /\ kept' = kept
               /\ job'[j].pc = IF job'[j].todo = {} THEN "createPaper" ELSE "delClaims"
               /\ \/ /\ job'[j].name = job[j].name /\ job'[j].todo = DOMAIN job[j].count
                     /\ \A p \in DOMAIN job[j].count : ~(job[j].count[p] > 0)
                  \/ \E p \in DOMAIN job[j].count :
                       /\ ~(job[j].count[p] >= job[j].found)
                       /\ job'[j].name = papers[p].name /\ job'[j].todo = {p}
  <1>1. /\ GoodCall(Of(j), job[j]) /\ pc(j) = "count" /\ UNCHANGED <<ask, requests, costs, answer>>
        /\ DOMAIN job[j].count \subseteq Jobs /\ "" \notin DOMAIN job[j].count /\ pc(j) \in Going
    BY DocumentAssumption DEF Decide, Local, db, GoodCall, Going, Ending, RunPlaces, Places, LocalSteps, HandlerReads
  <1>2. PICK d \in chooseWhitepaperUpsert(job[j].count, job[j].found, job[j].name) :
          IF d.reuse # ""
          THEN Put(j, [job[j] EXCEPT !.pc = "report", !.paper = d.reuse, !.count = NoCounts]) /\ Keeps(j, d.name)
          ELSE /\ Put(j, [job[j] EXCEPT !.pc = IF d.delete = {} THEN "createPaper" ELSE "delClaims",
                                        !.name = d.name, !.todo = d.delete, !.count = NoCounts])
               /\ UNCHANGED kept
    BY DEF Decide
  <1>3. \/ /\ d.reuse = "" /\ d.name = job[j].name /\ d.delete = DOMAIN job[j].count
           /\ \A p \in DOMAIN job[j].count : ~(job[j].count[p] > 0)
        \/ \E p \in DOMAIN job[j].count :
             /\ job[j].count[p] > 0 /\ d.name = papers[p].name
             /\ \/ job[j].count[p] >= job[j].found /\ d.reuse = p /\ d.reuse # ""
                \/ ~(job[j].count[p] >= job[j].found) /\ d.reuse = "" /\ d.delete = {p}
    <2> DEFINE count == job[j].count
               found == job[j].found
               name == job[j].name
    <2>1. d \in chooseWhitepaperUpsert(count, found, name) /\ "" \notin DOMAIN count
      BY <1>1, <1>2
    <2> HIDE DEF count, found, name
    <2>2. \/ /\ d.reuse = "" /\ d.name = name /\ d.delete = DOMAIN count
             /\ \A p \in DOMAIN count : ~(count[p] > 0)
          \/ \E p \in DOMAIN count :
               /\ count[p] > 0 /\ d.name = papers[p].name
               /\ \/ count[p] >= found /\ d.reuse = p /\ d.reuse # ""
                  \/ ~(count[p] >= found) /\ d.reuse = "" /\ d.delete = {p}
      <3> DEFINE withClaims == {p \in DOMAIN count : count[p] > 0}
                 named == {p \in withClaims : papers[p].name = name}
                 choice(p) == IF count[p] >= found THEN [reuse |-> p, name |-> papers[p].name, delete |-> {}]
                              ELSE [reuse |-> "", name |-> papers[p].name, delete |-> {p}]
      <3>1. CASE withClaims = {}
        <4>1. d = [reuse |-> "", name |-> name, delete |-> DOMAIN count]
          BY <2>1, <3>1 DEF chooseWhitepaperUpsert
        <4>2. d.reuse = "" /\ d.name = name /\ d.delete = DOMAIN count
          BY <4>1
        <4> QED
          BY <3>1, <4>2
      <3>2. CASE withClaims # {}
        <4>1. PICK p \in withClaims : d = choice(p)
          BY <2>1, <3>2 DEF chooseWhitepaperUpsert
        <4>2. /\ count[p] >= found => d.reuse = p /\ d.name = papers[p].name
              /\ ~(count[p] >= found) => d.reuse = "" /\ d.name = papers[p].name /\ d.delete = {p}
          BY <4>1
        <4> QED
          BY <2>1, <4>1, <4>2
      <3> QED
        BY <3>1, <3>2
    <2> QED
      BY <2>2 DEF count, found, name
  <1>4. CASE d.reuse # ""
    <2>1. PICK p \in DOMAIN job[j].count : /\ job[j].count[p] >= job[j].found /\ d.reuse = p /\ d.name = papers[p].name
      BY <1>3, <1>4
    <2> DEFINE s == [job[j] EXCEPT !.pc = "report", !.paper = d.reuse, !.count = NoCounts]
    <2>2. Same(job[j], s, {"pc", "paper", "count"}) /\ s.pc = "report" /\ s.paper = d.reuse /\ s.count = NoCounts
      BY <1>1 DEF GoodCall, Same, Memory
    <2>3. Put(j, s) /\ Keeps(j, d.name)
      BY <1>2, <1>4
    <2> HIDE DEF s
    <2>31. DOMAIN s.count = {}
      BY <2>2, NothingCounted, Zenon
    <2>32. s.found = job[j].found
      BY <1>1, <2>2 DEF Same, GoodCall, Memory
    <2>4. s.paper \in Jobs /\ DOMAIN s.count = {} /\ s.found = job[j].found
      BY <1>1, <2>1, <2>2, <2>31, <2>32
    <2>5. GoodCall(Of(j), s)
      BY <1>1, <2>2, <2>4 DEF GoodCall, Same, Memory, pc, Places, LocalSteps, Documented, Judged, Naming, Reading, Deleting,
                          Linking, BeforePaper, HandlerReads
    <2>6. s.pc \in Going
      BY <2>2 DEF Going, Ending, RunPlaces, Places, LocalSteps, HandlerReads
    <2>7. Local' /\ Others(j) /\ job'[j] = s
      BY <1>1, <2>3, <2>5, <2>6, GoesOn
    <2> QED
      BY <2>1, <2>2, <2>3, <2>4, <2>7 DEF Keeps
  <1>5. CASE d.reuse = ""
    <2> DEFINE place == IF d.delete = {} THEN "createPaper" ELSE "delClaims"
               s == [job[j] EXCEPT !.pc = place, !.name = d.name, !.todo = d.delete, !.count = NoCounts]
    <2>1. /\ Same(job[j], s, {"pc", "name", "todo", "count"})
          /\ s.pc = place /\ s.name = d.name /\ s.todo = d.delete /\ s.count = NoCounts
      <3> HIDE DEF place
      <3> QED
        BY <1>1 DEF GoodCall, Same, Memory
    <2>2. Put(j, s) /\ kept' = kept
      BY <1>2, <1>5
    <2>3. place \in {"createPaper", "delClaims"}
      OBVIOUS
    <2> HIDE DEF s
    <2>31. DOMAIN s.count = {}
      BY <2>1, NothingCounted, Zenon
    <2>32. s.found = job[j].found
      BY <1>1, <2>1 DEF Same, GoodCall, Memory
    <2>33. s.todo \subseteq Jobs
      BY <1>1, <1>3, <1>5, <2>1
    <2>4. s.todo \subseteq Jobs /\ DOMAIN s.count = {} /\ s.found = job[j].found
      BY <2>31, <2>32, <2>33
    <2>5. GoodCall(Of(j), s)
      <3> HIDE DEF place
      <3> QED
        BY <1>1, <2>1, <2>3, <2>4 DEF GoodCall, Same, Memory, pc, Places, LocalSteps, Documented, Judged, Naming, Reading, Deleting,
                          Linking, BeforePaper, HandlerReads
    <2>6. s.pc \in Going
      BY <2>1, <2>3 DEF Going, Ending, RunPlaces, Places, LocalSteps, HandlerReads
    <2>7. Local' /\ Others(j) /\ job'[j] = s
      BY <1>1, <2>2, <2>5, <2>6, GoesOn
    <2>8. s.pc = IF s.todo = {} THEN "createPaper" ELSE "delClaims"
      BY <2>1
    <2>9. \/ /\ s.name = job[j].name /\ s.todo = DOMAIN job[j].count
             /\ \A p \in DOMAIN job[j].count : ~(job[j].count[p] > 0)
          \/ \E p \in DOMAIN job[j].count :
               /\ ~(job[j].count[p] >= job[j].found) /\ s.name = papers[p].name /\ s.todo = {p}
      BY <1>3, <1>5, <2>1
    <2> QED
      BY <2>2, <2>4, <2>7, <2>8, <2>9
  <1> QED
    BY <1>4, <1>5

\* The three statements of a deletion, in their order.
LEMMA DeletionLocal ==
  ASSUME Local, NEW j \in Jobs, DeleteClaims(j) \/ DeleteVerifications(j) \/ DeletePaper(j)
  PROVE  /\ Local' /\ Others(j)
         /\ job'[j].name = job[j].name /\ job'[j].found = job[j].found
         /\ DeleteClaims(j) => \E p \in job[j].todo :
              /\ job'[j].pc = "delVers" /\ job'[j].todo = job[j].todo /\ job'[j].paper = p
              /\ claims' = [claims EXCEPT ![p] = 0]
         /\ DeleteVerifications(j) =>
              job'[j].pc = "delPaper" /\ job'[j].todo = job[j].todo /\ job'[j].paper = job[j].paper
         /\ DeletePaper(j) =>
              /\ job'[j].todo = job[j].todo \ {job[j].paper}
              /\ job'[j].pc = IF job'[j].todo = {} THEN "createPaper" ELSE "delClaims"
  <1>1. /\ GoodCall(Of(j), job[j]) /\ pc(j) \in {"delClaims", "delVers", "delPaper"} /\ UNCHANGED <<ask, requests, costs, answer>>
        /\ job[j].todo \subseteq Jobs /\ pc(j) \in Going
    BY DEF DeleteClaims, DeleteVerifications, DeletePaper, Local, GoodCall, pc, Reading, Deleting, Going, Ending, RunPlaces, Places,
           LocalSteps, HandlerReads
  <1>2. ASSUME NEW s, Put(j, s), Same(job[j], s, {"pc", "paper", "todo"}), s.todo \subseteq job[j].todo,
               s.pc \in {"delClaims", "delVers", "delPaper", "createPaper"}, s.paper \in Jobs,
               s.pc \in {"delVers", "delPaper"} => s.paper \in s.todo
        PROVE  Local' /\ Others(j) /\ job'[j] = s /\ s.name = job[j].name /\ s.found = job[j].found
    <2>1. GoodCall(Of(j), s)
      BY <1>1, <1>2 DEF GoodCall, Same, Memory, pc, Places, LocalSteps, Documented, Judged, Naming, Reading, Deleting,
                          Linking, BeforePaper, HandlerReads
    <2>2. s.pc \in Going
      BY <1>2 DEF Going, Ending, RunPlaces, Places, LocalSteps, HandlerReads
    <2>3. s.name = job[j].name /\ s.found = job[j].found
      BY <1>1, <1>2 DEF Same, GoodCall, Memory
    <2> QED
      BY <1>1, <1>2, <2>1, <2>2, <2>3, GoesOn
  <1>3. ASSUME DeleteClaims(j)
        PROVE  /\ Local' /\ Others(j) /\ job'[j].name = job[j].name /\ job'[j].found = job[j].found /\ pc(j) = "delClaims"
               /\ \E p \in job[j].todo :
                    /\ job'[j].pc = "delVers" /\ job'[j].todo = job[j].todo /\ job'[j].paper = p
                    /\ claims' = [claims EXCEPT ![p] = 0]
    <2>1. PICK p \in job[j].todo :
            claims' = [claims EXCEPT ![p] = 0] /\ Put(j, [job[j] EXCEPT !.pc = "delVers", !.paper = p])
      BY <1>3 DEF DeleteClaims
    <2> DEFINE s == [job[j] EXCEPT !.pc = "delVers", !.paper = p]
    <2>2. Same(job[j], s, {"pc", "paper", "todo"}) /\ s.pc = "delVers" /\ s.paper = p /\ s.todo = job[j].todo
      BY <1>1 DEF GoodCall, Same, Memory
    <2> HIDE DEF s
    <2>3. Put(j, s)
      BY <2>1 DEF s
    <2> QED
      BY <1>1, <1>2, <1>3, <2>1, <2>2, <2>3 DEF DeleteClaims
  <1>4. ASSUME DeleteVerifications(j)
        PROVE  /\ Local' /\ Others(j) /\ job'[j].name = job[j].name /\ job'[j].found = job[j].found /\ pc(j) = "delVers"
               /\ job'[j].pc = "delPaper" /\ job'[j].todo = job[j].todo /\ job'[j].paper = job[j].paper
    <2> DEFINE s == [job[j] EXCEPT !.pc = "delPaper"]
    <2>1. /\ Same(job[j], s, {"pc", "paper", "todo"}) /\ s.pc = "delPaper" /\ s.paper = job[j].paper
          /\ s.todo = job[j].todo
      BY <1>1 DEF GoodCall, Same, Memory
    <2>2. Put(j, s) /\ pc(j) = "delVers"
      BY <1>4 DEF DeleteVerifications, Goto
    <2> HIDE DEF s
    <2>3. job[j].paper \in job[j].todo
      BY <1>1, <2>2 DEF GoodCall, pc
    <2> QED
      BY <1>1, <1>2, <2>1, <2>2, <2>3
  <1>5. ASSUME DeletePaper(j)
        PROVE  /\ Local' /\ Others(j) /\ job'[j].name = job[j].name /\ job'[j].found = job[j].found /\ pc(j) = "delPaper"
               /\ job'[j].todo = job[j].todo \ {job[j].paper}
               /\ job'[j].pc = IF job'[j].todo = {} THEN "createPaper" ELSE "delClaims"
    <2> DEFINE rest == job[j].todo \ {job[j].paper}
               place == IF rest = {} THEN "createPaper" ELSE "delClaims"
               s == [job[j] EXCEPT !.pc = place, !.todo = rest]
    <2>1. /\ Same(job[j], s, {"pc", "paper", "todo"}) /\ s.pc = place /\ s.paper = job[j].paper
          /\ s.todo = rest
      <3> HIDE DEF rest, place
      <3> QED
        BY <1>1 DEF GoodCall, Same, Memory
    <2>2. Put(j, s) /\ pc(j) = "delPaper"
      BY <1>5 DEF DeletePaper
    <2> HIDE DEF s
    <2>3. job[j].paper \in job[j].todo
      BY <1>1, <2>2 DEF GoodCall, pc
    <2>4. s.pc \in {"delClaims", "createPaper"} /\ s.todo \subseteq job[j].todo /\ s.paper \in Jobs
      BY <1>1, <2>1, <2>3
    <2> QED
      BY <1>2, <2>1, <2>2, <2>4
  <1>6. ~(DeleteClaims(j) /\ DeleteVerifications(j)) /\ ~(DeleteClaims(j) /\ DeletePaper(j))
        /\ ~(DeleteVerifications(j) /\ DeletePaper(j))
    BY DEF DeleteClaims, DeleteVerifications, DeletePaper
  <1> QED
    BY <1>3, <1>4, <1>5, <1>6

\* A run that throws although no statement failed had lost its whitepaper.
LEMMA GoneOK ==
  ASSUME Local, Bounded, NEW j \in Jobs, Throws(j),
         pc(j) = "createVer" \/ (pc(j) = "createClaim" /\ ~papers[j].row),
         UNCHANGED <<ask, db, kept, overlapped, faults, crashes>>
  PROVE  Local' /\ Quiet(j)
  <1>1. pc(j) \notin {"idle", "done", "dead"} /\ pc(j) \in HandlerReads \cup Going
    BY DEF Going, Ending, RunPlaces, Places, LocalSteps, HandlerReads
  <1>2. faults' \in Nat /\ faults' >= faults /\ faults' + crashes <= MaxFaults
    BY DEF Bounded
  <1>3. pc(j) \in Writing => pc(j) = "createClaim" /\ ~papers[j].row
    BY DEF Writing, Naming, Reading, Deleting
  <1> QED
    BY <1>1, <1>2, <1>3, ThrowsQuietly

LEMMA CreatePaperLocal ==
  ASSUME Local, NEW j \in Jobs, CreatePaper(j)
  PROVE  /\ Local' /\ Others(j)
         /\ job'[j].pc = IF job[j].found = 0 THEN "report" ELSE "createClaim"
         /\ job'[j].paper = j /\ job'[j].made = 0
         /\ job'[j].name = job[j].name /\ job'[j].found = job[j].found
  <1> DEFINE place == IF job[j].found = 0 THEN "report" ELSE "createClaim"
             s == [job[j] EXCEPT !.pc = place, !.paper = j]
  <1>1. GoodCall(Of(j), job[j]) /\ pc(j) = "createPaper" /\ UNCHANGED <<ask, requests, costs, answer>>
    BY DEF CreatePaper, Local
  <1>2. Same(job[j], s, {"pc", "paper"}) /\ s.pc = place /\ s.paper = j
    <2> HIDE DEF place
    <2> QED
      BY <1>1 DEF GoodCall, Same, Memory
  <1>3. Put(j, s)
    BY DEF CreatePaper
  <1>4. place \in {"report", "createClaim"}
    OBVIOUS
  <1> HIDE DEF s
  <1>5. GoodCall(Of(j), s)
    <2> HIDE DEF place
    <2> QED
      BY <1>1, <1>2, <1>4 DEF GoodCall, Same, Memory, pc, Places, LocalSteps, Documented, Judged, Naming, Reading, Deleting,
                          Linking, BeforePaper, HandlerReads
  <1>6. s.pc \in Going /\ pc(j) \in Going
    BY <1>1, <1>2, <1>4 DEF Going, Ending, RunPlaces, Places, LocalSteps, HandlerReads
  <1>7. job[j].made = 0
    BY <1>1 DEF GoodCall, pc, BeforePaper, Naming
  <1>8. s.name = job[j].name /\ s.found = job[j].found /\ s.made = job[j].made
    BY <1>1, <1>2 DEF Same, GoodCall, Memory
  <1>9. Local' /\ Others(j) /\ job'[j] = s
    BY <1>1, <1>3, <1>5, <1>6, GoesOn
  <1> QED
    BY <1>2, <1>7, <1>8, <1>9

\* One claim: a run whose whitepaper is gone throws, the others count it.
LEMMA CreateClaimLocal ==
  ASSUME Local, Bounded, NEW j \in Jobs, CreateClaim(j)
  PROVE  /\ Local'
         /\ \/ Quiet(j)
            \/ /\ Others(j) /\ papers[j].row /\ claims' = [claims EXCEPT ![j] = @ + 1]
               /\ UNCHANGED <<ask, papers, verifs, overlapped, faults, crashes>>
               /\ job'[j].name = job[j].name /\ job'[j].found = job[j].found
               /\ job'[j].made = job[j].made + 1 /\ job'[j].paper = job[j].paper
               /\ \/ job'[j].pc = "createClaim" /\ kept' = kept
                  \/ /\ job'[j].pc = "report" /\ job[j].made + 1 = job[j].found
                     /\ kept' = [kept EXCEPT ![j] = [name |-> job[j].name, found |-> job[j].found]]
  <1>1. GoodCall(Of(j), job[j]) /\ pc(j) = "createClaim"
    BY DEF CreateClaim, Local
  <1>2. CASE ~papers[j].row
    <2>1. Throws(j) /\ UNCHANGED <<ask, db, kept, overlapped, faults, crashes>>
      BY <1>2 DEF CreateClaim, db
    <2> QED
      BY <1>1, <1>2, <2>1, GoneOK
  <1>3. CASE papers[j].row
    <2> DEFINE last == job[j].made + 1 = job[j].found
               place == IF last THEN "report" ELSE "createClaim"
               made == job[j].made + 1
               s == [job[j] EXCEPT !.pc = place, !.made = made]
    <2>1. /\ Put(j, s) /\ claims' = [claims EXCEPT ![j] = @ + 1]
          /\ IF last THEN Keeps(j, job[j].name) ELSE UNCHANGED kept
          /\ UNCHANGED <<ask, papers, verifs, requests, costs, answer, overlapped, faults, crashes>>
      BY <1>3 DEF CreateClaim
    <2>2. Same(job[j], s, {"pc", "made"}) /\ s.pc = place /\ s.made = made
      <3> HIDE DEF place, made
      <3> QED
        BY <1>1 DEF GoodCall, Same, Memory
    <2>31. place \in {"report", "createClaim"}
      OBVIOUS
    <2>32. job[j].made \in Nat
      BY <1>1 DEF GoodCall
    <2>3. place \in {"report", "createClaim"} /\ made \in Nat
      BY <2>31, <2>32
    <2> HIDE DEF s
    <2>4. s.name = job[j].name /\ s.found = job[j].found /\ s.paper = job[j].paper
      BY <1>1, <2>2 DEF Same, GoodCall, Memory
    <2>5. s.pc = "report" => s.paper \in Jobs \cup {Tmp}
      BY <1>1, <2>4 DEF GoodCall, pc
    <2>6. GoodCall(Of(j), s)
      <3> HIDE DEF place, made
      <3> QED
        BY <1>1, <2>2, <2>3, <2>5 DEF GoodCall, Same, Memory, pc, Places, LocalSteps, Documented, Judged, Naming, Reading, Deleting,
                          Linking, BeforePaper, HandlerReads
    <2>7. s.pc \in Going /\ pc(j) \in Going
      BY <1>1, <2>2, <2>3 DEF Going, Ending, RunPlaces, Places, LocalSteps, HandlerReads
    <2>8. Local' /\ Others(j) /\ job'[j] = s
      BY <2>1, <2>6, <2>7, GoesOn
    <2>9. CASE last
      BY <1>3, <2>1, <2>2, <2>4, <2>8, <2>9 DEF Keeps
    <2>10. CASE ~last
      BY <1>3, <2>1, <2>2, <2>4, <2>8, <2>10
    <2> QED
      BY <2>9, <2>10
  <1> QED
    BY <1>2, <1>3

LEMMA DropVerificationsLocal ==
  ASSUME Local, Shape, NEW j \in Jobs, DropVerifications(j)
  PROVE  Local' /\ Quiet(j)
  <1> DEFINE s == [job[j] EXCEPT !.pc = "createVer"]
  <1>1. GoodCall(Of(j), job[j]) /\ pc(j) = "dropVers" /\ UNCHANGED <<ask, requests, costs, answer>>
    BY DEF DropVerifications, Local
  <1>2. Same(job[j], s, {"pc"}) /\ s.pc = "createVer"
    BY <1>1 DEF GoodCall, Same, Memory
  <1>3. Put(j, s)
    BY DEF DropVerifications, Goto
  <1> HIDE DEF s
  <1>4. GoodCall(Of(j), s)
    BY <1>1, <1>2 DEF GoodCall, Same, Memory, pc, Places, LocalSteps, Documented, Judged, Naming, Reading, Deleting,
                          Linking, BeforePaper, HandlerReads
  <1>5. s.pc \in Going /\ pc(j) \in Going
    BY <1>1, <1>2 DEF Going, Ending, RunPlaces, Places, LocalSteps, HandlerReads
  <1>6. s.found = job[j].found /\ s.paper = job[j].paper
    BY <1>1, <1>2 DEF Same, GoodCall, Memory
  <1>7. Local' /\ Others(j) /\ job'[j] = s
    BY <1>1, <1>3, <1>4, <1>5, GoesOn
  <1>8. Verifies(j)
    BY DEF DropVerifications, WithoutVerifications, Absent, Verifies, Shape
  <1>9. "dropVers" \notin Writing /\ "createVer" \notin Writing \cup BeforePaper /\ "dropVers" \in Linking
    BY DEF Writing, BeforePaper, Naming, Reading, Deleting, HandlerReads, Linking
  <1>10. /\ UNCHANGED <<ask, papers, claims, kept, overlapped, faults, crashes>>
         /\ faults' \in Nat /\ faults' >= faults /\ faults' + crashes <= MaxFaults
    BY DEF DropVerifications, Shape
  <1>11. Quiet(j)
    BY <1>1, <1>2, <1>6, <1>7, <1>8, <1>9, <1>10 DEF Quiet, Others
  <1> QED
    BY <1>7, <1>11

\* A stored verification counts what the run found, in a whitepaper that is there.
LEMMA StoreLocal ==
  ASSUME Local, Shape, Bounded, NEW j \in Jobs, StoreScan(j) \/ StoreVerification(j)
  PROVE  Local' /\ Quiet(j)
  <1>1. /\ GoodCall(Of(j), job[j]) /\ pc(j) = "createVer"
        /\ UNCHANGED <<ask, papers, claims, requests, costs, kept, overlapped, faults, crashes>>
        /\ Of(j) \in FullOfferings \cup {"legitimacy_scan"}
    BY DEF StoreScan, StoreVerification, Local
  <1>2. job[j].verdict \in Verdict
    BY <1>1 DEF GoodCall, pc, Judged, Linking
  <1>3. PICK v \in Verdict : Inserts(j, v)
    <2>1. CASE StoreScan(j)
      BY <1>2, <2>1 DEF StoreScan
    <2>2. CASE StoreVerification(j)
      <3>1. Delivered(j) \in Verdict
        BY <1>2, Verdicts3 DEF Delivered
      <3> QED
        BY <2>2, <3>1 DEF StoreVerification
    <2> QED
      BY <2>1, <2>2
  <1>4. CASE ~papers[job[j].paper].row
    <2>1. Throws(j) /\ UNCHANGED <<ask, db, kept, overlapped, faults, crashes>>
      BY <1>1, <1>3, <1>4 DEF Inserts, db
    <2> QED
      BY <1>1, <2>1, GoneOK
  <1>5. /\ job[j].paper \in Jobs /\ pc(j) \in Linking /\ pc(j) \notin Writing
        /\ "cost" \notin Writing \cup Linking \cup BeforePaper /\ "return" \notin Writing \cup Linking \cup BeforePaper
    BY <1>1 DEF GoodCall, pc, Writing, BeforePaper, Naming, Reading, Deleting, HandlerReads, Linking
  <1>6. ASSUME papers[job[j].paper].row, Others(j), job'[j].pc \in {"cost", "return"},
               verifs' = [verifs EXCEPT ![j] = Verification(j, v)]
        PROVE  Quiet(j)
    <2>1. /\ Verification(j, v).row = TRUE /\ Verification(j, v).verdict \in Verdict
          /\ Verification(j, v).paper = job[j].paper /\ Verification(j, v).total = job[j].found
      BY DEF Verification
    <2>2. DOMAIN verifs' = DOMAIN verifs /\ \A k \in Jobs : verifs'[k] = IF k = j THEN Verification(j, v) ELSE verifs[k]
      BY <1>6 DEF Shape
    <2>3. Verifies(j)
      BY <1>5, <1>6, <2>1, <2>2 DEF Verifies
    <2>4. faults' \in Nat /\ faults' >= faults /\ faults' + crashes <= MaxFaults
      BY <1>1 DEF Bounded
    <2> QED
      BY <1>1, <1>5, <1>6, <2>3, <2>4 DEF Quiet, Others
  <1>7. CASE papers[job[j].paper].row
    <2> DEFINE place == IF Of(j) = "legitimacy_scan" THEN "return" ELSE "cost"
               s == [job[j] EXCEPT !.pc = place]
    <2>1. Put(j, s) /\ UNCHANGED answer /\ verifs' = [verifs EXCEPT ![j] = Verification(j, v)]
      BY <1>3, <1>7 DEF Inserts, Goto
    <2>2. Same(job[j], s, {"pc"}) /\ s.pc = place
      BY <1>1 DEF GoodCall, Same, Memory
    <2>3. place = "cost" \/ (place = "return" /\ Of(j) \notin FullOfferings)
      BY DEF FullOfferings
    <2> HIDE DEF s, place
    <2>4. GoodCall(Of(j), s)
      BY <1>1, <2>2, <2>3 DEF GoodCall, Same, Memory, pc, Places, LocalSteps, Documented, Judged, Naming, Reading, Deleting,
                          Linking, BeforePaper, HandlerReads
    <2>5. pc(j) \in Going /\ "cost" \in Going
      BY <1>1 DEF Going, Ending, RunPlaces, Places, LocalSteps, HandlerReads
    <2>6. Local' /\ Others(j) /\ job'[j] = s
      BY <1>1, <2>1, <2>2, <2>3, <2>4, <2>5, GoesOn
    <2> QED
      BY <1>6, <1>7, <2>1, <2>2, <2>3, <2>6
  <1> QED
    BY <1>4, <1>7

-----------------------------------------------------------------------------
(* The rows.  First the steps that leave them alone.                       *)

LEMMA OthersStay ==
  ASSUME NEW j \in Jobs, Others(j)
  PROVE  \A k \in Jobs \ {j} :
           /\ job'[k] = job[k] /\ pc(k)' = pc(k) /\ Candidates(k)' = Candidates(k) /\ Known(k)' = Known(k)
  BY DEF Others, pc, Candidates, Known

\* The types a step may count on.
LEMMA Remembered ==
  ASSUME Local
  PROVE  \A k \in Jobs :
           /\ DOMAIN job[k].count \subseteq Jobs /\ (pc(k) \in Reading => job[k].todo \subseteq Jobs)
           /\ job[k].found \in Nat /\ job[k].made \in Nat
  <1>1. SUFFICES ASSUME NEW k \in Jobs
                 PROVE  /\ DOMAIN job[k].count \subseteq Jobs /\ (pc(k) \in Reading => job[k].todo \subseteq Jobs)
                        /\ job[k].found \in Nat /\ job[k].made \in Nat
    OBVIOUS
  <1>2. GoodCall(Of(k), job[k])
    BY DEF Local
  <1> QED
    BY <1>2, Zenon DEF GoodCall, pc

LEMMA CountIsNat ==
  ASSUME Local, NEW k \in Jobs, NEW p \in DOMAIN job[k].count
  PROVE  job[k].count[p] \in Nat
  <1>1. GoodCall(Of(k), job[k])
    BY DEF Local
  <1> QED
    BY <1>1, Zenon DEF GoodCall

LEMMA QuietShape ==
  ASSUME Local, Shape, NEW j \in Jobs, Quiet(j)
  PROVE  Shape'
  <1>1. \A v \in Jobs :
          /\ verifs'[v].row \in BOOLEAN
          /\ verifs'[v].row => verifs'[v].verdict \in Verdict /\ verifs'[v].paper \in Jobs /\ verifs'[v].total \in Nat
    BY Remembered DEF Shape, Quiet, Verifies
  <1>2. DOMAIN verifs' = Jobs
    BY DEF Shape, Quiet, Verifies
  <1> QED
    BY <1>1, <1>2 DEF Shape, Quiet

\* A quiet step leaves no call about to write that was not before.
LEMMA QuietPlaces ==
  ASSUME Local, Local', NEW j \in Jobs, Quiet(j)
  PROVE  /\ Others(j)
         /\ Candidates(j)' = {} /\ \A p \in Jobs : p \in Known(j)' => p \in Known(j)
         /\ pc(j)' \notin Writing
         /\ \A k \in Jobs : pc(k)' \in BeforePaper => pc(k) \in BeforePaper
         /\ \A k \in Jobs : pc(k)' \in Writing => k # j /\ pc(k)' = pc(k) /\ job'[k] = job[k]
  <1>1. Others(j) /\ pc(j)' \notin Writing
    BY DEF Quiet, Others, pc
  <1>2. Candidates(j)' = {}
    BY <1>1 DEF Candidates, Writing, Naming
  <1>3. \A p \in Jobs : p \in Known(j)' => p \in Known(j)
    BY <1>2 DEF Known, Quiet, pc
  <1>4. \A k \in Jobs \ {j} : job'[k] = job[k] /\ pc(k)' = pc(k)
    BY <1>1, OthersStay
  <1>5. pc(j)' \in BeforePaper => pc(j) \in BeforePaper
    BY DEF Quiet, pc
  <1> QED
    BY <1>1, <1>2, <1>3, <1>4, <1>5

LEMMA QuietStored ==
  ASSUME Local, Local', Stored, NEW j \in Jobs, Quiet(j)
  PROVE  Stored'
  <1>1. papers' = papers /\ Others(j)
    BY QuietPlaces DEF Quiet
  <1>2. ASSUME NEW p \in Jobs, pc(p)' \in BeforePaper
        PROVE  ~papers'[p].row /\ \A k \in Jobs : p \notin Known(k)'
    <2>1. pc(p) \in BeforePaper
      BY <1>2, QuietPlaces
    <2>2. ~papers[p].row /\ \A k \in Jobs : p \notin Known(k)
      BY <2>1 DEF Stored
    <2> QED
      BY <1>1, <2>2, QuietPlaces, OthersStay
  <1>3. \A k \in Jobs : \A p \in Candidates(k)' : papers'[p].name \notin ViolationNames
    BY <1>1, QuietPlaces, OthersStay DEF Stored
  <1>4. \A k \in Jobs : pc(k)' \in Naming => job'[k].name \notin ViolationNames
    BY <1>1, QuietPlaces DEF Stored, Writing
  <1>5. \A k \in Jobs : pc(k)' = "createClaim" => papers'[k].name = job'[k].name /\ job'[k].paper = k
    BY <1>1, QuietPlaces DEF Stored, Writing
  <1>6. \A v \in Jobs : verifs'[v].row => papers'[verifs'[v].paper].row
    BY <1>1 DEF Stored, Quiet, Verifies
  <1> QED
    BY <1>1, <1>2, <1>3, <1>4, <1>5, <1>6 DEF Stored

LEMMA QuietAlone ==
  ASSUME Local, Local', Alone, NEW j \in Jobs, Quiet(j)
  PROVE  Alone'
  <1>1. UNCHANGED <<papers, overlapped>> /\ Others(j)
    BY QuietPlaces DEF Quiet
  <1> SUFFICES ASSUME ~overlapped'
               PROVE  Alone'
    BY DEF Alone
  <1>2. ~overlapped
    BY <1>1
  <1>3. \A k \in Jobs : Upserting(k)' => Upserting(k)
    BY QuietPlaces DEF Upserting, Writing, Naming, Reading, Deleting
  <1>4. \A k, m \in Jobs : Upserting(k)' /\ Upserting(m)' => k = m
    BY <1>2, <1>3 DEF Alone
  <1>5. \A p, q \in Jobs : papers'[p].row /\ papers'[q].row /\ papers'[p].name = papers'[q].name => p = q
    BY <1>1, <1>2 DEF Alone
  <1>6. \A k \in Jobs : \A p \in Candidates(k)' : papers'[p].row
    BY <1>1, <1>2, QuietPlaces, OthersStay DEF Alone
  <1>7. \A k \in Jobs : pc(k)' \in Naming =>
          \A p \in Jobs : papers'[p].row /\ papers'[p].name = job'[k].name => p \in Candidates(k)'
    <2> SUFFICES ASSUME NEW k \in Jobs, pc(k)' \in Naming
                 PROVE  \A p \in Jobs : papers'[p].row /\ papers'[p].name = job'[k].name => p \in Candidates(k)'
      OBVIOUS
    <2>1. k # j /\ pc(k) \in Naming /\ job'[k] = job[k]
      BY QuietPlaces DEF Writing
    <2>2. Candidates(k)' = Candidates(k)
      BY <1>1, <2>1, OthersStay
    <2> QED
      BY <1>1, <1>2, <2>1, <2>2 DEF Alone
  <1>8. \A k \in Jobs : pc(k)' = "createClaim" => papers'[k].row
    BY <1>1, <1>2, QuietPlaces DEF Alone, Writing
  <1> QED
    BY <1>4, <1>5, <1>6, <1>7, <1>8 DEF Alone

\* While nothing fails, a quiet step ends no deletion, and a writer it stops has lost its row.
LEMMA QuietDeleting ==
  ASSUME Local, Local', Shape, NEW j \in Jobs, Quiet(j), faults' = 0
  PROVE  /\ faults = 0 /\ (pc(j) \in Writing => pc(j) = "createClaim" /\ ~papers[j].row)
         /\ \A p \in Jobs : (BeingDeleted(p)' <=> BeingDeleted(p)) /\ (Leaving(p)' <=> Leaving(p))
  <1>1. faults = 0 /\ (pc(j) \in Writing => pc(j) = "createClaim" /\ ~papers[j].row) /\ papers' = papers
    BY DEF Quiet, Shape
  <1>2. /\ pc(j) \notin {"delVers", "delPaper"} /\ pc(j)' \notin {"delVers", "delPaper"}
        /\ \A k \in Jobs \ {j} : job'[k] = job[k] /\ pc(k)' = pc(k)
    BY <1>1, QuietPlaces, OthersStay DEF Writing, Naming, Reading, Deleting
  <1>3. \A p \in Jobs : BeingDeleted(p)' <=> BeingDeleted(p)
    BY <1>2 DEF BeingDeleted
  <1>4. \A p \in Jobs : Leaving(p)' <=> Leaving(p)
    BY <1>1, <1>3 DEF Leaving
  <1> QED
    BY <1>1, <1>3, <1>4

LEMMA QuietCounted ==
  ASSUME Local, Local', Shape, Counted, NEW j \in Jobs, Quiet(j)
  PROVE  Counted'
  <1> SUFFICES ASSUME faults' = 0, crashes' = 0
               PROVE  Counted'
    BY DEF Counted
  <1>0. \A k \in Jobs : DOMAIN job[k].count \subseteq Jobs
    BY Remembered
  <1>1. /\ faults = 0 /\ crashes = 0 /\ claims' = claims
        /\ \A p \in Jobs : (BeingDeleted(p)' <=> BeingDeleted(p)) /\ (Leaving(p)' <=> Leaving(p))
    BY QuietDeleting DEF Quiet
  <1>2. \A k \in Jobs : pc(k)' \in Writing => pc(k)' = pc(k) /\ job'[k] = job[k]
    BY QuietPlaces
  <1>3. \A k \in Jobs : pc(k)' = "count" =>
          \A p \in DOMAIN job'[k].count : job'[k].count[p] <= claims'[p] \/ Leaving(p)'
    <2> SUFFICES ASSUME NEW k \in Jobs, pc(k)' = "count", NEW p \in DOMAIN job'[k].count
                 PROVE  job'[k].count[p] <= claims'[p] \/ Leaving(p)'
      OBVIOUS
    <2>0. pc(k) = "count" /\ job'[k] = job[k]
      BY <1>2 DEF Writing, Naming, Reading
    <2>1. pc(k) = "count" /\ job'[k] = job[k] /\ p \in Jobs
      BY <1>0, <2>0
    <2>2. job[k].count[p] <= claims[p] \/ Leaving(p)
      BY <1>1, <2>1 DEF Counted
    <2> QED
      BY <1>1, <2>1, <2>2
  <1>4. \A k \in Jobs : pc(k)' = "createClaim" => job'[k].made <= claims'[k] \/ Leaving(k)'
    BY <1>1, <1>2 DEF Writing, Counted
  <1>5. \A k \in Jobs : pc(k)' \in Linking =>
          \A p \in Jobs : job'[k].paper = p => job'[k].found <= claims'[p] \/ Leaving(p)'
    <2> SUFFICES ASSUME NEW k \in Jobs, pc(k)' \in Linking, NEW p \in Jobs, job'[k].paper = p
                 PROVE  job'[k].found <= claims'[p] \/ Leaving(p)'
      OBVIOUS
    <2>1. pc(k) \in Linking /\ job'[k].paper = job[k].paper /\ job'[k].found = job[k].found
      <3>1. CASE k = j
        BY <3>1 DEF Quiet, pc
      <3>2. CASE k # j
        BY <3>2, QuietPlaces, OthersStay
      <3> QED
        BY <3>1, <3>2
    <2>2. job[k].found <= claims[p] \/ Leaving(p)
      BY <1>1, <2>1 DEF Counted
    <2> QED
      BY <1>1, <2>1, <2>2
  <1>6. \A k \in Jobs : verifs'[k].row =>
          \A p \in Jobs : verifs'[k].paper = p => verifs'[k].total <= claims'[p] \/ BeingDeleted(p)'
    <2> SUFFICES ASSUME NEW k \in Jobs, verifs'[k].row, NEW p \in Jobs, verifs'[k].paper = p
                 PROVE  verifs'[k].total <= claims'[p] \/ BeingDeleted(p)'
      OBVIOUS
    <2>1. CASE verifs'[k] = verifs[k]
      BY <1>1, <2>1 DEF Counted
    <2>2. CASE pc(j) \in Linking /\ papers[job[j].paper].row /\ p = job[j].paper /\ verifs'[k].total = job[j].found
      <3>1. job[j].found <= claims[p] \/ Leaving(p)
        BY <1>1, <2>2 DEF Counted
      <3> QED
        BY <1>1, <2>2, <3>1 DEF Leaving
    <2> QED
      BY <2>1, <2>2 DEF Quiet, Verifies
  <1> QED
    BY <1>3, <1>4, <1>5, <1>6 DEF Counted

\* What a run was stored under is held on to when every name and number is.
LEMMA HeldOn ==
  ASSUME Shape, Calm, Keeping, NEW k \in Jobs, kept'[k] = kept[k],
         \A name : \A found \in Nat : found > 0 /\ Held(name, found) => Held(name, found)'
  PROVE  (kept[k].found > 0 => Held(kept[k].name, kept[k].found))'
  <1> SUFFICES ASSUME kept'[k].found > 0
               PROVE  Held(kept[k].name, kept[k].found)'
    OBVIOUS
  <1>1. PICK name, found : name = kept[k].name /\ found = kept[k].found
    OBVIOUS
  <1>2. Held(name, found) /\ found \in Nat /\ found > 0
    BY <1>1 DEF Keeping, Shape
  <1>3. Held(name, found)'
    BY <1>2
  <1>4. name = kept'[k].name /\ found = kept'[k].found
    BY <1>1
  <1> QED
    BY <1>3, <1>4 DEF Held, Safe, InHand

LEMMA QuietKeeping ==
  ASSUME Local, Local', Shape, Alone, Keeping, NEW j \in Jobs, Quiet(j)
  PROVE  Keeping'
  <1> SUFFICES ASSUME Calm'
               PROVE  Keeping'
    BY DEF Keeping
  <1>1. Calm /\ UNCHANGED <<papers, claims, kept>>
    BY QuietDeleting DEF Calm, Quiet
  <1>2. pc(j) \notin Writing /\ Others(j)
    BY <1>1, QuietDeleting, QuietPlaces DEF Calm, Alone
  <1>3. pc(j)' \notin Writing /\ \A k \in Jobs \ {j} : pc(k)' = pc(k) /\ job'[k] = job[k]
    BY <1>2, QuietPlaces, OthersStay
  <1>4. \A k \in Jobs : pc(k)' = "count" => \A p \in DOMAIN job'[k].count : job'[k].count[p] = claims'[p]
    <2> SUFFICES ASSUME NEW k \in Jobs, pc(k)' = "count"
                 PROVE  \A p \in DOMAIN job'[k].count : job'[k].count[p] = claims'[p]
      OBVIOUS
    <2>1. k # j
      BY <1>3 DEF Writing, Naming, Reading
    <2> QED
      BY <1>1, <1>3, <2>1 DEF Keeping
  <1>5. ASSUME NEW name, NEW found \in Nat, found > 0, Held(name, found)
        PROVE  Held(name, found)'
    <2>1. CASE Safe(name, found)
      <3>1. \A k \in Jobs : pc(k)' \in Deleting => pc(k) \in Deleting /\ job'[k] = job[k]
        BY <1>3 DEF Writing, Naming, Reading
      <3>2. Safe(name, found)'
        BY <1>1, <2>1, <3>1 DEF Safe
      <3> QED
        BY <3>2 DEF Held
    <2>2. CASE InHand(name, found)
      <3>1. PICK k \in Jobs : /\ pc(k) \in Deleting \cup {"createPaper", "createClaim"}
                              /\ job[k].name = name /\ job[k].found >= found
        BY <2>2 DEF InHand
      <3>2. k # j
        BY <1>2, <3>1 DEF Writing, Naming, Reading
      <3>3. InHand(name, found)'
        BY <1>3, <3>1, <3>2 DEF InHand
      <3> QED
        BY <3>3 DEF Held
    <2> QED
      BY <1>5, <2>1, <2>2 DEF Held
  <1>6. \A k \in Jobs : (kept[k].found > 0 => Held(kept[k].name, kept[k].found))'
    BY <1>1, <1>5, HeldOn
  <1> QED
    BY <1>1, <1>4, <1>6 DEF Keeping

\* A quiet step preserves the whole invariant of the rows.
LEMMA QuietStore ==
  ASSUME Local, Local', Store, NEW j \in Jobs, Quiet(j)
  PROVE  Store'
  BY QuietShape, QuietStored, QuietAlone, QuietCounted, QuietKeeping DEF Store

LEMMA ElsewhereStore ==
  ASSUME Store, Elsewhere
  PROVE  Store'
  <1>1. Shape'
    BY DEF Store, Shape, Elsewhere
  <1>2. Stored'
    BY DEF Store, Stored, Elsewhere, Known, Candidates, pc
  <1>3. Alone'
    BY DEF Store, Alone, Elsewhere, Candidates, Upserting, pc
  <1>4. Counted'
    BY DEF Store, Counted, Elsewhere, Leaving, BeingDeleted, pc
  <1>5. Keeping'
    BY DEF Store, Keeping, Elsewhere, Calm, Held, Safe, InHand, pc
  <1> QED
    BY <1>1, <1>2, <1>3, <1>4, <1>5 DEF Store

\* The death of the process leaves the rows, and nobody who knows any.
LEMMA CrashStore ==
  ASSUME Local, Store, Crash
  PROVE  Store'
  <1>1. /\ UNCHANGED <<ask, papers, claims, verifs, kept, overlapped, faults>>
        /\ crashes' \in Nat /\ crashes' # 0 /\ faults + crashes' <= MaxFaults
    BY BoundsAssumption DEF Crash, db, Store, Shape
  <1>2. ASSUME NEW k \in Jobs
        PROVE  /\ pc(k)' \in {"idle", "done", "dead"} /\ Candidates(k)' = {} /\ Known(k)' = {}
               /\ pc(k)' = "idle" => pc(k) = "idle"
    <2>1. pc(k)' \in {"idle", "done", "dead"} /\ (pc(k)' = "idle" => pc(k) = "idle")
      <3>1. CASE k \in InFlight
        <4>1. job'[k] = [Idle EXCEPT !.pc = "dead"]
          BY <3>1 DEF Crash
        <4>2. job'[k].pc = "dead"
          BY <4>1, AtRest
        <4> QED
          BY <4>2 DEF pc
      <3>2. CASE k \notin InFlight
        <4>1. job'[k] = job[k]
          BY <3>2 DEF Crash
        <4> QED
          BY <3>2, <4>1 DEF InFlight, pc
      <3> QED
        BY <3>1, <3>2
    <2>2. pc(k)' \notin Reading /\ pc(k)' \notin Linking
      BY <2>1 DEF Reading, Deleting, Linking
    <2> QED
      BY <2>1, <2>2 DEF Candidates, Known
  <1>3. Shape'
    BY <1>1 DEF Store, Shape
  <1>4. \A k \in Jobs : /\ pc(k)' \notin Naming /\ pc(k)' # "createClaim" /\ ~Upserting(k)'
                        /\ pc(k)' \in BeforePaper => pc(k) \in BeforePaper
    BY <1>2 DEF Naming, Reading, Deleting, Upserting, BeforePaper, HandlerReads
  <1>5. Stored'
    BY <1>1, <1>2, <1>4 DEF Store, Stored
  <1>6. Alone'
    BY <1>1, <1>2, <1>4 DEF Store, Alone
  <1>7. Counted' /\ Keeping'
    BY <1>1 DEF Counted, Keeping, Calm
  <1> QED
    BY <1>3, <1>5, <1>6, <1>7 DEF Store

-----------------------------------------------------------------------------
(* The reads of the upsert.                                                *)

Reads(j) ==
  /\ Others(j) /\ UNCHANGED <<papers, claims, verifs, kept, faults, crashes>>
  /\ pc(j) \in {"findName", "findToken", "count"} /\ pc(j)' \in {"findToken", "count"}
  /\ job'[j].name = job[j].name /\ job[j].name \notin ViolationNames

\* A read of the upsert moves its own call only, and only among the reads.
LEMMA ReadsPlaces ==
  ASSUME NEW j \in Jobs, Reads(j)
  PROVE  /\ \A k \in Jobs \ {j} : /\ job'[k] = job[k] /\ pc(k)' = pc(k)
                                  /\ Candidates(k)' = Candidates(k) /\ Known(k)' = Known(k)
         /\ \A k \in Jobs : pc(k)' \in BeforePaper => pc(k) \in BeforePaper
         /\ \A k \in Jobs : pc(k)' \in {"createClaim"} \cup Linking => k # j
         /\ Known(j)' = Candidates(j)'
         /\ \A p \in Jobs : (BeingDeleted(p)' <=> BeingDeleted(p)) /\ (Leaving(p)' <=> Leaving(p))
  <1>1. \A k \in Jobs \ {j} : /\ job'[k] = job[k] /\ pc(k)' = pc(k)
                              /\ Candidates(k)' = Candidates(k) /\ Known(k)' = Known(k)
    BY OthersStay DEF Reads
  <1>2. pc(j) \in BeforePaper /\ pc(j)' \notin {"createClaim"} \cup Linking
    BY DEF Reads, BeforePaper, Naming, Reading, Linking
  <1>3. Known(j)' = Candidates(j)'
    BY <1>2 DEF Known
  <1>4. \A p \in Jobs : BeingDeleted(p)' <=> BeingDeleted(p)
    BY <1>1 DEF Reads, BeingDeleted
  <1>5. \A p \in Jobs : Leaving(p)' <=> Leaving(p)
    BY <1>4 DEF Reads, Leaving
  <1> QED
    BY <1>1, <1>2, <1>3, <1>4, <1>5

LEMMA ReadsStored ==
  ASSUME Stored, NEW j \in Jobs, Reads(j),
         \A p \in Candidates(j)' : p \in Candidates(j) \/ papers[p].row,
         Candidates(j)' \subseteq Jobs
  PROVE  Stored'
  <1>1. UNCHANGED <<papers, verifs>>
    BY DEF Reads
  <1>2. ASSUME NEW p \in Jobs, pc(p)' \in BeforePaper
        PROVE  ~papers'[p].row /\ \A k \in Jobs : p \notin Known(k)'
    <2>1. ~papers[p].row /\ \A k \in Jobs : p \notin Known(k)
      BY <1>2, ReadsPlaces DEF Stored
    <2>2. p \notin Candidates(j)
      BY <2>1 DEF Known
    <2> QED
      BY <1>1, <2>1, <2>2, ReadsPlaces
  <1>3. \A k \in Jobs : \A p \in Candidates(k)' : papers'[p].name \notin ViolationNames
    BY <1>1, ReadsPlaces DEF Stored
  <1>4. \A k \in Jobs : pc(k)' \in Naming => job'[k].name \notin ViolationNames
    BY ReadsPlaces DEF Stored, Reads
  <1>5. \A k \in Jobs : pc(k)' = "createClaim" => papers'[k].name = job'[k].name /\ job'[k].paper = k
    BY <1>1, ReadsPlaces DEF Stored
  <1>6. \A v \in Jobs : verifs'[v].row => papers'[verifs'[v].paper].row
    BY <1>1 DEF Stored
  <1> QED
    BY <1>1, <1>2, <1>3, <1>4, <1>5, <1>6 DEF Stored

LEMMA ReadsAlone ==
  ASSUME Alone, NEW j \in Jobs, Reads(j),
         ~overlapped' => ~overlapped /\ \A k \in Jobs \ {j} : ~Upserting(k),
         ~overlapped' => \A p \in Candidates(j)' : papers[p].row,
         ~overlapped' => \A p \in Jobs : papers[p].row /\ papers[p].name = job[j].name => p \in Candidates(j)'
  PROVE  Alone'
  <1> SUFFICES ASSUME ~overlapped'
               PROVE  Alone'
    BY DEF Alone
  <1>1. papers' = papers /\ ~overlapped /\ job'[j].name = job[j].name
    BY DEF Reads
  <1>2. \A k \in Jobs : Upserting(k)' => k = j
    BY ReadsPlaces DEF Upserting
  <1>3. \A k \in Jobs : pc(k)' \in Naming => k = j
    BY <1>2 DEF Upserting, Naming, Reading, Deleting
  <1>4. \A k \in Jobs : \A p \in Candidates(k)' : papers'[p].row
    BY <1>1, ReadsPlaces DEF Alone
  <1>5. \A k \in Jobs : pc(k)' \in Naming =>
          \A p \in Jobs : papers'[p].row /\ papers'[p].name = job'[k].name => p \in Candidates(k)'
    BY <1>1, <1>3
  <1>6. \A k \in Jobs : pc(k)' = "createClaim" => papers'[k].row
    BY <1>1, ReadsPlaces DEF Alone
  <1> QED
    BY <1>1, <1>2, <1>4, <1>5, <1>6 DEF Alone

LEMMA ReadsCounted ==
  ASSUME Local, Counted, NEW j \in Jobs, Reads(j),
         faults = 0 /\ crashes = 0 /\ pc(j)' = "count" =>
           \A p \in DOMAIN job'[j].count : p \in Jobs /\ (job'[j].count[p] <= claims[p] \/ Leaving(p))
  PROVE  Counted'
  <1> SUFFICES ASSUME faults' = 0, crashes' = 0
               PROVE  Counted'
    BY DEF Counted
  <1>1. faults = 0 /\ crashes = 0 /\ UNCHANGED <<claims, verifs>>
    BY DEF Reads
  <1>2. \A k \in Jobs : pc(k)' = "count" =>
          \A p \in DOMAIN job'[k].count : job'[k].count[p] <= claims'[p] \/ Leaving(p)'
    <2> SUFFICES ASSUME NEW k \in Jobs, pc(k)' = "count", NEW p \in DOMAIN job'[k].count
                 PROVE  job'[k].count[p] <= claims'[p] \/ Leaving(p)'
      OBVIOUS
    <2>1. CASE k = j
      BY <1>1, <2>1, ReadsPlaces
    <2>2. CASE k # j
      <3>1. pc(k) = "count" /\ job'[k] = job[k] /\ p \in Jobs
        BY <2>2, ReadsPlaces, Remembered
      <3>2. job[k].count[p] <= claims[p] \/ Leaving(p)
        BY <1>1, <3>1 DEF Counted
      <3> QED
        BY <1>1, <3>1, <3>2, ReadsPlaces
    <2> QED
      BY <2>1, <2>2
  <1>3. \A k \in Jobs : pc(k)' = "createClaim" => job'[k].made <= claims'[k] \/ Leaving(k)'
    BY <1>1, ReadsPlaces DEF Counted
  <1>4. \A k \in Jobs : pc(k)' \in Linking =>
          \A p \in Jobs : job'[k].paper = p => job'[k].found <= claims'[p] \/ Leaving(p)'
    BY <1>1, ReadsPlaces DEF Counted
  <1>5. \A k \in Jobs : verifs'[k].row =>
          \A p \in Jobs : verifs'[k].paper = p => verifs'[k].total <= claims'[p] \/ BeingDeleted(p)'
    BY <1>1, ReadsPlaces DEF Counted
  <1> QED
    BY <1>2, <1>3, <1>4, <1>5 DEF Counted

LEMMA ReadsKeeping ==
  ASSUME Shape, Keeping, NEW j \in Jobs, Reads(j), overlapped' \in BOOLEAN, ~overlapped' => ~overlapped,
         Calm /\ pc(j)' = "count" => \A p \in DOMAIN job'[j].count : job'[j].count[p] = claims[p]
  PROVE  Keeping'
  <1> SUFFICES ASSUME Calm'
               PROVE  Keeping'
    BY DEF Keeping
  <1>1. Calm /\ UNCHANGED <<papers, claims, kept>>
    BY DEF Calm, Reads
  <1>2. \A k \in Jobs \ {j} : job'[k] = job[k] /\ pc(k)' = pc(k)
    BY ReadsPlaces
  <1>3. \A k \in Jobs : pc(k)' = "count" => \A p \in DOMAIN job'[k].count : job'[k].count[p] = claims'[p]
    <2> SUFFICES ASSUME NEW k \in Jobs, pc(k)' = "count"
                 PROVE  \A p \in DOMAIN job'[k].count : job'[k].count[p] = claims'[p]
      OBVIOUS
    <2>1. CASE k = j
      BY <1>1, <2>1
    <2>2. CASE k # j
      BY <1>1, <1>2, <2>2 DEF Keeping
    <2> QED
      BY <2>1, <2>2
  <1>4. pc(j) \notin Deleting \cup {"createPaper", "createClaim"} /\ pc(j)' \notin Deleting
    BY DEF Reads, Deleting
  <1>5. ASSUME NEW name, NEW found \in Nat, found > 0, Held(name, found)
        PROVE  Held(name, found)'
    <2>1. CASE Safe(name, found)
      <3>1. \A k \in Jobs : pc(k)' \in Deleting => pc(k) \in Deleting /\ job'[k] = job[k]
        BY <1>2, <1>4
      <3>2. Safe(name, found)'
        BY <1>1, <2>1, <3>1 DEF Safe
      <3> QED
        BY <3>2 DEF Held
    <2>2. CASE InHand(name, found)
      <3>1. PICK k \in Jobs : /\ pc(k) \in Deleting \cup {"createPaper", "createClaim"}
                              /\ job[k].name = name /\ job[k].found >= found
        BY <2>2 DEF InHand
      <3>2. k # j
        BY <1>4, <3>1
      <3>3. InHand(name, found)'
        BY <1>2, <3>1, <3>2 DEF InHand
      <3> QED
        BY <3>3 DEF Held
    <2> QED
      BY <1>5, <2>1, <2>2 DEF Held
  <1>6. \A k \in Jobs : (kept[k].found > 0 => Held(kept[k].name, kept[k].found))'
    BY <1>1, <1>5, HeldOn
  <1> QED
    BY <1>1, <1>3, <1>6 DEF Keeping

LEMMA FindByNameStore ==
  ASSUME Local, Local', Store, NEW j \in Jobs, FindByName(j), ~Quiet(j)
  PROVE  Store'
  <1>1. /\ Others(j)
        /\ job'[j].pc \in {"findToken", "count"} /\ job'[j].name = job[j].name
        /\ job'[j].todo = findByProjectName(job[j].name) /\ DOMAIN job'[j].count = {}
        /\ job[j].name \notin ViolationNames
        /\ overlapped' = (overlapped \/ \E k \in Jobs \ {j} : Upserting(k))
    BY FindByNameLocal DEF Store, Shape, Bounded
  <1>2. UNCHANGED <<papers, claims, verifs, kept, faults, crashes>> /\ pc(j) = "findName"
    BY DEF FindByName, db
  <1>3. Reads(j)
    BY <1>1, <1>2 DEF Reads, pc
  <1>4. Candidates(j)' = findByProjectName(job[j].name)
    BY <1>1 DEF Candidates, pc, Reading
  <1>5. /\ \A p \in Candidates(j)' : p \in Jobs /\ papers[p].row
        /\ \A p \in Jobs : papers[p].row /\ papers[p].name = job[j].name => p \in Candidates(j)'
    BY <1>4 DEF findByProjectName
  <1>6. overlapped' \in BOOLEAN /\ (~overlapped' => ~overlapped /\ \A k \in Jobs \ {j} : ~Upserting(k))
    BY <1>1 DEF Store, Shape
  <1>7. Shape'
    BY <1>2, <1>6 DEF Store, Shape
  <1>8. Stored'
    BY <1>3, <1>5, ReadsStored DEF Store
  <1>9. Alone'
    BY <1>3, <1>5, <1>6, ReadsAlone DEF Store
  <1>10. Counted'
    BY <1>1, <1>3, ReadsCounted DEF Store
  <1>11. Keeping'
    BY <1>1, <1>3, <1>6, ReadsKeeping DEF Store
  <1> QED
    BY <1>7, <1>8, <1>9, <1>10, <1>11 DEF Store

\* What a run that is between its first read and its last write knows while runs have not overlapped.
LEMMA AloneNow ==
  ASSUME Alone, NEW j \in Jobs, Upserting(j), ~overlapped
  PROVE  \A k \in Jobs \ {j} : ~Upserting(k) /\ pc(k) \notin Writing /\ Candidates(k) = {}
  <1>1. \A k \in Jobs \ {j} : ~Upserting(k)
    BY DEF Alone
  <1>2. \A k \in Jobs \ {j} : pc(k) \notin Writing /\ pc(k) \notin Reading
    BY <1>1 DEF Upserting, Writing, Naming, Reading, Deleting
  <1> QED
    BY <1>1, <1>2 DEF Candidates

LEMMA FindByTokenStore ==
  ASSUME Local, Local', Store, NEW j \in Jobs, FindByToken(j)
  PROVE  Store'
  <1>1. /\ Others(j)
        /\ job'[j].pc = "count" /\ job'[j].name = job[j].name /\ DOMAIN job'[j].count = {}
        /\ job'[j].todo = job[j].todo \cup
             filterSameVersionFamily(findByTokenAddress(ask[j].token), job[j].name)
    BY FindByTokenLocal
  <1>2. UNCHANGED <<papers, claims, verifs, kept, faults, crashes, overlapped>> /\ pc(j) = "findToken"
    BY DEF FindByToken, db
  <1>3. job[j].name \notin ViolationNames
    BY <1>2 DEF Store, Stored, Naming, Reading
  <1>4. Reads(j)
    BY <1>1, <1>2, <1>3 DEF Reads, pc
  <1>5. GoodCall(Of(j), job[j])
    BY DEF Local
  <1>6. DOMAIN job[j].count = {}
    BY <1>2, <1>5, Zenon DEF GoodCall, pc
  <1>7. Candidates(j) = job[j].todo /\ Candidates(j)' = job'[j].todo
    BY <1>1, <1>2, <1>6 DEF Candidates, pc, Reading
  <1>8. /\ \A p \in Candidates(j)' : p \in Candidates(j) \/ papers[p].row
        /\ Candidates(j) \subseteq Candidates(j)'
    BY <1>1, <1>7 DEF filterSameVersionFamily, findByTokenAddress
  <1>9. Candidates(j)' \subseteq Jobs
    BY <1>1, <1>2, <1>7, Remembered DEF filterSameVersionFamily, findByTokenAddress, Reading
  <1>10. ~overlapped => \A k \in Jobs \ {j} : ~Upserting(k)
    BY <1>2, AloneNow DEF Upserting, Store
  <1>11. pc(j) \in Naming
    BY <1>2 DEF Naming, Reading
  <1>12. ~overlapped => \A p \in Candidates(j)' : papers[p].row
    BY <1>8 DEF Store, Alone
  <1>13. ~overlapped => \A p \in Jobs : papers[p].row /\ papers[p].name = job[j].name => p \in Candidates(j)'
    BY <1>8, <1>11 DEF Store, Alone
  <1>14. Shape'
    BY <1>2 DEF Store, Shape
  <1>15. Stored'
    BY <1>4, <1>8, <1>9, ReadsStored DEF Store
  <1>16. Alone'
    BY <1>2, <1>4, <1>10, <1>12, <1>13, ReadsAlone DEF Store
  <1>17. Counted'
    BY <1>1, <1>4, ReadsCounted DEF Store
  <1>18. Keeping'
    BY <1>1, <1>2, <1>4, ReadsKeeping DEF Store, Shape
  <1> QED
    BY <1>14, <1>15, <1>16, <1>17, <1>18 DEF Store

LEMMA CountClaimsStore ==
  ASSUME Local, Local', Store, NEW j \in Jobs, CountClaims(j)
  PROVE  Store'
  <1>1. Others(j) /\ job'[j].pc = "count" /\ job'[j].name = job[j].name
    BY CountClaimsLocal DEF Store
  <1>2. PICK p \in job[j].todo :
          /\ job'[j].todo = job[j].todo \ {p}
          /\ DOMAIN job'[j].count = DOMAIN job[j].count \cup {p}
          /\ \A q \in DOMAIN job'[j].count : job'[j].count[q] = IF q = p THEN claims[p] ELSE job[j].count[q]
    BY CountClaimsLocal DEF Store
  <1>3. UNCHANGED <<papers, claims, verifs, kept, faults, crashes, overlapped>> /\ pc(j) = "count"
    BY DEF CountClaims, db
  <1>4. job[j].name \notin ViolationNames
    BY <1>3 DEF Store, Stored, Naming, Reading
  <1>5. Reads(j)
    BY <1>1, <1>3, <1>4 DEF Reads, pc
  <1>6. job[j].todo \subseteq Jobs /\ DOMAIN job[j].count \subseteq Jobs
    BY <1>3, Remembered DEF Reading
  <1>7. Candidates(j)' = Candidates(j) /\ Candidates(j) \subseteq Jobs
    BY <1>1, <1>2, <1>3, <1>6 DEF Candidates, pc, Reading
  <1>8. claims[p] \in Nat
    BY <1>6 DEF Store, Shape
  <1>9. faults = 0 /\ crashes = 0 =>
          \A q \in DOMAIN job'[j].count : q \in Jobs /\ (job'[j].count[q] <= claims[q] \/ Leaving(q))
    <2> SUFFICES ASSUME faults = 0, crashes = 0, NEW q \in DOMAIN job'[j].count
                 PROVE  q \in Jobs /\ (job'[j].count[q] <= claims[q] \/ Leaving(q))
      OBVIOUS
    <2>1. CASE q = p
      BY <1>2, <1>6, <1>8, <2>1
    <2>2. CASE q # p
      <3>1. q \in DOMAIN job[j].count /\ job'[j].count[q] = job[j].count[q]
        BY <1>2, <2>2
      <3>2. job[j].count[q] <= claims[q] \/ Leaving(q)
        BY <1>3, <3>1 DEF Store, Counted
      <3> QED
        BY <1>6, <3>1, <3>2
    <2> QED
      BY <2>1, <2>2
  <1>10. Calm => \A q \in DOMAIN job'[j].count : job'[j].count[q] = claims[q]
    BY <1>2, <1>3 DEF Store, Keeping
  <1>11. ~overlapped => \A k \in Jobs \ {j} : ~Upserting(k)
    BY <1>3, AloneNow DEF Upserting, Store
  <1>12. pc(j) \in Naming
    BY <1>3 DEF Naming, Reading
  <1>13. ~overlapped => /\ \A q \in Candidates(j)' : papers[q].row
                        /\ \A q \in Jobs : papers[q].row /\ papers[q].name = job[j].name => q \in Candidates(j)'
    BY <1>7, <1>12 DEF Store, Alone
  <1>14. Shape'
    BY <1>3 DEF Store, Shape
  <1>15. Stored'
    BY <1>5, <1>7, ReadsStored DEF Store
  <1>16. Alone'
    BY <1>3, <1>5, <1>11, <1>13, ReadsAlone DEF Store
  <1>17. Counted'
    BY <1>5, <1>9, ReadsCounted DEF Store
  <1>18. Keeping'
    BY <1>3, <1>5, <1>10, ReadsKeeping DEF Store, Shape
  <1> QED
    BY <1>14, <1>15, <1>16, <1>17, <1>18 DEF Store

-----------------------------------------------------------------------------
(* The decision.                                                           *)

LEMMA DecidePlaces ==
  ASSUME Local, Local', NEW j \in Jobs, Decide(j)
  PROVE  /\ UNCHANGED <<papers, claims, verifs, overlapped, faults, crashes>> /\ Others(j)
         /\ pc(j) = "count" /\ pc(j)' \in {"report", "createPaper", "delClaims"}
         /\ Candidates(j) = DOMAIN job[j].count
         /\ pc(j)' \in Naming => Candidates(j)' = job'[j].todo
         /\ pc(j)' = "report" => Candidates(j)' = {}
         /\ \A p \in Jobs : (BeingDeleted(p)' <=> BeingDeleted(p)) /\ (Leaving(p)' <=> Leaving(p))
  <1>1. /\ UNCHANGED <<papers, claims, verifs, overlapped, faults, crashes>> /\ pc(j) = "count" /\ job[j].todo = {}
    <2>1. pc(j) = "count" /\ job[j].todo = {} /\ UNCHANGED <<ask, db, answer, overlapped, faults, crashes>>
      BY Zenon DEF Decide
    <2> QED
      BY <2>1 DEF db
  <1>2. Others(j) /\ pc(j)' \in {"report", "createPaper", "delClaims"}
        /\ (pc(j)' = "report" \/ pc(j)' = IF job'[j].todo = {} THEN "createPaper" ELSE "delClaims")
    BY DecideLocal DEF pc
  <1>3. Candidates(j) = DOMAIN job[j].count
    BY <1>1 DEF Candidates, Reading
  <1>4. DOMAIN job'[j].count = {}
    <2>1. GoodCall(Of(j), job[j])'
      BY DEF Local
    <2> QED
      BY <1>2, <2>1, Zenon DEF GoodCall, pc
  <1>5. pc(j)' \in Naming => Candidates(j)' = job'[j].todo
    BY <1>2, <1>4 DEF Candidates, Naming, Reading, Deleting
  <1>6. pc(j)' = "report" => Candidates(j)' = {}
    BY DEF Candidates, Reading, Deleting
  <1>7. \A p \in Jobs : BeingDeleted(p)' <=> BeingDeleted(p)
    BY <1>1, <1>2, OthersStay DEF BeingDeleted
  <1>8. \A p \in Jobs : Leaving(p)' <=> Leaving(p)
    BY <1>1, <1>7 DEF Leaving
  <1> QED
    BY <1>1, <1>2, <1>3, <1>5, <1>6, <1>7, <1>8

\* What the two outcomes have in common: the candidates are among those read, with a
\* name that may be stored and rows that are still there.
LEMMA DecideCases ==
  ASSUME Local, Local', NEW j \in Jobs, Decide(j)
  PROVE  \/ \E p \in Candidates(j) :
              /\ job[j].count[p] >= job[j].found /\ job'[j].found = job[j].found
              /\ pc(j)' = "report" /\ job'[j].paper = p
              /\ kept' = [kept EXCEPT ![j] = [name |-> papers[p].name, found |-> job[j].found]]
         \/ /\ kept' = kept /\ pc(j)' \in {"createPaper", "delClaims"} /\ job'[j].found = job[j].found
            /\ pc(j)' = IF job'[j].todo = {} THEN "createPaper" ELSE "delClaims"
            /\ job'[j].name = job[j].name /\ job'[j].todo = Candidates(j)
            /\ \A p \in Candidates(j) : ~(job[j].count[p] > 0)
         \/ /\ kept' = kept /\ pc(j)' = "delClaims" /\ job'[j].found = job[j].found
            /\ \E p \in Candidates(j) :
                 /\ ~(job[j].count[p] >= job[j].found)
                 /\ job'[j].name = papers[p].name /\ job'[j].todo = {p}
  <1>1. Candidates(j) = DOMAIN job[j].count
    BY DecidePlaces
  <1> DEFINE rows == DOMAIN job[j].count
  <1>2. /\ job'[j].found = job[j].found
        /\ \/ \E p \in rows :
                /\ job[j].count[p] >= job[j].found
                /\ job'[j].pc = "report" /\ job'[j].paper = p
                /\ kept' = [kept EXCEPT ![j] = [name |-> papers[p].name, found |-> job[j].found]]
           \/ /\ kept' = kept
              /\ job'[j].pc = IF job'[j].todo = {} THEN "createPaper" ELSE "delClaims"
              /\ \/ /\ job'[j].name = job[j].name /\ job'[j].todo = rows
                    /\ \A p \in rows : ~(job[j].count[p] > 0)
                 \/ \E p \in rows :
                      /\ ~(job[j].count[p] >= job[j].found)
                      /\ job'[j].name = papers[p].name /\ job'[j].todo = {p}
    BY DecideLocal
  <1> HIDE DEF rows
  <1>3. Candidates(j) = rows
    BY <1>1 DEF rows
  <1> QED
    BY <1>2, <1>3 DEF pc

LEMMA DecideStored ==
  ASSUME Local, Local', Stored, NEW j \in Jobs, Decide(j)
  PROVE  Stored'
  <1>1. UNCHANGED <<papers, verifs>> /\ Others(j) /\ pc(j) = "count"
    BY DecidePlaces
  <1>2. Candidates(j)' \subseteq Candidates(j) /\ Candidates(j) \subseteq Jobs
    <2>1. Candidates(j) \subseteq Jobs
      BY DecidePlaces, Remembered
    <2>2. CASE pc(j)' = "report"
      BY <2>1, <2>2, DecidePlaces
    <2>3. CASE pc(j)' \in {"createPaper", "delClaims"}
      <3>1. Candidates(j)' = job'[j].todo
        BY <2>3, DecidePlaces DEF Naming, Reading, Deleting
      <3>2. job'[j].todo \subseteq Candidates(j)
        BY <2>3, DecideCases
      <3> QED
        BY <2>1, <3>1, <3>2
    <2> QED
      BY <2>2, <2>3, DecidePlaces
  <1>3. \A p \in Jobs : p \in Known(j)' => p \in Known(j)
    <2>1. CASE pc(j)' = "report"
      <3>1. job'[j].paper \in Candidates(j)
        BY <2>1, DecideCases
      <3> QED
        BY <1>2, <2>1, <3>1 DEF Known, pc
    <2>2. CASE pc(j)' \in {"createPaper", "delClaims"}
      BY <1>2, <2>2 DEF Known, Linking
    <2> QED
      BY <2>1, <2>2, DecidePlaces
  <1>4. ASSUME NEW p \in Jobs, pc(p)' \in BeforePaper
        PROVE  ~papers'[p].row /\ \A k \in Jobs : p \notin Known(k)'
    <2>1. pc(p) \in BeforePaper
      BY <1>1, <1>4, OthersStay DEF BeforePaper, Naming, Reading
    <2>2. ~papers[p].row /\ \A k \in Jobs : p \notin Known(k)
      BY <2>1 DEF Stored
    <2> QED
      BY <1>1, <1>3, <2>2, OthersStay
  <1>5. \A k \in Jobs : \A p \in Candidates(k)' : papers'[p].name \notin ViolationNames
    BY <1>1, <1>2, OthersStay DEF Stored
  <1>6. \A k \in Jobs : pc(k)' \in Naming => job'[k].name \notin ViolationNames
    <2> SUFFICES ASSUME NEW k \in Jobs, pc(k)' \in Naming
                 PROVE  job'[k].name \notin ViolationNames
      OBVIOUS
    <2>1. CASE k # j
      BY <1>1, <2>1, OthersStay DEF Stored
    <2>2. CASE k = j
      <3>1. job[j].name \notin ViolationNames
        BY <1>1 DEF Stored, Naming, Reading
      <3>2. \A p \in Candidates(j) : papers[p].name \notin ViolationNames
        BY DEF Stored
      <3>3. pc(j)' # "report"
        BY <2>2 DEF Naming, Reading, Deleting
      <3> QED
        BY <2>2, <3>1, <3>2, <3>3, DecideCases
    <2> QED
      BY <2>1, <2>2
  <1>7. \A k \in Jobs : pc(k)' = "createClaim" => papers'[k].name = job'[k].name /\ job'[k].paper = k
    BY <1>1, OthersStay, DecidePlaces DEF Stored
  <1>8. \A v \in Jobs : verifs'[v].row => papers'[verifs'[v].paper].row
    BY <1>1 DEF Stored
  <1> QED
    BY <1>1, <1>4, <1>5, <1>6, <1>7, <1>8 DEF Stored

LEMMA DecideAlone ==
  ASSUME Local, Local', Alone, NEW j \in Jobs, Decide(j)
  PROVE  Alone'
  <1> SUFFICES ASSUME ~overlapped'
               PROVE  Alone'
    BY DEF Alone
  <1>1. papers' = papers /\ ~overlapped /\ Others(j) /\ pc(j) = "count"
    BY DecidePlaces
  <1>2. \A k \in Jobs \ {j} : ~Upserting(k)
    BY <1>1, AloneNow DEF Upserting
  <1>3. \A k \in Jobs : Upserting(k)' => k = j
    BY <1>1, <1>2, OthersStay DEF Upserting
  <1>4. \A p \in Candidates(j) : papers[p].row /\ p \in Jobs
    BY <1>1, DecidePlaces, Remembered DEF Alone
  <1>5. \A p \in Jobs : papers[p].row /\ papers[p].name = job[j].name => p \in Candidates(j)
    BY <1>1 DEF Alone, Naming, Reading
  <1>6. pc(j)' \in Naming => /\ \A p \in Candidates(j)' : papers[p].row
                             /\ \A p \in Jobs : papers[p].row /\ papers[p].name = job'[j].name => p \in Candidates(j)'
    <2> SUFFICES ASSUME pc(j)' \in Naming
                 PROVE  /\ \A p \in Candidates(j)' : papers[p].row
                        /\ \A p \in Jobs : papers[p].row /\ papers[p].name = job'[j].name => p \in Candidates(j)'
      OBVIOUS
    <2>1. Candidates(j)' = job'[j].todo /\ pc(j)' # "report"
      BY DecidePlaces DEF Naming, Reading, Deleting
    <2>2. CASE job'[j].name = job[j].name /\ job'[j].todo = Candidates(j)
      BY <1>4, <1>5, <2>1, <2>2
    <2>3. CASE \E p \in Candidates(j) : job'[j].name = papers[p].name /\ job'[j].todo = {p}
      <3>1. PICK p \in Candidates(j) : job'[j].name = papers[p].name /\ job'[j].todo = {p}
        BY <2>3
      <3>2. \A q \in Jobs : papers[q].row /\ papers[q].name = papers[p].name => q = p
        BY <1>1, <1>4 DEF Alone
      <3> QED
        BY <1>4, <2>1, <3>1, <3>2
    <2> QED
      BY <2>1, <2>2, <2>3, DecideCases
  <1>7. \A k \in Jobs : \A p \in Candidates(k)' : papers'[p].row
    <2>1. pc(j)' \in Naming \cup {"report"}
      BY DecidePlaces DEF Naming, Reading, Deleting
    <2> QED
      BY <1>1, <1>6, <2>1, OthersStay, DecidePlaces DEF Alone
  <1>8. \A k \in Jobs : pc(k)' \in Naming =>
          \A p \in Jobs : papers'[p].row /\ papers'[p].name = job'[k].name => p \in Candidates(k)'
    BY <1>1, <1>3, <1>6 DEF Upserting, Naming, Reading, Deleting
  <1>9. \A k \in Jobs : pc(k)' = "createClaim" => papers'[k].row
    BY <1>1, OthersStay, DecidePlaces DEF Alone
  <1> QED
    BY <1>1, <1>3, <1>7, <1>8, <1>9 DEF Alone

LEMMA DecideCounted ==
  ASSUME Local, Local', Shape, Counted, NEW j \in Jobs, Decide(j)
  PROVE  Counted'
  <1> SUFFICES ASSUME faults' = 0, crashes' = 0
               PROVE  Counted'
    BY DEF Counted
  <1>1. faults = 0 /\ crashes = 0 /\ UNCHANGED <<claims, verifs>> /\ Others(j) /\ pc(j) = "count"
    BY DecidePlaces
  <1>2. \A p \in Jobs : (BeingDeleted(p)' <=> BeingDeleted(p)) /\ (Leaving(p)' <=> Leaving(p))
    BY DecidePlaces
  <1>3. \A k \in Jobs : pc(k)' \in {"count", "createClaim"} => k # j /\ pc(k) = pc(k)' /\ job'[k] = job[k]
    BY <1>1, DecidePlaces, OthersStay
  <1>4. \A k \in Jobs : pc(k)' = "count" =>
          \A p \in DOMAIN job'[k].count : job'[k].count[p] <= claims'[p] \/ Leaving(p)'
    <2> SUFFICES ASSUME NEW k \in Jobs, pc(k)' = "count", NEW p \in DOMAIN job'[k].count
                 PROVE  job'[k].count[p] <= claims'[p] \/ Leaving(p)'
      OBVIOUS
    <2>1. pc(k) = "count" /\ job'[k] = job[k] /\ p \in Jobs
      BY <1>3, Remembered
    <2>2. job[k].count[p] <= claims[p] \/ Leaving(p)
      BY <1>1, <2>1 DEF Counted
    <2> QED
      BY <1>1, <1>2, <2>1, <2>2
  <1>5. \A k \in Jobs : pc(k)' = "createClaim" => job'[k].made <= claims'[k] \/ Leaving(k)'
    BY <1>1, <1>2, <1>3 DEF Counted
  <1>6. \A k \in Jobs : pc(k)' \in Linking =>
          \A p \in Jobs : job'[k].paper = p => job'[k].found <= claims'[p] \/ Leaving(p)'
    <2> SUFFICES ASSUME NEW k \in Jobs, pc(k)' \in Linking, NEW p \in Jobs, job'[k].paper = p
                 PROVE  job'[k].found <= claims'[p] \/ Leaving(p)'
      OBVIOUS
    <2>1. CASE k # j
      BY <1>1, <1>2, <2>1, OthersStay DEF Counted
    <2>2. CASE k = j
      <3>1. pc(j)' \notin {"createPaper", "delClaims"}
        BY <2>2 DEF Linking
      <3>2. p \in Candidates(j) /\ job[j].count[p] >= job[j].found /\ job'[j].found = job[j].found
        BY <2>2, <3>1, DecideCases
      <3>3. p \in DOMAIN job[j].count
        BY <3>2, DecidePlaces
      <3>4. job[j].count[p] <= claims[p] \/ Leaving(p)
        BY <1>1, <3>3 DEF Counted
      <3>5. claims[p] \in Nat /\ job[j].count[p] \in Nat /\ job[j].found \in Nat
        BY <3>3, CountIsNat, Remembered DEF Shape
      <3> QED
        BY <1>1, <1>2, <2>2, <3>2, <3>4, <3>5
    <2> QED
      BY <2>1, <2>2
  <1>7. \A k \in Jobs : verifs'[k].row =>
          \A p \in Jobs : verifs'[k].paper = p => verifs'[k].total <= claims'[p] \/ BeingDeleted(p)'
    BY <1>1, <1>2 DEF Counted
  <1> QED
    BY <1>4, <1>5, <1>6, <1>7 DEF Counted

LEMMA DecideKeeping ==
  ASSUME Local, Local', Shape, Alone, Keeping, NEW j \in Jobs, Decide(j)
  PROVE  Keeping'
  <1> SUFFICES ASSUME Calm'
               PROVE  Keeping'
    BY DEF Keeping
  <1>1. UNCHANGED <<papers, claims, verifs, overlapped, faults, crashes>> /\ Others(j) /\ pc(j) = "count"
    BY DecidePlaces
  <1>2. Calm /\ ~overlapped
    BY <1>1 DEF Calm
  <1>3. \A k \in Jobs \ {j} : ~Upserting(k) /\ pc(k)' = pc(k) /\ job'[k] = job[k]
    BY <1>1, <1>2, AloneNow, OthersStay DEF Upserting
  <1>4. /\ Candidates(j) = DOMAIN job[j].count
        /\ \A p \in Candidates(j) : /\ p \in Jobs /\ papers[p].row /\ job[j].count[p] = claims[p]
                                    /\ claims[p] \in Nat
    BY <1>1, <1>2, DecidePlaces, Remembered DEF Alone, Keeping, Shape
  <1>5. \A k \in Jobs : pc(k)' = "count" => \A p \in DOMAIN job'[k].count : job'[k].count[p] = claims'[p]
    BY <1>3, DecidePlaces DEF Upserting
  <1>6. ASSUME NEW k \in Jobs, pc(k)' \in Deleting
        PROVE  k = j /\ pc(j)' = "delClaims"
    BY <1>3, <1>6, DecidePlaces DEF Deleting, Upserting
  <1>7. ASSUME NEW name, NEW found \in Nat, found > 0, Held(name, found)
        PROVE  Held(name, found)'
    <2>1. ~InHand(name, found)
      <3>1. \A k \in Jobs : pc(k) \notin Deleting \cup {"createPaper", "createClaim"}
        BY <1>1, <1>3 DEF Upserting, Deleting
      <3> QED
        BY <3>1 DEF InHand
    <2>2. PICK p \in Jobs : papers[p].row /\ papers[p].name = name /\ claims[p] >= found
      BY <1>7, <2>1 DEF Held, Safe
    <2>3. CASE pc(j)' = "delClaims" /\ p \in job'[j].todo
      <3>1. ~(job'[j].todo = Candidates(j) /\ \A q \in Candidates(j) : ~(job[j].count[q] > 0))
        BY <1>4, <1>7, <2>2, <2>3
      <3>2. PICK q \in Candidates(j) : /\ ~(job[j].count[q] >= job[j].found) /\ job'[j].found = job[j].found
                                       /\ job'[j].name = papers[q].name /\ job'[j].todo = {q}
        BY <2>3, <3>1, DecideCases
      <3>3. q = p /\ job[j].found \in Nat
        BY <2>3, <3>2, Remembered
      <3>4. job'[j].found >= found /\ job'[j].name = name
        BY <1>4, <2>2, <3>2, <3>3
      <3>5. InHand(name, found)'
        BY <2>3, <3>4 DEF InHand, Deleting
      <3> QED
        BY <3>5 DEF Held
    <2>4. CASE ~(pc(j)' = "delClaims" /\ p \in job'[j].todo)
      <3>1. \A k \in Jobs : pc(k)' \in Deleting => p \notin job'[k].todo
        BY <1>6, <2>4
      <3>2. Safe(name, found)'
        BY <1>1, <2>2, <3>1 DEF Safe
      <3> QED
        BY <3>2 DEF Held
    <2> QED
      BY <2>3, <2>4
  <1>8. CASE kept' = kept
    <2>1. \A k \in Jobs : (kept[k].found > 0 => Held(kept[k].name, kept[k].found))'
      BY <1>2, <1>7, <1>8, HeldOn
    <2> QED
      BY <1>5, <2>1 DEF Keeping
  <1>9. CASE \E p \in Candidates(j) :
              /\ job[j].count[p] >= job[j].found /\ pc(j)' = "report"
              /\ kept' = [kept EXCEPT ![j] = [name |-> papers[p].name, found |-> job[j].found]]
    <2>1. PICK p \in Candidates(j) :
              /\ job[j].count[p] >= job[j].found /\ pc(j)' = "report"
              /\ kept' = [kept EXCEPT ![j] = [name |-> papers[p].name, found |-> job[j].found]]
      BY <1>9
    <2>2. PICK name, found : name = papers[p].name /\ found = job[j].found
      OBVIOUS
    <2>3. kept'[j].name = name /\ kept'[j].found = found /\ \A k \in Jobs \ {j} : kept'[k] = kept[k]
      BY <2>1, <2>2 DEF Shape
    <2>4. \A k \in Jobs : pc(k)' \notin Deleting
      BY <1>6, <2>1
    <2>5. p \in Jobs /\ papers'[p].row /\ papers'[p].name = name /\ claims'[p] >= found
      BY <1>1, <1>4, <2>1, <2>2
    <2>6. Safe(name, found)'
      BY <2>4, <2>5 DEF Safe
    <2>7. (kept[j].found > 0 => Held(kept[j].name, kept[j].found))'
      BY <2>3, <2>6 DEF Held, Safe
    <2>8. \A k \in Jobs \ {j} : (kept[k].found > 0 => Held(kept[k].name, kept[k].found))'
      BY <1>2, <1>7, <2>3, HeldOn
    <2> QED
      BY <1>5, <2>7, <2>8 DEF Keeping
  <1> QED
    BY <1>8, <1>9, DecideCases

LEMMA DecideStore ==
  ASSUME Local, Local', Store, NEW j \in Jobs, Decide(j)
  PROVE  Store'
  <1>1. Shape'
    <2>1. UNCHANGED <<papers, claims, verifs, overlapped, faults, crashes>>
      BY DecidePlaces
    <2>2. DOMAIN kept' = Jobs /\ \A k \in Jobs : kept'[k].found \in Nat
      <3>1. CASE kept' = kept
        BY <3>1 DEF Store, Shape
      <3>2. CASE \E p \in Candidates(j) : kept' = [kept EXCEPT ![j] = [name |-> papers[p].name, found |-> job[j].found]]
        BY <3>2, Remembered DEF Store, Shape
      <3> QED
        BY <3>1, <3>2, DecideCases
    <2> QED
      BY <2>1, <2>2 DEF Store, Shape
  <1> QED
    BY <1>1, DecideStored, DecideAlone, DecideCounted, DecideKeeping DEF Store

-----------------------------------------------------------------------------
(* The deletions.                                                          *)

\* Which verifications go with a whitepaper.
LEMMA DeletedVerifications ==
  ASSUME Shape, NEW p \in Jobs, verifs' = WithoutVerifications(p)
  PROVE  /\ DOMAIN verifs' = Jobs
         /\ \A v \in Jobs : \/ verifs'[v] = verifs[v] /\ (verifs[v].row => verifs[v].paper # p)
                            \/ verifs'[v].row = FALSE
  BY DEF WithoutVerifications, findByWhitepaperId, Absent, Shape

\* What the three statements of a deletion share: call j takes row p, which it has
\* read, away piece by piece, and goes on under the same name.
Deletes(j, p) ==
  /\ Others(j) /\ UNCHANGED <<kept, overlapped, faults, crashes>>
  /\ p \in job[j].todo /\ DOMAIN job[j].count = {} /\ DOMAIN job'[j].count = {}
  /\ job'[j].name = job[j].name /\ job'[j].found = job[j].found
  /\ \/ /\ pc(j) = "delClaims" /\ pc(j)' = "delVers" /\ job'[j].paper = p
        /\ job'[j].todo = job[j].todo /\ papers' = papers
        /\ claims' = [claims EXCEPT ![p] = 0] /\ verifs' = verifs
     \/ /\ pc(j) = "delVers" /\ pc(j)' = "delPaper" /\ job[j].paper = p /\ job'[j].paper = p
        /\ job'[j].todo = job[j].todo /\ papers' = papers
        /\ claims' = claims /\ verifs' = WithoutVerifications(p)
     \/ /\ pc(j) = "delPaper" /\ job[j].paper = p
        /\ pc(j)' = IF job'[j].todo = {} THEN "createPaper" ELSE "delClaims"
        /\ job'[j].todo = job[j].todo \ {p} /\ papers' = [papers EXCEPT ![p].row = FALSE]
        /\ claims' = [claims EXCEPT ![p] = 0] /\ verifs' = WithoutVerifications(p)

\* Counts are remembered only while they are made.
LEMMA NothingCountedThere ==
  ASSUME Local, NEW j \in Jobs, pc(j) \notin {"count", "failing", "thrown"}
  PROVE  DOMAIN job[j].count = {}
  <1>1. GoodCall(Of(j), job[j])
    BY DEF Local
  <1> QED
    BY <1>1, Zenon DEF GoodCall, pc

\* Each statement of a deletion is one of the forms above, for some whitepaper.
LEMMA DeletesIs ==
  ASSUME Local, Local', Shape, NEW j \in Jobs, DeleteClaims(j) \/ DeleteVerifications(j) \/ DeletePaper(j)
  PROVE  \E p \in Jobs : Deletes(j, p)
  <1>1. /\ Others(j) /\ UNCHANGED <<kept, overlapped, faults, crashes>>
        /\ job'[j].name = job[j].name /\ job'[j].found = job[j].found
        /\ pc(j) \in Deleting
    <2>1. UNCHANGED <<kept, overlapped, faults, crashes>> /\ pc(j) \in Deleting
      <3>1. CASE DeleteClaims(j)
        BY <3>1, Zenon DEF DeleteClaims, Deleting
      <3>2. CASE DeleteVerifications(j)
        BY <3>2 DEF DeleteVerifications, Deleting
      <3>3. CASE DeletePaper(j)
        BY <3>3 DEF DeletePaper, Deleting
      <3> QED
        BY <3>1, <3>2, <3>3
    <2> QED
      BY <2>1, DeletionLocal
  <1>2. pc(j)' \in Deleting \cup {"createPaper"}
    BY DeletionLocal DEF Deleting, pc
  <1>3. DOMAIN job[j].count = {}
    BY <1>1, NothingCountedThere DEF Deleting
  <1>4. DOMAIN job'[j].count = {}
    <2>1. (GoodCall(Of(j), job[j]))' /\ pc(j)' \notin {"count", "failing", "thrown"}
      BY <1>2 DEF Local, Deleting
    <2> QED
      BY <2>1, Zenon DEF GoodCall, pc
  <1>5. job[j].todo \subseteq Jobs
    BY <1>1, Remembered DEF Reading
  <1>6. CASE DeleteClaims(j)
    <2>1. PICK p \in job[j].todo :
            /\ job'[j].pc = "delVers" /\ job'[j].todo = job[j].todo /\ job'[j].paper = p
            /\ claims' = [claims EXCEPT ![p] = 0]
      BY <1>6, DeletionLocal
    <2>2. pc(j) = "delClaims" /\ UNCHANGED <<papers, verifs>>
      BY <1>6, Zenon DEF DeleteClaims
    <2>3. pc(j)' = "delVers"
      BY <2>1 DEF pc
    <2> QED
      BY <1>1, <1>2, <1>3, <1>4, <1>5, <2>1, <2>2, <2>3 DEF Deletes
  <1>7. CASE DeleteVerifications(j) \/ DeletePaper(j)
    <2> DEFINE p == job[j].paper
    <2>1. p \in job[j].todo
      <3>1. GoodCall(Of(j), job[j]) /\ pc(j) \in {"delVers", "delPaper"}
        BY <1>7 DEF Local, DeleteVerifications, DeletePaper
      <3> QED
        BY <3>1, Zenon DEF GoodCall, pc
    <2>2. CASE DeleteVerifications(j)
      <3>1. /\ pc(j) = "delVers" /\ UNCHANGED <<papers, claims>> /\ verifs' = WithoutVerifications(p)
        BY <2>2 DEF DeleteVerifications
      <3>2. pc(j)' = "delPaper" /\ job'[j].todo = job[j].todo /\ job'[j].paper = p
        BY <2>2, DeletionLocal DEF pc
      <3> HIDE DEF p
      <3>3. job[j].paper = p
        BY DEF p
      <3> QED
        BY <1>1, <1>2, <1>3, <1>4, <1>5, <2>1, <3>1, <3>2, <3>3 DEF Deletes
    <2>3. CASE DeletePaper(j)
      <3>1. /\ pc(j) = "delPaper" /\ papers' = [papers EXCEPT ![p].row = FALSE]
            /\ claims' = [claims EXCEPT ![p] = 0] /\ verifs' = WithoutVerifications(p)
        BY <2>3, Zenon DEF DeletePaper
      <3>2. /\ job'[j].todo = job[j].todo \ {p}
            /\ pc(j)' = IF job'[j].todo = {} THEN "createPaper" ELSE "delClaims"
        BY <2>3, DeletionLocal DEF pc
      <3> HIDE DEF p
      <3>3. job[j].paper = p /\ p \in Jobs
        BY <1>5, <2>1 DEF p
      <3>4. ~papers'[p].row
        BY <3>1, <3>3 DEF Shape
      <3> QED
        BY <1>1, <1>2, <1>3, <1>4, <1>5, <2>1, <3>1, <3>2, <3>3, <3>4 DEF Deletes
    <2> QED
      BY <1>7, <2>2, <2>3
  <1> QED
    BY <1>6, <1>7

\* What a deletion moves: its own call, and the row it deletes.
LEMMA DeletesPlaces ==
  ASSUME Local, Local', Shape, NEW j \in Jobs, NEW p \in Jobs, Deletes(j, p)
  PROVE  /\ pc(j) \in Deleting /\ pc(j)' \in Deleting \cup {"createPaper"} /\ Others(j)
         /\ Candidates(j) = job[j].todo /\ Candidates(j)' = job'[j].todo /\ job[j].todo \subseteq Jobs
         /\ job'[j].todo \subseteq job[j].todo
         /\ Known(j) = Candidates(j) /\ Known(j)' = Candidates(j)'
         /\ DOMAIN papers' = Jobs
         /\ \A q \in Jobs : /\ DOMAIN papers'[q] = DOMAIN papers[q] /\ papers'[q].name = papers[q].name
                            /\ papers'[q].row \in BOOLEAN /\ (papers'[q].row => papers[q].row)
                            /\ q # p => papers'[q] = papers[q]
         /\ DOMAIN claims' = Jobs /\ \A q \in Jobs : claims'[q] \in Nat /\ (q # p => claims'[q] = claims[q])
         /\ Leaving(p)'
         /\ \A q \in Jobs \ {p} : (BeingDeleted(q)' <=> BeingDeleted(q)) /\ (Leaving(q)' <=> Leaving(q))
  <1>1. pc(j) \in Deleting /\ pc(j)' \in Deleting \cup {"createPaper"} /\ Others(j)
    BY DEF Deletes, Deleting
  <1>2. Candidates(j) = job[j].todo /\ Known(j) = Candidates(j)
    BY <1>1 DEF Deletes, Candidates, Known, Reading, Deleting, Linking
  <1>3. /\ job'[j].todo \subseteq job[j].todo /\ job[j].todo \subseteq Jobs
        /\ pc(j)' = "createPaper" => job'[j].todo = {}
    BY <1>1, Remembered DEF Deletes, Reading
  <1>4. Candidates(j)' = job'[j].todo /\ Known(j)' = Candidates(j)'
    BY <1>1, <1>3 DEF Deletes, Candidates, Known, Reading, Deleting, Linking
  <1>5. /\ DOMAIN papers' = Jobs
        /\ \A q \in Jobs : /\ DOMAIN papers'[q] = DOMAIN papers[q] /\ papers'[q].name = papers[q].name
                           /\ papers'[q].row \in BOOLEAN /\ (papers'[q].row => papers[q].row)
                           /\ q # p => papers'[q] = papers[q]
    <2>1. CASE papers' = papers
      BY <2>1 DEF Shape
    <2>2. CASE papers' = [papers EXCEPT ![p].row = FALSE]
      BY <2>2 DEF Shape
    <2> QED
      BY <2>1, <2>2 DEF Deletes
  <1>6. DOMAIN claims' = Jobs /\ \A q \in Jobs : claims'[q] \in Nat /\ (q # p => claims'[q] = claims[q])
    BY DEF Deletes, Shape
  <1>7. Leaving(p)'
    <2>1. CASE pc(j)' \in {"delVers", "delPaper"} /\ job'[j].paper = p
      BY <2>1 DEF Leaving, BeingDeleted
    <2>2. CASE papers' = [papers EXCEPT ![p].row = FALSE]
      <3>1. papers'[p].row = FALSE
        BY <2>2 DEF Shape
      <3> QED
        BY <3>1 DEF Leaving
    <2> QED
      BY <2>1, <2>2 DEF Deletes
  <1>8. ASSUME NEW q \in Jobs \ {p}
        PROVE  (BeingDeleted(q)' <=> BeingDeleted(q)) /\ (Leaving(q)' <=> Leaving(q))
    <2>1. \A k \in Jobs : (pc(k)' \in {"delVers", "delPaper"} /\ job'[k].paper = q) <=>
                          (pc(k) \in {"delVers", "delPaper"} /\ job[k].paper = q)
      BY <1>1, OthersStay DEF Deletes
    <2>2. BeingDeleted(q)' <=> BeingDeleted(q)
      BY <2>1 DEF BeingDeleted
    <2> QED
      BY <1>5, <2>2 DEF Leaving
  <1> QED
    BY <1>1, <1>2, <1>3, <1>4, <1>5, <1>6, <1>7, <1>8

LEMMA DeletesVerifications ==
  ASSUME Shape, NEW j \in Jobs, NEW p \in Jobs, Deletes(j, p)
  PROVE  /\ DOMAIN verifs' = Jobs
         /\ \A v \in Jobs : verifs'[v] = verifs[v] \/ verifs'[v].row = FALSE
         /\ papers' # papers => \A v \in Jobs : verifs'[v].row => verifs'[v] = verifs[v] /\ verifs[v].paper # p
         /\ ~BeingDeleted(p)' => papers' # papers \/ \A v \in Jobs : verifs'[v].row => verifs[v].paper # p
  <1>1. CASE verifs' = verifs /\ papers' = papers /\ pc(j)' = "delVers" /\ job'[j].paper = p
    BY <1>1 DEF Shape, BeingDeleted
  <1>2. CASE verifs' = WithoutVerifications(p)
    BY <1>2, DeletedVerifications
  <1> QED
    BY <1>1, <1>2 DEF Deletes

LEMMA DeletesShape ==
  ASSUME Local, Local', Shape, NEW j \in Jobs, NEW p \in Jobs, Deletes(j, p)
  PROVE  Shape'
  <1>1. \A v \in Jobs :
          /\ verifs'[v].row \in BOOLEAN
          /\ verifs'[v].row => verifs'[v].verdict \in Verdict /\ verifs'[v].paper \in Jobs /\ verifs'[v].total \in Nat
    BY DeletesVerifications DEF Shape
  <1>2. DOMAIN verifs' = Jobs /\ UNCHANGED <<kept, overlapped, faults, crashes>>
    BY DeletesVerifications DEF Deletes
  <1> QED
    BY <1>1, <1>2, DeletesPlaces DEF Shape

LEMMA DeletesStored ==
  ASSUME Local, Local', Shape, Stored, NEW j \in Jobs, NEW p \in Jobs, Deletes(j, p)
  PROVE  Stored'
  <1>1. \A k \in Jobs \ {j} : /\ job'[k] = job[k] /\ pc(k)' = pc(k)
                              /\ Candidates(k)' = Candidates(k) /\ Known(k)' = Known(k)
    BY DeletesPlaces, OthersStay
  <1>2. ASSUME NEW q \in Jobs, pc(q)' \in BeforePaper
        PROVE  ~papers'[q].row /\ \A k \in Jobs : q \notin Known(k)'
    <2>1. pc(q) \in BeforePaper
      BY <1>1, <1>2, DeletesPlaces DEF BeforePaper, Naming, Reading
    <2>2. ~papers[q].row /\ \A k \in Jobs : q \notin Known(k)
      BY <2>1 DEF Stored
    <2>3. q \notin Known(j)'
      BY <2>2, DeletesPlaces
    <2> QED
      BY <1>1, <2>2, <2>3, DeletesPlaces
  <1>3. \A q \in Jobs : papers'[q].row => papers'[q].name \notin ViolationNames
    BY DeletesPlaces DEF Stored
  <1>4. \A k \in Jobs : Candidates(k) \subseteq Jobs
    BY Remembered DEF Candidates
  <1>5. \A k \in Jobs : \A q \in Candidates(k)' : papers'[q].name \notin ViolationNames
    <2> SUFFICES ASSUME NEW k \in Jobs, NEW q \in Candidates(k)'
                 PROVE  papers'[q].name \notin ViolationNames
      OBVIOUS
    <2>1. q \in Candidates(k)
      BY <1>1, DeletesPlaces
    <2> QED
      BY <1>4, <2>1, DeletesPlaces DEF Stored
  <1>6. \A k \in Jobs : pc(k)' \in Naming => job'[k].name \notin ViolationNames
    <2>1. job'[j].name = job[j].name /\ pc(j) \in Naming
      BY DeletesPlaces DEF Deletes, Naming, Reading
    <2> QED
      BY <1>1, <2>1 DEF Stored
  <1>7. \A k \in Jobs : pc(k)' = "createClaim" => papers'[k].name = job'[k].name /\ job'[k].paper = k
    BY <1>1, DeletesPlaces DEF Stored, Deleting
  <1>8. \A v \in Jobs : verifs'[v].row => papers'[verifs'[v].paper].row
    <2> SUFFICES ASSUME NEW v \in Jobs, verifs'[v].row
                 PROVE  papers'[verifs'[v].paper].row
      OBVIOUS
    <2>1. verifs'[v] = verifs[v] /\ verifs[v].paper \in Jobs /\ papers[verifs[v].paper].row
      BY DeletesVerifications DEF Stored, Shape
    <2>2. CASE papers' = papers
      BY <2>1, <2>2
    <2>3. CASE papers' # papers
      <3>1. verifs[v].paper # p
        BY <2>3, DeletesVerifications
      <3>2. papers'[verifs[v].paper] = papers[verifs[v].paper]
        BY <2>1, <3>1, DeletesPlaces
      <3> QED
        BY <2>1, <3>2
    <2> QED
      BY <2>2, <2>3
  <1> QED
    BY <1>2, <1>3, <1>5, <1>6, <1>7, <1>8 DEF Stored

LEMMA DeletesAlone ==
  ASSUME Local, Local', Shape, Alone, NEW j \in Jobs, NEW p \in Jobs, Deletes(j, p)
  PROVE  Alone'
  <1> SUFFICES ASSUME ~overlapped'
               PROVE  Alone'
    BY DEF Alone
  <1>1. ~overlapped /\ job'[j].name = job[j].name /\ p \in job[j].todo
    BY DEF Deletes
  <1>2. \A k \in Jobs \ {j} : /\ job'[k] = job[k] /\ pc(k)' = pc(k) /\ Candidates(k)' = {}
                              /\ ~Upserting(k)' /\ pc(k)' \notin Writing
    <2>1. \A k \in Jobs \ {j} : /\ job'[k] = job[k] /\ pc(k)' = pc(k) /\ Candidates(k)' = Candidates(k)
      BY DeletesPlaces, OthersStay
    <2>2. Upserting(j)
      BY DeletesPlaces DEF Upserting, Deleting
    <2> QED
      BY <1>1, <2>1, <2>2, AloneNow DEF Upserting
  <1>3. \A q, r \in Jobs : papers'[q].row /\ papers'[r].row /\ papers'[q].name = papers'[r].name => q = r
    BY <1>1, DeletesPlaces DEF Alone
  <1>4. \A q \in Candidates(j)' : papers'[q].row
    <2> SUFFICES ASSUME NEW q \in Candidates(j)'
                 PROVE  papers'[q].row
      OBVIOUS
    <2>1. q \in Candidates(j) /\ q \in Jobs
      BY DeletesPlaces
    <2>2. papers[q].row
      BY <1>1, <2>1 DEF Alone
    <2>3. CASE q # p
      BY <2>1, <2>2, <2>3, DeletesPlaces
    <2>4. CASE q = p
      <3>1. p \in job'[j].todo
        BY <2>4, DeletesPlaces
      <3>2. papers' = papers
        BY <3>1 DEF Deletes
      <3> QED
        BY <2>2, <3>2
    <2> QED
      BY <2>3, <2>4
  <1>5. \A q \in Jobs : papers'[q].row /\ papers'[q].name = job'[j].name => q \in Candidates(j)'
    <2> SUFFICES ASSUME NEW q \in Jobs, papers'[q].row, papers'[q].name = job'[j].name
                 PROVE  q \in Candidates(j)'
      OBVIOUS
    <2>1. papers[q].row /\ papers[q].name = job[j].name /\ pc(j) \in Naming
      BY <1>1, DeletesPlaces DEF Naming, Reading
    <2>2. q \in job[j].todo
      BY <1>1, <2>1, DeletesPlaces DEF Alone
    <2>3. q # p \/ job'[j].todo = job[j].todo
      <3>1. CASE papers' = [papers EXCEPT ![p].row = FALSE]
        <4>1. papers'[p].row = FALSE
          BY <3>1 DEF Shape
        <4> QED
          BY <4>1
      <3>2. CASE job'[j].todo = job[j].todo
        BY <3>2
      <3> QED
        BY <3>1, <3>2 DEF Deletes
    <2>4. q \in job'[j].todo
      BY <2>2, <2>3 DEF Deletes
    <2> QED
      BY <2>4, DeletesPlaces
  <1>6. pc(j)' # "createClaim"
    BY DeletesPlaces DEF Deleting
  <1>7. \A k \in Jobs : pc(k)' \in Naming =>
          \A q \in Jobs : papers'[q].row /\ papers'[q].name = job'[k].name => q \in Candidates(k)'
    BY <1>2, <1>5 DEF Writing
  <1>8. \A k \in Jobs : \A q \in Candidates(k)' : papers'[q].row
    BY <1>2, <1>4
  <1>9. \A k \in Jobs : pc(k)' # "createClaim"
    BY <1>2, <1>6 DEF Writing
  <1> QED
    BY <1>2, <1>3, <1>7, <1>8, <1>9 DEF Alone

LEMMA DeletesCounted ==
  ASSUME Local, Local', Shape, Counted, NEW j \in Jobs, NEW p \in Jobs, Deletes(j, p)
  PROVE  Counted'
  <1> SUFFICES ASSUME faults' = 0, crashes' = 0
               PROVE  Counted'
    BY DEF Counted
  <1>1. faults = 0 /\ crashes = 0
    BY DEF Deletes
  <1>2. \A k \in Jobs : pc(k)' \in {"count", "createClaim"} \cup Linking => k # j /\ pc(k)' = pc(k) /\ job'[k] = job[k]
    BY DeletesPlaces, OthersStay DEF Deleting, Linking
  <1>3. /\ Leaving(p)'
        /\ \A q \in Jobs \ {p} : claims'[q] = claims[q] /\ (BeingDeleted(q)' <=> BeingDeleted(q)) /\ (Leaving(q)' <=> Leaving(q))
    BY DeletesPlaces
  <1>4. \A k \in Jobs : pc(k)' = "count" =>
          \A q \in DOMAIN job'[k].count : job'[k].count[q] <= claims'[q] \/ Leaving(q)'
    <2> SUFFICES ASSUME NEW k \in Jobs, pc(k)' = "count", NEW q \in DOMAIN job'[k].count
                 PROVE  job'[k].count[q] <= claims'[q] \/ Leaving(q)'
      OBVIOUS
    <2>1. pc(k) = "count" /\ job'[k] = job[k] /\ q \in Jobs
      BY <1>2, Remembered
    <2>2. job[k].count[q] <= claims[q] \/ Leaving(q)
      BY <1>1, <2>1 DEF Counted
    <2>3. CASE q = p
      BY <1>3, <2>3
    <2>4. CASE q # p
      BY <1>3, <2>1, <2>2, <2>4
    <2> QED
      BY <2>3, <2>4
  <1>5. \A k \in Jobs : pc(k)' = "createClaim" => job'[k].made <= claims'[k] \/ Leaving(k)'
    <2> SUFFICES ASSUME NEW k \in Jobs, pc(k)' = "createClaim"
                 PROVE  job'[k].made <= claims'[k] \/ Leaving(k)'
      OBVIOUS
    <2>1. job'[k] = job[k] /\ (job[k].made <= claims[k] \/ Leaving(k))
      BY <1>1, <1>2 DEF Counted
    <2>2. CASE k = p
      BY <1>3, <2>2
    <2>3. CASE k # p
      BY <1>3, <2>1, <2>3
    <2> QED
      BY <2>2, <2>3
  <1>6. \A k \in Jobs : pc(k)' \in Linking =>
          \A q \in Jobs : job'[k].paper = q => job'[k].found <= claims'[q] \/ Leaving(q)'
    <2> SUFFICES ASSUME NEW k \in Jobs, pc(k)' \in Linking, NEW q \in Jobs, job'[k].paper = q
                 PROVE  job'[k].found <= claims'[q] \/ Leaving(q)'
      OBVIOUS
    <2>1. job'[k] = job[k] /\ (job[k].found <= claims[q] \/ Leaving(q))
      BY <1>1, <1>2 DEF Counted
    <2>2. CASE q = p
      BY <1>3, <2>2
    <2>3. CASE q # p
      BY <1>3, <2>1, <2>3
    <2> QED
      BY <2>2, <2>3
  <1>7. \A k \in Jobs : verifs'[k].row =>
          \A q \in Jobs : verifs'[k].paper = q => verifs'[k].total <= claims'[q] \/ BeingDeleted(q)'
    <2> SUFFICES ASSUME NEW k \in Jobs, verifs'[k].row, NEW q \in Jobs, verifs'[k].paper = q
                 PROVE  verifs'[k].total <= claims'[q] \/ BeingDeleted(q)'
      OBVIOUS
    <2>1. verifs'[k] = verifs[k]
      BY DeletesVerifications
    <2>2. verifs[k].total <= claims[q] \/ BeingDeleted(q)
      BY <1>1, <2>1 DEF Counted
    <2>3. CASE q # p
      BY <1>3, <2>1, <2>2, <2>3
    <2>4. CASE q = p
      BY <2>1, <2>4, DeletesVerifications
    <2> QED
      BY <2>3, <2>4
  <1> QED
    BY <1>4, <1>5, <1>6, <1>7 DEF Counted

LEMMA DeletesKeeping ==
  ASSUME Local, Local', Shape, Alone, Keeping, NEW j \in Jobs, NEW p \in Jobs, Deletes(j, p)
  PROVE  Keeping'
  <1> SUFFICES ASSUME Calm'
               PROVE  Keeping'
    BY DEF Keeping
  <1>1. Calm /\ ~overlapped /\ kept' = kept
    BY DEF Calm, Deletes
  <1>2. \A k \in Jobs \ {j} : /\ job'[k] = job[k] /\ pc(k)' = pc(k)
                              /\ pc(k) \notin Deleting \cup {"count", "createPaper", "createClaim"}
    <2>1. Upserting(j)
      BY DeletesPlaces DEF Upserting, Deleting
    <2> QED
      BY <1>1, <2>1, AloneNow, DeletesPlaces, OthersStay DEF Upserting, Deleting
  <1>3. \A k \in Jobs : pc(k)' # "count"
    BY <1>2, DeletesPlaces DEF Deleting
  <1>4. ASSUME NEW name, NEW found \in Nat, found > 0, Held(name, found)
        PROVE  Held(name, found)'
    <2>1. CASE Safe(name, found)
      <3>1. PICK q \in Jobs : /\ papers[q].row /\ papers[q].name = name /\ claims[q] >= found
                              /\ \A k \in Jobs : pc(k) \in Deleting => q \notin job[k].todo
        BY <2>1 DEF Safe
      <3>2. q \notin job[j].todo /\ q # p
        BY <3>1, DeletesPlaces DEF Deletes
      <3>3. papers'[q].row /\ papers'[q].name = name /\ claims'[q] >= found
        BY <3>1, <3>2, DeletesPlaces
      <3>4. \A k \in Jobs : pc(k)' \in Deleting => q \notin job'[k].todo
        BY <1>2, <3>2, DeletesPlaces
      <3>5. Safe(name, found)'
        BY <3>3, <3>4 DEF Safe
      <3> QED
        BY <3>5 DEF Held
    <2>2. CASE InHand(name, found)
      <3>1. PICK k \in Jobs : /\ pc(k) \in Deleting \cup {"createPaper", "createClaim"}
                              /\ job[k].name = name /\ job[k].found >= found
        BY <2>2 DEF InHand
      <3>2. k = j
        BY <1>2, <3>1
      <3>3. pc(j)' \in Deleting \cup {"createPaper", "createClaim"} /\ job'[j].name = name /\ job'[j].found >= found
        BY <3>1, <3>2, DeletesPlaces DEF Deletes
      <3>4. InHand(name, found)'
        BY <3>3 DEF InHand
      <3> QED
        BY <3>4 DEF Held
    <2> QED
      BY <1>4, <2>1, <2>2 DEF Held
  <1>5. \A k \in Jobs : (kept[k].found > 0 => Held(kept[k].name, kept[k].found))'
    BY <1>1, <1>4, HeldOn
  <1> QED
    BY <1>3, <1>5 DEF Keeping

LEMMA DeletesStore ==
  ASSUME Local, Local', Store, NEW j \in Jobs, DeleteClaims(j) \/ DeleteVerifications(j) \/ DeletePaper(j)
  PROVE  Store'
  <1>1. PICK p \in Jobs : Deletes(j, p)
    BY DeletesIs DEF Store
  <1> QED
    BY <1>1, DeletesShape, DeletesStored, DeletesAlone, DeletesCounted, DeletesKeeping DEF Store

-----------------------------------------------------------------------------
(* The new row.                                                            *)

LEMMA CreatePaperPlaces ==
  ASSUME Local, NEW j \in Jobs, CreatePaper(j)
  PROVE  /\ UNCHANGED <<claims, verifs, overlapped, faults, crashes>> /\ Others(j)
         /\ pc(j) = "createPaper" /\ pc(j)' \in {"report", "createClaim"}
         /\ (pc(j)' = "report" => job[j].found = 0) /\ (pc(j)' = "createClaim" => job[j].found # 0)
         /\ job'[j].paper = j /\ job'[j].made = 0 /\ job'[j].name = job[j].name /\ job'[j].found = job[j].found
         /\ Candidates(j) = {} /\ Candidates(j)' = {}
         /\ \A q \in Jobs : BeingDeleted(q)' <=> BeingDeleted(q)
  <1>1. UNCHANGED <<claims, verifs, overlapped, faults, crashes>> /\ pc(j) = "createPaper"
    BY DEF CreatePaper
  <1>2. /\ Others(j) /\ pc(j)' = IF job[j].found = 0 THEN "report" ELSE "createClaim"
        /\ job'[j].paper = j /\ job'[j].made = 0 /\ job'[j].name = job[j].name /\ job'[j].found = job[j].found
    BY CreatePaperLocal DEF pc
  <1>3. \A q \in Jobs : BeingDeleted(q)' <=> BeingDeleted(q)
    BY <1>1, <1>2, OthersStay DEF BeingDeleted
  <1>4. Candidates(j) = {} /\ Candidates(j)' = {}
    BY <1>1, <1>2 DEF Candidates, Reading, Deleting
  <1> QED
    BY <1>1, <1>2, <1>3, <1>4

\* The new row has the run's name, and nobody had known it.
LEMMA NewRow ==
  ASSUME Local, Shape, Stored, NEW j \in Jobs, CreatePaper(j)
  PROVE  /\ DOMAIN papers' = Jobs /\ papers'[j].row = TRUE /\ papers'[j].name = job[j].name
         /\ \A k \in Jobs \ {j} : papers'[k] = papers[k]
         /\ ~papers[j].row /\ \A k \in Jobs : j \notin Known(k)
  <1>1. papers' = [papers EXCEPT ![j] = [row |-> TRUE, name |-> job[j].name, token |-> ask[j].token, doc |-> job[j].doc]]
    BY DEF CreatePaper
  <1>2. /\ DOMAIN papers' = Jobs /\ papers'[j].row = TRUE /\ papers'[j].name = job[j].name
        /\ \A k \in Jobs \ {j} : papers'[k] = papers[k]
    BY <1>1 DEF Shape
  <1>3. pc(j) \in BeforePaper
    BY DEF CreatePaper, BeforePaper, Naming
  <1>4. ~papers[j].row /\ \A k \in Jobs : j \notin Known(k)
    BY <1>3 DEF Stored
  <1> QED
    BY <1>2, <1>4

\* An empty claim set is kept at once.
LEMMA NewKept ==
  ASSUME NEW j \in Jobs, CreatePaper(j)
  PROVE  \/ kept' = [kept EXCEPT ![j] = [name |-> job[j].name, found |-> 0]]
         \/ kept' = kept
  BY DEF CreatePaper, Keeps

LEMMA CreatePaperShape ==
  ASSUME Local, Shape, Stored, NEW j \in Jobs, CreatePaper(j)
  PROVE  Shape'
  <1>1. DOMAIN kept' = Jobs /\ \A k \in Jobs : kept'[k].found \in Nat
    <2>1. CASE kept' = [kept EXCEPT ![j] = [name |-> job[j].name, found |-> 0]]
      BY <2>1 DEF Shape
    <2>2. CASE kept' = kept
      BY <2>2 DEF Shape
    <2> QED
      BY <2>1, <2>2, NewKept
  <1>2. UNCHANGED <<claims, verifs, overlapped, faults, crashes>>
    BY CreatePaperPlaces
  <1>3. DOMAIN papers' = Jobs /\ \A k \in Jobs : DOMAIN papers'[k] = {"row", "name", "token", "doc"} /\ papers'[k].row \in BOOLEAN
    <2>1. papers' = [papers EXCEPT ![j] = [row |-> TRUE, name |-> job[j].name, token |-> ask[j].token, doc |-> job[j].doc]]
      BY DEF CreatePaper
    <2> QED
      BY <2>1 DEF Shape
  <1> QED
    BY <1>1, <1>2, <1>3 DEF Shape

LEMMA CreatePaperStored ==
  ASSUME Local, Shape, Stored, NEW j \in Jobs, CreatePaper(j)
  PROVE  Stored'
  <1>1. \A k \in Jobs \ {j} : /\ job'[k] = job[k] /\ pc(k)' = pc(k)
                              /\ Candidates(k)' = Candidates(k) /\ Known(k)' = Known(k)
    BY CreatePaperPlaces, OthersStay
  <1>2. pc(j)' \in {"report", "createClaim"}
    BY CreatePaperPlaces
  <1>3. ASSUME NEW q \in Jobs, pc(q)' \in BeforePaper
        PROVE  ~papers'[q].row /\ \A k \in Jobs : q \notin Known(k)'
    <2>1. q # j
      BY <1>2, <1>3 DEF BeforePaper, HandlerReads, Naming, Reading, Deleting
    <2>2. ~papers[q].row /\ \A k \in Jobs : q \notin Known(k)
      BY <1>1, <1>3, <2>1 DEF Stored
    <2>3. q \notin Known(j)'
      <3>1. job'[j].paper = j /\ Candidates(j)' = {}
        BY CreatePaperPlaces
      <3> QED
        BY <2>1, <3>1 DEF Known, pc
    <2> QED
      BY <1>1, <2>1, <2>2, <2>3, NewRow
  <1>4. job[j].name \notin ViolationNames
    <2>1. pc(j) \in Naming
      BY CreatePaperPlaces DEF Naming
    <2> QED
      BY <2>1 DEF Stored
  <1>5. \A q \in Jobs : papers'[q].name \in ViolationNames => q # j /\ papers'[q] = papers[q]
    BY <1>4, NewRow
  <1>6. \A q \in Jobs : papers'[q].row => papers'[q].name \notin ViolationNames
    BY <1>5 DEF Stored
  <1>7. \A k \in Jobs : \A q \in Candidates(k)' : papers'[q].name \notin ViolationNames
    <2> SUFFICES ASSUME NEW k \in Jobs, NEW q \in Candidates(k)'
                 PROVE  papers'[q].name \notin ViolationNames
      OBVIOUS
    <2>1. k # j /\ q \in Candidates(k) /\ q \in Jobs
      <3>1. k # j /\ q \in Candidates(k)
        BY <1>1, CreatePaperPlaces
      <3> QED
        BY <3>1, Remembered DEF Candidates
    <2> QED
      BY <1>5, <2>1 DEF Stored
  <1>8. \A k \in Jobs : pc(k)' \in Naming => job'[k].name \notin ViolationNames
    BY <1>1, <1>2 DEF Stored, Naming, Reading, Deleting
  <1>9. \A k \in Jobs : pc(k)' = "createClaim" => papers'[k].name = job'[k].name /\ job'[k].paper = k
    <2> SUFFICES ASSUME NEW k \in Jobs, pc(k)' = "createClaim"
                 PROVE  papers'[k].name = job'[k].name /\ job'[k].paper = k
      OBVIOUS
    <2>1. CASE k = j
      BY <2>1, CreatePaperPlaces, NewRow
    <2>2. CASE k # j
      <3>1. job'[k] = job[k] /\ pc(k) = "createClaim" /\ papers'[k] = papers[k]
        BY <1>1, <2>2, NewRow
      <3> QED
        BY <3>1 DEF Stored
    <2> QED
      BY <2>1, <2>2
  <1>10. \A v \in Jobs : verifs'[v].row => papers'[verifs'[v].paper].row
    <2> SUFFICES ASSUME NEW v \in Jobs, verifs'[v].row
                 PROVE  papers'[verifs'[v].paper].row
      OBVIOUS
    <2>1. verifs' = verifs
      BY CreatePaperPlaces
    <2>2. verifs[v].paper \in Jobs /\ papers[verifs[v].paper].row
      BY <2>1 DEF Stored, Shape
    <2>3. papers'[verifs[v].paper].row
      <3>1. CASE verifs[v].paper = j
        BY <3>1, NewRow
      <3>2. CASE verifs[v].paper # j
        BY <2>2, <3>2, NewRow
      <3> QED
        BY <3>1, <3>2
    <2> QED
      BY <2>1, <2>3
  <1> QED
    BY <1>3, <1>6, <1>7, <1>8, <1>9, <1>10 DEF Stored

LEMMA CreatePaperAlone ==
  ASSUME Local, Shape, Stored, Alone, NEW j \in Jobs, CreatePaper(j)
  PROVE  Alone'
  <1> SUFFICES ASSUME ~overlapped'
               PROVE  Alone'
    BY DEF Alone
  <1>1. ~overlapped /\ Others(j) /\ pc(j) = "createPaper" /\ Candidates(j) = {}
    BY CreatePaperPlaces
  <1>2. \A k \in Jobs \ {j} : /\ job'[k] = job[k] /\ pc(k)' = pc(k) /\ Candidates(k)' = {}
                              /\ ~Upserting(k)' /\ pc(k)' \notin Writing
    BY <1>1, AloneNow, OthersStay DEF Upserting
  <1>3. \A q \in Jobs : papers[q].row => papers[q].name # job[j].name
    BY <1>1 DEF Alone, Naming
  <1>4. \A q, r \in Jobs : papers'[q].row /\ papers'[r].row /\ papers'[q].name = papers'[r].name => q = r
    <2> SUFFICES ASSUME NEW q \in Jobs, NEW r \in Jobs, papers'[q].row, papers'[r].row, papers'[q].name = papers'[r].name
                 PROVE  q = r
      OBVIOUS
    <2>1. CASE q # j /\ r # j
      <3>1. papers'[q] = papers[q] /\ papers'[r] = papers[r]
        BY <2>1, NewRow
      <3>2. papers[q].row /\ papers[r].row /\ papers[q].name = papers[r].name
        BY <3>1
      <3> QED
        BY <1>1, <3>2 DEF Alone
    <2>2. CASE q = j /\ r # j
      BY <1>3, <2>2, NewRow
    <2>3. CASE q # j /\ r = j
      BY <1>3, <2>3, NewRow
    <2> QED
      BY <2>1, <2>2, <2>3
  <1>5. \A k \in Jobs : Candidates(k)' = {}
    BY <1>2, CreatePaperPlaces
  <1>6. \A k \in Jobs : pc(k)' \notin Naming
    BY <1>2, CreatePaperPlaces DEF Writing, Naming, Reading, Deleting
  <1>7. \A k \in Jobs : pc(k)' = "createClaim" => papers'[k].row
    BY <1>2, NewRow DEF Writing
  <1> QED
    BY <1>2, <1>4, <1>5, <1>6, <1>7 DEF Alone

LEMMA CreatePaperCounted ==
  ASSUME Local, Shape, Stored, Counted, NEW j \in Jobs, CreatePaper(j)
  PROVE  Counted'
  <1> SUFFICES ASSUME faults' = 0, crashes' = 0
               PROVE  Counted'
    BY DEF Counted
  <1>1. faults = 0 /\ crashes = 0 /\ UNCHANGED <<claims, verifs>>
    BY CreatePaperPlaces
  <1>2. \A k \in Jobs \ {j} : job'[k] = job[k] /\ pc(k)' = pc(k)
    BY CreatePaperPlaces, OthersStay
  <1>3. \A q \in Jobs \ {j} : Leaving(q)' <=> Leaving(q)
    BY CreatePaperPlaces, NewRow DEF Leaving
  <1>4. \A k \in Jobs : pc(k)' = "count" =>
          \A q \in DOMAIN job'[k].count : job'[k].count[q] <= claims'[q] \/ Leaving(q)'
    <2> SUFFICES ASSUME NEW k \in Jobs, pc(k)' = "count", NEW q \in DOMAIN job'[k].count
                 PROVE  job'[k].count[q] <= claims'[q] \/ Leaving(q)'
      OBVIOUS
    <2>1. k # j /\ pc(k) = "count" /\ job'[k] = job[k]
      BY <1>2, CreatePaperPlaces
    <2>2. q \in Jobs /\ q \in DOMAIN job[k].count
      BY <2>1, Remembered
    <2>3. q \in Known(k)
      BY <2>1, <2>2 DEF Known, Candidates, Reading
    <2>4. q # j
      BY <2>3, NewRow
    <2>5. job[k].count[q] <= claims[q] \/ Leaving(q)
      BY <1>1, <2>1, <2>2 DEF Counted
    <2> QED
      BY <1>1, <1>3, <2>1, <2>2, <2>4, <2>5
  <1>5. claims[j] \in Nat
    BY DEF Shape
  <1>6. \A k \in Jobs : pc(k)' = "createClaim" => job'[k].made <= claims'[k] \/ Leaving(k)'
    <2> SUFFICES ASSUME NEW k \in Jobs, pc(k)' = "createClaim"
                 PROVE  job'[k].made <= claims'[k] \/ Leaving(k)'
      OBVIOUS
    <2>1. CASE k = j
      BY <1>1, <1>5, <2>1, CreatePaperPlaces
    <2>2. CASE k # j
      BY <1>1, <1>2, <1>3, <2>2 DEF Counted
    <2> QED
      BY <2>1, <2>2
  <1>7. \A k \in Jobs : pc(k)' \in Linking =>
          \A q \in Jobs : job'[k].paper = q => job'[k].found <= claims'[q] \/ Leaving(q)'
    <2> SUFFICES ASSUME NEW k \in Jobs, pc(k)' \in Linking, NEW q \in Jobs, job'[k].paper = q
                 PROVE  job'[k].found <= claims'[q] \/ Leaving(q)'
      OBVIOUS
    <2>1. CASE k = j
      <3>1. job'[j].found = 0 /\ claims'[q] \in Nat
        BY <1>1, <2>1, CreatePaperPlaces DEF Linking, Shape
      <3> QED
        BY <2>1, <3>1
    <2>2. CASE k # j
      <3>1. q \in Known(k)
        BY <1>2, <2>2 DEF Known
      <3>2. q # j
        BY <3>1, NewRow
      <3>3. job[k].found <= claims[q] \/ Leaving(q)
        BY <1>1, <1>2, <2>2 DEF Counted
      <3> QED
        BY <1>1, <1>2, <1>3, <2>2, <3>2, <3>3
    <2> QED
      BY <2>1, <2>2
  <1>8. \A k \in Jobs : verifs'[k].row =>
          \A q \in Jobs : verifs'[k].paper = q => verifs'[k].total <= claims'[q] \/ BeingDeleted(q)'
    BY <1>1, CreatePaperPlaces DEF Counted
  <1> QED
    BY <1>4, <1>6, <1>7, <1>8 DEF Counted

LEMMA CreatePaperKeeping ==
  ASSUME Local, Shape, Stored, Alone, Keeping, NEW j \in Jobs, CreatePaper(j)
  PROVE  Keeping'
  <1> SUFFICES ASSUME Calm'
               PROVE  Keeping'
    BY DEF Keeping
  <1>1. Calm /\ ~overlapped /\ claims' = claims /\ pc(j) = "createPaper"
    BY CreatePaperPlaces DEF Calm
  <1>2. \A k \in Jobs \ {j} : job'[k] = job[k] /\ pc(k)' = pc(k) /\ ~Upserting(k)
    BY <1>1, AloneNow, CreatePaperPlaces, OthersStay DEF Upserting
  <1>3. \A k \in Jobs : pc(k)' # "count" /\ pc(k)' \notin Deleting
    BY <1>2, CreatePaperPlaces DEF Upserting, Deleting
  <1>4. ASSUME NEW name, NEW found \in Nat, found > 0, Held(name, found)
        PROVE  Held(name, found)'
    <2>1. CASE Safe(name, found)
      <3>1. PICK q \in Jobs : papers[q].row /\ papers[q].name = name /\ claims[q] >= found
        BY <2>1 DEF Safe
      <3>2. q # j
        BY <3>1, NewRow
      <3>3. papers'[q] = papers[q]
        BY <3>2, NewRow
      <3>4. Safe(name, found)'
        BY <1>1, <1>3, <3>1, <3>3 DEF Safe
      <3> QED
        BY <3>4 DEF Held
    <2>2. CASE InHand(name, found)
      <3>1. PICK k \in Jobs : /\ pc(k) \in Deleting \cup {"createPaper", "createClaim"}
                              /\ job[k].name = name /\ job[k].found >= found
        BY <2>2 DEF InHand
      <3>2. k = j
        BY <1>2, <3>1 DEF Upserting, Deleting
      <3>3. pc(j)' = "createClaim"
        BY <1>4, <3>1, <3>2, CreatePaperPlaces
      <3>4. InHand(name, found)'
        BY <3>1, <3>2, <3>3, CreatePaperPlaces DEF InHand
      <3> QED
        BY <3>4 DEF Held
    <2> QED
      BY <1>4, <2>1, <2>2 DEF Held
  <1>5. CASE kept' = kept
    <2>1. \A k \in Jobs : (kept[k].found > 0 => Held(kept[k].name, kept[k].found))'
      BY <1>1, <1>4, <1>5, HeldOn
    <2> QED
      BY <1>3, <2>1 DEF Keeping
  <1>6. CASE kept' = [kept EXCEPT ![j] = [name |-> job[j].name, found |-> 0]]
    <2>1. kept'[j].found = 0 /\ \A k \in Jobs \ {j} : kept'[k] = kept[k]
      BY <1>6 DEF Shape
    <2>2. \A k \in Jobs \ {j} : (kept[k].found > 0 => Held(kept[k].name, kept[k].found))'
      BY <1>1, <1>4, <2>1, HeldOn
    <2>3. ~(kept'[j].found > 0)
      BY <2>1
    <2> QED
      BY <1>3, <2>2, <2>3 DEF Keeping
  <1> QED
    BY <1>5, <1>6, NewKept

LEMMA CreatePaperStore ==
  ASSUME Local, Local', Store, NEW j \in Jobs, CreatePaper(j)
  PROVE  Store'
  BY CreatePaperShape, CreatePaperStored, CreatePaperAlone, CreatePaperCounted, CreatePaperKeeping DEF Store

-----------------------------------------------------------------------------
(* A claim of the new row.                                                 *)

Claiming(j) ==
  /\ pc(j) = "createClaim" /\ Others(j) /\ papers[j].row /\ claims' = [claims EXCEPT ![j] = @ + 1]
  /\ UNCHANGED <<papers, verifs, overlapped, faults, crashes>>
  /\ job'[j].name = job[j].name /\ job'[j].found = job[j].found
  /\ job'[j].made = job[j].made + 1 /\ job'[j].paper = job[j].paper
  /\ \/ pc(j)' = "createClaim" /\ kept' = kept
     \/ /\ pc(j)' = "report" /\ job[j].made + 1 = job[j].found
        /\ kept' = [kept EXCEPT ![j] = [name |-> job[j].name, found |-> job[j].found]]

LEMMA CreateClaimIs ==
  ASSUME Local, Bounded, NEW j \in Jobs, CreateClaim(j)
  PROVE  Local' /\ (Quiet(j) \/ Claiming(j))
  <1>1. pc(j) = "createClaim"
    BY DEF CreateClaim
  <1> QED
    BY <1>1, CreateClaimLocal DEF Claiming, pc

\* A claim moves its own call only, and no row is on its way because of it.
LEMMA ClaimingPlaces ==
  ASSUME Local, Stored, NEW j \in Jobs, Claiming(j)
  PROVE  /\ UNCHANGED <<papers, verifs, overlapped, faults, crashes>> /\ Others(j)
         /\ pc(j) = "createClaim" /\ pc(j)' \in {"createClaim", "report"}
         /\ job'[j].paper = j /\ papers[j].row /\ papers[j].name = job[j].name /\ job'[j].name = job[j].name
         /\ Candidates(j)' = {} /\ (\A p \in Jobs : p \in Known(j)' => p = j)
         /\ \A p \in Jobs : (BeingDeleted(p)' <=> BeingDeleted(p)) /\ (Leaving(p)' <=> Leaving(p))
  <1>1. /\ UNCHANGED <<papers, verifs, overlapped, faults, crashes>> /\ Others(j)
        /\ pc(j) = "createClaim" /\ pc(j)' \in {"createClaim", "report"}
        /\ papers[j].row /\ job'[j].name = job[j].name /\ job'[j].paper = job[j].paper
    BY DEF Claiming
  <1>2. papers[j].name = job[j].name /\ job[j].paper = j
    BY <1>1 DEF Stored
  <1>3. Candidates(j)' = {}
    BY <1>1 DEF Candidates, Reading, Deleting
  <1>4. \A p \in Jobs : p \in Known(j)' => p = j
    BY <1>1, <1>2, <1>3 DEF Known, pc
  <1>5. \A p \in Jobs : BeingDeleted(p)' <=> BeingDeleted(p)
    BY <1>1, OthersStay DEF BeingDeleted
  <1>6. \A p \in Jobs : Leaving(p)' <=> Leaving(p)
    BY <1>1, <1>5 DEF Leaving
  <1> QED
    BY <1>1, <1>2, <1>3, <1>4, <1>5, <1>6

\* A claim only adds to the claims there are.
LEMMA ClaimsGrow ==
  ASSUME Shape, NEW j \in Jobs, Claiming(j)
  PROVE  /\ DOMAIN claims' = Jobs /\ claims'[j] = claims[j] + 1
         /\ \A p \in Jobs : claims[p] \in Nat /\ claims'[p] \in Nat /\ claims'[p] >= claims[p]
  <1>1. claims' = [claims EXCEPT ![j] = @ + 1]
    BY DEF Claiming
  <1> QED
    BY <1>1 DEF Shape

LEMMA ClaimingKept ==
  ASSUME Local, Shape, NEW j \in Jobs, Claiming(j)
  PROVE  /\ DOMAIN kept' = Jobs /\ \A k \in Jobs \ {j} : kept'[k] = kept[k]
         /\ \/ kept'[j] = kept[j]
            \/ kept'[j].name = job[j].name /\ kept'[j].found = job[j].found
  <1>1. kept' = kept \/ kept' = [kept EXCEPT ![j] = [name |-> job[j].name, found |-> job[j].found]]
    BY DEF Claiming
  <1> QED
    BY <1>1 DEF Shape

LEMMA ClaimingShape ==
  ASSUME Local, Shape, Stored, NEW j \in Jobs, Claiming(j)
  PROVE  Shape'
  <1>1. \A k \in Jobs : kept'[k].found \in Nat
    BY ClaimingKept, Remembered DEF Shape
  <1>2. UNCHANGED <<papers, verifs, overlapped, faults, crashes>>
    BY ClaimingPlaces
  <1> QED
    BY <1>1, <1>2, ClaimingKept, ClaimsGrow DEF Shape

LEMMA ClaimingStored ==
  ASSUME Local, Shape, Stored, NEW j \in Jobs, Claiming(j)
  PROVE  Stored'
  <1>1. /\ papers' = papers /\ verifs' = verifs
        /\ \A k \in Jobs \ {j} : /\ job'[k] = job[k] /\ pc(k)' = pc(k)
                                 /\ Candidates(k)' = Candidates(k) /\ Known(k)' = Known(k)
    BY ClaimingPlaces, OthersStay
  <1>2. pc(j)' \in {"report", "createClaim"} /\ pc(j)' \notin BeforePaper \cup Naming
    BY ClaimingPlaces DEF BeforePaper, HandlerReads, Naming, Reading, Deleting
  <1>3. ASSUME NEW q \in Jobs, pc(q)' \in BeforePaper
        PROVE  ~papers'[q].row /\ \A k \in Jobs : q \notin Known(k)'
    <2>1. q # j
      BY <1>2, <1>3
    <2>2. ~papers[q].row /\ \A k \in Jobs : q \notin Known(k)
      BY <1>1, <1>3, <2>1 DEF Stored
    <2>3. q \notin Known(j)'
      BY <2>1, ClaimingPlaces
    <2> QED
      BY <1>1, <2>2, <2>3
  <1>4. \A q \in Jobs : papers'[q].row => papers'[q].name \notin ViolationNames
    BY <1>1 DEF Stored
  <1>5. \A k \in Jobs : \A q \in Candidates(k)' : papers'[q].name \notin ViolationNames
    BY <1>1, ClaimingPlaces DEF Stored
  <1>6. \A k \in Jobs : pc(k)' \in Naming => job'[k].name \notin ViolationNames
    BY <1>1, <1>2 DEF Stored
  <1>7. \A k \in Jobs : pc(k)' = "createClaim" => papers'[k].name = job'[k].name /\ job'[k].paper = k
    <2> SUFFICES ASSUME NEW k \in Jobs, pc(k)' = "createClaim"
                 PROVE  papers'[k].name = job'[k].name /\ job'[k].paper = k
      OBVIOUS
    <2>1. CASE k = j
      BY <1>1, <2>1, ClaimingPlaces
    <2>2. CASE k # j
      BY <1>1, <2>2 DEF Stored
    <2> QED
      BY <2>1, <2>2
  <1>8. \A v \in Jobs : verifs'[v].row => papers'[verifs'[v].paper].row
    BY <1>1 DEF Stored
  <1> QED
    BY <1>3, <1>4, <1>5, <1>6, <1>7, <1>8 DEF Stored

LEMMA ClaimingAlone ==
  ASSUME Local, Stored, Alone, NEW j \in Jobs, Claiming(j)
  PROVE  Alone'
  <1> SUFFICES ASSUME ~overlapped'
               PROVE  Alone'
    BY DEF Alone
  <1>1. /\ ~overlapped /\ papers' = papers /\ papers[j].row /\ pc(j) = "createClaim"
        /\ pc(j)' \in {"createClaim", "report"} /\ Candidates(j)' = {}
        /\ \A k \in Jobs \ {j} : job'[k] = job[k] /\ pc(k)' = pc(k) /\ Candidates(k)' = Candidates(k)
    BY ClaimingPlaces, OthersStay
  <1>2. \A k \in Jobs : Upserting(k)' => Upserting(k)
    BY <1>1 DEF Upserting
  <1>3. \A k, m \in Jobs : Upserting(k)' /\ Upserting(m)' => k = m
    BY <1>1, <1>2 DEF Alone
  <1>4. \A q, r \in Jobs : papers'[q].row /\ papers'[r].row /\ papers'[q].name = papers'[r].name => q = r
    BY <1>1 DEF Alone
  <1>5. \A k \in Jobs : \A q \in Candidates(k)' : papers'[q].row
    BY <1>1 DEF Alone
  <1>6. \A k \in Jobs : pc(k)' \in Naming =>
          \A q \in Jobs : papers'[q].row /\ papers'[q].name = job'[k].name => q \in Candidates(k)'
    <2> SUFFICES ASSUME NEW k \in Jobs, pc(k)' \in Naming
                 PROVE  \A q \in Jobs : papers'[q].row /\ papers'[q].name = job'[k].name => q \in Candidates(k)'
      OBVIOUS
    <2>1. k # j
      BY <1>1 DEF Naming, Reading, Deleting
    <2> QED
      BY <1>1, <2>1 DEF Alone
  <1>7. \A k \in Jobs : pc(k)' = "createClaim" => papers'[k].row
    BY <1>1 DEF Alone
  <1> QED
    BY <1>3, <1>4, <1>5, <1>6, <1>7 DEF Alone

\* The whitepaper of a run has the claims made so far, and with the last one all it found.
LEMMA ClaimingCounted ==
  ASSUME Local, Shape, Stored, Counted, NEW j \in Jobs, Claiming(j)
  PROVE  Counted'
  <1> SUFFICES ASSUME faults' = 0, crashes' = 0
               PROVE  Counted'
    BY DEF Counted
  <1>1. /\ faults = 0 /\ crashes = 0 /\ verifs' = verifs
        /\ pc(j) = "createClaim" /\ pc(j)' \in {"createClaim", "report"} /\ job'[j].paper = j
        /\ \A p \in Jobs : (BeingDeleted(p)' <=> BeingDeleted(p)) /\ (Leaving(p)' <=> Leaving(p))
        /\ \A k \in Jobs \ {j} : job'[k] = job[k] /\ pc(k)' = pc(k)
    BY ClaimingPlaces, OthersStay
  <1>2. ASSUME NEW n \in Nat, NEW p \in Jobs, n <= claims[p] \/ Leaving(p)
        PROVE  n <= claims'[p] \/ Leaving(p)'
    BY <1>1, <1>2, ClaimsGrow
  <1>3. job[j].made \in Nat /\ job'[j].made = job[j].made + 1 /\ (job[j].made + 1 <= claims'[j] \/ Leaving(j)')
    <2>1. job[j].made \in Nat /\ job'[j].made = job[j].made + 1
      BY Remembered DEF Claiming
    <2>2. job[j].made <= claims[j] \/ Leaving(j)
      BY <1>1 DEF Counted
    <2> QED
      BY <1>1, <2>1, <2>2, ClaimsGrow
  <1>4. \A k \in Jobs : pc(k)' = "count" =>
          \A q \in DOMAIN job'[k].count : job'[k].count[q] <= claims'[q] \/ Leaving(q)'
    <2> SUFFICES ASSUME NEW k \in Jobs, pc(k)' = "count", NEW q \in DOMAIN job'[k].count
                 PROVE  job'[k].count[q] <= claims'[q] \/ Leaving(q)'
      OBVIOUS
    <2>1. k # j /\ pc(k) = "count" /\ job'[k] = job[k] /\ q \in DOMAIN job[k].count
      BY <1>1
    <2>2. q \in Jobs /\ job[k].count[q] \in Nat
      BY <2>1, Remembered, CountIsNat
    <2>3. job[k].count[q] <= claims[q] \/ Leaving(q)
      BY <1>1, <2>1 DEF Counted
    <2> QED
      BY <1>2, <2>1, <2>2, <2>3
  <1>5. \A k \in Jobs : pc(k)' = "createClaim" => job'[k].made <= claims'[k] \/ Leaving(k)'
    <2> SUFFICES ASSUME NEW k \in Jobs, pc(k)' = "createClaim"
                 PROVE  job'[k].made <= claims'[k] \/ Leaving(k)'
      OBVIOUS
    <2>1. CASE k = j
      BY <1>3, <2>1
    <2>2. CASE k # j
      <3>1. job'[k] = job[k] /\ job[k].made \in Nat /\ (job[k].made <= claims[k] \/ Leaving(k))
        BY <1>1, <2>2, Remembered DEF Counted
      <3> QED
        BY <1>2, <3>1
    <2> QED
      BY <2>1, <2>2
  <1>6. \A k \in Jobs : pc(k)' \in Linking =>
          \A q \in Jobs : job'[k].paper = q => job'[k].found <= claims'[q] \/ Leaving(q)'
    <2> SUFFICES ASSUME NEW k \in Jobs, pc(k)' \in Linking, NEW q \in Jobs, job'[k].paper = q
                 PROVE  job'[k].found <= claims'[q] \/ Leaving(q)'
      OBVIOUS
    <2>1. CASE k = j
      <3>1. job'[j].found = job[j].made + 1
        BY <2>1 DEF Claiming, Linking
      <3> QED
        BY <1>1, <1>3, <2>1, <3>1
    <2>2. CASE k # j
      <3>1. job'[k] = job[k] /\ job[k].found \in Nat /\ (job[k].found <= claims[q] \/ Leaving(q))
        BY <1>1, <2>2, Remembered DEF Counted
      <3> QED
        BY <1>2, <3>1
    <2> QED
      BY <2>1, <2>2
  <1>7. \A k \in Jobs : verifs'[k].row =>
          \A q \in Jobs : verifs'[k].paper = q => verifs'[k].total <= claims'[q] \/ BeingDeleted(q)'
    <2> SUFFICES ASSUME NEW k \in Jobs, verifs'[k].row, NEW q \in Jobs, verifs'[k].paper = q
                 PROVE  verifs'[k].total <= claims'[q] \/ BeingDeleted(q)'
      OBVIOUS
    <2>1. verifs'[k].total \in Nat /\ (verifs'[k].total <= claims[q] \/ BeingDeleted(q))
      BY <1>1 DEF Counted, Shape
    <2> QED
      BY <1>1, <2>1, ClaimsGrow
  <1> QED
    BY <1>4, <1>5, <1>6, <1>7 DEF Counted

\* With the last claim the row itself holds what the run had in hand.
LEMMA ClaimingKeeping ==
  ASSUME Local, Shape, Stored, Alone, Counted, Keeping, NEW j \in Jobs, Claiming(j)
  PROVE  Keeping'
  <1> SUFFICES ASSUME Calm'
               PROVE  Keeping'
    BY DEF Keeping
  <1>1. /\ Calm /\ ~overlapped /\ faults = 0 /\ crashes = 0 /\ papers' = papers
        /\ pc(j) = "createClaim" /\ pc(j)' \in {"createClaim", "report"}
        /\ papers[j].row /\ papers[j].name = job[j].name /\ job'[j].name = job[j].name
    BY ClaimingPlaces DEF Calm
  <1>2. \A k \in Jobs \ {j} : job'[k] = job[k] /\ pc(k)' = pc(k) /\ ~Upserting(k)
    BY <1>1, AloneNow, ClaimingPlaces, OthersStay DEF Upserting
  <1>3. \A k \in Jobs : pc(k) \notin Deleting /\ pc(k)' # "count" /\ pc(k)' \notin Deleting
    BY <1>1, <1>2 DEF Upserting, Deleting
  <1>4. /\ job[j].found \in Nat /\ job'[j].found = job[j].found
        /\ pc(j)' = "report" => Safe(job[j].name, job[j].found)'
    <2>1. job[j].found \in Nat /\ job[j].made \in Nat /\ job'[j].found = job[j].found
      BY Remembered DEF Claiming
    <2>2. ASSUME pc(j)' = "report"
          PROVE  Safe(job[j].name, job[j].found)'
      <3>1. job[j].made + 1 = job[j].found
        BY <2>2 DEF Claiming
      <3>2. job[j].made <= claims[j]
        BY <1>1, <1>3 DEF Counted, Leaving, BeingDeleted, Deleting
      <3>3. claims'[j] >= job[j].found
        BY <2>1, <3>1, <3>2, ClaimsGrow
      <3>4. papers'[j].row /\ papers'[j].name = job'[j].name /\ claims'[j] >= job'[j].found
        BY <1>1, <2>1, <3>3
      <3> QED
        BY <1>3, <3>4 DEF Safe
    <2> QED
      BY <2>1, <2>2
  <1>5. ASSUME NEW name, NEW found \in Nat, found > 0, Held(name, found)
        PROVE  Held(name, found)'
    <2>1. CASE Safe(name, found)
      <3>1. PICK q \in Jobs : papers[q].row /\ papers[q].name = name /\ claims[q] >= found
        BY <2>1 DEF Safe
      <3>2. papers'[q].row /\ papers'[q].name = name /\ claims'[q] >= found
        BY <1>1, <1>5, <3>1, ClaimsGrow
      <3>3. Safe(name, found)'
        BY <1>3, <3>2 DEF Safe
      <3> QED
        BY <3>3 DEF Held
    <2>2. CASE InHand(name, found)
      <3>1. PICK k \in Jobs : /\ pc(k) \in Deleting \cup {"createPaper", "createClaim"}
                              /\ job[k].name = name /\ job[k].found >= found
        BY <2>2 DEF InHand
      <3>2. k = j
        BY <1>2, <3>1 DEF Upserting, Deleting
      <3>3. CASE pc(j)' = "createClaim"
        <4>1. InHand(name, found)'
          BY <1>1, <1>4, <3>1, <3>2, <3>3 DEF InHand
        <4> QED
          BY <4>1 DEF Held
      <3>4. CASE pc(j)' = "report"
        <4>1. PICK q \in Jobs : papers'[q].row /\ papers'[q].name = job'[j].name /\ claims'[q] >= job'[j].found
          BY <1>4, <3>4 DEF Safe
        <4>2. papers'[q].name = name /\ claims'[q] >= found
          BY <1>1, <1>4, <1>5, <3>1, <3>2, <4>1, ClaimsGrow
        <4>3. Safe(name, found)'
          BY <1>3, <4>1, <4>2 DEF Safe
        <4> QED
          BY <4>3 DEF Held
      <3> QED
        BY <1>1, <3>3, <3>4
    <2> QED
      BY <1>5, <2>1, <2>2 DEF Held
  <1>6. \A k \in Jobs \ {j} : (kept[k].found > 0 => Held(kept[k].name, kept[k].found))'
    BY <1>1, <1>5, ClaimingKept, HeldOn
  <1>7. (kept[j].found > 0 => Held(kept[j].name, kept[j].found))'
    <2>1. CASE kept'[j] = kept[j]
      BY <1>1, <1>5, <2>1, HeldOn
    <2>2. CASE kept' # kept
      <3>1. pc(j)' = "report" /\ kept'[j].name = job'[j].name /\ kept'[j].found = job'[j].found
        BY <1>1, <1>4, <2>2 DEF Claiming, Shape
      <3>2. Safe(job[j].name, job[j].found)'
        BY <1>4, <3>1
      <3> QED
        BY <3>1, <3>2 DEF Held, Safe
    <2> QED
      BY <2>1, <2>2
  <1> QED
    BY <1>3, <1>6, <1>7 DEF Keeping

LEMMA ClaimingStore ==
  ASSUME Local, Store, NEW j \in Jobs, Claiming(j)
  PROVE  Store'
  BY ClaimingShape, ClaimingStored, ClaimingAlone, ClaimingCounted, ClaimingKeeping DEF Store

-----------------------------------------------------------------------------
(* All steps.                                                              *)

\* What Init says of what the invariant speaks of.
Empty ==
  /\ ask \in Asks /\ claims = [j \in Jobs |-> 0] /\ verifs = [j \in Jobs |-> Absent]
  /\ requests = [j \in Jobs |-> "none"] /\ costs = [j \in Jobs |-> {}]
  /\ job = [j \in Jobs |-> Idle] /\ answer = [j \in Jobs |-> Pending]
  /\ papers = [j \in Jobs |-> [row |-> FALSE, name |-> "", token |-> "", doc |-> ""]]
  /\ kept = [j \in Jobs |-> [name |-> "", found |-> 0]]
  /\ overlapped = FALSE /\ faults = 0 /\ crashes = 0

\* No row is there at the start.
LEMMA EmptyRows ==
  ASSUME Empty, NEW j \in Jobs
  PROVE  /\ DOMAIN papers[j] = {"row", "name", "token", "doc"} /\ papers[j].row = FALSE
         /\ verifs[j].row = FALSE /\ claims[j] = 0 /\ kept[j].found = 0
  <1> DEFINE none == ""
  <1>1. /\ papers = [k \in Jobs |-> [row |-> FALSE, name |-> none, token |-> none, doc |-> none]]
        /\ kept = [k \in Jobs |-> [name |-> none, found |-> 0]]
        /\ verifs = [k \in Jobs |-> Absent] /\ claims = [k \in Jobs |-> 0]
    BY Zenon DEF Empty
  <1> HIDE DEF none
  <1> QED
    BY <1>1 DEF Absent

LEMMA EmptyLocal ==
  ASSUME Empty
  PROVE  Local /\ \A j \in Jobs : pc(j) = "idle"
  <1>1. /\ Idle.pc \in Places /\ Idle.pc \notin Documented \cup Judged \cup Reading
        /\ Idle.pc \notin {"extract", "evaluate", "count", "failing", "delVers", "delPaper", "dropVers", "createVer", "createClaim", "report"}
    <2>1. Idle.pc = "idle"
      BY IdleIs, Zenon
    <2> QED
      BY <2>1 DEF Places, LocalSteps, Documented, Judged, Naming, Reading, Deleting, Linking
  <1>2. \A o : GoodCall(o, Idle)
    BY <1>1, IdleIs, Zenon DEF GoodCall
  <1>3. \A o : GoodAnswer(o, "idle", Pending, "none")
    BY DEF GoodAnswer, Pending
  <1>4. \A j \in Jobs : job[j] = Idle /\ pc(j) = "idle" /\ answer[j] = Pending /\ requests[j] = "none" /\ costs[j] = {}
    BY IdleIs, Zenon DEF Empty, pc
  <1> QED
    BY <1>2, <1>3, <1>4, Zenon DEF Local, Empty

LEMMA EmptyStore ==
  ASSUME Empty
  PROVE  Store
  <1>1. Shape
    <2>1. DOMAIN papers = Jobs /\ DOMAIN claims = Jobs /\ DOMAIN verifs = Jobs /\ DOMAIN kept = Jobs
      BY Zenon DEF Empty
    <2>2. overlapped = FALSE /\ faults = 0 /\ crashes = 0
      BY Zenon DEF Empty
    <2> QED
      <3>1. \A j \in Jobs : DOMAIN papers[j] = {"row", "name", "token", "doc"} /\ papers[j].row \in BOOLEAN
        BY EmptyRows
      <3>2. \A j \in Jobs : verifs[j].row = FALSE
        BY EmptyRows
      <3>3. \A j \in Jobs : claims[j] \in Nat /\ kept[j].found \in Nat
        <4>1. \A j \in Jobs : claims[j] = 0 /\ kept[j].found = 0
          BY EmptyRows, Zenon
        <4> QED
          BY <4>1
      <3>4. overlapped \in BOOLEAN /\ faults \in Nat /\ crashes \in Nat /\ faults + crashes <= MaxFaults
        <4>1. faults = 0 /\ crashes = 0
          BY <2>2, Zenon
        <4>2. faults \in Nat /\ crashes \in Nat /\ faults + crashes <= MaxFaults
          BY <4>1, BoundsAssumption
        <4>3. overlapped \in BOOLEAN
          BY <2>2, Zenon
        <4> QED
          BY <4>2, <4>3, Zenon
      <3> QED
        BY <2>1, <3>1, <3>2, <3>3, <3>4 DEF Shape
  <1>2. \A j \in Jobs : pc(j) = "idle"
    BY EmptyLocal
  <1>3. \A j \in Jobs : Candidates(j) = {} /\ Known(j) = {} /\ pc(j) \notin Writing \cup Linking
    BY <1>2 DEF Candidates, Known, Writing, Naming, Reading, Deleting, Linking
  <1>4. Stored
    BY <1>3, EmptyRows DEF Stored, Writing
  <1>5. \A j \in Jobs : ~Upserting(j) /\ pc(j) \notin Naming /\ pc(j) # "createClaim" /\ pc(j) # "count"
    BY <1>2 DEF Upserting, Naming, Reading, Deleting
  <1>6. Alone
    BY <1>3, <1>5, EmptyRows DEF Alone
  <1>7. Counted
    BY <1>3, <1>5, EmptyRows DEF Counted
  <1>8. Keeping
    <2>1. \A j \in Jobs : ~(kept[j].found > 0)
      <3>1. \A j \in Jobs : kept[j].found = 0
        BY EmptyRows, Zenon
      <3> QED
        BY <3>1
    <2> QED
      BY <1>5, <2>1, Zenon DEF Keeping
  <1> QED
    BY <1>1, <1>4, <1>6, <1>7, <1>8 DEF Store

LEMMA InitInv ==
  ASSUME Init
  PROVE  Inv
  <1>1. Empty
    BY Zenon DEF Init, Empty
  <1> QED
    BY <1>1, EmptyLocal, EmptyStore, Zenon DEF Inv

\* A step of a call is quiet, is elsewhere, or is one of the steps of the upsert.
LEMMA StepsLocal ==
  ASSUME Local, Shape, Bounded, NEW j \in Jobs, Step(j)
  PROVE  /\ Local'
         /\ \/ Quiet(j) \/ Elsewhere
            \/ FindByName(j) \/ FindByToken(j) \/ CountClaims(j) \/ Decide(j)
            \/ DeleteClaims(j) \/ DeleteVerifications(j) \/ DeletePaper(j)
            \/ CreatePaper(j) \/ Claiming(j)
  <1>1. CASE Start(j)
    BY <1>1, StartOK
  <1>2. CASE \/ LookupToken(j) \/ LookupName(j) \/ ReadVerification(j) \/ ReadClaims(j)
             \/ ReadBatch(j) \/ ReadRow(j) \/ ReadRowClaims(j)
    BY <1>2, HandlersOK
  <1>3. CASE Discover(j)
    BY <1>3, DiscoverOK
  <1>4. CASE ResolveName(j)
    BY <1>4, ResolveNameOK
  <1>5. CASE CreateRequest(j)
    BY <1>5, CreateRequestOK
  <1>6. CASE Acquire(j)
    BY <1>6, AcquireOK
  <1>7. CASE extractClaims(j) \/ RateLimited(j) \/ ExtractionFails(j)
    BY <1>7, ExtractionOK
  <1>8. CASE evaluateClaims(j)
    BY <1>8, evaluateClaimsOK
  <1>9. CASE FindByName(j)
    BY <1>9, FindByNameLocal
  <1>10. CASE FindByToken(j)
    BY <1>10, FindByTokenLocal
  <1>11. CASE CountClaims(j)
    BY <1>11, CountClaimsLocal
  <1>12. CASE Decide(j)
    BY <1>12, DecideLocal
  <1>13. CASE DeleteClaims(j) \/ DeleteVerifications(j) \/ DeletePaper(j)
    BY <1>13, DeletionLocal
  <1>14. CASE CreatePaper(j)
    BY <1>14, CreatePaperLocal
  <1>15. CASE CreateClaim(j)
    BY <1>15, CreateClaimIs
  <1>16. CASE runL1(j) \/ runL1L2(j) \/ synthesize(j)
    BY <1>16, ReportOK
  <1>17. CASE DropVerifications(j)
    BY <1>17, DropVerificationsLocal
  <1>18. CASE StoreScan(j) \/ StoreVerification(j)
    BY <1>18, StoreLocal
  <1>19. CASE CreateCostEvent(j)
    BY <1>19, CreateCostEventOK
  <1>20. CASE Complete(j) \/ MarkFailed(j)
    BY <1>20, ClosesOK
  <1>21. CASE RunReturns(j) \/ RunThrows(j)
    BY <1>21, AnswersOK
  <1> QED
    BY <1>1, <1>2, <1>3, <1>4, <1>5, <1>6, <1>7, <1>8, <1>9, <1>10, <1>11, <1>12, <1>13, <1>14, <1>15, <1>16,
       <1>17, <1>18, <1>19, <1>20, <1>21 DEF Step

\* Every step preserves the inductive invariant.
LEMMA NextInv ==
  ASSUME Inv, [Next]_vars
  PROVE  Inv'
  <1>1. Local /\ Store /\ Shape /\ Bounded
    BY DEF Inv, Store, Shape, Bounded
  <1>2. ASSUME NEW j \in Jobs, Step(j)
        PROVE  Inv'
    <2>1. Local'
      BY <1>1, <1>2, StepsLocal
    <2>2. CASE Quiet(j)
      BY <1>1, <2>1, <2>2, QuietStore DEF Inv
    <2>3. CASE Elsewhere
      BY <1>1, <2>1, <2>3, ElsewhereStore DEF Inv
    <2>4. CASE FindByName(j) /\ ~Quiet(j)
      BY <1>1, <2>1, <2>4, FindByNameStore DEF Inv
    <2>5. CASE FindByToken(j)
      BY <1>1, <2>1, <2>5, FindByTokenStore DEF Inv
    <2>6. CASE CountClaims(j)
      BY <1>1, <2>1, <2>6, CountClaimsStore DEF Inv
    <2>7. CASE Decide(j)
      BY <1>1, <2>1, <2>7, DecideStore DEF Inv
    <2>8. CASE DeleteClaims(j) \/ DeleteVerifications(j) \/ DeletePaper(j)
      BY <1>1, <2>1, <2>8, DeletesStore DEF Inv
    <2>9. CASE CreatePaper(j)
      BY <1>1, <2>1, <2>9, CreatePaperStore DEF Inv
    <2>10. CASE Claiming(j)
      BY <1>1, <2>1, <2>10, ClaimingStore DEF Inv
    <2> QED
      BY <1>1, <1>2, <2>2, <2>3, <2>4, <2>5, <2>6, <2>7, <2>8, <2>9, <2>10, StepsLocal
  <1>3. ASSUME NEW j \in Jobs, Expire(j)
        PROVE  Inv'
    BY <1>1, <1>3, ExpireOK, ElsewhereStore DEF Inv
  <1>4. ASSUME NEW j \in Jobs, StatementFails(j)
        PROVE  Inv'
    BY <1>1, <1>4, StatementFailsOK, QuietStore DEF Inv
  <1>45. ASSUME NEW j \in Jobs, ReplyLost(j)
         PROVE  Inv'
    BY <1>1, <1>45, ReplyLostOK, QuietStore DEF Inv
  <1>5. CASE Crash
    BY <1>1, <1>5, CrashLocal, CrashStore DEF Inv
  <1>6. CASE UNCHANGED vars
    <2>1. Elsewhere /\ UNCHANGED <<requests, costs, answer>>
      BY <1>6 DEF vars, db, Elsewhere
    <2>2. Local'
      <3>1. /\ ask' = ask /\ job' = job /\ UNCHANGED <<requests, costs, answer>>
            /\ \A j \in Jobs : Of(j)' = Of(j) /\ pc(j)' = pc(j)
        BY <2>1 DEF Elsewhere, Of, pc
      <3>2. \A j \in Jobs : GoodCall(Of(j), job[j])'
        BY <1>1, <3>1 DEF Local
      <3>3. \A j \in Jobs : GoodAnswer(Of(j), pc(j), answer[j], requests[j])'
        BY <1>1, <3>1 DEF Local
      <3> QED
        BY <1>1, <3>1, <3>2, <3>3 DEF Local
    <2> QED
      BY <1>1, <2>1, <2>2, ElsewhereStore DEF Inv
  <1> QED
    BY <1>2, <1>3, <1>4, <1>45, <1>5, <1>6 DEF Next

\* The inductive invariant holds of every reachable state.
LEMMA AlwaysInv == Spec => []Inv
  BY InitInv, NextInv, PTL DEF Spec

-----------------------------------------------------------------------------
(* What follows.                                                           *)

LEMMA InvTypeOK ==
  ASSUME Inv
  PROVE  TypeOK
  <1>1. ASSUME NEW j \in Jobs
        PROVE  /\ pc(j) \in Places /\ job[j].found \in Nat /\ job[j].tries \in 0..ExtractRetries
               /\ job[j].paper \in Jobs \cup {"", Tmp}
    <2>1. GoodCall(Of(j), job[j])
      BY DEF Inv, Local
    <2> QED
      BY <2>1, Zenon DEF GoodCall, pc
  <1>2. ASSUME NEW j \in Jobs
        PROVE  /\ requests[j] \in {"none", "received", "completed", "failed"}
               /\ answer[j].kind \in {"pending", "hit", "miss", "live", "insufficient", "error", "lost"}
               /\ costs[j] \subseteq {"l2", "l3"}
    <2>1. GoodAnswer(Of(j), pc(j), answer[j], requests[j]) /\ costs[j] \subseteq {"l2", "l3"}
      BY DEF Inv, Local
    <2> QED
      BY <2>1, Zenon DEF GoodAnswer
  <1>3. \A j \in Jobs : claims[j] \in Nat /\ (verifs[j].row => verifs[j].verdict \in Verdict /\ papers[verifs[j].paper].row)
    BY DEF Inv, Store, Shape, Stored
  <1>4. overlapped \in BOOLEAN /\ faults + crashes \in 0..MaxFaults
    BY BoundsAssumption DEF Inv, Store, Shape
  <1> QED
    BY <1>1, <1>2, <1>3, <1>4, Zenon DEF TypeOK

LEMMA InvOneRowPerName ==
  ASSUME Inv
  PROVE  OneRowPerName
  <1> SUFFICES ASSUME ~overlapped, NEW n
               PROVE  Cardinality(findByProjectName(n)) <= 1
    BY DEF OneRowPerName
  <1>1. \A p, q \in findByProjectName(n) : p = q
    BY DEF findByProjectName, Inv, Store, Alone
  <1>2. CASE findByProjectName(n) = {}
    <2>1. Cardinality(findByProjectName(n)) = 0
      BY <1>2, FS_EmptySet
    <2> QED
      BY <2>1
  <1>3. CASE \E p : p \in findByProjectName(n)
    <2>1. PICK p : findByProjectName(n) = {p}
      BY <1>1, <1>3
    <2> QED
      <3>1. Cardinality(findByProjectName(n)) = 1
        BY <2>1, FS_Singleton
      <3> QED
        BY <3>1
  <1> QED
    BY <1>2, <1>3

\* The inductive invariant says of every state what its runs check.
LEMMA InvImplies ==
  ASSUME Inv
  PROVE  PipelineInv /\ StoredVerdictHasItsClaims /\ LargestClaimSetIsKept /\ RequestRowTellsTheOutcome
  <1>1. PipelineInv
    <2>1. ViolationNamesAreNeverStored
      BY DEF Inv, Store, Stored, ViolationNamesAreNeverStored
    <2> QED
      BY <2>1, InvTypeOK, InvOneRowPerName DEF PipelineInv
  <1>2. StoredVerdictHasItsClaims
    <2> SUFFICES ASSUME faults = 0, crashes = 0, NEW v \in Jobs, verifs[v].row, ~BeingDeleted(verifs[v].paper)
                 PROVE  claims[verifs[v].paper] >= verifs[v].total
      BY DEF StoredVerdictHasItsClaims
    <2>1. verifs[v].paper \in Jobs /\ verifs[v].total \in Nat /\ claims[verifs[v].paper] \in Nat
      BY DEF Inv, Store, Shape
    <2>2. verifs[v].total <= claims[verifs[v].paper]
      BY <2>1 DEF Inv, Store, Counted
    <2> QED
      BY <2>1, <2>2
  <1>3. LargestClaimSetIsKept
    <2> SUFFICES ASSUME Calm, \A k \in Jobs : ~Upserting(k), NEW j \in Jobs, kept[j].found > 0
                 PROVE  \E p \in findByProjectName(kept[j].name) : claims[p] >= kept[j].found
      BY DEF LargestClaimSetIsKept
    <2>1. Held(kept[j].name, kept[j].found)
      BY DEF Inv, Store, Keeping
    <2>2. ~InHand(kept[j].name, kept[j].found)
      BY DEF InHand, Upserting, Deleting
    <2> QED
      BY <2>1, <2>2 DEF Held, Safe, findByProjectName
  <1>4. RequestRowTellsTheOutcome
    <2> SUFFICES ASSUME NEW j \in Jobs
                 PROVE  /\ answer[j].kind = "live" /\ Of(j) \in FullOfferings => requests[j] = "completed"
                        /\ requests[j] = "completed" =>
                             answer[j].kind \in {"live", "insufficient", "lost"} \/ pc(j) \in {"return", "failing"}
                        /\ requests[j] = "failed" => answer[j].kind \in {"insufficient", "lost"} \/ pc(j) = "thrown"
      BY DEF RequestRowTellsTheOutcome
    <2>1. GoodAnswer(Of(j), pc(j), answer[j], requests[j])
      BY DEF Inv, Local
    <2> QED
      BY <2>1 DEF GoodAnswer
  <1> QED
    BY <1>1, <1>2, <1>3, <1>4

-----------------------------------------------------------------------------
\* The rows and what the calls remember keep their types; runs that do not overlap keep one
\* whitepaper per project name, whatever fails or dies in between (the dedupe of
\* upsertWhitepaperWithClaims); and no name with a violation keyword is ever stored.
THEOREM PipelineIsSound == Spec => []PipelineInv
  BY AlwaysInv, InvImplies, PTL

\* While no statement fails and the process lives, a stored verification never counts more
\* claims than its whitepaper has, except inside the deletion of that whitepaper, however
\* many runs overlap.
THEOREM VerdictsHaveTheirClaims == Spec => []StoredVerdictHasItsClaims
  BY AlwaysInv, InvImplies, PTL

\* Runs that do not overlap and do not fail never lose claims: the project a run was stored
\* under keeps at least as many as that run found.
THEOREM LargestClaimSetStays == Spec => []LargestClaimSetIsKept
  BY AlwaysInv, InvImplies, PTL

\* The requests table agrees with what the buyer was told: a report of a full run only with
\* a completed row, a completed row never with anything but the report, the timer's answer,
\* that of a lost reply or none at all, a failed row never with a report, wherever the
\* process dies between the row and the answer.
THEOREM RequestRowsTellOutcomes == Spec => []RequestRowTellsTheOutcome
  BY AlwaysInv, InvImplies, PTL
=============================================================================
