------------------------------ MODULE Pipeline ------------------------------
(***************************************************************************)
(* The offering handlers of packages/grey-core over the grey_two database: *)
(* a request is answered from the rows of its project when there are any,  *)
(* and otherwise runs the live pipeline of packages/grey-pipeline, which   *)
(* writes those rows one statement at a time and without a transaction.    *)
(*                                                                         *)
(* A job is one call of a handler.  A run creates at most one whitepaper   *)
(* and at most one verification, so a row is named by the job that created *)
(* it.  Every await of the code ends an action; what is between two awaits *)
(* is one action.                                                          *)
(***************************************************************************)
EXTENDS Verdicts

CONSTANTS
  Jobs,            \* calls of a handler
  Asks,            \* the requests considered: a set of functions on Jobs
  DocumentOf,      \* what a document says: identifier -> record of Verdicts
  Discoverable,    \* token -> documents the discovery may find for it
  MarketName,      \* token -> name DexScreener gives it, "" for none
  ChainName,       \* token -> name its contract gives it, "" for none
  KnownLabels,     \* a label of a known protocol -> its canonical name
  EvmTokens,       \* the tokens that are 0x addresses
  VersionOf,       \* project name -> its version suffix, "" for none
  ViolationNames,  \* names with a violation keyword
  KnownProtocols,  \* names of the known-protocol list
  Opinions,        \* what the model may say of the claims of a document
  MaxActive,       \* calls in flight at once
  MaxFaults        \* statements that may fail, and deaths of the process, in all

ASSUME BoundsAssumption == MaxFaults \in Nat /\ MaxActive \in Nat \ {0}

\* No call is named like the record a run makes up, nor like none; and whatever
\* document is given or discovered says something.
Tmp == "tmp"
ASSUME DocumentAssumption ==
  /\ {"", Tmp} \cap Jobs = {}
  /\ \A a \in Asks, j \in Jobs :
       /\ a[j].doc \in DOMAIN DocumentOf \cup {""}
       /\ Discoverable[a[j].token] \subseteq DOMAIN DocumentOf
  /\ \A d \in DOMAIN DocumentOf : IsFiniteSet(DOMAIN DocumentOf[d].claims)

VARIABLES
  ask,        \* the request of every job
  papers,     \* whitepapers, by the job that created the row
  claims,     \* whitepaper -> number of its claim rows
  verifs,     \* verifications, by the job that created the row
  requests,   \* the requests row of every job
  costs,      \* the cost_events rows of every job: stages
  job,        \* where every call stands and what it remembers
  answer,     \* what the buyer of every call was told
  kept,       \* history: under which name, and with how many claims, a run was stored
  overlapped, \* history: two runs have been between their reads and their writes at once
  faults, crashes

db == <<papers, claims, verifs, requests, costs>>
vars == <<ask, db, job, answer, kept, overlapped, faults, crashes>>

-----------------------------------------------------------------------------
(* Rows and answers.                                                       *)

Absent == [row |-> FALSE]
Pending == [kind |-> "pending"]

LiveOfferings == {"legitimacy_scan", "verify_whitepaper", "verify_full_tech", "claim_extraction"}
FullOfferings == {"verify_whitepaper", "verify_full_tech"}
BatchOfferings == {"daily_tech_brief", "scam_alert_feed", "daily_greenlight_list"}

NoCounts == [p \in {} |-> 0]

Idle == [pc |-> "idle", name |-> "", doc |-> "", found |-> 0, tries |-> 0,
         verdict |-> "", stages |-> {}, count |-> NoCounts, todo |-> {}, paper |-> "", made |-> 0, ver |-> Absent]

Of(j) == ask[j].offering
pc(j) == job[j].pc
Doc(j) == DocumentOf[job[j].doc]

hasViolationKeywords(name) == name \in ViolationNames
extractVersion(name) == VersionOf[name]

\* WHERE project_name = ... and WHERE token_address = ...
findByProjectName(name) == {p \in Jobs : papers[p].row /\ papers[p].name = name}
findByTokenAddress(token) == {p \in Jobs : papers[p].row /\ papers[p].token = token}
findByWhitepaperId(p) == {v \in Jobs : verifs[v].row /\ verifs[v].paper = p}

getGreenlightList == {v \in Jobs : verifs[v].row /\ verifs[v].verdict = "PASS"}
getScamAlerts == {v \in Jobs : verifs[v].row /\ verifs[v].verdict = "FAIL" /\ verifs[v].hype}
getLatestDailyBatch == {v \in Jobs : verifs[v].row}

filterSameVersionFamily(rows, name) ==
  {p \in rows : extractVersion(papers[p].name) = extractVersion(name)}

Put(j, state) == job' = [job EXCEPT ![j] = state]
Goto(j, place) == Put(j, [job[j] EXCEPT !.pc = place])

\* Only the first answer reaches the buyer: a run that was given up goes on alone.
Tell(j, a) == answer' = IF answer[j] = Pending THEN [answer EXCEPT ![j] = a] ELSE answer
Done(j, a) == job' = [job EXCEPT ![j] = [Idle EXCEPT !.pc = "done"]] /\ Tell(j, a)

Says(kind) == [kind |-> kind, total |-> 0, claims |-> 0, verdict |-> "INSUFFICIENT_DATA"]
insufficientData == Says("insufficient")

\* A statement that throws: in a handler it ends the request with an error, in
\* a run it ends in the catch of runFullPipeline when the request row exists
\* and in the catch of cacheOrLive otherwise.
HandlerReads == {"byToken", "byName", "readVer", "readClaims", "batch", "row", "rowClaims"}
\* Mutant: whatever throws ends in the catch of cacheOrLive, and the request row stays open.
ThrowsPastTheRun(j) ==
  IF pc(j) \in HandlerReads THEN Done(j, Says("error")) ELSE Done(j, insufficientData)

Throws(j) ==
  IF pc(j) \in HandlerReads THEN Done(j, Says("error"))
  ELSE IF requests[j] = "received" /\ pc(j) # "failing"
    THEN Goto(j, "failing") /\ UNCHANGED answer
  ELSE Done(j, insufficientData)

-----------------------------------------------------------------------------
(* The handlers: reads of the cache.                                       *)

InFlight == {j \in Jobs : pc(j) \notin {"idle", "done", "dead"}}

Start(j) ==
  /\ pc(j) = "idle" /\ Cardinality(InFlight) < MaxActive
  /\ Put(j, [job[j] EXCEPT !.pc = IF Of(j) \in BatchOfferings THEN "batch"
                                 ELSE IF Of(j) = "claim_extraction" THEN "live" ELSE "byToken",
                          !.name = ask[j].name, !.doc = ask[j].doc])
  /\ UNCHANGED <<ask, db, answer, kept, overlapped, faults, crashes>>

\* resolveWhitepaper: only an 0x address is looked up; any row of the answer
\* may come first.
LookupToken(j) ==
  /\ pc(j) = "byToken"
  /\ LET rows == IF ask[j].token \in EvmTokens THEN findByTokenAddress(ask[j].token) ELSE {}
     IN  IF rows = {} THEN Goto(j, "byName")
         ELSE \E p \in rows : Put(j, [job[j] EXCEPT !.pc = "readVer", !.paper = p])
  /\ UNCHANGED <<ask, db, answer, kept, overlapped, faults, crashes>>

\* A miss: the four compute offerings go live, the others say so.
Miss(j, a) ==
  IF Of(j) \in LiveOfferings THEN Put(j, [job[j] EXCEPT !.pc = "live", !.paper = ""]) /\ UNCHANGED answer
  ELSE Done(j, a)

LookupName(j) ==
  /\ pc(j) = "byName"
  /\ LET rows == IF ask[j].name = "" THEN {} ELSE findByProjectName(ask[j].name)
     IN  IF rows = {} THEN Miss(j, Says("miss"))
         ELSE /\ \E p \in rows : Put(j, [job[j] EXCEPT !.pc = "readVer", !.paper = p])
              /\ UNCHANGED answer
  /\ UNCHANGED <<ask, db, kept, overlapped, faults, crashes>>

buildLegitimacyHit(v) == [kind |-> "hit", total |-> v.total, claims |-> v.total, verdict |-> v.verdict]
buildVerifyWhitepaperHit(v, n) == [buildLegitimacyHit(v) EXCEPT !.claims = n]

\* LIMIT 1 without an order: any verification of the whitepaper.
ReadVerification(j) ==
  /\ pc(j) = "readVer"
  /\ LET rows == findByWhitepaperId(job[j].paper)
     IN  IF rows = {} /\ Of(j) # "claim_history" THEN Miss(j, Says("miss"))
         ELSE \E v \in IF rows = {} THEN {Absent} ELSE {verifs[r] : r \in rows} :
                IF Of(j) \in FullOfferings \cup {"claim_history"}
                THEN Put(j, [job[j] EXCEPT !.pc = "readClaims", !.ver = v]) /\ UNCHANGED answer
                ELSE Done(j, buildLegitimacyHit(v))
  /\ UNCHANGED <<ask, db, kept, overlapped, faults, crashes>>

ReadClaims(j) ==
  /\ pc(j) = "readClaims"
  /\ Done(j, IF job[j].ver = Absent THEN Says("miss")
             ELSE buildVerifyWhitepaperHit(job[j].ver, claims[job[j].paper]))
  /\ UNCHANGED <<ask, db, kept, overlapped, faults, crashes>>

\* The feeds: one query for the verifications, then the whitepaper of each (and
\* for the brief its claims).  The dates are left out.
ReadBatch(j) ==
  /\ pc(j) = "batch"
  /\ LET rows == CASE Of(j) = "daily_tech_brief" -> {v \in getLatestDailyBatch : verifs[v].total > 0}
                   [] Of(j) = "scam_alert_feed" -> getScamAlerts
                   [] Of(j) = "daily_greenlight_list" -> getGreenlightList
     IN  Put(j, [job[j] EXCEPT !.pc = "row", !.todo = {<<v, verifs[v].paper>> : v \in rows}])
  /\ UNCHANGED <<ask, db, answer, kept, overlapped, faults, crashes>>

\* A row whose whitepaper is gone is left out of the brief and stays in the others.
ReadRow(j) ==
  /\ pc(j) = "row"
  /\ IF job[j].todo = {}
     THEN Done(j, Says(IF job[j].found > 0 THEN "hit" ELSE "miss"))
     ELSE /\ \E r \in job[j].todo :
               Put(j, [job[j] EXCEPT !.todo = @ \ {r},
                                     !.pc = IF Of(j) = "daily_tech_brief" /\ papers[r[2]].row
                                            THEN "rowClaims" ELSE "row",
                                     !.found = IF Of(j) = "daily_tech_brief" THEN @ ELSE @ + 1])
          /\ UNCHANGED answer
  /\ UNCHANGED <<ask, db, kept, overlapped, faults, crashes>>

ReadRowClaims(j) ==
  /\ pc(j) = "rowClaims"
  /\ Put(j, [job[j] EXCEPT !.pc = "row", !.found = @ + 1])
  /\ UNCHANGED <<ask, db, answer, kept, overlapped, faults, crashes>>

-----------------------------------------------------------------------------
(* cacheOrLive and the run: up to the claims, nothing is written but the   *)
(* requests row of a full run.                                             *)

InRun(j) == pc(j) \notin {"idle", "done", "dead", "live"} \cup HandlerReads

\* Discovery when the request names no document: a miss ends the request.
Discover(j) ==
  /\ pc(j) = "live"
  /\ \/ /\ job[j].doc # "" /\ Goto(j, "name") /\ UNCHANGED answer
     \/ \E d \in IF job[j].doc = "" THEN Discoverable[ask[j].token] ELSE {} :
          Put(j, [job[j] EXCEPT !.pc = "name", !.doc = d]) /\ UNCHANGED answer
     \/ job[j].doc = "" /\ Done(j, insufficientData)
  /\ UNCHANGED <<ask, db, kept, overlapped, faults, crashes>>

canonicalizeProjectName(label) == IF label \in DOMAIN KnownLabels THEN KnownLabels[label] ELSE label

\* The market names the token, or the chain does, or nobody answers.
resolveTokenName(token) ==
  {canonicalizeProjectName(MarketName[token]), ""} \cup
  (IF token \in EvmTokens THEN {canonicalizeProjectName(ChainName[token])} ELSE {})

resolveProjectName(given, token) ==
  LET Or(name, other) == IF name = "" THEN other ELSE name
  IN  IF given \in {"", "Unknown"} /\ token # ""
      THEN {Or(n, Or(given, "Unknown")) : n \in resolveTokenName(token)}
      ELSE {Or(given, "Unknown")}

ResolveName(j) ==
  /\ pc(j) = "name"
  /\ \E n \in resolveProjectName(ask[j].name, ask[j].token) :
       Put(j, [job[j] EXCEPT !.pc = IF Of(j) \in FullOfferings THEN "request" ELSE "acquire", !.name = n])
  /\ UNCHANGED <<ask, db, answer, kept, overlapped, faults, crashes>>

CreateRequest(j) ==
  /\ pc(j) = "request"
  /\ requests' = [requests EXCEPT ![j] = "received"]
  /\ Goto(j, "acquire")
  /\ UNCHANGED <<ask, papers, claims, verifs, costs, answer, kept, overlapped, faults, crashes>>

\* The text, and layer 1 on it: it is fetched or the fetch throws.
Acquire(j) ==
  /\ pc(j) = "acquire"
  /\ \/ /\ Put(j, [job[j] EXCEPT !.pc = IF Of(j) = "legitimacy_scan" THEN "findName" ELSE "extract",
                             !.verdict = IF Of(j) = "legitimacy_scan" THEN L1Verdict(Doc(j)) ELSE ""])
        /\ UNCHANGED answer
     \/ Throws(j)
  /\ UNCHANGED <<ask, db, kept, overlapped, faults, crashes>>

\* Layer 2: the model answers, and may leave out all claims or all but one.
ExtractRetries == 2
Parsed == [d \in DOMAIN DocumentOf |-> parseResponse(DocumentOf[d].claims)]
ClaimCounts(d) ==
  LET all == WithText(DocumentOf[d].claims)
  IN  IF ~CallsModel(DocumentOf[d]) THEN {0} ELSE {n \in {0, 1, all} : n <= all}

extractClaims(j) ==
  /\ pc(j) = "extract"
  /\ \E n \in ClaimCounts(job[j].doc) :
       Put(j, [job[j] EXCEPT !.pc = IF Of(j) \in FullOfferings THEN "evaluate" ELSE "findName",
                             !.found = n, !.tries = 0])
  /\ UNCHANGED <<ask, db, answer, kept, overlapped, faults, crashes>>

\* A rate limit is waited out, twice; any other failure is the run's.
RateLimited(j) ==
  /\ pc(j) = "extract" /\ CallsModel(Doc(j))
  /\ job[j].tries < ExtractRetries
  /\ Put(j, [job[j] EXCEPT !.tries = @ + 1])
  /\ UNCHANGED <<ask, db, answer, kept, overlapped, faults, crashes>>

ExtractionFails(j) ==
  /\ pc(j) = "extract" /\ CallsModel(Doc(j))
  /\ Throws(j)
  /\ UNCHANGED <<ask, db, kept, overlapped, faults, crashes>>

\* What the layers make of the first n claims of a document: the verdict, and
\* the stages the model was paid for.
Evaluated(d, n, o) ==
  LET found == SubSeq(Parsed[d], 1, n)
  IN  [verdict |-> aggregate(evaluateAll(found, Opinions[o])),
       stages  |-> {s \in {"l2", "l3"} :
                      \/ s = "l2" /\ CallsModel(DocumentOf[d])
                      \/ /\ s = "l3" /\ Opinions[o].up
                         /\ n >= 2 \/ \E i \in 1..n : found[i].proof}]

Evaluation == [d \in DOMAIN DocumentOf |-> [n \in ClaimCounts(d) |->
                [o \in DOMAIN Opinions |-> Evaluated(d, n, o)]]]

\* Layer 3 catches what its calls throw: it always ends with a score per claim.
evaluateClaims(j) ==
  /\ pc(j) = "evaluate"
  /\ \E o \in DOMAIN Opinions :
       LET run == Evaluation[job[j].doc][job[j].found][o]
       IN  Put(j, [job[j] EXCEPT !.pc = "findName", !.verdict = run.verdict, !.stages = run.stages])
  /\ UNCHANGED <<ask, db, answer, kept, overlapped, faults, crashes>>

-----------------------------------------------------------------------------
(* upsertWhitepaperWithClaims.                                             *)

Upserting(j) == pc(j) \in {"findToken", "count", "delClaims", "delVers", "delPaper",
                           "createPaper", "createClaim"}

\* Names with a violation keyword are never stored: the run goes on with a
\* record of its own.
FindByName(j) ==
  /\ pc(j) = "findName"
  /\ IF hasViolationKeywords(job[j].name)
     THEN Put(j, [job[j] EXCEPT !.pc = "report", !.paper = Tmp]) /\ UNCHANGED overlapped
     ELSE /\ Put(j, [job[j] EXCEPT !.pc = IF ask[j].token = "" THEN "count" ELSE "findToken",
                                  !.todo = findByProjectName(job[j].name)])
          /\ overlapped' = (overlapped \/ \E k \in Jobs \ {j} : Upserting(k))
  /\ UNCHANGED <<ask, db, answer, kept, faults, crashes>>

FindByToken(j) ==
  /\ pc(j) = "findToken"
  /\ Put(j, [job[j] EXCEPT !.pc = "count",
        !.todo = @ \cup filterSameVersionFamily(findByTokenAddress(ask[j].token), job[j].name)])
  /\ UNCHANGED <<ask, db, answer, kept, overlapped, faults, crashes>>

\* One query per candidate for the number of its claims.
CountClaims(j) ==
  /\ pc(j) = "count" /\ job[j].todo # {}
  /\ \E p \in job[j].todo :
       Put(j, [job[j] EXCEPT !.todo = @ \ {p},
                             !.count = [q \in DOMAIN @ \cup {p} |-> IF q = p THEN claims[p] ELSE @[q]]])
  /\ UNCHANGED <<ask, db, answer, kept, overlapped, faults, crashes>>

\* Mutant: rows without claims are left where they are.
chooseWithoutCleanup(count, found, name) ==
  LET withClaims == {p \in DOMAIN count : count[p] > 0}
      named      == {p \in withClaims : papers[p].name = name}
  IN  IF withClaims = {} THEN {[reuse |-> "", name |-> name, delete |-> {}]}
      ELSE {IF count[p] >= found THEN [reuse |-> p, name |-> papers[p].name, delete |-> {}]
            ELSE [reuse |-> "", name |-> papers[p].name, delete |-> {p}] :
               p \in IF named # {} THEN named ELSE withClaims}

\* Mutant: the run that found more gives way.
chooseSmaller(count, found, name) ==
  LET withClaims == {p \in DOMAIN count : count[p] > 0}
      named      == {p \in withClaims : papers[p].name = name}
  IN  IF withClaims = {} THEN {[reuse |-> "", name |-> name, delete |-> DOMAIN count]}
      ELSE {IF count[p] <= found THEN [reuse |-> p, name |-> papers[p].name, delete |-> {}]
            ELSE [reuse |-> "", name |-> papers[p].name, delete |-> {p}] :
               p \in IF named # {} THEN named ELSE withClaims}

\* The first candidate with claims decides, one with the run's own name first:
\* it is reused if it has at least as many claims, else replaced under its
\* name.  Candidates that all lack claims are cleaned up.
chooseWhitepaperUpsert(count, found, name) ==
  LET withClaims == {p \in DOMAIN count : count[p] > 0}
      named      == {p \in withClaims : papers[p].name = name}
  IN  IF withClaims = {} THEN {[reuse |-> "", name |-> name, delete |-> DOMAIN count]}
      ELSE {IF count[p] >= found THEN [reuse |-> p, name |-> papers[p].name, delete |-> {}]
            ELSE [reuse |-> "", name |-> papers[p].name, delete |-> {p}] :
               p \in IF named # {} THEN named ELSE withClaims}

Keeps(j, name) == kept' = [kept EXCEPT ![j] = [name |-> name, found |-> job[j].found]]

Decide(j) ==
  /\ pc(j) = "count" /\ job[j].todo = {}
  /\ \E d \in chooseWhitepaperUpsert(job[j].count, job[j].found, job[j].name) :
       IF d.reuse # ""
       THEN Put(j, [job[j] EXCEPT !.pc = "report", !.paper = d.reuse, !.count = NoCounts]) /\ Keeps(j, d.name)
       ELSE /\ Put(j, [job[j] EXCEPT !.pc = IF d.delete = {} THEN "createPaper" ELSE "delClaims",
                                    !.name = d.name, !.todo = d.delete, !.count = NoCounts])
            /\ UNCHANGED kept
  /\ UNCHANGED <<ask, db, answer, overlapped, faults, crashes>>

DeleteClaims(j) ==
  /\ pc(j) = "delClaims"
  /\ \E p \in job[j].todo :
       /\ claims' = [claims EXCEPT ![p] = 0]
       /\ Put(j, [job[j] EXCEPT !.pc = "delVers", !.paper = p])
  /\ UNCHANGED <<ask, papers, verifs, requests, costs, answer, kept, overlapped, faults, crashes>>

WithoutVerifications(p) ==
  [v \in Jobs |-> IF v \in findByWhitepaperId(p) THEN Absent ELSE verifs[v]]

DeleteVerifications(j) ==
  /\ pc(j) = "delVers"
  /\ verifs' = WithoutVerifications(job[j].paper)
  /\ Goto(j, "delPaper")
  /\ UNCHANGED <<ask, papers, claims, requests, costs, answer, kept, overlapped, faults, crashes>>

\* The rows that refer to the whitepaper go with it (ON DELETE CASCADE).
DeletePaper(j) ==
  /\ pc(j) = "delPaper"
  /\ LET p == job[j].paper
         rest == job[j].todo \ {p}
     IN  /\ papers' = [papers EXCEPT ![p].row = FALSE]
         /\ claims' = [claims EXCEPT ![p] = 0]
         /\ verifs' = WithoutVerifications(p)
         /\ Put(j, [job[j] EXCEPT !.pc = IF rest = {} THEN "createPaper" ELSE "delClaims", !.todo = rest])
  /\ UNCHANGED <<ask, requests, costs, answer, kept, overlapped, faults, crashes>>

\* job.name is the canonical name by now.
CreatePaper(j) ==
  /\ pc(j) = "createPaper"
  /\ papers' = [papers EXCEPT ![j] = [row |-> TRUE, name |-> job[j].name,
                                      token |-> ask[j].token, doc |-> job[j].doc]]
  /\ Put(j, [job[j] EXCEPT !.pc = IF job[j].found = 0 THEN "report" ELSE "createClaim", !.paper = j])
  /\ IF job[j].found = 0 THEN Keeps(j, job[j].name) ELSE UNCHANGED kept
  /\ UNCHANGED <<ask, claims, verifs, requests, costs, answer, overlapped, faults, crashes>>

\* Mutant: the last claim is not stored.
CreateClaimButOne(j) ==
  /\ pc(j) = "createClaim"
  /\ IF ~papers[j].row THEN Throws(j) /\ UNCHANGED <<claims, kept>>
     ELSE LET last == job[j].made + 2 >= job[j].found IN
          /\ claims' = [claims EXCEPT ![j] = @ + 1]
          /\ Put(j, [job[j] EXCEPT !.pc = IF last THEN "report" ELSE "createClaim", !.made = @ + 1])
          /\ IF last THEN Keeps(j, job[j].name) ELSE UNCHANGED kept
          /\ UNCHANGED answer
  /\ UNCHANGED <<ask, papers, verifs, requests, costs, overlapped, faults, crashes>>

\* A claim of a whitepaper that is gone violates its foreign key.
CreateClaim(j) ==
  /\ pc(j) = "createClaim"
  /\ IF ~papers[j].row THEN Throws(j) /\ UNCHANGED <<claims, kept>>
     ELSE LET last == job[j].made + 1 = job[j].found IN
          /\ claims' = [claims EXCEPT ![j] = @ + 1]
          /\ Put(j, [job[j] EXCEPT !.pc = IF last THEN "report" ELSE "createClaim", !.made = @ + 1])
          /\ IF last THEN Keeps(j, job[j].name) ELSE UNCHANGED kept
          /\ UNCHANGED answer
  /\ UNCHANGED <<ask, papers, verifs, requests, costs, overlapped, faults, crashes>>

-----------------------------------------------------------------------------
(* The verification, the cost of the run and its end.                      *)

ProjectOf(j) == IF job[j].paper = Tmp THEN job[j].name ELSE papers[job[j].paper].name

\* The report adjusts the verdict of the run.
Delivered(j) == ReportVerdict(job[j].verdict, Doc(j), ProjectOf(j) \in KnownProtocols)

Live(j) == [kind |-> "live", total |-> job[j].found, claims |-> job[j].found,
            verdict |-> IF Of(j) = "claim_extraction" THEN "INSUFFICIENT_DATA" ELSE Delivered(j)]

\* runL1 after the upsert: a record that is not stored has no verification.
runL1(j) ==
  /\ pc(j) = "report" /\ Of(j) = "legitimacy_scan"
  /\ IF job[j].paper = Tmp THEN Done(j, Live(j)) ELSE Goto(j, "dropVers") /\ UNCHANGED answer
  /\ UNCHANGED <<ask, db, kept, overlapped, faults, crashes>>

\* claim_extraction stores no verification.
runL1L2(j) ==
  /\ pc(j) = "report" /\ Of(j) = "claim_extraction"
  /\ Done(j, Live(j))
  /\ UNCHANGED <<ask, db, kept, overlapped, faults, crashes>>

synthesize(j) ==
  /\ pc(j) = "report" /\ Of(j) \in FullOfferings
  /\ Goto(j, IF job[j].paper = Tmp THEN "complete" ELSE "dropVers")
  /\ UNCHANGED <<ask, db, answer, kept, overlapped, faults, crashes>>

DropVerifications(j) ==
  /\ pc(j) = "dropVers"
  /\ verifs' = WithoutVerifications(job[j].paper)
  /\ Goto(j, "createVer")
  /\ UNCHANGED <<ask, papers, claims, requests, costs, answer, kept, overlapped, faults, crashes>>

Verification(j, verdict) ==
  [row |-> TRUE, paper |-> job[j].paper, total |-> job[j].found, delivered |-> Delivered(j),
   verdict |-> verdict, hype |-> HypeRatioReaches(Doc(j), HYPE_TECH_RATIO_THRESHOLD)]

\* A whitepaper that is gone fails the foreign key.
Inserts(j, verdict) ==
  IF ~papers[job[j].paper].row THEN Throws(j) /\ UNCHANGED verifs
  ELSE /\ verifs' = [verifs EXCEPT ![j] = Verification(j, verdict)]
       /\ Goto(j, IF Of(j) = "legitimacy_scan" THEN "return" ELSE "cost") /\ UNCHANGED answer

\* runL1 stores the verdict before its adjustment, runFullPipeline the one it delivers.
StoreScan(j) ==
  /\ pc(j) = "createVer" /\ Of(j) = "legitimacy_scan"
  /\ Inserts(j, job[j].verdict)
  /\ UNCHANGED <<ask, papers, claims, requests, costs, kept, overlapped, faults, crashes>>

StoreVerification(j) ==
  /\ pc(j) = "createVer" /\ Of(j) \in FullOfferings
  /\ Inserts(j, Delivered(j))
  /\ UNCHANGED <<ask, papers, claims, requests, costs, kept, overlapped, faults, crashes>>

\* One cost_events row per stage that used tokens, for the verification just
\* stored: if another run has deleted it the insert fails.
CreateCostEvent(j) ==
  /\ pc(j) = "cost" /\ ~(job[j].stages \subseteq costs[j])
  /\ IF ~verifs[j].row THEN Throws(j) /\ UNCHANGED costs
     ELSE /\ costs' = [costs EXCEPT ![j] = @ \cup {IF "l2" \in job[j].stages \ @ THEN "l2" ELSE "l3"}]
          /\ UNCHANGED <<job, answer>>
  /\ UNCHANGED <<ask, papers, claims, verifs, requests, kept, overlapped, faults, crashes>>

\* What is left of a full run once its rows are stored is its request row.
Completing(j) == pc(j) = "complete" \/ (pc(j) = "cost" /\ job[j].stages \subseteq costs[j])

\* Mutant: a run that stored no verification leaves its request row open.
CompleteStoredOnly(j) ==
  /\ Completing(j)
  /\ requests' = IF pc(j) = "cost" THEN [requests EXCEPT ![j] = "completed"] ELSE requests
  /\ Goto(j, "return")
  /\ UNCHANGED <<ask, papers, claims, verifs, costs, answer, kept, overlapped, faults, crashes>>

Complete(j) ==
  /\ Completing(j)
  /\ requests' = [requests EXCEPT ![j] = "completed"]
  /\ Goto(j, "return")
  /\ UNCHANGED <<ask, papers, claims, verifs, costs, answer, kept, overlapped, faults, crashes>>

MarkFailed(j) ==
  /\ pc(j) = "failing"
  /\ requests' = [requests EXCEPT ![j] = "failed"]
  /\ Goto(j, "thrown")
  /\ UNCHANGED <<ask, papers, claims, verifs, costs, answer, kept, overlapped, faults, crashes>>

\* The run is back in cacheOrLive with its report, or with what it threw: the
\* buyer is told after the last statement, not with it.
RunReturns(j) ==
  /\ pc(j) = "return"
  /\ Done(j, Live(j))
  /\ UNCHANGED <<ask, db, kept, overlapped, faults, crashes>>

RunThrows(j) ==
  /\ pc(j) = "thrown"
  /\ Done(j, insufficientData)
  /\ UNCHANGED <<ask, db, kept, overlapped, faults, crashes>>

-----------------------------------------------------------------------------
(* The timer, the database and the process.                                *)

\* withTimeout: the buyer is told, the run is not stopped.
Expire(j) ==
  /\ InRun(j) /\ answer[j] = Pending
  /\ Tell(j, insufficientData)
  /\ UNCHANGED <<ask, db, job, kept, overlapped, faults, crashes>>

LocalSteps == {"idle", "done", "dead", "live", "name", "acquire", "extract", "evaluate", "report",
               "return", "thrown"}

StatementFails(j) ==
  /\ pc(j) \notin LocalSteps
  /\ faults + crashes < MaxFaults
  /\ faults' = faults + 1
  /\ Throws(j)
  /\ UNCHANGED <<ask, db, kept, overlapped, crashes>>

\* A statement on the request row is carried out and its reply is lost: a run
\* that is completed ends in the catch all the same.
ReplyLost(j) ==
  /\ pc(j) \in {"request", "failing"} \/ Completing(j)
  /\ faults + crashes < MaxFaults
  /\ faults' = faults + 1
  /\ requests' = [requests EXCEPT ![j] = CASE pc(j) = "request" -> "received"
                                         [] pc(j) = "failing" -> "failed"
                                         [] OTHER -> "completed"]
  /\ Throws(j)
  /\ UNCHANGED <<ask, papers, claims, verifs, costs, kept, overlapped, crashes>>

Crash ==
  /\ faults + crashes < MaxFaults /\ InFlight # {}
  /\ crashes' = crashes + 1
  /\ job' = [j \in Jobs |-> IF j \in InFlight THEN [Idle EXCEPT !.pc = "dead"] ELSE job[j]]
  /\ answer' = [j \in Jobs |-> IF j \in InFlight /\ answer[j] = Pending THEN Says("lost") ELSE answer[j]]
  /\ UNCHANGED <<ask, db, kept, overlapped, faults>>

-----------------------------------------------------------------------------
Init ==
  /\ ask \in Asks
  /\ papers = [j \in Jobs |-> [row |-> FALSE, name |-> "", token |-> "", doc |-> ""]]
  /\ claims = [j \in Jobs |-> 0]
  /\ verifs = [j \in Jobs |-> Absent]
  /\ requests = [j \in Jobs |-> "none"]
  /\ costs = [j \in Jobs |-> {}]
  /\ job = [j \in Jobs |-> Idle]
  /\ answer = [j \in Jobs |-> Pending]
  /\ kept = [j \in Jobs |-> [name |-> "", found |-> 0]]
  /\ overlapped = FALSE
  /\ faults = 0 /\ crashes = 0

Step(j) ==
  \/ Start(j) \/ LookupToken(j) \/ LookupName(j) \/ ReadVerification(j) \/ ReadClaims(j)
  \/ ReadBatch(j) \/ ReadRow(j) \/ ReadRowClaims(j)
  \/ Discover(j) \/ ResolveName(j) \/ CreateRequest(j) \/ Acquire(j)
  \/ extractClaims(j) \/ RateLimited(j) \/ ExtractionFails(j) \/ evaluateClaims(j)
  \/ FindByName(j) \/ FindByToken(j) \/ CountClaims(j) \/ Decide(j)
  \/ DeleteClaims(j) \/ DeleteVerifications(j) \/ DeletePaper(j)
  \/ CreatePaper(j) \/ CreateClaim(j)
  \/ runL1(j) \/ runL1L2(j) \/ synthesize(j)
  \/ DropVerifications(j) \/ StoreScan(j) \/ StoreVerification(j) \/ CreateCostEvent(j)
  \/ Complete(j) \/ MarkFailed(j) \/ RunReturns(j) \/ RunThrows(j)

Next ==
  \/ \E j \in Jobs : Step(j) \/ Expire(j) \/ StatementFails(j) \/ ReplyLost(j)
  \/ Crash

Spec == Init /\ [][Next]_vars

\* Every await of a job ends.  The calls to the model and to the web carry their
\* own timeouts; the database client sets none for a statement (client.ts), so
\* that a statement is answered or its connection drops is an assumption.
FairSpec == Spec /\ \A j \in Jobs : WF_vars(Step(j))

-----------------------------------------------------------------------------
(* Properties.                                                             *)

Calm == ~overlapped /\ faults = 0 /\ crashes = 0

Places == HandlerReads \cup LocalSteps \cup
          {"request", "findName", "findToken", "count", "delClaims", "delVers", "delPaper",
           "createPaper", "createClaim", "dropVers", "createVer", "cost", "complete", "failing"}

\* The types of the rows and of what a call remembers.
TypeOK ==
  /\ \A j \in Jobs :
       /\ pc(j) \in Places
       /\ job[j].found \in Nat /\ job[j].tries \in 0..ExtractRetries
       /\ job[j].paper \in Jobs \cup {"", Tmp}
       /\ claims[j] \in Nat /\ costs[j] \subseteq {"l2", "l3"}
       /\ requests[j] \in {"none", "received", "completed", "failed"}
       /\ verifs[j].row => verifs[j].verdict \in Verdict /\ papers[verifs[j].paper].row
       /\ answer[j].kind \in {"pending", "hit", "miss", "live", "insufficient", "error", "lost"}
  /\ overlapped \in BOOLEAN /\ faults + crashes \in 0..MaxFaults

\* Runs that do not overlap keep one whitepaper per project name, whatever
\* fails or dies in between: the dedupe of the upsert deletes before it creates.
OneRowPerName ==
  ~overlapped => \A n \in {papers[p].name : p \in Jobs} : Cardinality(findByProjectName(n)) <= 1

\* While no statement fails and the process lives, a stored verification never
\* counts more claims than its whitepaper has, except inside the deletion of
\* that whitepaper: what a later cache hit shows agrees with what was verified.
BeingDeleted(p) == \E j \in Jobs : pc(j) \in {"delVers", "delPaper"} /\ job[j].paper = p
StoredVerdictHasItsClaims ==
  faults = 0 /\ crashes = 0 =>
    \A v \in Jobs : verifs[v].row /\ ~BeingDeleted(verifs[v].paper) =>
      claims[verifs[v].paper] >= verifs[v].total

\* Runs that do not overlap and do not fail never lose claims: the project a
\* run was stored under keeps at least as many as that run found.
LargestClaimSetIsKept ==
  (Calm /\ \A j \in Jobs : ~Upserting(j)) =>
    \A j \in Jobs : kept[j].found > 0 =>
      \E p \in findByProjectName(kept[j].name) : claims[p] >= kept[j].found

\* The requests table agrees with what the buyer was told, whoever answered, and
\* whatever fails or dies between the row and the answer.  The buyer of a full
\* run has a report only if the row is completed.  A completed row has its buyer
\* told the report, or given up by the timer or over a lost reply, or is still
\* on the way to one of them, or lost its process there; a failed one the same,
\* but never with a report.
RequestRowTellsTheOutcome ==
  \A j \in Jobs :
    /\ answer[j].kind = "live" /\ Of(j) \in FullOfferings => requests[j] = "completed"
    /\ requests[j] = "completed" =>
         answer[j].kind \in {"live", "insufficient", "lost"} \/ pc(j) \in {"return", "failing"}
    /\ requests[j] = "failed" => answer[j].kind \in {"insufficient", "lost"} \/ pc(j) = "thrown"

\* A name with a violation keyword is stored under no circumstances.
ViolationNamesAreNeverStored == \A p \in Jobs : papers[p].row => papers[p].name \notin ViolationNames

\* What holds of every state: its shape, and what is stored under a name.
PipelineInv == TypeOK /\ OneRowPerName /\ ViolationNamesAreNeverStored

\* The audit row of a run is closed in the end, also when the buyer was told
\* long before, unless a statement failed or the process died.
EveryRequestRowCloses ==
  <>[](faults = 0 /\ crashes = 0 => \A j \in Jobs : requests[j] # "received")

\* cacheRead.ts:3-4: "cached verdicts are already MiCA-adjusted at write time".
CachedVerdictsAreAdjusted == \A v \in Jobs : verifs[v].row => verifs[v].verdict = verifs[v].delivered
=============================================================================
