------------------------------ MODULE Verdicts ------------------------------
(***************************************************************************)
(* The pure part of the verification pipeline of packages/grey-pipeline:   *)
(* what layer 1 measures on a document, what layers 2 and 3 make of its    *)
(* claims, and the verdict a report carries.  A document is the set of     *)
(* features the code looks for, not its text; a score is the code's        *)
(* integer, coherence is counted in tenths.                                *)
(***************************************************************************)
EXTENDS Integers, Sequences, FiniteSets, SequencesExt, FiniteSetsExt

Categories == {"TOKENOMICS", "PERFORMANCE", "CONSENSUS", "SCIENTIFIC"}

MicaSections == {"issuer_identity", "technology_description", "risk_disclosure",
                 "rights_obligations", "redemption_mechanisms", "governance",
                 "environmental_impact"}

MICA_THRESHOLDS == [COMPLIANT |-> 5, PARTIAL |-> 3]
HYPE_TECH_RATIO_THRESHOLD == 3
VERDICT_THRESHOLDS == [PASS |-> 70, CONDITIONAL |-> 40]
MIN_EVALUABLE_CLAIMS == 3
MIN_TEXT_FOR_EXTRACTION == 200

Verdict == {"PASS", "CONDITIONAL", "FAIL", "INSUFFICIENT_DATA"}

-----------------------------------------------------------------------------
(* Layer 1: structure.  doc.marks is the set of patterns the text matches. *)

Matches(doc, patterns) == doc.marks \cap patterns # {}

checkSectionCompleteness(doc) ==
  {s \in {"Abstract", "Methodology", "Tokenomics", "References"} :
     Matches(doc, CASE s = "Abstract"    -> {"abstract", "summary", "overview"}
                    [] s = "Methodology" -> {"methodology", "methods", "protocol design"}
                    [] s = "Tokenomics"  -> {"tokenomics", "token supply"}
                    [] s = "References"  -> {"references", "bibliography"})}

\* Distinct DOIs and URLs together.
checkCitationDensity(doc) == doc.dois + doc.urls

checkMathNotation(doc) == Matches(doc, {"latex", "unicode math", "equation"})

checkCoherence(doc) ==
  IF doc.chars < 100 THEN 0
  ELSE IF doc.lines < 3 THEN 1
  ELSE 10 - (IF "uneven lines" \in doc.marks THEN 3 ELSE 0)
          - (IF "repeated lines" \in doc.marks THEN 3 ELSE 0)
          - (IF doc.lines < 10 THEN 2 ELSE 0)

checkMetadata(doc) == Matches(doc, {"authors", "date", "version"})

computeQuickFilterScore(doc) ==
  1 + Cardinality({c \in 1..4 :
        \/ c = 1 /\ Cardinality(checkSectionCompleteness(doc)) >= 3
        \/ c = 2 /\ checkMathNotation(doc)
        \/ c = 3 /\ checkCitationDensity(doc) > 2
        \/ c = 4 /\ checkCoherence(doc) > 5 /\ checkMetadata(doc)})

\* An empty text is not looked at: base score, nothing found.
structuralScore(doc) == IF doc.chars = 0 THEN 1 ELSE computeQuickFilterScore(doc)

TechCount(doc) ==
  doc.tech + Cardinality(doc.marks \cap {"latex", "unicode math"}) + doc.dois

\* Marketing words per technical word; without a technical word the ratio is
\* infinite, without either it is 0.
HypeRatioReaches(doc, n) == doc.hype > 0 /\ doc.hype >= n * TechCount(doc)

detectUtilityToken(doc) == doc.utilityHits >= 2

claimsMica(doc) == IF "mica" \in doc.marks THEN "YES" ELSE "NOT_MENTIONED"

micaSectionsFound(doc) == doc.sections \cap MicaSections

micaCompliant(doc) ==
  LET found == Cardinality(micaSectionsFound(doc))
  IN  IF detectUtilityToken(doc) /\ claimsMica(doc) = "NOT_MENTIONED" THEN "NOT_APPLICABLE"
      ELSE IF found >= MICA_THRESHOLDS.COMPLIANT THEN "YES"
      ELSE IF found >= MICA_THRESHOLDS.PARTIAL THEN "PARTIAL"
      ELSE "NO"

L1Verdict(doc) ==
  IF structuralScore(doc) < 2 THEN "INSUFFICIENT_DATA"
  ELSE IF structuralScore(doc) >= 3 THEN "PASS"
  ELSE "CONDITIONAL"

-----------------------------------------------------------------------------
(* Layer 2: what the model's answer becomes.  A claim without text is      *)
(* dropped, a category the code does not know is SCIENTIFIC.               *)

parseCategory(raw) == IF raw \in Categories THEN raw ELSE "SCIENTIFIC"

parseResponse(blocks) ==
  [i \in DOMAIN SelectSeq(blocks, LAMBDA c : c.text) |->
     LET c == SelectSeq(blocks, LAMBDA b : b.text)[i]
     IN  [c EXCEPT !.category = parseCategory(@)]]

\* How many claims are left.
WithText(blocks) == Cardinality({i \in DOMAIN blocks : blocks[i].text})

CallsModel(doc) == doc.chars >= MIN_TEXT_FOR_EXTRACTION

-----------------------------------------------------------------------------
(* Layer 3: one claim.  "opinion" is what the model says: the validity of  *)
(* the mathematics (UNVERIFIABLE too when the call fails) and the claims   *)
(* that contradict another (none when the call fails).  No handler passes  *)
(* on a requirement of the buyer, so only a proof has its mathematics read.*)

evaluateBenchmark(claim) ==
  LET Excess(implausible, suspicious) ==
        IF claim.number > implausible THEN -50
        ELSE IF claim.number > suspicious THEN -20 ELSE 0
  IN  IF claim.category = "PERFORMANCE" /\ claim.unit = "tps" THEN Excess(1000000, 100000)
      ELSE IF claim.category = "TOKENOMICS" /\ claim.unit = "apy" THEN Excess(1000, 100)
      ELSE 0

derivePlausibility(delta) ==
  IF delta <= -50 THEN "OUTLIER" ELSE IF delta < -10 THEN "LOW" ELSE "HIGH"

\* No literature service, or no DOI in the evidence: no opinion.
evaluateCitations(claim) ==
  IF claim.doi = "none" THEN "NULL" ELSE IF claim.doi = "known" THEN "TRUE" ELSE "FALSE"

evaluateClaim(claim, opinion) ==
  [math     |-> IF claim.proof THEN opinion.math ELSE "UNSET",
   plausibility |-> derivePlausibility(evaluateBenchmark(claim)),
   citation |-> evaluateCitations(claim)]

\* Of several claims only; a claim the answer leaves out is consistent.
evaluateConsistency(claims, opinion) ==
  [i \in DOMAIN claims |->
     IF Len(claims) > 1 /\ i \in opinion.contradicted THEN "CONTRADICTED" ELSE "CONSISTENT"]

Clamp(n) == IF n < 0 THEN 0 ELSE IF n > 100 THEN 100 ELSE n

computeClaimScore(e, consistency) ==
  Clamp(50
    + (CASE e.math = "VALID" -> 20 [] e.math = "FLAWED" -> -30 [] OTHER -> 0)
    + (CASE e.plausibility = "HIGH" -> 15 [] e.plausibility = "OUTLIER" -> -25
         [] e.plausibility = "LOW" -> -10)
    + (CASE e.citation = "TRUE" -> 10 [] e.citation = "FALSE" -> -15 [] OTHER -> 0)
    + (CASE consistency = "CONSISTENT" -> 5 [] consistency = "CONTRADICTED" -> -20))

evaluateAll(claims, opinion) ==
  [i \in DOMAIN claims |->
     computeClaimScore(evaluateClaim(claims[i], opinion), evaluateConsistency(claims, opinion)[i])]

-----------------------------------------------------------------------------
(* The verdict of a report.                                                *)

\* Math.round(total / n) of non-negative integers.
RoundedMean(total, n) == (2 * total + n) \div (2 * n)

computeConfidenceScore(scores) ==
  RoundedMean(FoldSeq(LAMBDA s, sum : s + sum, 0, scores), Len(scores))

deriveVerdict(confidence) ==
  IF confidence >= VERDICT_THRESHOLDS.PASS THEN "PASS"
  ELSE IF confidence >= VERDICT_THRESHOLDS.CONDITIONAL THEN "CONDITIONAL" ELSE "FAIL"

aggregate(scores) ==
  IF Len(scores) < MIN_EVALUABLE_CLAIMS THEN "INSUFFICIENT_DATA"
  ELSE deriveVerdict(computeConfidenceScore(scores))

adjustVerdictForMicaDiscrepancy(verdict, claimed, compliant, structural, known) ==
  IF verdict # "PASS" THEN verdict
  ELSE IF claimed = "YES" /\ compliant = "NO"
    THEN IF structural <= 3 THEN "FAIL" ELSE "CONDITIONAL"
  ELSE IF claimed = "YES" /\ compliant = "PARTIAL" THEN "CONDITIONAL"
  ELSE IF claimed = "NOT_MENTIONED" /\ compliant = "NO" /\ known THEN "CONDITIONAL"
  ELSE verdict

\* The verdict every report builder delivers for a verification of doc.
ReportVerdict(verdict, doc, known) ==
  adjustVerdictForMicaDiscrepancy(verdict, claimsMica(doc), micaCompliant(doc),
                                  structuralScore(doc), known)
=============================================================================
