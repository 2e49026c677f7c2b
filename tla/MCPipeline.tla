----------------------------- MODULE MCPipeline -----------------------------
(* Three calls over one project, whose token is known under two names.     *)
EXTENDS Pipeline, TLC

Claim(category, proof) ==
  [category |-> category, text |-> TRUE, proof |-> proof, doi |-> "none", number |-> 50, unit |-> "apy"]

Paper(marks, sections, claimSeq) ==
  [marks |-> marks, sections |-> sections, claims |-> claimSeq, chars |-> 2000, lines |-> 20,
   dois |-> 1, urls |-> 4, hype |-> 9, tech |-> 1, utilityHits |-> 0]

\* Claims to follow MiCA and has too few of its sections.
Boasting == Paper({"mica", "abstract", "tokenomics", "latex"},
                  {"governance", "risk_disclosure"},
                  <<Claim("TOKENOMICS", TRUE), Claim("OTHER", FALSE)>>)
\* Says nothing of MiCA; too short for the model.
Short == [Paper({"abstract"}, {}, <<>>) EXCEPT !.chars = 150, !.urls = 0]

Docs == [long |-> Boasting, short |-> Short]
Finds == ("t1" :> {"long"}) @@ ("s1" :> {"long"}) @@ ("" :> {})
Labels == ("t1" :> "Aave Token") @@ ("s1" :> "Pool") @@ ("" :> "")
Contracts == ("t1" :> "Aave") @@ ("s1" :> "") @@ ("" :> "")
Canonical == "Aave Token" :> "Aave"
Versions == [n \in {"Aave", "Pool", "Unknown", "scam", ""} |-> ""]
Says3 == [praise |-> [up |-> TRUE, math |-> "VALID", contradicted |-> {}],
          down   |-> [up |-> FALSE, math |-> "UNVERIFIABLE", contradicted |-> {}]]

Ask(o, n, t, d) == [offering |-> o, name |-> n, token |-> t, doc |-> d]
Three(a, b, c) == "j1" :> a @@ "j2" :> b @@ "j3" :> c

AskSets ==
  { \* two depths of one project at once, and a reader of the day's rows
    Three(Ask("verify_full_tech", "", "t1", "long"), Ask("legitimacy_scan", "Pool", "t1", ""),
          Ask("daily_tech_brief", "", "", "")),
    \* runs that find more or fewer claims, all stored as "Unknown"
    Three(Ask("claim_extraction", "", "", "long"), Ask("claim_extraction", "", "", "long"),
          Ask("claim_history", "Unknown", "", "")),
    Three(Ask("claim_extraction", "", "", "long"), Ask("claim_extraction", "", "", "short"),
          Ask("claim_extraction", "", "", "short")),
    \* a name that must not be stored
    Three(Ask("verify_whitepaper", "scam", "t1", "long"), Ask("legitimacy_scan", "scam", "t1", ""),
          Ask("daily_greenlight_list", "", "", "")),
    \* readers of a project whose token is no 0x address
    Three(Ask("verify_whitepaper", "", "s1", "long"), Ask("quick_protocol_facts", "Pool", "", ""),
          Ask("scam_alert_feed", "", "", "")),
    Three(Ask("legitimacy_scan", "", "t1", ""), Ask("claim_history", "", "t1", ""),
          Ask("legitimacy_scan_trust_rung", "", "t1", "")) }
=============================================================================
