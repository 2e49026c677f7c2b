----------------------------- MODULE Documents -----------------------------
(***************************************************************************)
(* The pure part of document discovery of packages/grey-pipeline: what     *)
(* each resolver makes of what a server answered, how links, search hits   *)
(* and repository files are ranked, and when a text is taken for a         *)
(* document.  A text is its length and the set of names its first 2000     *)
(* characters mention; a URL is the features the code tests for.           *)
(***************************************************************************)
EXTENDS Integers, Sequences, FiniteSets, SequencesExt, FiniteSetsExt, TLC

THIN_CONTENT_THRESHOLD == 500
IMAGE_ONLY_CHAR_THRESHOLD == 100
THIN_SPA_THRESHOLD == 2000
MAX_DEEP_CONTENT_CHARS == 50000
MAX_CONTENT_LENGTH == 100000
MAX_TOTAL_CHARS == 80000
MAX_REDIRECTS == 3
FOLLOWED_SUBPAGES == 5
CRAWLED_SUBPAGES == 8

Smaller(a, b) == IF a < b THEN a ELSE b
FirstOf(s, Good(_)) ==
  {s[i] : i \in {j \in DOMAIN s : Good(s[j]) /\ \A k \in DOMAIN s : Good(s[k]) => j <= k}}

-----------------------------------------------------------------------------
(* Contents.  An answer of a server that is no document is NoPage: a       *)
(* refused connection, a status that is not 2xx, a timeout.                *)

NoPage == [ok |-> FALSE]

Content(len, type, source, about) ==
  [len |-> len, type |-> type, source |-> source, about |-> about, pages |-> 0,
   spa |-> FALSE, home |-> FALSE, locked |-> FALSE, followed |-> FALSE]

\* A PDF whose text cannot be had falls back to its bytes, and mentions nobody.
FetchContent(page) ==
  IF page.type = "pdf"
  THEN IF page.len > 100
       THEN [Content(page.len, "pdf", "pdf", page.about) EXCEPT !.pages = page.pages]
       ELSE Content(IF page.raw > 100 THEN page.raw ELSE 0, "pdf", "pdf", {})
  ELSE [Content(page.len, "html", "html", page.about) EXCEPT
          !.spa = page.len < THIN_CONTENT_THRESHOLD /\ page.framework, !.home = page.home]

estimatePageCount(len, source) ==
  IF len = 0 THEN 0
  ELSE LET perPage == IF source = "pdf" THEN 3000 ELSE 4000
       IN (len + perPage - 1) \div perPage

detectImageOnly(len, pages) == pages > 1 /\ len < IMAGE_ONLY_CHAR_THRESHOLD

mapSource(source) ==
  IF source \in {"llms-txt", "headless-browser", "docs-crawl", "site-specific"} THEN source ELSE "direct"

buildResult(c, source) ==
  LET pages == IF c.pages # 0 THEN c.pages ELSE estimatePageCount(c.len, c.source)
  IN [len |-> c.len, about |-> c.about, source |-> source,
      imageOnly |-> detectImageOnly(c.len, pages), locked |-> c.locked]

\* What a tier takes for a document.
Readable(r) == r.len > 100 /\ ~r.imageOnly /\ ~r.locked

\* The first 2000 characters mention the project or its token.
verifyRelevance(about, name, token) == about \cap ({name, token} \ {""}) # {}

-----------------------------------------------------------------------------
(* The cheap layers: llms.txt and the site-specific handler.               *)

LlmsTxtAccepts(file, minChars) ==
  /\ file.ok
  /\ file.hops <= MAX_REDIRECTS
  /\ file.type # "html"
  /\ file.len >= minChars

LlmsTxt(full, index) ==
  LET file == IF LlmsTxtAccepts(full, 200) THEN {full}
              ELSE IF LlmsTxtAccepts(index, 1000) THEN {index} ELSE {}
  IN {Content(f.len, "markdown", "llms-txt", f.about) : f \in file}

\* GitBook may ignore the Accept header and serve HTML.
SiteSpecific(gitbook, file) ==
  IF gitbook /\ file.ok /\ file.len >= 200 /\ (file.type # "html" \/ file.heading)
  THEN {Content(file.len, "markdown", "site-specific", file.about)} ELSE {}

-----------------------------------------------------------------------------
(* Links of documentation sites.                                           *)

isDocsSiteUrl(url) == url.docsHost \/ url.docsPath = "whole"
isDocsSite(url, len) == len \in 200..10000 /\ (url.docsHost \/ url.docsPath # "none")

\* link.high and link.mid count the telling words of its address.
ScoreLink(link, shallow) ==
  IF link.noise THEN 0
  ELSE 3 * link.high + link.mid + (IF link.depth <= shallow THEN 1 ELSE 0)

\* The best links first; sorting leaves equals in their order.
Ranked(links, shallow, most) ==
  LET Score(i) == ScoreLink(links[i], shallow)
      telling == {i \in DOMAIN links : Score(i) > 0}
      Ahead(i) == {j \in telling : Score(j) > Score(i) \/ (Score(j) = Score(i) /\ j < i)}
  IN [n \in 1..Smaller(most, Cardinality(telling)) |->
        links[CHOOSE i \in telling : Cardinality(Ahead(i)) = n - 1]]

\* The pages behind a thin one, until enough text is together.
followInternalLinks(links) ==
  LET best == Ranked(links, 2, FOLLOWED_SUBPAGES)
      Deep(i, before) == before < MAX_DEEP_CONTENT_CHARS /\ best[i].rendered > 200
      text[i \in 0..Len(best)] ==
        IF i = 0 THEN 0
        ELSE text[i - 1] + (IF Deep(i, text[i - 1]) THEN best[i].rendered ELSE 0)
      followed == {i \in 1..FOLLOWED_SUBPAGES : i <= Len(best) /\ Deep(i, text[i - 1])}
  IN [len |-> text[Len(best)], pages |-> Cardinality(followed)]

\* page.host is where the navigation ended, against where it began.
isDomainTrusted(page) == page.host \in {"same", "subdomain", "trusted"}

\* page.main is the text of its main element, page.late the text after a
\* wait; len 0 stands for nothing rendered.
renderAndExtract(page) ==
  LET first == IF page.main < 200 THEN page.late ELSE page.main
      deep == IF first \in 100..(THIN_SPA_THRESHOLD - 1) THEN followInternalLinks(page.links)
              ELSE [len |-> 0, pages |-> 0]
      moved == page.redirects > MAX_REDIRECTS \/ ~isDomainTrusted(page)
  IN IF moved THEN [len |-> 0, followed |-> FALSE, extra |-> 0]
     ELSE [len |-> IF deep.len > first THEN deep.len ELSE first,
           followed |-> deep.len > first, extra |-> deep.pages]

Rendered(page) ==
  LET r == renderAndExtract(page)
  IN IF r.len < 100 THEN {}
     ELSE {[Content(Smaller(r.len, MAX_CONTENT_LENGTH), "html", "headless-browser", page.about)
              EXCEPT !.followed = r.followed]}

-----------------------------------------------------------------------------
(* Where a document may be found.                                          *)

\* A PDF before a documentation site before anything else that a site links to.
findWhitepaperLink(links) ==
  LET pdf == FirstOf(links, LAMBDA l : l.type = "pdf")
      docs == FirstOf(links, LAMBDA l : l.type = "docs_site")
  IN IF pdf # {} THEN pdf ELSE IF docs # {} THEN docs ELSE FirstOf(links, LAMBDA l : TRUE)

HitScore(hit) ==
  (CASE hit.ext = "pdf" -> 100 [] hit.ext = "md" -> 40 [] hit.ext = "tex" -> 30)
  + 20 * hit.keywords + (IF hit.owner THEN 30 ELSE 0) + (IF hit.repo THEN 30 ELSE 0)

rankHits(hits) ==
  SortSeq(SelectSeq(hits, LAMBDA h : h.ext \in {"pdf", "md", "tex"}),
          LAMBDA a, b : HitScore(a) > HitScore(b))

\* The first of the three best files that can be read, whatever it is about.
GitHubDocument(hits, long) ==
  LET ranked == rankHits(hits)
      best == [i \in 1..Smaller(3, Len(ranked)) |-> ranked[i].url]
  IN FirstOf(best, LAMBDA u : u \in long)

\* CoinGecko by name, by contract on four chains, CoinMarketCap.
AggregatorDocument(listings, long) == FirstOf(listings, LAMBDA u : u \in long)

pickBestResult(results) ==
  LET pass(n) == FirstOf(results, LAMBDA r :
        CASE n = 1 -> r.pdf /\ (r.named \/ r.mirror)
          [] n = 2 -> r.research /\ (r.named \/ r.titled)
          [] n = 3 -> r.pdf
          [] n = 4 -> r.docs /\ (r.named \/ r.titled)
          [] n = 5 -> r.gitbook)
      passes == {n \in 1..5 : pass(n) # {}}
  IN IF passes = {} THEN {} ELSE pass(Min(passes))

\* The table of known papers, the queries of the name, those of its base name.
searchWhitepaper(known, queries) ==
  IF known # "" THEN {known}
  ELSE {r.url : r \in UNION {pickBestResult(results) :
          results \in FirstOf(queries, LAMBDA results : pickBestResult(results) # {})}}

\* Headings, the name and the token are there whatever the page says.
compose(virtuals, names) ==
  [len |-> 300 + (IF virtuals.ok THEN Smaller(virtuals.len, 1300) ELSE 0), about |-> names,
   source |-> "composed", imageOnly |-> FALSE, locked |-> FALSE]
=============================================================================
