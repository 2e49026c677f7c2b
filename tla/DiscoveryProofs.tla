---------------------------- MODULE DiscoveryProofs ----------------------------
(* Proofs about the discovery of documents, for any number of calls, any web *)
(* and any projects, any ration and threshold, and whatever fails.           *)
EXTENDS Discovery, TLAPS, FiniteSetTheorems, SequenceTheorems, WellFoundedInduction

-------------------------------------------------------------------------------
(* The strengthening.                                                        *)

InLine == {"queued", "inside", "rendering", "leaving"}
Busy == {"inside", "rendering", "leaving"}
Reading == {"fetch", "crawl", "subpage", "entering", "returned"} \cup InLine

(* What a call may come back with. *)
Found(answer) == Readable(answer) \/ (answer.source = "composed" /\ answer.len > 50)

(* A call: its fields, a tier that has a URL while one is read, an answer.   *)
GoodCall(r) ==
  /\ DOMAIN r = DOMAIN Idle
  /\ r.pc \in {"start", "tier", "done"} \cup Reading
  /\ r.tier \in 0..6
  /\ r.url \in DOMAIN Web \cup {""}
  /\ r.want \in {"page", "links", "subpage"}
  /\ r.got \in Nat
  /\ \A x, y \in r.back : x = y
  /\ r.pc = "tier" => r.tier \in 1..6
  /\ r.pc \in Reading => r.tier \in 1..5
  /\ r.pc = "done" => Found(r.answer)

CallStory == DOMAIN call = Calls /\ \A c \in Calls : GoodCall(call[c])

(* The chain of promises: they settle in their order, a caller in the line   *)
(* has a promise of its own that is not settled, right after the one it      *)
(* waits for, and is at the browser once that one is settled.                *)
ChainStory ==
  /\ lock \in Nat /\ settled \subseteq 0..lock
  /\ \A p \in settled : 0..p \subseteq settled
  /\ \A c \in Calls : call[c].mine \in 0..lock /\ call[c].waits \in 0..lock
  /\ \A c \in Calls : call[c].pc \in InLine =>
       call[c].mine = call[c].waits + 1 /\ call[c].mine \notin settled
  /\ \A c \in Calls : call[c].pc \in Busy => call[c].waits \in settled
  /\ \A c, d \in Calls :
       call[c].pc \in InLine /\ call[d].pc \in InLine /\ call[c].mine = call[d].mine => c = d

(* The ration counts the last yields; those it has dropped are an hour old;  *)
(* whoever renders has found room in it.                                     *)
Dropped == Len(history.yields) - Len(timestamps)
RationStory ==
  /\ Len(timestamps) <= Len(history.yields)
  /\ \A i \in 1..Len(timestamps) : timestamps[i] = history.yields[Dropped + i]
  /\ \A i \in 1..Dropped : history.yields[i] + Hour <= now
  /\ \A c \in Calls : call[c].pc = "rendering" => Len(timestamps) < RATE_LIMIT_PER_HOUR
  /\ YieldsAreRationed

(* The page count leaves out what it is known to leave out, and nothing else. *)
RecycleStory ==
  /\ history.contexts <= browser.pageCount + history.uncounted
  /\ \A c \in Calls : call[c].pc = "rendering" => browser.pageCount < BROWSER_RESTART_THRESHOLD
  /\ BrowserIsRecycled

ProcessOK ==
  /\ driver \in {"unloaded", "ready", "absent"}
  /\ browser \in [up : {"none", "alive", "hung", "dead"}, pageCount : Nat]
  /\ now \in 0..MaxNow /\ faults \in 0..MaxFaults
  /\ timestamps \in Seq(0..now)
  /\ history \in [yields : Seq(0..now), contexts : Nat, uncounted : Nat, refused : BOOLEAN]

DiscoveryStory == CallStory /\ ChainStory /\ ProcessOK /\ RationStory /\ RecycleStory

-------------------------------------------------------------------------------
(* What the tiers offer.                                                     *)

LEMMA NumbersOK ==
  /\ RATE_LIMIT_PER_HOUR \in Nat \ {0} /\ BROWSER_RESTART_THRESHOLD \in Nat \ {0} /\ Hour \in Nat \ {0}
  /\ MaxNow \in Nat /\ MaxFaults \in Nat
  BY DiscoveryAssumption

(* A file named by a search of repositories is a long text.                  *)
LEMMA LongOfAHit ==
  ASSUME NEW hits, NEW long
  PROVE  GitHubDocument(hits, long) \subseteq long
  <1> DEFINE ranked == rankHits(hits)
             best == [i \in 1..Smaller(3, Len(ranked)) |-> ranked[i].url]
  <1>1. GitHubDocument(hits, long) = FirstOf(best, LAMBDA u : u \in long)
    BY DEF GitHubDocument
  <1> HIDE DEF best
  <1> QED
    BY <1>1 DEF FirstOf

(* What a site links to is taken from its links.                             *)
LEMMA LinksOfASite ==
  ASSUME NEW links
  PROVE  findWhitepaperLink(links) \subseteq Range(links)
  BY DEF findWhitepaperLink, FirstOf, Range

(* What a search picks is one of its results.                                *)
LEMMA PickOfASearch ==
  ASSUME NEW results
  PROVE  pickBestResult(results) \subseteq Range(results)
  BY DEF pickBestResult, FirstOf, Range

(* The names of the tiers, and their places.                                 *)
LEMMA TierPlaces ==
  /\ \A tier \in {"linked", "site", "github", "aggregator", "search", "compose"} : tier \in Range(Tiers)
  /\ \A i \in 1..6 : Tiers[i] # "compose" => i \in 1..5
  <1>1. /\ Tiers[1] = "linked" /\ Tiers[2] = "site" /\ Tiers[3] = "github" /\ Tiers[4] = "aggregator"
        /\ Tiers[5] = "search" /\ Tiers[6] = "compose"
    BY DEF Tiers
  <1>2. DOMAIN Tiers = 1..6
    BY DEF Tiers
  <1>3. 1 \in 1..6 /\ 2 \in 1..6 /\ 3 \in 1..6 /\ 4 \in 1..6 /\ 5 \in 1..6 /\ 6 \in 1..6
    OBVIOUS
  <1>4. \A i \in 1..6 : i = 6 \/ i \in 1..5
    OBVIOUS
  <1> HIDE DEF Tiers
  <1> QED
    BY <1>1, <1>2, <1>3, <1>4 DEF Range

(* A tier that gives a URL gives one of the web's.                           *)
LEMMA OfferedUrls ==
  ASSUME NEW c \in Calls, NEW tier \in {"linked", "site", "search"}
  PROVE  Offered[c][tier] \subseteq DOMAIN Web
  <1> DEFINE P == Project[c]
  <1>1. Offered[c][tier] = Offers(c, tier)
    BY TierPlaces DEF Offered
  <1>2. Range(P.linked) \subseteq DOMAIN Web
    <2>1. P.linked \in Seq(DOMAIN Web)
      BY WebAssumption
    <2> HIDE DEF P
    <2> QED
      BY <2>1 DEF Range
  <1>3. CASE tier = "linked"
    <2>1. Offers(c, tier) = FirstOf(P.linked, IsDocumentUrl)
      BY <1>3 DEF Offers
    <2>2. FirstOf(P.linked, IsDocumentUrl) \subseteq Range(P.linked)
      BY DEF FirstOf, Range
    <2> QED
      BY <1>1, <1>2, <2>1, <2>2
  <1>4. CASE tier = "site"
    <2> DEFINE sites == FirstOf(P.linked, LAMBDA u : ~IsDocumentUrl(u) /\ Web[u].scraped # <<>>)
    <2>1. Offers(c, tier) = {l.url : l \in UNION {findWhitepaperLink(Web[u].scraped) : u \in sites}}
      BY <1>4 DEF Offers
    <2>2. sites \subseteq Range(P.linked)
      BY DEF FirstOf, Range
    <2>3. \A u \in sites : u \in DOMAIN Web
      BY <1>2, <2>2
    <2> HIDE DEF sites
    <2>4. ASSUME NEW u \in sites, NEW l \in findWhitepaperLink(Web[u].scraped)
          PROVE  l.url \in DOMAIN Web
      BY <2>3, LinksOfASite, WebAssumption
    <2> QED
      BY <1>1, <2>1, <2>4
  <1>5. CASE tier = "search"
    <2>1. Offers(c, tier) = searchWhitepaper(P.known, P.queries)
      BY <1>5 DEF Offers
    <2>2. CASE P.known # ""
      BY <1>1, <2>1, <2>2, WebAssumption DEF searchWhitepaper
    <2>3. CASE P.known = ""
      <3> DEFINE answered == FirstOf(P.queries, LAMBDA results : pickBestResult(results) # {})
      <3>1. Offers(c, tier) = {r.url : r \in UNION {pickBestResult(results) : results \in answered}}
        BY <2>1, <2>3 DEF searchWhitepaper
      <3>2. answered \subseteq Range(P.queries)
        BY DEF FirstOf, Range
      <3> HIDE DEF answered
      <3>3. ASSUME NEW results \in answered, NEW r \in pickBestResult(results)
            PROVE  r.url \in DOMAIN Web
        BY <3>2, PickOfASearch, WebAssumption
      <3> QED
        BY <1>1, <3>1, <3>3
    <2> QED
      BY <2>2, <2>3
  <1> QED
    BY <1>3, <1>4, <1>5

(* A named document is one of the long texts of the web.                     *)
LEMMA OfferedTexts ==
  ASSUME NEW c \in Calls, NEW tier \in {"github", "aggregator"}, NEW u \in Offered[c][tier], NEW t \in Fetched[u]
  PROVE  u \in DOMAIN Web /\ t.len \in Nat /\ t.len > 500
  <1>1. Offered[c][tier] = Offers(c, tier)
    BY TierPlaces DEF Offered
  <1>2. u \in Long
    <2>1. CASE tier = "github"
      <3>1. Offers(c, tier) = GitHubDocument(Project[c].hits, Long)
        BY <2>1 DEF Offers
      <3> QED
        BY <1>1, <3>1, LongOfAHit
    <2>2. CASE tier = "aggregator"
      <3>1. Offers(c, tier) = AggregatorDocument(Project[c].listings, Long)
        BY <2>2 DEF Offers
      <3> QED
        BY <1>1, <3>1 DEF AggregatorDocument, FirstOf
    <2> QED
      BY <2>1, <2>2
  <1>3. u \in DOMAIN Web /\ \E x \in Fetched[u] : x.len > 500
    BY <1>2 DEF Long
  <1>4. Fetched[u] = IF Web[u].page.ok THEN {FetchContent(Web[u].page)} ELSE {}
    BY <1>3 DEF Fetched
  <1>5. t = FetchContent(Web[u].page) /\ Web[u].page.ok /\ t.len > 500
    BY <1>3, <1>4
  <1>6. Web[u].page.len \in Nat /\ (Web[u].page.type = "pdf" => Web[u].page.raw \in Nat)
    BY <1>3, <1>5, WebAssumption
  <1>7. t.len \in {Web[u].page.len, IF Web[u].page.raw > 100 THEN Web[u].page.raw ELSE 0}
    BY <1>5 DEF FetchContent, Content
  <1>8. t.len \in Nat
    BY <1>5, <1>6, <1>7 DEF FetchContent, Content
  <1> QED
    BY <1>3, <1>5, <1>8

-------------------------------------------------------------------------------
(* A call on its own: the steps away from the browser.                       *)

(* A step of a call that is not in the line, and does not enter it.          *)
FreeStep(c) ==
  \E r : /\ Put(c, r) /\ GoodCall(r) /\ r.pc \notin InLine
         /\ r.mine = call[c].mine /\ r.waits = call[c].waits

LEMMA IdleFields ==
  DOMAIN Idle = {"pc", "tier", "url", "landing", "plain", "todo", "sum", "got", "want", "waits", "mine", "back",
                 "links", "answer"}
  BY DEF Idle

LEMMA ClearedIsGood ==
  ASSUME NEW c \in Calls, GoodCall(call[c])
  PROVE  /\ DOMAIN Cleared(c) = DOMAIN Idle /\ Cleared(c).pc = call[c].pc /\ Cleared(c).tier = call[c].tier
         /\ Cleared(c).url = "" /\ Cleared(c).want = call[c].want /\ Cleared(c).got = 0 /\ Cleared(c).back = {}
         /\ Cleared(c).mine = call[c].mine /\ Cleared(c).waits = call[c].waits
  BY IdleFields DEF Cleared, GoodCall

LEMMA NextTierIsFree ==
  ASSUME NEW c \in Calls, GoodCall(call[c]), call[c].tier \in 1..5, NextTier(c)
  PROVE  FreeStep(c)
  <1> DEFINE r == [Cleared(c) EXCEPT !.pc = "tier", !.tier = @ + 1]
  <1>1. /\ DOMAIN r = DOMAIN Idle /\ r.pc = "tier" /\ r.tier = call[c].tier + 1 /\ r.url = ""
        /\ r.want = call[c].want /\ r.got = 0 /\ r.back = {}
        /\ r.mine = call[c].mine /\ r.waits = call[c].waits
    BY ClearedIsGood, IdleFields
  <1>2. Put(c, r)
    BY DEF NextTier
  <1>3. call[c].tier + 1 \in 1..6 /\ call[c].tier + 1 \in 0..6
    OBVIOUS
  <1>4. call[c].want \in {"page", "links", "subpage"}
    BY DEF GoodCall
  <1> HIDE DEF r
  <1>5. GoodCall(r) /\ r.pc \notin InLine
    <2>1. r.pc \notin Reading /\ r.pc \notin InLine
      BY <1>1 DEF Reading, InLine
    <2>2. \A x, y \in r.back : x = y
      BY <1>1
    <2>3. r.tier \in 1..6 /\ r.tier \in 0..6
      <3>1. r.tier = call[c].tier + 1
        BY <1>1
      <3> QED
        BY <3>1, <1>3, Zenon
    <2>4. r.got \in Nat
      <3>1. r.got = 0
        BY <1>1
      <3> QED
        BY <3>1
    <2>5. r.url \in DOMAIN Web \cup {""} /\ r.want \in {"page", "links", "subpage"}
      BY <1>1, <1>4
    <2>6. r.pc = "tier"
      BY <1>1
    <2> QED
      BY <1>1, <2>1, <2>2, <2>3, <2>4, <2>5, <2>6 DEF GoodCall
  <1> QED
    BY <1>1, <1>2, <1>5 DEF FreeStep

LEMMA AnswerIsFree ==
  ASSUME NEW c \in Calls, GoodCall(call[c]), NEW answer, Found(answer), Answer(c, answer)
  PROVE  FreeStep(c)
  <1> DEFINE r == [Cleared(c) EXCEPT !.pc = "done", !.answer = answer]
  <1>1. /\ DOMAIN r = DOMAIN Idle /\ r.pc = "done" /\ r.tier = call[c].tier /\ r.url = ""
        /\ r.want = call[c].want /\ r.got = 0 /\ r.back = {} /\ r.answer = answer
        /\ r.mine = call[c].mine /\ r.waits = call[c].waits
    BY ClearedIsGood, IdleFields
  <1>2. Put(c, r)
    BY DEF Answer
  <1> HIDE DEF r
  <1>3. call[c].want \in {"page", "links", "subpage"} /\ call[c].tier \in 0..6
    BY DEF GoodCall
  <1>4. GoodCall(r) /\ r.pc \notin InLine
    <2>1. r.pc \notin Reading /\ r.pc \notin InLine
      BY <1>1 DEF Reading, InLine
    <2>2. \A x, y \in r.back : x = y
      BY <1>1
    <2>3. r.got \in Nat
      <3>1. r.got = 0
        BY <1>1
      <3> QED
        BY <3>1
    <2>4. r.url \in DOMAIN Web \cup {""} /\ r.want \in {"page", "links", "subpage"} /\ r.tier \in 0..6
      BY <1>1, <1>3
    <2>5. r.pc = "done" /\ Found(r.answer)
      BY <1>1
    <2> QED
      BY <1>1, <2>1, <2>2, <2>3, <2>4, <2>5 DEF GoodCall
  <1> QED
    BY <1>1, <1>2, <1>4 DEF FreeStep

LEMMA JudgeIsFree ==
  ASSUME NEW c \in Calls, GoodCall(call[c]), call[c].tier \in 1..5, NEW result, Judge(c, result)
  PROVE  FreeStep(c)
  BY NextTierIsFree, AnswerIsFree DEF Judge, Found

(* A call that reads a URL of a tier may go on reading it.                   *)
LEMMA ReadOnIsFree ==
  ASSUME NEW c \in Calls, GoodCall(call[c]), call[c].tier \in 1..5, NEW r, Put(c, r),
         DOMAIN r = DOMAIN Idle, r.pc \in Reading \ InLine, r.tier = call[c].tier,
         r.url \in DOMAIN Web \cup {""}, r.want \in {"page", "links", "subpage"}, r.got \in Nat,
         r.back = call[c].back, r.mine = call[c].mine, r.waits = call[c].waits
  PROVE  FreeStep(c)
  <1>1. GoodCall(r)
    BY DEF GoodCall, Reading, InLine
  <1> QED
    BY <1>1 DEF FreeStep

LEMMA TryIsFree ==
  ASSUME NEW c \in Calls, GoodCall(call[c]), call[c].tier \in 1..5, NEW found, found \subseteq DOMAIN Web,
         Try(c, found)
  PROVE  FreeStep(c)
  <1>1. CASE NextTier(c)
    BY <1>1, NextTierIsFree
  <1>2. ASSUME NEW u \in found, Resolve(c, u)
        PROVE  FreeStep(c)
    <2> DEFINE r == [call[c] EXCEPT !.pc = "fetch", !.url = u]
    <2>1. /\ DOMAIN r = DOMAIN Idle /\ r.pc = "fetch" /\ r.tier = call[c].tier /\ r.url = u
          /\ r.want = call[c].want /\ r.got = call[c].got /\ r.back = call[c].back
          /\ r.mine = call[c].mine /\ r.waits = call[c].waits
      BY IdleFields DEF GoodCall
    <2>2. Put(c, r)
      BY <1>2 DEF Resolve
    <2> HIDE DEF r
    <2> QED
      BY <2>1, <2>2, ReadOnIsFree DEF GoodCall, Reading, InLine
  <1> QED
    BY <1>1, <1>2 DEF Try

LEMMA EnterIsFree ==
  ASSUME NEW c \in Calls, GoodCall(call[c]), call[c].tier \in 1..5,
         NEW want \in {"page", "links", "subpage"}, NEW plain, Enter(c, want, plain)
  PROVE  FreeStep(c)
  <1> DEFINE r == [call[c] EXCEPT !.pc = "entering", !.want = want, !.plain = plain]
  <1>1. /\ DOMAIN r = DOMAIN Idle /\ r.pc = "entering" /\ r.tier = call[c].tier /\ r.url = call[c].url
        /\ r.want = want /\ r.got = call[c].got /\ r.back = call[c].back
        /\ r.mine = call[c].mine /\ r.waits = call[c].waits
    BY IdleFields DEF GoodCall
  <1>2. Put(c, r)
    BY DEF Enter
  <1> HIDE DEF r
  <1> QED
    BY <1>1, <1>2, ReadOnIsFree DEF GoodCall, Reading, InLine

LEMMA CrawlIsFree ==
  ASSUME NEW c \in Calls, GoodCall(call[c]), call[c].tier \in 1..5, NEW landing, Crawl(c, landing)
  PROVE  FreeStep(c)
  <1> DEFINE r == [call[c] EXCEPT !.pc = "crawl", !.landing = landing]
  <1>1. /\ DOMAIN r = DOMAIN Idle /\ r.pc = "crawl" /\ r.tier = call[c].tier /\ r.url = call[c].url
        /\ r.want = call[c].want /\ r.got = call[c].got /\ r.back = call[c].back
        /\ r.mine = call[c].mine /\ r.waits = call[c].waits
    BY IdleFields DEF GoodCall
  <1>2. Put(c, r)
    BY DEF Crawl
  <1> HIDE DEF r
  <1> QED
    BY <1>1, <1>2, ReadOnIsFree DEF GoodCall, Reading, InLine

LEMMA LandingIsFree ==
  ASSUME NEW c \in Calls, GoodCall(call[c]), call[c].tier \in 1..5, Landing(c)
  PROVE  FreeStep(c)
  BY JudgeIsFree DEF Landing, Direct, Layered

LEMMA ReadSubpagesIsFree ==
  ASSUME NEW c \in Calls, GoodCall(call[c]), call[c].tier \in 1..5, NEW todo, ReadSubpages(c, todo)
  PROVE  FreeStep(c)
  <1>1. CASE Landing(c)
    BY <1>1, LandingIsFree
  <1>2. CASE Put(c, [call[c] EXCEPT !.pc = "subpage", !.todo = todo, !.sum = call[c].landing.len])
    <2> DEFINE r == [call[c] EXCEPT !.pc = "subpage", !.todo = todo, !.sum = call[c].landing.len]
    <2>1. /\ DOMAIN r = DOMAIN Idle /\ r.pc = "subpage" /\ r.tier = call[c].tier /\ r.url = call[c].url
          /\ r.want = call[c].want /\ r.got = call[c].got /\ r.back = call[c].back
          /\ r.mine = call[c].mine /\ r.waits = call[c].waits
      BY IdleFields DEF GoodCall
    <2>2. Put(c, r)
      BY <1>2
    <2> HIDE DEF r
    <2> QED
      BY <2>1, <2>2, ReadOnIsFree DEF GoodCall, Reading, InLine
  <1> QED
    BY <1>1, <1>2 DEF ReadSubpages

LEMMA TakeIsFree ==
  ASSUME NEW c \in Calls, GoodCall(call[c]), call[c].tier \in 1..5, NEW len, Take(c, len)
  PROVE  FreeStep(c)
  <1> DEFINE more == IF len > 100 THEN 1 ELSE 0
             r == [call[c] EXCEPT !.pc = "subpage", !.todo = Tail(@),
                                  !.sum = @ + (IF len > 100 THEN len ELSE 0), !.got = @ + more]
  <1>1. /\ DOMAIN r = DOMAIN Idle /\ r.pc = "subpage" /\ r.tier = call[c].tier /\ r.url = call[c].url
        /\ r.want = call[c].want /\ r.got = call[c].got + more /\ r.back = call[c].back
        /\ r.mine = call[c].mine /\ r.waits = call[c].waits
    BY IdleFields DEF GoodCall
  <1>2. Put(c, r)
    BY DEF Take
  <1>3. call[c].got + more \in Nat
    <2>1. more \in Nat /\ call[c].got \in Nat
      BY DEF GoodCall
    <2> HIDE DEF more
    <2> QED
      BY <2>1
  <1> HIDE DEF r
  <1> QED
    BY <1>1, <1>2, <1>3, ReadOnIsFree DEF GoodCall, Reading, InLine

LEMMA DeepenIsFree ==
  ASSUME NEW c \in Calls, GoodCall(call[c]), call[c].tier \in 1..5, NEW content,
         Deepen(c, content) \/ Layered(c, content) \/ Direct(c, content)
  PROVE  FreeStep(c)
  BY CrawlIsFree, JudgeIsFree DEF Deepen, Layered, Direct

LEMMA StartIsFree ==
  ASSUME NEW c \in Calls, GoodCall(call[c]), Start(c)
  PROVE  FreeStep(c)
  <1> DEFINE r == [call[c] EXCEPT !.pc = "tier", !.tier = 1]
  <1>1. /\ DOMAIN r = DOMAIN Idle /\ r.pc = "tier" /\ r.tier = 1 /\ r.url = call[c].url
        /\ r.want = call[c].want /\ r.got = call[c].got /\ r.back = call[c].back
        /\ r.mine = call[c].mine /\ r.waits = call[c].waits
    BY IdleFields DEF GoodCall
  <1>2. Put(c, r)
    BY DEF Start
  <1> HIDE DEF r
  <1>3. 1 \in 1..6 /\ 1 \in 0..6
    OBVIOUS
  <1>4. r.pc \notin Reading /\ r.pc \notin InLine
    BY <1>1 DEF Reading, InLine
  <1>5. r.tier \in 1..6 /\ r.tier \in 0..6
    BY <1>1, <1>3, Zenon
  <1>6. GoodCall(r)
    BY <1>1, <1>4, <1>5 DEF GoodCall
  <1> QED
    BY <1>1, <1>2, <1>4, <1>6 DEF FreeStep

(* A tier that may be followed by another one is not the last.               *)
LEMMA NotTheLastTier ==
  ASSUME NEW c \in Calls, GoodCall(call[c]), NEW name, name # "compose", DiscoverTier(c, name)
  PROVE  call[c].tier \in 1..5
  BY TierPlaces DEF DiscoverTier, At, GoodCall

LEMMA UrlTierIsFree ==
  ASSUME NEW c \in Calls, GoodCall(call[c]), NEW tier \in {"linked", "site", "search"},
         NEW unfailing, DiscoverUrl(c, tier, unfailing)
  PROVE  FreeStep(c)
  <1>1. call[c].tier \in 1..5
    BY NotTheLastTier DEF DiscoverUrl
  <1>2. PICK failed \in BOOLEAN : Try(c, IF failed /\ ~unfailing THEN {} ELSE Offered[c][tier])
    BY DEF DiscoverUrl
  <1> DEFINE found == IF failed /\ ~unfailing THEN {} ELSE Offered[c][tier]
  <1>3. found \subseteq DOMAIN Web
    BY OfferedUrls
  <1>4. Try(c, found)
    BY <1>2
  <1> HIDE DEF found
  <1> QED
    BY <1>1, <1>3, <1>4, TryIsFree

LEMMA NamedTierIsFree ==
  ASSUME NEW c \in Calls, GoodCall(call[c]), NEW tier \in {"github", "aggregator"}, DiscoverNamed(c, tier)
  PROVE  FreeStep(c)
  <1>1. call[c].tier \in 1..5
    BY NotTheLastTier DEF DiscoverNamed
  <1>2. CASE NextTier(c)
    BY <1>1, <1>2, NextTierIsFree
  <1>3. ASSUME NEW u \in Offered[c][tier], NEW t \in Fetched[u],
               Answer(c, [buildResult(t, "direct") EXCEPT !.imageOnly = FALSE, !.locked = FALSE])
        PROVE  FreeStep(c)
    <2> DEFINE answer == [buildResult(t, "direct") EXCEPT !.imageOnly = FALSE, !.locked = FALSE]
    <2>1. t.len \in Nat /\ t.len > 500
      BY OfferedTexts
    <2>2. answer.len = t.len /\ answer.imageOnly = FALSE /\ answer.locked = FALSE
      BY DEF buildResult
    <2>3. Answer(c, answer)
      BY <1>3
    <2> HIDE DEF answer
    <2>4. Found(answer)
      BY <2>1, <2>2 DEF Found, Readable
    <2> QED
      BY <2>3, <2>4, AnswerIsFree
  <1>4. PICK failed \in BOOLEAN :
          LET found == {t \in UNION {Fetched[u] : u \in IF failed THEN {} ELSE Offered[c][tier]} :
                          verifyRelevance(t.about, Project[c].name, Project[c].token)}
          IN IF found = {} THEN NextTier(c)
             ELSE \E t \in found :
                    Answer(c, [buildResult(t, "direct") EXCEPT !.imageOnly = FALSE, !.locked = FALSE])
    BY DEF DiscoverNamed
  <1> QED
    BY <1>2, <1>3, <1>4

LEMMA ComposeIsFree ==
  ASSUME NEW c \in Calls, GoodCall(call[c]), Compose(c)
  PROVE  FreeStep(c)
  <1>1. ASSUME NEW page, page.ok => page.len \in Nat, NEW names
        PROVE  Found(compose(page, names))
    BY <1>1 DEF compose, Found, Smaller
  <1>2. PICK failed \in BOOLEAN :
          Answer(c, compose(IF failed THEN NoPage ELSE Project[c].virtuals, {Project[c].name, Project[c].token}))
    BY DEF Compose
  <1> DEFINE page == IF failed THEN NoPage ELSE Project[c].virtuals
             names == {Project[c].name, Project[c].token}
  <1>3. page.ok => page.len \in Nat
    BY WebAssumption DEF NoPage
  <1> HIDE DEF page, names
  <1>4. Answer(c, compose(page, names))
    BY <1>2 DEF page, names
  <1> QED
    BY <1>1, <1>3, <1>4, AnswerIsFree

(* While a URL is read the tier is one that has URLs.                        *)
LEMMA ReadingTier ==
  ASSUME NEW c \in Calls, GoodCall(call[c]), call[c].pc \in {"fetch", "crawl", "subpage", "returned"}
  PROVE  call[c].tier \in 1..5
  BY DEF GoodCall, Reading

LEMMA FetchIsFree ==
  ASSUME NEW c \in Calls, GoodCall(call[c]), resolveWhitepaper(c)
  PROVE  FreeStep(c)
  <1>1. call[c].tier \in 1..5
    BY ReadingTier DEF resolveWhitepaper, At
  <1>2. \/ NextTier(c)
        \/ \E content : Deepen(c, content) \/ Layered(c, content) \/ Direct(c, content) \/ Crawl(c, content)
        \/ Enter(c, "page", 0)
    <2>1. PICK failed \in BOOLEAN :
            IF failed \/ Fetched[call[c].url] = {} THEN NextTier(c)
            ELSE \E content \in Fetched[call[c].url] :
              IF content.home
              THEN IF CheapLayers[call[c].url] = {} THEN Direct(c, [content EXCEPT !.len = 0, !.about = {}])
                   ELSE \E e \in CheapLayers[call[c].url] : Layered(c, e)
              ELSE IF content.len >= THIN_CONTENT_THRESHOLD
              THEN IF content.type # "pdf" /\ isDocsSite(Here(c), content.len)
                   THEN Crawl(c, content) ELSE Direct(c, content)
              ELSE IF CheapLayers[call[c].url] # {} THEN \E e \in CheapLayers[call[c].url] : Deepen(c, e)
              ELSE IF content.spa THEN Enter(c, "page", 0)
              ELSE Direct(c, content)
      BY DEF resolveWhitepaper
    <2> QED
      BY <2>1
  <1> QED
    BY <1>1, <1>2, NextTierIsFree, DeepenIsFree, CrawlIsFree, EnterIsFree

LEMMA RenderedIsFree ==
  ASSUME NEW c \in Calls, GoodCall(call[c]), RenderedPage(c) \/ RenderedLinks(c) \/ RenderedSubpage(c)
  PROVE  FreeStep(c)
  <1>1. call[c].tier \in 1..5
    BY ReadingTier DEF RenderedPage, RenderedLinks, RenderedSubpage, At
  <1>2. CASE RenderedPage(c)
    BY <1>1, <1>2, DeepenIsFree DEF RenderedPage
  <1>3. CASE RenderedLinks(c)
    BY <1>1, <1>3, ReadSubpagesIsFree DEF RenderedLinks
  <1>4. CASE RenderedSubpage(c)
    BY <1>1, <1>4, TakeIsFree DEF RenderedSubpage
  <1> QED
    BY <1>2, <1>3, <1>4

LEMMA CrawlStepsAreFree ==
  ASSUME NEW c \in Calls, GoodCall(call[c]), crawl(c) \/ fetchAndStrip(c) \/ CrawlEnds(c)
  PROVE  FreeStep(c)
  <1>1. call[c].tier \in 1..5
    BY ReadingTier DEF crawl, fetchAndStrip, CrawlEnds, At
  <1>2. CASE crawl(c)
    BY <1>1, <1>2, EnterIsFree, ReadSubpagesIsFree DEF crawl
  <1>3. CASE fetchAndStrip(c)
    <2>1. \E len : Take(c, len) \/ Enter(c, "subpage", len)
      BY <1>3 DEF fetchAndStrip
    <2> QED
      BY <1>1, <2>1, TakeIsFree, EnterIsFree
  <1>4. CASE CrawlEnds(c)
    <2>1. Landing(c) \/ \E result : Judge(c, result)
      BY <1>4 DEF CrawlEnds
    <2> QED
      BY <1>1, <2>1, LandingIsFree, JudgeIsFree
  <1> QED
    BY <1>2, <1>3, <1>4


(* Everything a call does away from the browser.                             *)
Outside(c) ==
  \/ Start(c) \/ DiscoverLinked(c) \/ DiscoverSite(c) \/ DiscoverGitHub(c) \/ DiscoverAggregator(c)
  \/ DiscoverSearch(c) \/ Compose(c)
  \/ resolveWhitepaper(c) \/ RenderedPage(c)
  \/ crawl(c) \/ RenderedLinks(c) \/ fetchAndStrip(c) \/ RenderedSubpage(c) \/ CrawlEnds(c)

LEMMA FaultsAreBounded ==
  ASSUME faults \in 0..MaxFaults, NEW failed \in BOOLEAN, Fault(failed)
  PROVE  faults' \in 0..MaxFaults
  <1> DEFINE after == faults + (IF failed THEN 1 ELSE 0)
  <1>1. after \in 0..MaxFaults
    BY NumbersOK DEF Fault
  <1>2. faults' = after
    BY DEF Fault
  <1> QED
    BY <1>1, <1>2, Zenon

LEMMA OutsideIsFree ==
  ASSUME NEW c \in Calls, GoodCall(call[c]), faults \in 0..MaxFaults, Outside(c)
  PROVE  FreeStep(c) /\ UNCHANGED <<shared, now, history>> /\ faults' \in 0..MaxFaults
  <1>1. FreeStep(c)
    BY StartIsFree, UrlTierIsFree, NamedTierIsFree, ComposeIsFree, FetchIsFree, RenderedIsFree, CrawlStepsAreFree
       DEF Outside, DiscoverLinked, DiscoverSite, DiscoverSearch, DiscoverGitHub, DiscoverAggregator
  <1>2. Alone
    BY DEF Outside, DiscoverLinked, DiscoverSite, DiscoverSearch, DiscoverGitHub, DiscoverAggregator, DiscoverUrl,
           DiscoverNamed, DiscoverTier, Start, Compose, resolveWhitepaper, RenderedPage, crawl, RenderedLinks,
           fetchAndStrip, RenderedSubpage, CrawlEnds
  <1>3. \E failed \in BOOLEAN : Fault(failed)
    BY DEF Outside, DiscoverLinked, DiscoverSite, DiscoverSearch, DiscoverGitHub, DiscoverAggregator, DiscoverUrl,
           DiscoverNamed, Start, Compose, resolveWhitepaper, RenderedPage, crawl, RenderedLinks,
           fetchAndStrip, RenderedSubpage, CrawlEnds
  <1> QED
    BY <1>1, <1>2, <1>3, FaultsAreBounded DEF Alone

-------------------------------------------------------------------------------
(* The line at the browser.                                                  *)

LEMMA PutOfACall ==
  ASSUME CallStory, NEW c \in Calls, NEW r, Put(c, r)
  PROVE  /\ DOMAIN call' = Calls /\ call'[c] = r
         /\ \A d \in Calls \ {c} : call'[d] = call[d]
  BY DEF CallStory, Put

LEMMA EveryCallIsGood ==
  ASSUME DOMAIN call' = Calls, \A c \in Calls : GoodCall(call'[c])
  PROVE  CallStory'
  BY Zenon DEF CallStory, GoodCall, Idle, NoContent, None, Content, Reading, InLine, Found, Readable

LEMMA OneBusy ==
  ASSUME ChainStory, NEW c \in Calls, NEW d \in Calls, call[c].pc \in Busy, call[d].pc \in Busy
  PROVE  c = d
  <1>1. call[c].pc \in InLine /\ call[d].pc \in InLine
    BY DEF Busy, InLine
  <1> DEFINE wc == call[c].waits
             wd == call[d].waits
  <1>2. wc \in Nat /\ wd \in Nat /\ 0..wc \subseteq settled /\ 0..wd \subseteq settled
    BY DEF ChainStory
  <1>3. call[c].mine = wc + 1 /\ call[d].mine = wd + 1 /\ wc + 1 \notin settled /\ wd + 1 \notin settled
    BY <1>1 DEF ChainStory
  <1>4. wc = wd
    BY <1>2, <1>3
  <1> QED
    BY <1>1, <1>3, <1>4 DEF ChainStory

LEMMA FreeKeepsTheChain ==
  ASSUME CallStory, ChainStory, NEW c \in Calls, FreeStep(c), UNCHANGED <<lock, settled>>
  PROVE  CallStory' /\ ChainStory'
  <1>1. PICK r : /\ Put(c, r) /\ GoodCall(r) /\ r.pc \notin InLine
                 /\ r.mine = call[c].mine /\ r.waits = call[c].waits
    BY DEF FreeStep
  <1>2. /\ DOMAIN call' = Calls /\ call'[c] = r
        /\ \A d \in Calls \ {c} : call'[d] = call[d]
    BY <1>1, PutOfACall
  <1>3. CallStory'
    BY <1>1, <1>2, EveryCallIsGood DEF CallStory
  <1>4. \A d \in Calls : call'[d].mine = call[d].mine /\ call'[d].waits = call[d].waits
    BY <1>1, <1>2
  <1>5. \A d \in Calls : call'[d].pc \in InLine => call'[d].pc = call[d].pc
    BY <1>1, <1>2
  <1>6. \A d \in Calls : call'[d].pc \in Busy => call[d].pc \in Busy
    BY <1>5 DEF Busy, InLine
  <1>7. ChainStory'
    BY <1>4, <1>5, <1>6 DEF ChainStory
  <1> QED
    BY <1>3, <1>7

(* A caller whose turn it is goes on at the browser.                         *)
LEMMA BusyKeepsTheChain ==
  ASSUME CallStory, ChainStory, NEW c \in Calls, NEW r, Put(c, r), GoodCall(r), r.pc \in Busy,
         r.mine = call[c].mine, r.waits = call[c].waits, call[c].pc \in InLine, call[c].waits \in settled,
         UNCHANGED <<lock, settled>>
  PROVE  CallStory' /\ ChainStory'
  <1>1. /\ DOMAIN call' = Calls /\ call'[c] = r
        /\ \A d \in Calls \ {c} : call'[d] = call[d]
    BY PutOfACall
  <1>2. CallStory'
    BY <1>1, EveryCallIsGood DEF CallStory
  <1>3. \A d \in Calls : call'[d].mine = call[d].mine /\ call'[d].waits = call[d].waits
    BY <1>1
  <1>4. \A d \in Calls : call'[d].pc \in InLine => call[d].pc \in InLine
    BY <1>1
  <1>5. \A d \in Calls : call'[d].pc \in Busy => call[d].waits \in settled
    BY <1>1 DEF ChainStory
  <1>6. ChainStory'
    BY <1>3, <1>4, <1>5 DEF ChainStory
  <1> QED
    BY <1>2, <1>6

LEMMA QueueKeepsTheChain ==
  ASSUME CallStory, ChainStory, NEW c \in Calls, Queue(c)
  PROVE  CallStory' /\ ChainStory'
  <1> DEFINE r == [call[c] EXCEPT !.pc = "queued", !.waits = lock, !.mine = lock + 1]
             last == lock + 1
  <1>1. GoodCall(call[c]) /\ call[c].pc = "entering"
    BY DEF CallStory, Queue, At
  <1>2. /\ DOMAIN r = DOMAIN Idle /\ r.pc = "queued" /\ r.tier = call[c].tier /\ r.url = call[c].url
        /\ r.want = call[c].want /\ r.got = call[c].got /\ r.back = call[c].back
        /\ r.mine = last /\ r.waits = lock
    BY <1>1, IdleFields DEF GoodCall
  <1>3. Put(c, r) /\ lock' = last /\ settled' = settled
    BY DEF Queue
  <1>4. lock \in Nat /\ last \in Nat /\ last > lock /\ 0..lock \subseteq 0..last /\ lock \in 0..last
    BY DEF ChainStory
  <1>5. last \in 0..last /\ last \notin settled /\ last = lock + 1
    BY <1>4 DEF ChainStory
  <1> HIDE DEF r, last
  <1>6. GoodCall(r)
    BY <1>1, <1>2 DEF GoodCall, Reading, InLine
  <1>7. /\ DOMAIN call' = Calls /\ call'[c] = r
        /\ \A d \in Calls \ {c} : call'[d] = call[d]
    BY <1>3, PutOfACall
  <1>8. CallStory'
    BY <1>6, <1>7, EveryCallIsGood DEF CallStory
  <1>9. ChainStory'
    <2>1. lock' \in Nat /\ settled' \subseteq 0..lock'
      BY <1>3, <1>4, Zenon DEF ChainStory
    <2>2. \A d \in Calls \ {c} : call[d].mine \in 0..lock /\ call[d].waits \in 0..lock
      BY DEF ChainStory
    <2>3. \A d \in Calls : call'[d].mine \in 0..last /\ call'[d].waits \in 0..last
      BY <1>2, <1>4, <1>5, <1>7, <2>2
    <2>4. \A d \in Calls : call'[d].mine \in 0..lock' /\ call'[d].waits \in 0..lock'
      BY <1>3, <2>3, Zenon
    <2>5. \A d \in Calls : call'[d].pc \in InLine =>
            call'[d].mine = call'[d].waits + 1 /\ call'[d].mine \notin settled'
      BY <1>2, <1>3, <1>5, <1>7 DEF ChainStory
    <2>6. \A d \in Calls : call'[d].pc \in Busy => call'[d].waits \in settled'
      BY <1>2, <1>3, <1>7 DEF ChainStory, Busy
    <2>7. \A d \in Calls \ {c} : call'[d].mine # last
      BY <1>4, <1>7, <2>2
    <2>8. \A d, e \in Calls :
            call'[d].pc \in InLine /\ call'[e].pc \in InLine /\ call'[d].mine = call'[e].mine => d = e
      BY <1>2, <1>7, <2>7 DEF ChainStory
    <2>9. \A p \in settled' : 0..p \subseteq settled'
      BY <1>3 DEF ChainStory
    <2> QED
      BY <2>1, <2>4, <2>5, <2>6, <2>8, <2>9 DEF ChainStory
  <1> QED
    BY <1>8, <1>9

LEMMA LeavesKeepsTheChain ==
  ASSUME CallStory, ChainStory, NEW c \in Calls, Leaves(c)
  PROVE  CallStory' /\ ChainStory'
  <1> DEFINE r == [call[c] EXCEPT !.pc = "returned"]
  <1>1. GoodCall(call[c]) /\ call[c].pc = "leaving" /\ call[c].pc \in Busy /\ call[c].pc \in InLine
    BY DEF CallStory, Leaves, At, Busy, InLine
  <1>2. /\ DOMAIN r = DOMAIN Idle /\ r.pc = "returned" /\ r.tier = call[c].tier /\ r.url = call[c].url
        /\ r.want = call[c].want /\ r.got = call[c].got /\ r.back = call[c].back
        /\ r.mine = call[c].mine /\ r.waits = call[c].waits
    BY <1>1, IdleFields DEF GoodCall
  <1>3. Put(c, r) /\ lock' = lock /\ settled' = settled \cup {call[c].mine}
    BY DEF Leaves, Goes
  <1> HIDE DEF r
  <1>4. GoodCall(r)
    BY <1>1, <1>2 DEF GoodCall, Reading, InLine
  <1>5. /\ DOMAIN call' = Calls /\ call'[c] = r
        /\ \A d \in Calls \ {c} : call'[d] = call[d]
    BY <1>3, PutOfACall
  <1>6. CallStory'
    BY <1>4, <1>5, EveryCallIsGood DEF CallStory
  <1>7. \A d \in Calls : call'[d].mine = call[d].mine /\ call'[d].waits = call[d].waits
    BY <1>2, <1>5
  <1>8. \A d \in Calls : call'[d].pc \in InLine => d # c /\ call[d].pc \in InLine
    BY <1>2, <1>5 DEF InLine
  <1>9. \A d \in Calls : call'[d].pc \in Busy => call[d].pc \in Busy
    BY <1>2, <1>5 DEF Busy
  <1>10. \A p \in settled' : 0..p \subseteq settled'
    <2>1. call[c].waits \in Nat /\ call[c].mine = call[c].waits + 1 /\ 0..(call[c].waits) \subseteq settled
      BY <1>1 DEF ChainStory
    <2>2. 0..(call[c].mine) \subseteq settled \cup {call[c].mine}
      BY <2>1
    <2> QED
      BY <1>3, <2>2 DEF ChainStory
  <1>11. \A d \in Calls : call'[d].pc \in InLine => call'[d].mine \notin settled'
    BY <1>1, <1>3, <1>7, <1>8 DEF ChainStory
  <1>12. ChainStory'
    <2>1. lock' \in Nat /\ settled' \subseteq 0..lock'
      BY <1>3 DEF ChainStory
    <2> QED
      BY <1>3, <1>7, <1>8, <1>9, <1>10, <1>11, <2>1 DEF ChainStory
  <1> QED
    BY <1>6, <1>12


-------------------------------------------------------------------------------
(* The ration and the recycling.                                             *)

LEMMA RationUntouched ==
  ASSUME RationStory, RecycleStory, UNCHANGED <<browser, timestamps, now, history>>,
         \A c \in Calls : call'[c].pc = "rendering" => call[c].pc = "rendering"
  PROVE  RationStory' /\ RecycleStory'
  BY DEF RationStory, RecycleStory, Dropped, YieldsAreRationed, BrowserIsRecycled

(* The list after the renders that are an hour old have left it.             *)
LEMMA RecentRenders ==
  ASSUME ProcessOK, NEW recent \in Recent
  PROVE  \E k \in 1..(Len(timestamps) + 1) :
           /\ recent \in Seq(0..now)
           /\ Len(recent) = Len(timestamps) - k + 1
           /\ \A i \in 1..Len(recent) : recent[i] = timestamps[k + i - 1]
           /\ \A i \in 1..(k - 1) : timestamps[i] + Hour <= now
  <1> DEFINE n == Len(timestamps)
  <1>1. timestamps \in Seq(0..now) /\ now \in Nat /\ Hour \in Nat
    BY NumbersOK DEF ProcessOK
  <1>2. n \in Nat /\ DOMAIN timestamps = 1..n /\ \A i \in 1..n : timestamps[i] \in 0..now
    BY <1>1, LenProperties, ElementOfSeq
  <1>3. PICK k \in 1..(n + 1) :
          /\ recent = SubSeq(timestamps, k, n)
          /\ \A i \in DOMAIN timestamps : timestamps[i] > now - Hour <=> i >= k
    BY DEF Recent, Since
  <1> HIDE DEF n
  <1>4. \A i \in k..n : timestamps[i] \in 0..now
    BY <1>2
  <1>5. k \in Int /\ n \in Int
    BY <1>2
  <1>6. /\ recent \in Seq(0..now)
        /\ Len(recent) = IF k <= n THEN n - k + 1 ELSE 0
        /\ \A i \in 1..(n - k + 1) : recent[i] = timestamps[k + i - 1]
    BY <1>3, <1>4, <1>5, SubSeqProperties
  <1>7. Len(recent) = n - k + 1
    BY <1>2, <1>6
  <1>8. \A i \in 1..(k - 1) : timestamps[i] + Hour <= now
    <2> TAKE i \in 1..(k - 1)
    <2>1. i \in 1..n /\ ~(i >= k)
      BY <1>2
    <2>2. ~(timestamps[i] > now - Hour) /\ timestamps[i] \in 0..now
      BY <2>1, <1>2, <1>3
    <2> QED
      BY <2>2, <1>1
  <1> QED
    BY <1>2, <1>6, <1>7, <1>8 DEF n

(* Taking the ration leaves the story of the renders as it was.              *)
LEMMA RecentKeepsTheRation ==
  ASSUME ProcessOK, RationStory, NEW recent \in Recent
  PROVE  /\ recent \in Seq(0..now) /\ Len(recent) \in Nat /\ Len(recent) <= Len(timestamps)
         /\ \A i \in 1..Len(recent) :
              recent[i] = history.yields[(Len(history.yields) - Len(recent)) + i]
         /\ \A i \in 1..(Len(history.yields) - Len(recent)) : history.yields[i] + Hour <= now
  <1> DEFINE n == Len(timestamps)
             m == Len(history.yields)
             l == Len(recent)
  <1>1. PICK k \in 1..(n + 1) :
          /\ recent \in Seq(0..now)
          /\ l = n - k + 1
          /\ \A i \in 1..l : recent[i] = timestamps[k + i - 1]
          /\ \A i \in 1..(k - 1) : timestamps[i] + Hour <= now
    BY RecentRenders
  <1>2. n \in Nat /\ m \in Nat /\ l \in Nat
    BY <1>1, LenProperties DEF ProcessOK
  <1>3. /\ n <= m
        /\ \A i \in 1..n : timestamps[i] = history.yields[(m - n) + i]
        /\ \A i \in 1..(m - n) : history.yields[i] + Hour <= now
    BY DEF RationStory, Dropped
  <1> HIDE DEF n, m, l
  <1>4. l <= n
    BY <1>1, <1>2
  <1>5. \A i \in 1..l : recent[i] = history.yields[(m - l) + i]
    <2> TAKE i \in 1..l
    <2>1. k + i - 1 \in 1..n /\ (m - n) + (k + i - 1) = (m - l) + i
      BY <1>1, <1>2
    <2> QED
      BY <1>1, <1>3, <2>1
  <1>6. \A i \in 1..(m - l) : history.yields[i] + Hour <= now
    <2> TAKE i \in 1..(m - l)
    <2>1. CASE i <= m - n
      BY <1>2, <1>3, <2>1
    <2>2. CASE i > m - n
      <3> DEFINE j == i - (m - n)
      <3>1. j \in 1..n /\ j \in 1..(k - 1) /\ (m - n) + j = i
        BY <1>1, <1>2, <1>3, <2>2
      <3> HIDE DEF j
      <3> QED
        BY <1>1, <1>3, <3>1
    <2> QED
      BY <1>2, <2>1, <2>2
  <1> QED
    BY <1>1, <1>2, <1>4, <1>5, <1>6 DEF n, m, l

(* A render with room in the ration: nobody else is at the browser.          *)
LEMMA RenderKeepsTheRation ==
  ASSUME ProcessOK, RationStory, Len(timestamps) < RATE_LIMIT_PER_HOUR,
         NEW T, T = Append(timestamps, now), NEW R, R = Append(history.yields, now)
  PROVE  /\ T \in Seq(0..now) /\ R \in Seq(0..now) /\ Len(T) <= Len(R)
         /\ \A i \in 1..Len(T) : T[i] = R[(Len(R) - Len(T)) + i]
         /\ \A i \in 1..(Len(R) - Len(T)) : R[i] + Hour <= now
         /\ \A i, j \in DOMAIN R : j = i + RATE_LIMIT_PER_HOUR => R[i] + Hour <= R[j]
  <1> DEFINE n == Len(timestamps)
             m == Len(history.yields)
  <1>1. timestamps \in Seq(0..now) /\ history.yields \in Seq(0..now) /\ now \in 0..now /\ now \in Nat
    BY NumbersOK DEF ProcessOK
  <1>2. /\ T \in Seq(0..now) /\ Len(T) = n + 1 /\ T[n + 1] = now
        /\ \A i \in 1..n : T[i] = timestamps[i]
    BY <1>1, AppendProperties
  <1>3. /\ R \in Seq(0..now) /\ Len(R) = m + 1 /\ R[m + 1] = now
        /\ \A i \in 1..m : R[i] = history.yields[i]
    BY <1>1, AppendProperties
  <1>4. n \in Nat /\ m \in Nat /\ DOMAIN history.yields = 1..m
    BY <1>1, LenProperties
  <1>5. DOMAIN R = 1..(m + 1)
    BY <1>3, LenProperties
  <1>6. /\ n <= m
        /\ \A i \in 1..n : timestamps[i] = history.yields[(m - n) + i]
        /\ \A i \in 1..(m - n) : history.yields[i] + Hour <= now
        /\ \A i, j \in 1..m : j = i + RATE_LIMIT_PER_HOUR => history.yields[i] + Hour <= history.yields[j]
    BY <1>4 DEF RationStory, Dropped, YieldsAreRationed
  <1>7. n < RATE_LIMIT_PER_HOUR /\ RATE_LIMIT_PER_HOUR \in Nat \ {0}
    BY NumbersOK
  <1> HIDE DEF n, m
  <1>8. \A i \in 1..(n + 1) : T[i] = R[(m - n) + i]
    <2> TAKE i \in 1..(n + 1)
    <2>1. CASE i = n + 1
      <3>1. (m - n) + i = m + 1
        BY <2>1, <1>4
      <3> QED
        BY <2>1, <3>1, <1>2, <1>3
    <2>2. CASE i \in 1..n
      <3>1. (m - n) + i \in 1..m
        BY <2>2, <1>4, <1>6
      <3> QED
        BY <2>2, <3>1, <1>2, <1>3, <1>6
    <2>3. i = n + 1 \/ i \in 1..n
      BY <1>4
    <2> QED
      BY <2>1, <2>2, <2>3
  <1>9. \A i \in 1..(m - n) : R[i] + Hour <= now
    BY <1>3, <1>4, <1>6
  <1>10. ASSUME NEW i \in DOMAIN R, NEW j \in DOMAIN R, j = i + RATE_LIMIT_PER_HOUR
         PROVE  R[i] + Hour <= R[j]
    <2>1. CASE j = m + 1
      <3>1. i \in 1..(m - n)
        BY <2>1, <1>4, <1>5, <1>6, <1>7, <1>10
      <3> QED
        BY <2>1, <3>1, <1>3, <1>9
    <2>2. CASE j \in 1..m
      <3>1. i \in 1..m
        BY <2>2, <1>4, <1>5, <1>7, <1>10
      <3> QED
        BY <2>2, <3>1, <1>3, <1>6, <1>10
    <2> QED
      BY <1>4, <1>5, <2>1, <2>2
  <1>11. Len(T) <= Len(R) /\ Len(R) - Len(T) = m - n
    BY <1>2, <1>3, <1>4, <1>6
  <1> QED
    BY <1>2, <1>3, <1>8, <1>9, <1>10, <1>11, Zenon


LEMMA RationAfter ==
  ASSUME NEW T, NEW R, NEW t, timestamps' = T, history'.yields = R, now' = t,
         Len(T) <= Len(R),
         \A i \in 1..Len(T) : T[i] = R[(Len(R) - Len(T)) + i],
         \A i \in 1..(Len(R) - Len(T)) : R[i] + Hour <= t,
         \A i, j \in DOMAIN R : j = i + RATE_LIMIT_PER_HOUR => R[i] + Hour <= R[j],
         \A c \in Calls : call'[c].pc = "rendering" => Len(T) < RATE_LIMIT_PER_HOUR
  PROVE  RationStory'
  BY DEF RationStory, Dropped, YieldsAreRationed

LEMMA RecycleAfter ==
  ASSUME NEW n, NEW m, NEW u, browser'.pageCount = n, history'.contexts = m, history'.uncounted = u,
         m <= n + u, m <= BROWSER_RESTART_THRESHOLD + u,
         \A c \in Calls : call'[c].pc = "rendering" => n < BROWSER_RESTART_THRESHOLD
  PROVE  RecycleStory'
  BY DEF RecycleStory, BrowserIsRecycled

LEMMA NothingServedYet ==
  0 <= 0 + 0 /\ 0 <= BROWSER_RESTART_THRESHOLD + 0 /\ 0 < BROWSER_RESTART_THRESHOLD
  BY NumbersOK

LEMMA NotReached ==
  ASSUME NEW n \in Nat, NEW most \in Nat, ~(n >= most)
  PROVE  n < most
  OBVIOUS

(* What a page shows, and how many pages it took.                            *)
LEMMA ShownPage ==
  ASSUME NEW page, NEW shown \in Shows(page)
  PROVE  shown.extra \in Nat /\ \A x, y \in shown.text : x = y
  <1>1. ASSUME NEW p
        PROVE  renderAndExtract(p).extra \in Nat /\ \A x, y \in Rendered(p) : x = y
    <2>1. ASSUME NEW links
          PROVE  followInternalLinks(links).pages \in Nat
      <3>1. \A S : S \subseteq 1..FOLLOWED_SUBPAGES => Cardinality(S) \in Nat
        <4>1. \A n \in Int : IsFiniteSet(1..n)
          BY FS_Interval
        <4>2. FOLLOWED_SUBPAGES \in Int
          BY DEF FOLLOWED_SUBPAGES
        <4>3. IsFiniteSet(1..FOLLOWED_SUBPAGES)
          BY <4>1, <4>2
        <4> QED
          BY <4>3, FS_Subset, FS_CardinalityType
      <3>2. \E S : S \subseteq 1..FOLLOWED_SUBPAGES /\ followInternalLinks(links).pages = Cardinality(S)
        BY DEF followInternalLinks
      <3> QED
        BY <3>1, <3>2
    <2>2. renderAndExtract(p).extra = 0 \/ \E links : renderAndExtract(p).extra = followInternalLinks(links).pages
      BY DEF renderAndExtract
    <2>3. \A x, y \in Rendered(p) : x = y
      BY DEF Rendered
    <2> QED
      BY <2>1, <2>2, <2>3
  <1>2. PICK p : shown = Rendering(p)
    BY DEF Shows, Renderings
  <1>3. CASE p.ok
    <2>1. shown.extra = renderAndExtract(p).extra /\ shown.text = Rendered(p)
      BY <1>2, <1>3 DEF Rendering
    <2> QED
      BY <1>1, <2>1
  <1>4. CASE ~p.ok
    BY <1>2, <1>4 DEF Rendering
  <1> QED
    BY <1>3, <1>4

-------------------------------------------------------------------------------
(* The steps at the browser.                                                 *)

(* A step of a caller whose turn it is.                                      *)
BusyStep(c, place) ==
  \E r : /\ Put(c, r) /\ GoodCall(r) /\ r.pc = place
         /\ r.mine = call[c].mine /\ r.waits = call[c].waits

LEMMA LeavingIsBusy ==
  ASSUME NEW c \in Calls, GoodCall(call[c]), call[c].pc \in Busy,
         NEW back, NEW links, LeaveWith(c, back, links), \A x, y \in back : x = y
  PROVE  BusyStep(c, "leaving")
  <1> DEFINE r == [call[c] EXCEPT !.pc = "leaving", !.back = back, !.links = links]
  <1>1. /\ DOMAIN r = DOMAIN Idle /\ r.pc = "leaving" /\ r.tier = call[c].tier /\ r.url = call[c].url
        /\ r.want = call[c].want /\ r.got = call[c].got /\ r.back = back
        /\ r.mine = call[c].mine /\ r.waits = call[c].waits
    BY IdleFields DEF GoodCall
  <1>2. Put(c, r)
    BY DEF LeaveWith
  <1> HIDE DEF r
  <1>3. GoodCall(r)
    BY <1>1 DEF GoodCall, Reading, InLine, Busy
  <1> QED
    BY <1>1, <1>2, <1>3 DEF BusyStep

LEMMA GivingUpIsBusy ==
  ASSUME NEW c \in Calls, GoodCall(call[c]), call[c].pc \in Busy, GiveUp(c)
  PROVE  BusyStep(c, "leaving")
  BY LeavingIsBusy DEF GiveUp

LEMMA GoingOnIsBusy ==
  ASSUME NEW c \in Calls, GoodCall(call[c]), call[c].pc \in InLine,
         NEW place \in Busy, Goes(c, place)
  PROVE  BusyStep(c, place)
  <1> DEFINE r == [call[c] EXCEPT !.pc = place]
  <1>1. /\ DOMAIN r = DOMAIN Idle /\ r.pc = place /\ r.tier = call[c].tier /\ r.url = call[c].url
        /\ r.want = call[c].want /\ r.got = call[c].got /\ r.back = call[c].back
        /\ r.mine = call[c].mine /\ r.waits = call[c].waits
    BY IdleFields DEF GoodCall
  <1>2. Put(c, r)
    BY DEF Goes
  <1> HIDE DEF r
  <1>3. GoodCall(r)
    BY <1>1 DEF GoodCall, Reading, InLine, Busy
  <1> QED
    BY <1>1, <1>2, <1>3 DEF BusyStep

(* Such a step leaves the line in order; from the browser, nobody else is there. *)
LEMMA BusyStepKeepsTheChain ==
  ASSUME CallStory, ChainStory, NEW c \in Calls, NEW place \in Busy, BusyStep(c, place),
         call[c].pc \in InLine, call[c].waits \in settled, UNCHANGED <<lock, settled>>
  PROVE  /\ CallStory' /\ ChainStory'
         /\ \A d \in Calls : call'[d].pc = "rendering" => (d = c /\ place = "rendering") \/ call[d].pc = "rendering"
         /\ call[c].pc \in Busy => \A d \in Calls : call'[d].pc = "rendering" => d = c /\ place = "rendering"
  <1>1. PICK r : /\ Put(c, r) /\ GoodCall(r) /\ r.pc = place
                 /\ r.mine = call[c].mine /\ r.waits = call[c].waits
    BY DEF BusyStep
  <1>2. CallStory' /\ ChainStory'
    BY <1>1, BusyKeepsTheChain
  <1>3. call'[c] = r /\ \A d \in Calls \ {c} : call'[d] = call[d]
    BY <1>1, PutOfACall
  <1>4. \A d \in Calls : call'[d].pc = "rendering" => (d = c /\ place = "rendering") \/ (d # c /\ call[d].pc = "rendering")
    BY <1>1, <1>3
  <1>5. ASSUME call[c].pc \in Busy, NEW d \in Calls, d # c
        PROVE  call[d].pc # "rendering"
    BY <1>5, OneBusy DEF Busy
  <1> QED
    BY <1>2, <1>4, <1>5

LEMMA EnsureKeepsTheStory ==
  ASSUME DiscoveryStory, NEW c \in Calls, ensureBrowser(c)
  PROVE  DiscoveryStory'
  <1> USE DEF DiscoveryStory
  <1>1. /\ GoodCall(call[c]) /\ call[c].pc = "inside" /\ call[c].pc \in Busy /\ call[c].pc \in InLine
        /\ call[c].waits \in settled /\ UNCHANGED <<lock, settled, driver, now>>
    BY DEF CallStory, ChainStory, ensureBrowser, At, Busy, InLine
  <1>2. "leaving" \in Busy /\ "rendering" \in Busy /\ "leaving" # "rendering"
    BY DEF Busy
  <1>3. ASSUME GiveUp(c)
        PROVE  CallStory' /\ ChainStory' /\ \A d \in Calls : call'[d].pc # "rendering"
    <2>1. BusyStep(c, "leaving")
      BY <1>1, <1>3, GivingUpIsBusy
    <2> QED
      BY <1>1, <1>2, <2>1, BusyStepKeepsTheChain
  <1>4. ASSUME Goes(c, "rendering")
        PROVE  CallStory' /\ ChainStory'
    <2>1. BusyStep(c, "rendering")
      BY <1>1, <1>2, <1>4, GoingOnIsBusy
    <2> QED
      BY <1>1, <1>2, <2>1, BusyStepKeepsTheChain
  <1>5. CASE driver = "absent"
    <2>1. GiveUp(c) /\ UNCHANGED <<timestamps, browser, faults, history>>
      BY <1>5 DEF ensureBrowser
    <2>2. CallStory' /\ ChainStory' /\ \A d \in Calls : call'[d].pc # "rendering"
      BY <1>3, <2>1
    <2>3. RationStory' /\ RecycleStory'
      BY <1>1, <2>1, <2>2, RationUntouched
    <2>4. ProcessOK'
      BY <1>1, <2>1 DEF ProcessOK
    <2> QED
      BY <2>2, <2>3, <2>4
  <1>6. ASSUME NEW recent \in Recent, timestamps' = recent, history'.yields = history.yields,
               \A d \in Calls : call'[d].pc = "rendering" => Len(recent) < RATE_LIMIT_PER_HOUR
        PROVE  RationStory' /\ recent \in Seq(0..now)
    <2>1. /\ recent \in Seq(0..now) /\ Len(recent) \in Nat /\ Len(recent) <= Len(timestamps)
          /\ \A i \in 1..Len(recent) :
               recent[i] = history.yields[(Len(history.yields) - Len(recent)) + i]
          /\ \A i \in 1..(Len(history.yields) - Len(recent)) : history.yields[i] + Hour <= now
      BY RecentKeepsTheRation
    <2>2. Len(recent) <= Len(history.yields)
      <3>1. Len(timestamps) \in Nat /\ Len(history.yields) \in Nat
        BY LenProperties DEF ProcessOK
      <3> QED
        BY <2>1, <3>1 DEF RationStory
    <2>3. \A i, j \in DOMAIN history.yields :
            j = i + RATE_LIMIT_PER_HOUR => history.yields[i] + Hour <= history.yields[j]
      BY DEF RationStory, YieldsAreRationed
    <2> QED
      BY <1>1, <1>6, <2>1, <2>2, <2>3, RationAfter
  <1>7. ASSUME NEW recent \in Recent, timestamps' = recent, GiveUp(c), history' = [history EXCEPT !.refused = TRUE],
               UNCHANGED <<browser, faults>>
        PROVE  DiscoveryStory'
    <2>1. CallStory' /\ ChainStory' /\ \A d \in Calls : call'[d].pc # "rendering"
      BY <1>3, <1>7
    <2>2. /\ history' \in [yields : Seq(0..now), contexts : Nat, uncounted : Nat, refused : BOOLEAN]
          /\ history'.yields = history.yields /\ history'.contexts = history.contexts
          /\ history'.uncounted = history.uncounted
      BY <1>7 DEF ProcessOK
    <2>3. RationStory' /\ recent \in Seq(0..now)
      BY <1>6, <1>7, <2>1, <2>2
    <2>4. ProcessOK'
      BY <1>1, <1>7, <2>2, <2>3 DEF ProcessOK
    <2>5. RecycleStory'
      BY <1>7, <2>1, <2>2 DEF RecycleStory, BrowserIsRecycled
    <2> QED
      BY <2>1, <2>3, <2>4, <2>5
  <1>8. ASSUME NEW recent \in Recent, timestamps' = recent, ~(Len(recent) >= RATE_LIMIT_PER_HOUR),
               NEW problem \in {"", "memory", "launch"}, NEW keep \in BOOLEAN,
               keep <=> (problem = "memory" \/ (browser.up # "none" /\ ~needsRestart)),
               Fault(problem # ""),
               IF problem # "" THEN GiveUp(c) ELSE Goes(c, "rendering"),
               browser' = IF keep THEN browser
                          ELSE [up |-> IF problem = "" THEN "alive" ELSE "none", pageCount |-> 0],
               history' = IF keep THEN history ELSE [history EXCEPT !.contexts = 0, !.uncounted = 0]
        PROVE  DiscoveryStory'
    <2>1. CallStory' /\ ChainStory'
      BY <1>3, <1>4, <1>8
    <2>2. \A d \in Calls : call'[d].pc = "rendering" => problem = ""
      BY <1>3, <1>8
    <2>3. /\ history' \in [yields : Seq(0..now), contexts : Nat, uncounted : Nat, refused : BOOLEAN]
          /\ history'.yields = history.yields
          /\ keep => history' = history
          /\ ~keep => history'.contexts = 0 /\ history'.uncounted = 0
      BY <1>8 DEF ProcessOK
    <2>4. Len(recent) < RATE_LIMIT_PER_HOUR
      <3>1. Len(recent) \in Nat
        BY RecentKeepsTheRation
      <3>2. ~(Len(recent) >= RATE_LIMIT_PER_HOUR)
        BY <1>8
      <3>3. RATE_LIMIT_PER_HOUR \in Nat
        BY NumbersOK
      <3> QED
        BY <3>1, <3>2, <3>3, NotReached, Zenon
    <2>5. RationStory' /\ recent \in Seq(0..now)
      BY <1>6, <1>8, <2>3, <2>4
    <2>6. faults' \in 0..MaxFaults
      BY <1>8, FaultsAreBounded DEF ProcessOK
    <2>7. browser' \in [up : {"none", "alive", "hung", "dead"}, pageCount : Nat]
      BY <1>8 DEF ProcessOK
    <2>8. ProcessOK'
      BY <1>1, <1>8, <2>3, <2>5, <2>6, <2>7 DEF ProcessOK
    <2>9. RecycleStory'
      <3>1. CASE keep
        <4>1. problem = "" => ~(browser.pageCount >= BROWSER_RESTART_THRESHOLD)
          BY <1>8, <3>1 DEF needsRestart
        <4>2. browser.pageCount \in Nat
          BY DEF ProcessOK
        <4>3. problem = "" => browser.pageCount < BROWSER_RESTART_THRESHOLD
          <5>1. BROWSER_RESTART_THRESHOLD \in Nat
            BY NumbersOK
          <5> QED
            BY <4>1, <4>2, <5>1, NotReached, Zenon
        <4> QED
          BY <1>8, <2>2, <2>3, <3>1, <4>3 DEF RecycleStory, BrowserIsRecycled
      <3>2. CASE ~keep
        <4>1. browser'.pageCount = 0 /\ history'.contexts = 0 /\ history'.uncounted = 0
          BY <1>8, <2>3, <3>2
        <4> QED
          BY <4>1, NothingServedYet, RecycleAfter, Zenon
      <3> QED
        BY <3>1, <3>2
    <2> QED
      BY <2>1, <2>5, <2>8, <2>9
  <1>9. CASE driver # "absent"
    <2>1. PICK recent \in Recent :
       /\ timestamps' = recent
       /\ IF Len(recent) >= RATE_LIMIT_PER_HOUR
          THEN /\ GiveUp(c)
               /\ history' = [history EXCEPT !.refused = TRUE]
               /\ UNCHANGED <<browser, faults>>
          ELSE \E problem \in {"", "memory", "launch"} :
            LET keep == \/ problem = "memory"
                        \/ browser.up # "none" /\ ~needsRestart
            IN /\ Fault(problem # "")
               /\ problem = "launch" => ~keep
               /\ browser.up = "hung" => keep
               /\ IF problem # "" THEN GiveUp(c) ELSE Goes(c, "rendering")
               /\ browser' = IF keep THEN browser
                             ELSE [up |-> IF problem = "" THEN "alive" ELSE "none", pageCount |-> 0]
               /\ history' = IF keep THEN history ELSE [history EXCEPT !.contexts = 0, !.uncounted = 0]
      BY <1>9 DEF ensureBrowser
    <2>2. CASE Len(recent) >= RATE_LIMIT_PER_HOUR
      BY <1>7, <2>1, <2>2
    <2>3. CASE ~(Len(recent) >= RATE_LIMIT_PER_HOUR)
      <3>1. PICK problem \in {"", "memory", "launch"} :
            LET keep == \/ problem = "memory"
                        \/ browser.up # "none" /\ ~needsRestart
            IN /\ Fault(problem # "")
               /\ IF problem # "" THEN GiveUp(c) ELSE Goes(c, "rendering")
               /\ browser' = IF keep THEN browser
                             ELSE [up |-> IF problem = "" THEN "alive" ELSE "none", pageCount |-> 0]
               /\ history' = IF keep THEN history ELSE [history EXCEPT !.contexts = 0, !.uncounted = 0]
        BY <2>1, <2>3
      <3> DEFINE keep == problem = "memory" \/ (browser.up # "none" /\ ~needsRestart)
      <3>2. /\ keep \in BOOLEAN
            /\ keep <=> (problem = "memory" \/ (browser.up # "none" /\ ~needsRestart))
            /\ browser' = IF keep THEN browser
                          ELSE [up |-> IF problem = "" THEN "alive" ELSE "none", pageCount |-> 0]
            /\ history' = IF keep THEN history ELSE [history EXCEPT !.contexts = 0, !.uncounted = 0]
        BY <3>1
      <3> HIDE DEF keep
      <3> QED
        BY <1>8, <2>1, <2>3, <3>1, <3>2
    <2> QED
      BY <2>2, <2>3
  <1> QED
    BY <1>5, <1>9


LEMMA RenderKeepsTheStory ==
  ASSUME DiscoveryStory, NEW c \in Calls, Render(c)
  PROVE  DiscoveryStory'
  <1> USE DEF DiscoveryStory
  <1>1. /\ GoodCall(call[c]) /\ call[c].pc = "rendering" /\ call[c].pc \in Busy /\ call[c].pc \in InLine
        /\ call[c].waits \in settled /\ UNCHANGED <<lock, settled, driver, now>>
    BY DEF CallStory, ChainStory, Render, At, Busy, InLine
  <1>2. "leaving" \in Busy /\ "leaving" # "rendering"
    BY DEF Busy
  <1>3. ASSUME BusyStep(c, "leaving")
        PROVE  CallStory' /\ ChainStory' /\ \A d \in Calls : call'[d].pc # "rendering"
    BY <1>1, <1>2, <1>3, BusyStepKeepsTheChain
  <1>4. CASE browser.up = "dead"
    <2>1. GiveUp(c) /\ UNCHANGED <<browser, timestamps, faults, history>>
      BY <1>4 DEF Render
    <2>2. CallStory' /\ ChainStory' /\ \A d \in Calls : call'[d].pc # "rendering"
      BY <1>1, <1>3, <2>1, GivingUpIsBusy
    <2>3. RationStory' /\ RecycleStory'
      BY <1>1, <2>1, <2>2, RationUntouched
    <2>4. ProcessOK'
      BY <1>1, <2>1 DEF ProcessOK
    <2> QED
      BY <2>2, <2>3, <2>4
  <1>5. CASE browser.up # "dead"
    <2> DEFINE page == IF call[c].want = "subpage" THEN Head(call[c].todo).spa ELSE Here(c).spa
    <2>1. PICK failed \in BOOLEAN : \E shown \in Shows(IF failed THEN [ok |-> FALSE] ELSE page) :
            LET forLinks == call[c].want = "links"
                given == IF forLinks THEN {} ELSE shown.text
                gave == given # {} \/ (forLinks /\ shown.ok)
                counted == IF forLinks THEN shown.ok ELSE shown.text # {}
                pages == IF forLinks THEN (IF counted THEN 1 ELSE 0) ELSE 1 + shown.extra
            IN /\ Fault(failed)
               /\ LeaveWith(c, given, IF forLinks THEN shown.dom ELSE <<>>)
               /\ browser' = [browser EXCEPT !.pageCount = @ + pages]
               /\ timestamps' = IF counted THEN Append(timestamps, now) ELSE timestamps
               /\ history' = Opens(~forLinks \/ counted, gave)
      BY <1>5 DEF Render
    <2> DEFINE seen == IF failed THEN [ok |-> FALSE] ELSE page
    <2>2. PICK shown \in Shows(seen) :
            LET forLinks == call[c].want = "links"
                given == IF forLinks THEN {} ELSE shown.text
                gave == given # {} \/ (forLinks /\ shown.ok)
                counted == IF forLinks THEN shown.ok ELSE shown.text # {}
                pages == IF forLinks THEN (IF counted THEN 1 ELSE 0) ELSE 1 + shown.extra
            IN /\ Fault(failed)
               /\ LeaveWith(c, given, IF forLinks THEN shown.dom ELSE <<>>)
               /\ browser' = [browser EXCEPT !.pageCount = @ + pages]
               /\ timestamps' = IF counted THEN Append(timestamps, now) ELSE timestamps
               /\ history' = Opens(~forLinks \/ counted, gave)
      BY <2>1
    <2>3. shown.extra \in Nat /\ \A x, y \in shown.text : x = y
      BY ShownPage
    <2> HIDE DEF seen, page
    <2> DEFINE forLinks == call[c].want = "links"
               counted == IF forLinks THEN shown.ok ELSE shown.text # {}
               pages == IF forLinks THEN (IF counted THEN 1 ELSE 0) ELSE 1 + shown.extra
               back == IF forLinks THEN {} ELSE shown.text
               gave == back # {} \/ (forLinks /\ shown.ok)
               links == IF forLinks THEN shown.dom ELSE <<>>
    <2>4. LeaveWith(c, back, links) /\ \A x, y \in back : x = y
      BY <2>2, <2>3
    <2>5. BusyStep(c, "leaving")
      BY <1>1, <2>4, LeavingIsBusy
    <2>6. CallStory' /\ ChainStory' /\ \A d \in Calls : call'[d].pc # "rendering"
      BY <1>3, <2>5
    <2>7. /\ pages \in Nat
          /\ (counted \/ ~forLinks) => pages >= 1
      BY <2>3
    <2>8. /\ Fault(failed) /\ browser' = [browser EXCEPT !.pageCount = @ + pages]
          /\ timestamps' = IF counted THEN Append(timestamps, now) ELSE timestamps
          /\ history' = Opens(~forLinks \/ counted, gave)
          /\ gave <=> counted
      BY <2>2
    <2> HIDE DEF forLinks, counted, pages, back, gave, links
    <2>9. faults' \in 0..MaxFaults
      BY <2>8, FaultsAreBounded DEF ProcessOK
    <2> DEFINE n == browser.pageCount + pages
               m == history.contexts + 1
               u == history.uncounted + (IF counted \/ ~forLinks THEN 0 ELSE 1)
               T == IF counted THEN Append(timestamps, now) ELSE timestamps
               R == IF counted THEN Append(history.yields, now) ELSE history.yields
    <2>10. /\ browser.pageCount \in Nat /\ history.contexts \in Nat /\ history.uncounted \in Nat
           /\ browser.pageCount < BROWSER_RESTART_THRESHOLD
           /\ history.contexts <= browser.pageCount + history.uncounted
      BY <1>1 DEF ProcessOK, RecycleStory
    <2>11. n \in Nat /\ m \in Nat /\ u \in Nat /\ m <= n + u /\ m <= BROWSER_RESTART_THRESHOLD + u
      BY <2>7, <2>10, NumbersOK
    <2>12. browser' \in [up : {"none", "alive", "hung", "dead"}, pageCount : Nat] /\ browser'.pageCount = n
      <3>1. browser' = [browser EXCEPT !.pageCount = n]
        BY <2>8
      <3> QED
        BY <2>11, <3>1 DEF ProcessOK
    <2>13. history' = [history EXCEPT !.yields = R, !.contexts = m, !.uncounted = u]
      <3>1. history \in [yields : Seq(0..now), contexts : Nat, uncounted : Nat, refused : BOOLEAN]
        BY DEF ProcessOK
      <3>2. CASE counted
        BY <2>8, <3>1, <3>2 DEF Opens
      <3>3. CASE ~counted
        BY <2>8, <3>1, <3>3 DEF Opens
      <3> QED
        BY <3>2, <3>3
    <2>14. timestamps' = T
      BY <2>8
    <2>15. /\ T \in Seq(0..now) /\ R \in Seq(0..now) /\ Len(T) <= Len(R)
           /\ \A i \in 1..Len(T) : T[i] = R[(Len(R) - Len(T)) + i]
           /\ \A i \in 1..(Len(R) - Len(T)) : R[i] + Hour <= now
           /\ \A i, j \in DOMAIN R : j = i + RATE_LIMIT_PER_HOUR => R[i] + Hour <= R[j]
      <3>1. CASE counted
        <4>1. Len(timestamps) < RATE_LIMIT_PER_HOUR
          BY <1>1 DEF RationStory
        <4> QED
          BY <3>1, <4>1, RenderKeepsTheRation
      <3>2. CASE ~counted
        BY <3>2 DEF RationStory, Dropped, YieldsAreRationed, ProcessOK
      <3> QED
        BY <3>1, <3>2
    <2> HIDE DEF n, m, u, T, R
    <2>16. /\ history' \in [yields : Seq(0..now), contexts : Nat, uncounted : Nat, refused : BOOLEAN]
           /\ history'.yields = R /\ history'.contexts = m /\ history'.uncounted = u
      BY <2>11, <2>13, <2>15 DEF ProcessOK
    <2>17. RationStory'
      BY <1>1, <2>6, <2>14, <2>15, <2>16, RationAfter
    <2>18. RecycleStory'
      BY <2>6, <2>11, <2>12, <2>16, RecycleAfter
    <2>19. ProcessOK'
      BY <1>1, <2>9, <2>12, <2>14, <2>15, <2>16 DEF ProcessOK
    <2> QED
      BY <2>6, <2>17, <2>18, <2>19
  <1> QED
    BY <1>4, <1>5


LEMMA OutsideKeepsTheStory ==
  ASSUME DiscoveryStory, NEW c \in Calls, Outside(c)
  PROVE  DiscoveryStory'
  <1> USE DEF DiscoveryStory
  <1>1. GoodCall(call[c]) /\ faults \in 0..MaxFaults
    BY DEF CallStory, ProcessOK
  <1>2. FreeStep(c) /\ UNCHANGED <<shared, now, history>> /\ faults' \in 0..MaxFaults
    BY <1>1, OutsideIsFree
  <1>3. CallStory' /\ ChainStory'
    BY <1>2, FreeKeepsTheChain DEF shared
  <1>4. \A d \in Calls : call'[d].pc = "rendering" => call[d].pc = "rendering"
    <2>1. PICK r : Put(c, r) /\ r.pc \notin InLine
      BY <1>2 DEF FreeStep
    <2>2. call'[c].pc # "rendering" /\ \A d \in Calls \ {c} : call'[d] = call[d]
      BY <2>1, PutOfACall DEF InLine
    <2> QED
      BY <2>2
  <1>5. RationStory' /\ RecycleStory'
    BY <1>2, <1>4, RationUntouched DEF shared
  <1>6. ProcessOK'
    BY <1>2 DEF ProcessOK, shared
  <1> QED
    BY <1>3, <1>5, <1>6

(* A caller joins the line, has its turn, leaves.                            *)
LEMMA LineKeepsTheStory ==
  ASSUME DiscoveryStory, NEW c \in Calls, Queue(c) \/ Enters(c) \/ Leaves(c)
  PROVE  DiscoveryStory'
  <1> USE DEF DiscoveryStory
  <1>1. UNCHANGED <<driver, browser, timestamps, now, faults, history>>
    BY DEF Queue, Enters, Leaves, shared
  <1>2. CallStory' /\ ChainStory'
    <2>1. CASE Queue(c)
      BY <2>1, QueueKeepsTheChain
    <2>2. CASE Enters(c)
      <3>1. /\ GoodCall(call[c]) /\ call[c].pc \in InLine /\ call[c].waits \in settled
            /\ Goes(c, "inside") /\ "inside" \in Busy /\ UNCHANGED <<lock, settled>>
        BY <2>2 DEF Enters, CallStory, At, InLine, Busy, shared
      <3>2. BusyStep(c, "inside")
        BY <3>1, GoingOnIsBusy
      <3> QED
        BY <3>1, <3>2, BusyStepKeepsTheChain
    <2>3. CASE Leaves(c)
      BY <2>3, LeavesKeepsTheChain
    <2> QED
      BY <2>1, <2>2, <2>3
  <1>3. \A d \in Calls : call'[d].pc = "rendering" => call[d].pc = "rendering"
    <2>1. ASSUME NEW r, Put(c, r), r.pc # "rendering"
          PROVE  \A d \in Calls : call'[d].pc = "rendering" => call[d].pc = "rendering"
      BY <2>1, PutOfACall
    <2>2. CASE Queue(c)
      <3> DEFINE r == [call[c] EXCEPT !.pc = "queued", !.waits = lock, !.mine = lock + 1]
      <3>1. Put(c, r) /\ r.pc = "queued"
        BY <2>2, IdleFields DEF Queue, CallStory, GoodCall
      <3> HIDE DEF r
      <3> QED
        BY <2>1, <3>1
    <2>3. ASSUME NEW place, place # "rendering", Goes(c, place)
          PROVE  \A d \in Calls : call'[d].pc = "rendering" => call[d].pc = "rendering"
      <3> DEFINE r == [call[c] EXCEPT !.pc = place]
      <3>1. Put(c, r) /\ r.pc = place
        BY <2>3, IdleFields DEF Goes, CallStory, GoodCall
      <3> HIDE DEF r
      <3> QED
        BY <2>1, <2>3, <3>1
    <2>4. CASE Enters(c)
      BY <2>3, <2>4 DEF Enters
    <2>5. CASE Leaves(c)
      BY <2>3, <2>5 DEF Leaves
    <2> QED
      BY <2>2, <2>4, <2>5
  <1>4. RationStory' /\ RecycleStory'
    BY <1>1, <1>3, RationUntouched
  <1>5. ProcessOK'
    BY <1>1 DEF ProcessOK
  <1> QED
    BY <1>2, <1>4, <1>5

LEMMA WaitingCallsKeepTheirStory ==
  ASSUME CallStory, ChainStory, UNCHANGED <<call, lock, settled>>
  PROVE  CallStory' /\ ChainStory'
  <1>1. CallStory'
    BY EveryCallIsGood DEF CallStory
  <1>2. ChainStory'
    BY DEF ChainStory
  <1> QED
    BY <1>1, <1>2

LEMMA LoadKeepsTheStory ==
  ASSUME DiscoveryStory, NEW c \in Calls, loadPlaywright(c)
  PROVE  DiscoveryStory'
  <1> USE DEF DiscoveryStory
  <1>1. UNCHANGED <<call, lock, settled, browser, timestamps, now, history>>
    BY DEF loadPlaywright
  <1>2. PICK failed \in BOOLEAN : Fault(failed) /\ driver' = IF failed THEN "absent" ELSE "ready"
    BY DEF loadPlaywright
  <1>3. faults' \in 0..MaxFaults
    BY <1>2, FaultsAreBounded DEF ProcessOK
  <1>4. ProcessOK'
    BY <1>1, <1>2, <1>3 DEF ProcessOK
  <1>5. CallStory' /\ ChainStory'
    BY <1>1, WaitingCallsKeepTheirStory
  <1>6. RationStory' /\ RecycleStory'
    BY <1>1, RationUntouched
  <1> QED
    BY <1>4, <1>5, <1>6

LEMMA DeathKeepsTheStory ==
  ASSUME DiscoveryStory, BrowserHangs \/ BrowserDies
  PROVE  DiscoveryStory'
  <1> USE DEF DiscoveryStory
  <1>1. UNCHANGED <<call, lock, settled, driver, timestamps, now, history>>
    BY DEF BrowserHangs, BrowserDies
  <1>2. browser' \in [up : {"none", "alive", "hung", "dead"}, pageCount : Nat] /\ browser'.pageCount = browser.pageCount
    BY DEF BrowserHangs, BrowserDies, ProcessOK
  <1>3. faults' \in 0..MaxFaults
    <2>1. Fault(TRUE)
      BY DEF BrowserHangs, BrowserDies, Fault
    <2> QED
      BY <2>1, FaultsAreBounded DEF ProcessOK
  <1>4. ProcessOK'
    BY <1>1, <1>2, <1>3 DEF ProcessOK
  <1>5. CallStory' /\ ChainStory'
    BY <1>1, WaitingCallsKeepTheirStory
  <1>6. RationStory'
    BY <1>1 DEF RationStory, Dropped, YieldsAreRationed
  <1>7. RecycleStory'
    BY <1>1, <1>2 DEF RecycleStory, BrowserIsRecycled
  <1> QED
    BY <1>4, <1>5, <1>6, <1>7

LEMMA TickKeepsTheStory ==
  ASSUME DiscoveryStory, Tick
  PROVE  DiscoveryStory'
  <1> USE DEF DiscoveryStory
  <1> DEFINE t == now + 1
  <1>1. UNCHANGED <<call, lock, settled, driver, browser, timestamps, faults, history>> /\ now' = t
    BY DEF Tick, shared
  <1>2. t \in 0..MaxNow /\ 0..now \subseteq 0..t /\ now \in Nat /\ t = now + 1
    BY NumbersOK DEF Tick, ProcessOK
  <1>3. /\ timestamps \in Seq(0..now) /\ history.yields \in Seq(0..now)
        /\ history \in [yields : Seq(0..now), contexts : Nat, uncounted : Nat, refused : BOOLEAN]
    BY DEF ProcessOK
  <1> HIDE DEF t
  <1>4. timestamps \in Seq(0..t) /\ history.yields \in Seq(0..t)
    <2>1. Seq(0..now) \subseteq Seq(0..t)
      BY <1>2
    <2> QED
      BY <1>3, <2>1
  <1>5. history \in [yields : Seq(0..t), contexts : Nat, uncounted : Nat, refused : BOOLEAN]
    BY <1>3, <1>4
  <1>6. ProcessOK'
    BY <1>1, <1>2, <1>4, <1>5, Zenon DEF ProcessOK
  <1>7. CallStory' /\ ChainStory'
    BY <1>1, WaitingCallsKeepTheirStory
  <1>8. \A i \in 1..(Len(history.yields) - Len(timestamps)) : history.yields[i] + Hour <= t
    <2> TAKE i \in 1..(Len(history.yields) - Len(timestamps))
    <2>1. history.yields[i] + Hour <= now
      BY DEF RationStory, Dropped
    <2>2. history.yields[i] \in 0..now
      <3>1. Len(history.yields) \in Nat /\ Len(timestamps) \in Nat
        BY <1>3, LenProperties
      <3>2. i \in 1..Len(history.yields)
        BY <3>1
      <3> QED
        BY <1>3, <3>2, ElementOfSeq
    <2> QED
      BY <1>2, <2>1, <2>2, NumbersOK
  <1>9. RationStory'
    <2>1. /\ timestamps' = timestamps /\ history'.yields = history.yields
          /\ Len(timestamps) <= Len(history.yields)
          /\ \A i \in 1..Len(timestamps) :
               timestamps[i] = history.yields[(Len(history.yields) - Len(timestamps)) + i]
          /\ \A i, j \in DOMAIN history.yields :
               j = i + RATE_LIMIT_PER_HOUR => history.yields[i] + Hour <= history.yields[j]
          /\ \A c \in Calls : call'[c].pc = "rendering" => Len(timestamps) < RATE_LIMIT_PER_HOUR
      BY <1>1 DEF RationStory, Dropped, YieldsAreRationed
    <2> QED
      BY <1>1, <1>8, <2>1, RationAfter
  <1>10. RecycleStory'
    BY <1>1 DEF RecycleStory, BrowserIsRecycled
  <1> QED
    BY <1>6, <1>7, <1>9, <1>10

LEMMA NextKeepsTheStory ==
  ASSUME DiscoveryStory, [Next]_vars
  PROVE  DiscoveryStory'
  <1>1. ASSUME NEW c \in Calls, Start(c) \/ Step(c)
        PROVE  DiscoveryStory'
    BY <1>1, OutsideKeepsTheStory, LineKeepsTheStory, LoadKeepsTheStory, EnsureKeepsTheStory, RenderKeepsTheStory
       DEF Step, Outside
  <1>2. CASE UNCHANGED vars
    <2>1. UNCHANGED <<call, lock, settled, driver, browser, timestamps, now, faults, history>>
      BY <1>2 DEF vars
    <2> QED
      BY <2>1, WaitingCallsKeepTheirStory, RationUntouched DEF DiscoveryStory, ProcessOK
  <1> QED
    BY <1>1, <1>2, DeathKeepsTheStory, TickKeepsTheStory DEF Next

LEMMA InitIsInTheStory ==
  ASSUME Init
  PROVE  DiscoveryStory
  <1>1. CallStory
    <2>1. GoodCall(Idle)
      BY DEF GoodCall, Idle, Reading, InLine
    <2> QED
      BY <2>1 DEF Init, CallStory
  <1>2. ChainStory
    <2>1. \A c \in Calls : call[c].pc = "start" /\ call[c].mine = 0 /\ call[c].waits = 0
      BY DEF Init, Idle
    <2> QED
      BY <2>1 DEF Init, ChainStory, InLine, Busy
  <1>3. \A c \in Calls : call[c].pc # "rendering"
    BY DEF Init, Idle
  <1>4. <<>> \in Seq(0..now) /\ Len(<<>>) = 0
    BY EmptySeq
  <1>5. history \in [yields : Seq(0..now), contexts : Nat, uncounted : Nat, refused : BOOLEAN]
    BY <1>4 DEF Init
  <1>6. ProcessOK
    BY <1>4, <1>5, NumbersOK DEF Init, ProcessOK
  <1>7. RationStory
    <2>1. timestamps = <<>> /\ history.yields = <<>>
      BY DEF Init
    <2> QED
      BY <1>3, <2>1 DEF RationStory, Dropped, YieldsAreRationed
  <1>8. RecycleStory
    BY <1>3, NothingServedYet DEF Init, RecycleStory, BrowserIsRecycled
  <1> QED
    BY <1>1, <1>2, <1>6, <1>7, <1>8 DEF DiscoveryStory

LEMMA StoryHolds == Spec => []DiscoveryStory
  BY InitIsInTheStory, NextKeepsTheStory, PTL DEF Spec

-------------------------------------------------------------------------------
(* What the story implies.                                                   *)

LEMMA StoryImpliesTheInvariant ==
  ASSUME DiscoveryStory
  PROVE  DiscoveryInv
  <1> USE DEF DiscoveryStory
  <1>1. TypeOK
    <2>1. ASSUME NEW c \in Calls
          PROVE  /\ call[c].pc \in {"start", "tier", "fetch", "crawl", "subpage", "entering", "queued",
                                    "inside", "rendering", "leaving", "returned", "done"}
                 /\ call[c].tier \in 0..6
                 /\ call[c].url \in DOMAIN Web \cup {""}
                 /\ {call[c].mine, call[c].waits} \subseteq 0..lock
                 /\ call[c].want \in {"page", "links", "subpage"}
                 /\ call[c].got \in Nat
                 /\ \A x, y \in call[c].back : x = y
      BY DEF CallStory, GoodCall, ChainStory, Reading, InLine
    <2> QED
      BY <2>1 DEF TypeOK, ProcessOK, ChainStory
  <1>2. \A c, d \in Inside : c = d
    BY OneBusy DEF Inside, Busy
  <1>3. OneRenderAtATime
    <2>1. CASE Inside = {}
      BY <2>1, FS_EmptySet DEF OneRenderAtATime
    <2>2. CASE Inside # {}
      <3>1. PICK c : Inside = {c}
        BY <1>2, <2>2
      <3>2. Cardinality(Inside) = 1
        BY <3>1, FS_Singleton
      <3> QED
        BY <3>2 DEF OneRenderAtATime
    <2> QED
      BY <2>1, <2>2
  <1>4. FirstComeFirstServed
    <2> SUFFICES ASSUME NEW c \in Inside
                 PROVE  0..(call[c].mine - 1) \subseteq settled
      BY DEF FirstComeFirstServed
    <2>1. c \in Calls /\ call[c].pc \in Busy /\ call[c].pc \in InLine
      BY DEF Inside, Busy, InLine
    <2>2. call[c].mine = call[c].waits + 1 /\ call[c].waits \in Nat /\ 0..(call[c].waits) \subseteq settled
      BY <2>1 DEF ChainStory
    <2> QED
      BY <2>2
  <1>5. NoCallComesBackEmpty
    BY DEF NoCallComesBackEmpty, CallStory, GoodCall, Found, At
  <1> QED
    BY <1>1, <1>3, <1>4, <1>5 DEF DiscoveryInv, RecycleStory

(* Whatever fails and however the calls interleave: one caller at a time is  *)
(* at the browser and they come in their order, no browser process opens     *)
(* more contexts than the threshold but for the lists of links that failed,  *)
(* and a call that ended brings a text back.                                 *)
THEOREM BrowserIsShared == Spec => []DiscoveryInv
  BY StoryHolds, StoryImpliesTheInvariant, PTL

(* Whatever the calls, the browser gives its callers no more texts and lists *)
(* of links in an hour than the ration has: a caller is alone between the    *)
(* check of the list and its own entry in it, and whoever is given something *)
(* is entered.  Loads that yield nothing are not rationed.                   *)
THEOREM RationIsKept == Spec => []YieldsAreRationed
  <1>1. DiscoveryStory => YieldsAreRationed
    BY DEF DiscoveryStory, RationStory
  <1> QED
    BY <1>1, StoryHolds, PTL

-------------------------------------------------------------------------------
(* Induction on sets of numbers.                                             *)

LEMMA LeastNumber ==
  ASSUME NEW T, T \subseteq Nat, T # {}
  PROVE  \E m \in T : \A k \in T : m <= k
  <1> DEFINE R == {ss \in Nat \X Nat : ss[1] < ss[2]}
  <1>1. IsWellFoundedOn(R, Nat)
    <2>1. R = OpToRel(<, Nat)
      BY Zenon DEF OpToRel
    <2> QED
      BY <2>1, NatLessThanWellFounded
  <1>2. PICK m \in T : \A k \in T : ~(<<k, m>> \in R)
    <2> HIDE DEF R
    <2> QED
      BY <1>1, WFMin
  <1>3. \A k \in T : ~(k < m)
    BY <1>2
  <1> QED
    BY <1>3

LEMMA NumberInduction ==
  ASSUME NEW P, P \subseteq Nat, 0 \in P, \A n \in P : n + 1 \in P
  PROVE  P = Nat
  <1> SUFFICES ASSUME Nat \ P # {}
               PROVE  FALSE
    OBVIOUS
  <1>1. PICK m \in Nat \ P : \A k \in Nat \ P : m <= k
    BY LeastNumber
  <1>2. m - 1 \in P
    BY <1>1
  <1> QED
    BY <1>1, <1>2

(* What a crawl has read after each link.                                    *)
Reads(landing, links, n, f) ==
  f = [i \in 0..n |-> IF i = 0 THEN [sum |-> landing.len, got |-> 0]
                      ELSE WithPage(f[i - 1], SubpageAlone(links[i]))]

LEMMA ReadAloneExists ==
  ASSUME NEW landing, NEW links, NEW n \in Nat
  PROVE  \E f : Reads(landing, links, n, f)
  <1> DEFINE P == {k \in Nat : \E f : Reads(landing, links, k, f)}
             first == [sum |-> landing.len, got |-> 0]
  <1>1. 0 \in P
    <2> DEFINE f == [i \in 0..0 |-> first]
    <2>1. Reads(landing, links, 0, f)
      BY DEF Reads
    <2> QED
      BY <2>1
  <1>2. ASSUME NEW k \in P
        PROVE  k + 1 \in P
    <2>1. PICK f : Reads(landing, links, k, f)
      OBVIOUS
    <2> DEFINE last == WithPage(f[k], SubpageAlone(links[k + 1]))
               g == [i \in 0..(k + 1) |-> IF i \in 0..k THEN f[i] ELSE last]
    <2>2. \A i \in 0..k : g[i] = f[i]
      BY DEF P
    <2>3. \A i \in 0..k : g[i] = IF i = 0 THEN first ELSE WithPage(g[i - 1], SubpageAlone(links[i]))
      <3> SUFFICES ASSUME NEW i \in 0..k
                   PROVE  f[i] = IF i = 0 THEN first ELSE WithPage(g[i - 1], SubpageAlone(links[i]))
        BY <2>2
      <3>1. i # 0 => i - 1 \in 0..k
        BY DEF P
      <3>2. f[i] = IF i = 0 THEN first ELSE WithPage(f[i - 1], SubpageAlone(links[i]))
        <4> HIDE DEF P
        <4> QED
          BY <2>1 DEF Reads
      <3> QED
        BY <2>2, <3>1, <3>2
    <2>4. k + 1 # 0 /\ (k + 1) - 1 = k /\ k \in 0..k /\ k + 1 \notin 0..k
      BY DEF P
    <2>5. g[k + 1] = WithPage(g[(k + 1) - 1], SubpageAlone(links[k + 1]))
      BY <2>2, <2>4
    <2>6. \A i \in 0..(k + 1) : i \in 0..k \/ i = k + 1
      BY DEF P
    <2>7. \A i \in 0..(k + 1) : g[i] = IF i = 0 THEN first ELSE WithPage(g[i - 1], SubpageAlone(links[i]))
      <3> HIDE DEF g, P, first
      <3> QED
        BY <2>3, <2>4, <2>5, <2>6
    <2>8. Reads(landing, links, k + 1, g)
      <3>1. g = [i \in 0..(k + 1) |-> g[i]]
        OBVIOUS
      <3> HIDE DEF g, P
      <3> QED
        BY <2>7, <3>1 DEF Reads
    <2> QED
      BY <2>8
  <1>3. P = Nat
    <2> HIDE DEF P
    <2>1. P \subseteq Nat
      BY DEF P
    <2> QED
      BY <1>1, <1>2, <2>1, NumberInduction
  <1> QED
    BY <1>3

LEMMA ReadAloneIsReads ==
  ASSUME NEW landing, NEW links, Len(links) \in Nat
  PROVE  Reads(landing, links, Len(links), ReadAlone(landing, links))
  <1> DEFINE F == CHOOSE f : Reads(landing, links, Len(links), f)
  <1>1. Reads(landing, links, Len(links), F)
    BY ReadAloneExists
  <1>2. ReadAlone(landing, links) = F
    BY DEF ReadAlone, Reads
  <1> QED
    BY <1>1, <1>2

LEMMA ReadAloneSteps ==
  ASSUME NEW landing, NEW links, Len(links) \in Nat
  PROVE  /\ ReadAlone(landing, links)[0] = [sum |-> landing.len, got |-> 0]
         /\ \A k \in 0..(Len(links) - 1) :
              ReadAlone(landing, links)[k + 1] = WithPage(ReadAlone(landing, links)[k], SubpageAlone(links[k + 1]))
  <1> DEFINE f == ReadAlone(landing, links)
             N == Len(links)
             first == [sum |-> landing.len, got |-> 0]
  <1>1. f = [i \in 0..N |-> IF i = 0 THEN first ELSE WithPage(f[i - 1], SubpageAlone(links[i]))]
    BY ReadAloneIsReads DEF Reads
  <1> HIDE DEF f, first
  <1>2. \A i \in 0..N : f[i] = IF i = 0 THEN first ELSE WithPage(f[i - 1], SubpageAlone(links[i]))
    BY <1>1
  <1>3. 0 \in 0..N
    OBVIOUS
  <1>4. ASSUME NEW k \in 0..(N - 1)
        PROVE  f[k + 1] = WithPage(f[k], SubpageAlone(links[k + 1]))
    <2>1. k + 1 \in 0..N /\ k + 1 # 0 /\ (k + 1) - 1 = k
      OBVIOUS
    <2> QED
      BY <1>2, <2>1
  <1> QED
    BY <1>2, <1>3, <1>4 DEF f, first

(* Once there is text enough nothing more is read.                           *)
LEMMA EnoughIsEnough ==
  ASSUME NEW landing, NEW links, Len(links) \in Nat, NEW k \in 0..Len(links),
         ~(ReadAlone(landing, links)[k].sum < MAX_TOTAL_CHARS)
  PROVE  ReadAlone(landing, links)[Len(links)] = ReadAlone(landing, links)[k]
  <1> DEFINE f == ReadAlone(landing, links)
             N == Len(links)
             P == {m \in Nat : k + m <= N => f[k + m] = f[k]}
  <1> HIDE DEF f
  <1>1. 0 \in P
    OBVIOUS
  <1>2. ASSUME NEW m \in P
        PROVE  m + 1 \in P
    <2> SUFFICES ASSUME k + (m + 1) <= N
                 PROVE  f[k + (m + 1)] = f[k]
      OBVIOUS
    <2>1. k + m \in 0..(N - 1) /\ k + (m + 1) = (k + m) + 1 /\ k + m <= N
      OBVIOUS
    <2>2. f[k + m] = f[k]
      BY <2>1
    <2>3. f[(k + m) + 1] = WithPage(f[k + m], SubpageAlone(links[(k + m) + 1]))
      BY <2>1, ReadAloneSteps DEF f
    <2>4. f[(k + m) + 1] = f[k]
      BY <2>2, <2>3 DEF WithPage, f
    <2> QED
      BY <2>1, <2>4
  <1>3. P = Nat
    <2>1. P \subseteq Nat
      OBVIOUS
    <2> HIDE DEF P
    <2> QED
      BY <1>1, <1>2, <2>1, NumberInduction
  <1>4. N - k \in Nat /\ k + (N - k) = N
    OBVIOUS
  <1>5. N - k \in P
    BY <1>3, <1>4
  <1>6. f[k + (N - k)] = f[k]
    BY <1>4, <1>5
  <1> QED
    BY <1>4, <1>6 DEF f

-------------------------------------------------------------------------------
(* There is at most one thing a call may find at each place.                 *)

LEMMA RankedLinks ==
  ASSUME NEW links, links \in Seq(Range(links)), NEW shallow, NEW most \in Nat
  PROVE  Ranked(links, shallow, most) \in Seq(Range(Ranked(links, shallow, most)))
  <1> DEFINE Score(i) == ScoreLink(links[i], shallow)
             telling == {i \in DOMAIN links : Score(i) > 0}
             n == Smaller(most, Cardinality(telling))
  <1>1. n \in Nat
    <2>1. IsFiniteSet(1..Len(links)) /\ DOMAIN links = 1..Len(links)
      BY LenProperties, FS_Interval
    <2>2. telling \subseteq 1..Len(links)
      BY <2>1
    <2> HIDE DEF telling
    <2>3. Cardinality(telling) \in Nat
      BY <2>1, <2>2, FS_Subset, FS_CardinalityType
    <2> QED
      BY <2>3 DEF Smaller
  <1> DEFINE R == Ranked(links, shallow, most)
  <1>2. \E f : R = [i \in 1..n |-> f[i]]
    <2> DEFINE Ahead(i) == {j \in telling : Score(j) > Score(i) \/ (Score(j) = Score(i) /\ j < i)}
               f == [m \in 1..n |-> links[CHOOSE i \in telling : Cardinality(Ahead(i)) = m - 1]]
    <2>1. R = f
      BY DEF Ranked
    <2>2. f = [i \in 1..n |-> f[i]]
      OBVIOUS
    <2> QED
      BY <2>1, <2>2
  <1> HIDE DEF R, n
  <1>3. R \in [1..n -> Range(R)]
    BY <1>2 DEF Range
  <1>4. R \in Seq(Range(R))
    BY <1>1, <1>3
  <1> QED
    BY <1>4 DEF R

(* The links of a crawl are a sequence.                                      *)
LEMMA LinksAreASequence ==
  ASSUME NEW u \in DOMAIN Web
  PROVE  LinksAlone(u) \in Seq(Range(LinksAlone(u))) /\ Len(LinksAlone(u)) \in Nat
  <1>1. CRAWLED_SUBPAGES \in Nat
    BY DEF CRAWLED_SUBPAGES
  <1>2. ASSUME NEW links, links \in Seq(Range(links))
        PROVE  Best(links) \in Seq(Range(Best(links)))
    BY <1>1, <1>2, RankedLinks DEF Best
  <1>3. LinksAlone(u) \in Seq(Range(LinksAlone(u)))
    <2>1. CASE Web[u].links # <<>>
      <3>1. LinksAlone(u) = Best(Web[u].links)
        BY <2>1 DEF LinksAlone, Subpages
      <3> QED
        BY <1>2, <3>1, WebAssumption
    <2>2. CASE Web[u].links = <<>> /\ Web[u].spa.ok
      <3>1. LinksAlone(u) = Best(Web[u].spa.dom)
        BY <2>2 DEF LinksAlone, Rendering
      <3> QED
        BY <1>2, <2>2, <3>1, WebAssumption
    <2>3. CASE Web[u].links = <<>> /\ ~Web[u].spa.ok
      <3>1. LinksAlone(u) = <<>>
        BY <2>3 DEF LinksAlone, Rendering
      <3> QED
        BY <3>1, EmptySeq
    <2> QED
      BY <2>1, <2>2, <2>3
  <1> QED
    BY <1>3, LenProperties

(* What is left to read after k links.                                       *)
LEMMA RestOfLinks ==
  ASSUME NEW S, NEW links \in Seq(S), NEW k \in 0..Len(links)
  PROVE  LET rest == SubSeq(links, k + 1, Len(links))
         IN /\ rest = <<>> <=> k = Len(links)
            /\ k < Len(links) => Head(rest) = links[k + 1] /\ Tail(rest) = SubSeq(links, (k + 1) + 1, Len(links))
  <1> DEFINE N == Len(links)
             rest == SubSeq(links, k + 1, N)
  <1>1. N \in Nat /\ k \in Nat /\ k <= N
    BY LenProperties
  <1>2. CASE k = N
    <2>1. rest = <<>>
      BY <1>1, <1>2, SubSeqEmpty
    <2> QED
      BY <1>1, <1>2, <2>1
  <1>3. CASE k < N
    <2>1. k + 1 \in 1..N /\ N \in (k + 1)..N
      BY <1>1, <1>3
    <2>2. Head(rest) = links[k + 1] /\ Tail(rest) = SubSeq(links, (k + 1) + 1, N)
      BY <2>1, HeadTailOfSubSeq
    <2>3. Len(rest) = N - (k + 1) + 1
      <3>1. \A i \in (k + 1)..N : links[i] \in S
        BY <1>1, ElementOfSeq
      <3>2. k + 1 \in Int /\ N \in Int /\ k + 1 <= N
        BY <1>1, <1>3
      <3> QED
        BY <3>1, <3>2, SubSeqProperties
    <2>4. rest # <<>>
      <3>1. Len(<<>>) = 0
        BY EmptySeq
      <3> HIDE DEF rest
      <3> QED
        BY <1>1, <1>3, <2>3, <3>1
    <2> QED
      BY <1>3, <2>2, <2>4
  <1> QED
    BY <1>1, <1>2, <1>3

(* The first one is only one.                                                *)
LEMMA OfferedOnce ==
  ASSUME NEW c \in Calls, NEW tier \in {"linked", "site", "search"},
         NEW u \in Offers(c, tier), NEW v \in Offers(c, tier)
  PROVE  u = v
  <1> DEFINE P == Project[c]
  <1>1. /\ P.linked \in Seq(DOMAIN Web) /\ P.queries \in Seq(Range(P.queries))
        /\ \A results \in Range(P.queries) : results \in Seq(Range(results))
    BY WebAssumption
  <1>2. CASE tier = "linked"
    <2>1. Offers(c, tier) = FirstOf(P.linked, IsDocumentUrl)
      BY <1>2 DEF Offers
    <2>2. DOMAIN P.linked \subseteq Nat
      BY <1>1
    <2> DEFINE urls == P.linked
    <2>3. \A x, y \in FirstOf(urls, IsDocumentUrl) : x = y
      <3> HIDE DEF urls
      <3> QED
        BY <2>2 DEF FirstOf, urls
    <2> QED
      BY <1>2, <2>1, <2>3
  <1>3. CASE tier = "site"
    <2> DEFINE sites == FirstOf(P.linked, LAMBDA x : ~IsDocumentUrl(x) /\ Web[x].scraped # <<>>)
    <2>1. Offers(c, tier) = {l.url : l \in UNION {findWhitepaperLink(Web[x].scraped) : x \in sites}}
      BY <1>3 DEF Offers
    <2>2. DOMAIN P.linked \subseteq Nat
      BY <1>1
    <2>3. sites \subseteq DOMAIN Web /\ \A x, y \in sites : x = y
      <3>1. \A x, y \in sites : x = y
        BY <2>2 DEF FirstOf
      <3>2. sites \subseteq Range(P.linked)
        BY DEF FirstOf, Range
      <3>3. Range(P.linked) \subseteq DOMAIN Web
        BY <1>1 DEF Range
      <3> QED
        BY <3>1, <3>2, <3>3
    <2> HIDE DEF sites
    <2>4. ASSUME NEW x \in DOMAIN Web, NEW l \in findWhitepaperLink(Web[x].scraped),
                 NEW m \in findWhitepaperLink(Web[x].scraped)
          PROVE  l = m
      <3> DEFINE links == Web[x].scraped
      <3>1. DOMAIN links \subseteq Nat
        <4>1. links \in Seq(Range(links))
          BY WebAssumption
        <4> HIDE DEF links
        <4> QED
          BY <4>1
      <3> HIDE DEF links
      <3>2. \A a, b \in findWhitepaperLink(links) : a = b
        BY <3>1 DEF findWhitepaperLink, FirstOf
      <3> QED
        BY <3>2 DEF links
    <2> QED
      BY <2>1, <2>3, <2>4
  <1>4. CASE tier = "search"
    <2>1. Offers(c, tier) = searchWhitepaper(P.known, P.queries)
      BY <1>4 DEF Offers
    <2>2. CASE P.known # ""
      <3>1. Offers(c, tier) = {P.known}
        BY <2>1, <2>2, Zenon DEF searchWhitepaper
      <3> QED
        BY <3>1
    <2>3. CASE P.known = ""
      <3> DEFINE answered == FirstOf(P.queries, LAMBDA results : pickBestResult(results) # {})
      <3>1. Offers(c, tier) = {r.url : r \in UNION {pickBestResult(results) : results \in answered}}
        BY <2>1, <2>3 DEF searchWhitepaper
      <3>2. answered \subseteq Range(P.queries)
        BY DEF FirstOf, Range
      <3>3. \A x, y \in answered : x = y
        <4>1. DOMAIN P.queries \subseteq Nat
          BY <1>1
        <4> HIDE DEF P
        <4> QED
          BY <4>1 DEF FirstOf
      <3> HIDE DEF answered
      <3>4. ASSUME NEW results \in answered, NEW r \in pickBestResult(results), NEW s \in pickBestResult(results)
            PROVE  r = s
        <4>1. DOMAIN results \subseteq Nat
          BY <1>1, <3>2
        <4> DEFINE Good(n, x) == CASE n = 1 -> x.pdf /\ (x.named \/ x.mirror)
                                   [] n = 2 -> x.research /\ (x.named \/ x.titled)
                                   [] n = 3 -> x.pdf
                                   [] n = 4 -> x.docs /\ (x.named \/ x.titled)
                                   [] n = 5 -> x.gitbook
                   Pass(n) == FirstOf(results, LAMBDA x : Good(n, x))
        <4>2. ASSUME NEW n, NEW a \in Pass(n), NEW b \in Pass(n)
              PROVE  a = b
          <5> HIDE DEF Good
          <5> QED
            BY <4>1, <4>2 DEF FirstOf
        <4>3. \E n : pickBestResult(results) \subseteq Pass(n)
          <5>1. pickBestResult(results) =
                  LET passes == {n \in 1..5 : Pass(n) # {}}
                  IN IF passes = {} THEN {} ELSE Pass(Min(passes))
            BY DEF pickBestResult
          <5> HIDE DEF Pass
          <5> QED
            BY <5>1
        <4> HIDE DEF Pass
        <4> QED
          BY <4>2, <4>3
      <3> QED
        BY <3>1, <3>3, <3>4
    <2> QED
      BY <2>2, <2>3
  <1> QED
    BY <1>2, <1>3, <1>4

LEMMA ShownOnce ==
  ASSUME NEW u \in DOMAIN Web
  PROVE  /\ \A x, y \in Fetched[u] : x = y
         /\ \A x, y \in CheapLayers[u] : x = y
         /\ \A p : \A x, y \in Rendering(p).text : x = y
  <1>1. \A x, y \in Fetched[u] : x = y
    BY DEF Fetched
  <1>2. \A x, y \in CheapLayers[u] : x = y
    <2>1. CheapLayers[u] = LET llms == LlmsTxt(Web[u].llmsFull, Web[u].llms)
                           IN IF llms # {} THEN llms ELSE SiteSpecific(Web[u].gitbook, Web[u].markdown)
      BY DEF CheapLayers
    <2>2. \A a, b : \A x, y \in LlmsTxt(a, b) : x = y
      BY DEF LlmsTxt
    <2>3. \A a, b : \A x, y \in SiteSpecific(a, b) : x = y
      BY DEF SiteSpecific
    <2> QED
      BY <2>1, <2>2, <2>3
  <1>3. \A p : \A x, y \in Rendering(p).text : x = y
    <2>1. \A p : \A x, y \in Rendered(p) : x = y
      BY DEF Rendered
    <2>2. \A p : Rendering(p).text = IF p.ok THEN Rendered(p) ELSE {}
      BY DEF Rendering
    <2> QED
      BY <2>1, <2>2
  <1> QED
    BY <1>1, <1>2, <1>3

LEMMA ResolvedOnce ==
  ASSUME NEW u \in DOMAIN Web, NEW x \in ResolvedAlone(u), NEW y \in ResolvedAlone(u)
  PROVE  x = y
  <1>1. PICK page \in Fetched[u] : x \in ResolvedFrom(u, page) /\ y \in ResolvedFrom(u, page)
    BY ShownOnce DEF ResolvedAlone
  <1>2. /\ \A a, b \in CheapLayers[u] : a = b
        /\ \A a, b \in Rendering(Web[u].spa).text : a = b
    BY ShownOnce
  <1> QED
    BY <1>1, <1>2 DEF ResolvedFrom

-------------------------------------------------------------------------------
(* What a call finds is what it would have found alone.                      *)

Visit == {"entering", "returned"} \cup InLine

(* The crawl a call is at, or is at the browser for.                         *)
InCrawl(r) == r.pc \in {"crawl", "subpage"} \/ (r.pc \in Visit /\ r.want # "page")
InSubpages(r) == r.pc = "subpage" \/ (r.pc \in Visit /\ r.want = "subpage")

LandingAlone(u, x) == IF x.source = "html" THEN DirectAlone(u, x) ELSE LayeredAlone(x)

EarlierTiersFailed(c, n) == \A k \in 1..(n - 1) : FoundAlone(c, Tiers[k]) = {}

(* Which URL is read, and for which tier.                                    *)
ReadsAsAlone(c, r) ==
  /\ r.pc \in Reading \cup {"tier"} => EarlierTiersFailed(c, r.tier)
  /\ r.pc \in Reading => Tiers[r.tier] \in {"linked", "site", "search"} /\ r.url \in Offers(c, Tiers[r.tier])

(* A page that is shown by the browser because nothing cheaper has it.       *)
AsksAsAlone(r) ==
  r.pc \in Visit /\ r.want = "page" =>
    /\ \E page \in Fetched[r.url] : ~page.home /\ ~(page.len >= THIN_CONTENT_THRESHOLD) /\ page.spa
    /\ CheapLayers[r.url] = {}
    /\ r.pc \in {"leaving", "returned"} => r.back = Rendering(Web[r.url].spa).text

(* A crawl leads where it leads alone, and follows the same links.           *)
CrawlsAsAlone(r) ==
  /\ InCrawl(r) => CrawledAlone(r.landing, LinksAlone(r.url), LandingAlone(r.url, r.landing)) \in ResolvedAlone(r.url)
  /\ r.pc \in Visit /\ r.want = "links" =>
       /\ Web[r.url].links = <<>>
       /\ r.pc \in {"leaving", "returned"} => r.links = Rendering(Web[r.url].spa).dom
  /\ ~InSubpages(r) => r.got = 0

(* k links of the crawl have been read, and the next one may be at the browser. *)
HasRead(r, k) ==
  LET links == LinksAlone(r.url)
  IN /\ r.todo = SubSeq(links, k + 1, Len(links))
     /\ [sum |-> r.sum, got |-> r.got] = ReadAlone(r.landing, links)[k]
     /\ r.pc \in Visit =>
          /\ k < Len(links) /\ r.sum < MAX_TOTAL_CHARS
          /\ r.plain = links[k + 1].plain /\ ~(r.plain >= 200)
          /\ r.pc \in {"leaving", "returned"} => r.back = Rendering(links[k + 1].spa).text

SubpagesAsAlone(r) == InSubpages(r) => \E k \in 0..Len(LinksAlone(r.url)) : HasRead(r, k)

AsAlone(c, r) ==
  /\ ReadsAsAlone(c, r) /\ AsksAsAlone(r) /\ CrawlsAsAlone(r) /\ SubpagesAsAlone(r)
  /\ r.pc = "done" => r.answer \in BestAlone[c]

Calm == faults = 0 /\ ~history.refused
AloneStory == Calm => driver # "absent" /\ browser.up # "dead" /\ \A c \in Calls : AsAlone(c, call[c])

(* The tier of a call that reads a URL finds what that URL resolves to.      *)
LEMMA FoundOfUrl ==
  ASSUME NEW c \in Calls, NEW tier \in {"linked", "site", "search"}, NEW u \in Offers(c, tier), u \in DOMAIN Web,
         NEW x \in ResolvedAlone(u)
  PROVE  FoundAlone(c, tier) = {r \in {x} : Readable(r)}
  <1>1. Offers(c, tier) = {u}
    BY OfferedOnce
  <1>2. ResolvedAlone(u) = {x}
    BY ResolvedOnce
  <1>3. FoundAlone(c, tier) = {r \in UNION {ResolvedAlone(v) : v \in Offers(c, tier)} : Readable(r)}
    BY DEF FoundAlone
  <1> QED
    BY <1>1, <1>2, <1>3

LEMMA NothingOffered ==
  ASSUME NEW c \in Calls, NEW tier \in {"linked", "site", "search"}, Offers(c, tier) = {}
  PROVE  FoundAlone(c, tier) = {}
  <1>1. FoundAlone(c, tier) = {r \in UNION {ResolvedAlone(v) : v \in Offers(c, tier)} : Readable(r)}
    BY DEF FoundAlone
  <1> QED
    BY <1>1

LEMMA NothingResolved ==
  ASSUME NEW c \in Calls, NEW tier \in {"linked", "site", "search"}, NEW u \in Offers(c, tier), u \in DOMAIN Web,
         Fetched[u] = {}
  PROVE  FoundAlone(c, tier) = {}
  <1>1. Offers(c, tier) = {u}
    BY OfferedOnce
  <1>2. ResolvedAlone(u) = {}
    BY DEF ResolvedAlone
  <1>3. FoundAlone(c, tier) = {r \in UNION {ResolvedAlone(v) : v \in Offers(c, tier)} : Readable(r)}
    BY DEF FoundAlone
  <1> QED
    BY <1>1, <1>2, <1>3

(* The first tier that finds something is the answer of a call alone.        *)
LEMMA FirstFoundIsBest ==
  ASSUME NEW c \in Calls, NEW n \in 1..6, EarlierTiersFailed(c, n), NEW x \in FoundAlone(c, Tiers[n])
  PROVE  x \in BestAlone[c]
  <1> DEFINE found == [i \in DOMAIN Tiers |-> FoundAlone(c, Tiers[i])]
  <1>1. DOMAIN Tiers = 1..6
    BY DEF Tiers
  <1>2. DOMAIN found = 1..6 /\ \A i \in 1..6 : found[i] = FoundAlone(c, Tiers[i])
    BY <1>1
  <1>3. BestAlone[c] = FirstFound(found)
    BY DEF BestAlone
  <1> HIDE DEF found
  <1>4. found[n] \in FirstOf(found, LAMBDA results : results # {})
    <2>1. found[n] # {}
      BY <1>2
    <2>2. \A k \in 1..6 : found[k] # {} => n <= k
      BY <1>2 DEF EarlierTiersFailed
    <2> QED
      BY <1>2, <2>1, <2>2 DEF FirstOf
  <1> QED
    BY <1>2, <1>3, <1>4 DEF FirstFound

(* One more tier has failed.                                                 *)
LEMMA OneMoreTierFailed ==
  ASSUME NEW c \in Calls, NEW n \in 1..5, EarlierTiersFailed(c, n), FoundAlone(c, Tiers[n]) = {}
  PROVE  EarlierTiersFailed(c, n + 1)
  <1>1. \A k \in 1..((n + 1) - 1) : k \in 1..(n - 1) \/ k = n
    OBVIOUS
  <1> QED
    BY <1>1 DEF EarlierTiersFailed

-------------------------------------------------------------------------------
(* The steps of a call that end as alone.                                    *)

AloneStep(c) == \E r : Put(c, r) /\ AsAlone(c, r)

LEMMA PlacesOfCalls ==
  /\ Visit \subseteq Reading /\ InLine \subseteq Visit
  /\ {"fetch", "crawl", "subpage"} \cap Visit = {} /\ {"fetch", "crawl", "subpage"} \subseteq Reading
  /\ {"start", "tier", "done"} \cap (Reading \cup Visit) = {}
  BY DEF Visit, Reading, InLine

LEMMA NextTierAsAlone ==
  ASSUME NEW c \in Calls, GoodCall(call[c]), EarlierTiersFailed(c, call[c].tier + 1), NextTier(c)
  PROVE  AloneStep(c)
  <1> DEFINE r == [Cleared(c) EXCEPT !.pc = "tier", !.tier = @ + 1]
  <1>1. r.pc = "tier" /\ r.tier = call[c].tier + 1 /\ r.got = 0
    BY ClearedIsGood, IdleFields
  <1>2. Put(c, r)
    BY DEF NextTier
  <1> HIDE DEF r
  <1>3. AsAlone(c, r)
    BY <1>1, PlacesOfCalls
       DEF AsAlone, ReadsAsAlone, AsksAsAlone, CrawlsAsAlone, SubpagesAsAlone, InCrawl, InSubpages
  <1> QED
    BY <1>2, <1>3 DEF AloneStep

LEMMA AnswerAsAlone ==
  ASSUME NEW c \in Calls, GoodCall(call[c]), NEW answer \in BestAlone[c], Answer(c, answer)
  PROVE  AloneStep(c)
  <1> DEFINE r == [Cleared(c) EXCEPT !.pc = "done", !.answer = answer]
  <1>1. r.pc = "done" /\ r.got = 0 /\ r.answer = answer
    BY ClearedIsGood, IdleFields
  <1>2. Put(c, r)
    BY DEF Answer
  <1> HIDE DEF r
  <1>3. AsAlone(c, r)
    BY <1>1, PlacesOfCalls
       DEF AsAlone, ReadsAsAlone, AsksAsAlone, CrawlsAsAlone, SubpagesAsAlone, InCrawl, InSubpages
  <1> QED
    BY <1>2, <1>3 DEF AloneStep

(* What a reading call knows of its URL.                                     *)
LEMMA UrlOfACall ==
  ASSUME NEW c \in Calls, GoodCall(call[c]), AsAlone(c, call[c]), call[c].pc \in Reading
  PROVE  /\ call[c].tier \in 1..5 /\ call[c].tier \in 1..6 /\ EarlierTiersFailed(c, call[c].tier)
         /\ Tiers[call[c].tier] \in {"linked", "site", "search"}
         /\ call[c].url \in Offers(c, Tiers[call[c].tier]) /\ call[c].url \in DOMAIN Web
  <1>1. /\ call[c].tier \in 1..5 /\ EarlierTiersFailed(c, call[c].tier)
        /\ Tiers[call[c].tier] \in {"linked", "site", "search"}
        /\ call[c].url \in Offers(c, Tiers[call[c].tier])
    BY DEF GoodCall, AsAlone, ReadsAsAlone
  <1>2. \A tier \in {"linked", "site", "search"} : Offers(c, tier) = Offered[c][tier]
    BY TierPlaces DEF Offered
  <1> QED
    BY <1>1, <1>2, OfferedUrls

LEMMA JudgeAsAlone ==
  ASSUME NEW c \in Calls, GoodCall(call[c]), AsAlone(c, call[c]), call[c].pc \in Reading,
         NEW x \in ResolvedAlone(call[c].url), Judge(c, x)
  PROVE  AloneStep(c)
  <1> DEFINE n == call[c].tier
  <1>1. FoundAlone(c, Tiers[n]) = {r \in {x} : Readable(r)}
    BY UrlOfACall, FoundOfUrl
  <1>2. CASE Readable(x)
    <2>1. x \in BestAlone[c]
      BY <1>1, <1>2, UrlOfACall, FirstFoundIsBest
    <2> QED
      BY <1>2, <2>1, AnswerAsAlone DEF Judge
  <1>3. CASE ~Readable(x)
    <2>1. EarlierTiersFailed(c, n + 1)
      BY <1>1, <1>3, UrlOfACall, OneMoreTierFailed
    <2> QED
      BY <1>3, <2>1, NextTierAsAlone DEF Judge
  <1> QED
    BY <1>2, <1>3

(* A call that finds no document at its URL goes on to the next tier.        *)
LEMMA FailedUrlAsAlone ==
  ASSUME NEW c \in Calls, GoodCall(call[c]), AsAlone(c, call[c]), call[c].pc \in Reading,
         Fetched[call[c].url] = {}, NextTier(c)
  PROVE  AloneStep(c)
  <1>1. FoundAlone(c, Tiers[call[c].tier]) = {}
    BY UrlOfACall, NothingResolved
  <1> QED
    BY <1>1, UrlOfACall, OneMoreTierFailed, NextTierAsAlone

-------------------------------------------------------------------------------
(* The steps of a call, one after the other, short of a fault.               *)

LEMMA NoFault ==
  ASSUME faults = 0, faults' = 0, NEW failed \in BOOLEAN, Fault(failed)
  PROVE  ~failed
  BY DEF Fault

(* A call that is read on leads where it leads alone.                        *)
LEMMA ReadOnAsAlone ==
  ASSUME NEW c \in Calls, AsAlone(c, call[c]), call[c].pc \in Reading, NEW r, Put(c, r),
         r.pc \in Reading, r.tier = call[c].tier, r.url = call[c].url,
         AsksAsAlone(r), CrawlsAsAlone(r), SubpagesAsAlone(r)
  PROVE  AloneStep(c)
  <1>1. ReadsAsAlone(c, r)
    BY PlacesOfCalls DEF AsAlone, ReadsAsAlone
  <1>2. r.pc # "done"
    BY PlacesOfCalls
  <1> QED
    BY <1>1, <1>2 DEF AsAlone, AloneStep

LEMMA StartAsAlone ==
  ASSUME NEW c \in Calls, GoodCall(call[c]), AsAlone(c, call[c]), Start(c)
  PROVE  AloneStep(c)
  <1> DEFINE r == [call[c] EXCEPT !.pc = "tier", !.tier = 1]
  <1>1. r.pc = "tier" /\ r.tier = 1 /\ r.got = call[c].got
    BY IdleFields DEF GoodCall
  <1>2. Put(c, r) /\ call[c].pc = "start"
    BY DEF Start, At
  <1> HIDE DEF r
  <1>3. r.got = 0
    BY <1>1, <1>2, PlacesOfCalls DEF AsAlone, CrawlsAsAlone, InSubpages
  <1>4. EarlierTiersFailed(c, 1)
    BY DEF EarlierTiersFailed
  <1>5. AsAlone(c, r)
    BY <1>1, <1>3, <1>4, PlacesOfCalls
       DEF AsAlone, ReadsAsAlone, AsksAsAlone, CrawlsAsAlone, SubpagesAsAlone, InCrawl, InSubpages
  <1> QED
    BY <1>2, <1>5 DEF AloneStep

LEMMA UrlTierAsAlone ==
  ASSUME NEW c \in Calls, GoodCall(call[c]), AsAlone(c, call[c]), NEW tier \in {"linked", "site", "search"},
         NEW unfailing, DiscoverUrl(c, tier, unfailing), faults = 0, faults' = 0
  PROVE  AloneStep(c)
  <1> DEFINE n == call[c].tier
  <1>1. PICK failed \in BOOLEAN : Fault(failed) /\ Try(c, IF failed /\ ~unfailing THEN {} ELSE Offered[c][tier])
    BY DEF DiscoverUrl
  <1>2. Try(c, Offers(c, tier))
    BY <1>1, NoFault, TierPlaces DEF Offered
  <1>3. call[c].pc = "tier" /\ Tiers[n] = tier /\ n \in 1..5 /\ n \in 1..6
    <2>1. DiscoverTier(c, tier)
      BY DEF DiscoverUrl
    <2>2. n \in 1..5
      BY <2>1, NotTheLastTier
    <2> QED
      BY <2>1, <2>2 DEF DiscoverTier, At
  <1>4. EarlierTiersFailed(c, n)
    BY <1>3 DEF AsAlone, ReadsAsAlone
  <1>5. CASE Offers(c, tier) = {}
    <2>1. NextTier(c)
      BY <1>2, <1>5 DEF Try
    <2>2. FoundAlone(c, Tiers[n]) = {}
      BY <1>3, <1>5, NothingOffered
    <2> QED
      BY <1>3, <1>4, <2>1, <2>2, OneMoreTierFailed, NextTierAsAlone
  <1>6. CASE Offers(c, tier) # {}
    <2>1. PICK u \in Offers(c, tier) : Resolve(c, u)
      BY <1>2, <1>6 DEF Try
    <2> DEFINE r == [call[c] EXCEPT !.pc = "fetch", !.url = u]
    <2>2. r.pc = "fetch" /\ r.tier = n /\ r.url = u /\ r.got = call[c].got
      BY IdleFields DEF GoodCall
    <2>3. Put(c, r)
      BY <2>1 DEF Resolve
    <2> HIDE DEF r
    <2>4. r.got = 0
      BY <1>3, <2>2, PlacesOfCalls DEF AsAlone, CrawlsAsAlone, InSubpages
    <2>5. AsAlone(c, r)
      BY <1>3, <1>4, <2>2, <2>4, PlacesOfCalls
         DEF AsAlone, ReadsAsAlone, AsksAsAlone, CrawlsAsAlone, SubpagesAsAlone, InCrawl, InSubpages
    <2> QED
      BY <2>3, <2>5 DEF AloneStep
  <1> QED
    BY <1>5, <1>6

(* A file that a tier offers is long, and nothing locks it.                  *)
LEMMA NamedResult ==
  ASSUME NEW c \in Calls, NEW tier \in {"github", "aggregator"}, NEW u \in Offers(c, tier), u \in DOMAIN Web,
         NEW t \in Fetched[u]
  PROVE  [buildResult(t, "direct") EXCEPT !.imageOnly = FALSE, !.locked = FALSE] = buildResult(t, "direct")
  <1>1. Offered[c][tier] = Offers(c, tier)
    BY TierPlaces DEF Offered
  <1>2. t.len \in Nat /\ t.len > 500
    BY <1>1, OfferedTexts
  <1>3. t.locked = FALSE
    <2>1. t = FetchContent(Web[u].page)
      BY DEF Fetched
    <2> QED
      BY <2>1 DEF FetchContent, Content
  <1>4. \A pages : detectImageOnly(t.len, pages) = FALSE
    BY <1>2 DEF detectImageOnly, IMAGE_ONLY_CHAR_THRESHOLD
  <1> DEFINE r == buildResult(t, "direct")
  <1>5. r.imageOnly = FALSE /\ r.locked = FALSE
    BY <1>3, <1>4 DEF buildResult
  <1>6. r = [len |-> r.len, about |-> r.about, source |-> r.source, imageOnly |-> r.imageOnly, locked |-> r.locked]
    BY DEF buildResult
  <1> HIDE DEF r
  <1>7. [r EXCEPT !.imageOnly = FALSE, !.locked = FALSE] = r
    BY <1>5, <1>6
  <1> QED
    BY <1>7 DEF r

LEMMA NamedTierAsAlone ==
  ASSUME NEW c \in Calls, GoodCall(call[c]), AsAlone(c, call[c]), NEW tier \in {"github", "aggregator"},
         DiscoverNamed(c, tier), faults = 0, faults' = 0
  PROVE  AloneStep(c)
  <1> DEFINE n == call[c].tier
             found == {t \in UNION {Fetched[u] : u \in Offers(c, tier)} :
                         verifyRelevance(t.about, Project[c].name, Project[c].token)}
             Result(t) == [buildResult(t, "direct") EXCEPT !.imageOnly = FALSE, !.locked = FALSE]
  <1>1. PICK failed \in BOOLEAN :
          /\ Fault(failed)
          /\ LET texts == {t \in UNION {Fetched[u] : u \in IF failed THEN {} ELSE Offered[c][tier]} :
                             verifyRelevance(t.about, Project[c].name, Project[c].token)}
             IN IF texts = {} THEN NextTier(c) ELSE \E t \in texts : Answer(c, Result(t))
    BY DEF DiscoverNamed
  <1>2. Offered[c][tier] = Offers(c, tier)
    BY TierPlaces DEF Offered
  <1>3. IF found = {} THEN NextTier(c) ELSE \E t \in found : Answer(c, Result(t))
    BY <1>1, <1>2, NoFault
  <1>4. call[c].pc = "tier" /\ Tiers[n] = tier /\ n \in 1..5 /\ n \in 1..6
    <2>1. DiscoverTier(c, tier)
      BY DEF DiscoverNamed
    <2>2. n \in 1..5
      BY <2>1, NotTheLastTier
    <2> QED
      BY <2>1, <2>2 DEF DiscoverTier, At
  <1>5. EarlierTiersFailed(c, n)
    BY <1>4 DEF AsAlone, ReadsAsAlone
  <1>6. FoundAlone(c, tier) = {buildResult(t, "direct") : t \in found}
    BY DEF FoundAlone
  <1>7. CASE found = {}
    <2>1. FoundAlone(c, Tiers[n]) = {}
      BY <1>4, <1>6, <1>7
    <2> QED
      BY <1>3, <1>4, <1>5, <1>7, <2>1, OneMoreTierFailed, NextTierAsAlone
  <1>8. ASSUME NEW t \in found, Answer(c, Result(t))
        PROVE  AloneStep(c)
    <2>1. Result(t) = buildResult(t, "direct")
      <3>1. PICK u \in Offers(c, tier) : t \in Fetched[u]
        OBVIOUS
      <3>2. u \in DOMAIN Web
        BY <1>2, <3>1, OfferedTexts
      <3> QED
        BY <3>1, <3>2, NamedResult
    <2>2. buildResult(t, "direct") \in FoundAlone(c, Tiers[n])
      BY <1>4, <1>6
    <2>3. buildResult(t, "direct") \in BestAlone[c]
      BY <1>4, <1>5, <2>2, FirstFoundIsBest
    <2> QED
      BY <1>8, <2>1, <2>3, AnswerAsAlone
  <1> QED
    BY <1>3, <1>7, <1>8

LEMMA ComposeAsAlone ==
  ASSUME NEW c \in Calls, GoodCall(call[c]), AsAlone(c, call[c]), Compose(c), faults = 0, faults' = 0
  PROVE  AloneStep(c)
  <1> DEFINE answer == compose(Project[c].virtuals, {Project[c].name, Project[c].token})
  <1>1. PICK failed \in BOOLEAN :
          Fault(failed) /\ Answer(c, compose(IF failed THEN NoPage ELSE Project[c].virtuals,
                                             {Project[c].name, Project[c].token}))
    BY DEF Compose
  <1>2. Answer(c, answer)
    BY <1>1, NoFault
  <1>3. call[c].pc = "tier" /\ Tiers[call[c].tier] = "compose" /\ call[c].tier \in 1..6
    BY DEF Compose, DiscoverTier, At, GoodCall
  <1>4. answer \in FoundAlone(c, Tiers[call[c].tier])
    BY <1>3 DEF FoundAlone
  <1>5. EarlierTiersFailed(c, call[c].tier)
    BY <1>3 DEF AsAlone, ReadsAsAlone
  <1> QED
    BY <1>2, <1>3, <1>4, <1>5, FirstFoundIsBest, AnswerAsAlone

-------------------------------------------------------------------------------
(* A URL that is read.                                                       *)

LEMMA DirectAsAlone ==
  ASSUME NEW c \in Calls, GoodCall(call[c]), AsAlone(c, call[c]), call[c].pc \in Reading,
         NEW x, DirectAlone(call[c].url, x) \in ResolvedAlone(call[c].url), Direct(c, x)
  PROVE  AloneStep(c)
  <1>1. Judge(c, DirectAlone(call[c].url, x))
    BY DEF Direct, DirectAlone, Source, Here
  <1> QED
    BY <1>1, JudgeAsAlone

LEMMA LayeredAsAlone ==
  ASSUME NEW c \in Calls, GoodCall(call[c]), AsAlone(c, call[c]), call[c].pc \in Reading,
         NEW x, LayeredAlone(x) \in ResolvedAlone(call[c].url), Layered(c, x)
  PROVE  AloneStep(c)
  <1>1. Judge(c, LayeredAlone(x))
    BY DEF Layered, LayeredAlone
  <1> QED
    BY <1>1, JudgeAsAlone

LEMMA LandingAsAlone ==
  ASSUME NEW c \in Calls, GoodCall(call[c]), AsAlone(c, call[c]), call[c].pc \in Reading,
         LandingAlone(call[c].url, call[c].landing) \in ResolvedAlone(call[c].url), Landing(c)
  PROVE  AloneStep(c)
  BY DirectAsAlone, LayeredAsAlone DEF Landing, LandingAlone

LEMMA CrawlAsAlone ==
  ASSUME NEW c \in Calls, GoodCall(call[c]), AsAlone(c, call[c]), call[c].pc \in Reading, call[c].got = 0,
         NEW x, CrawledAlone(x, LinksAlone(call[c].url), LandingAlone(call[c].url, x)) \in ResolvedAlone(call[c].url),
         Crawl(c, x)
  PROVE  AloneStep(c)
  <1> DEFINE r == [call[c] EXCEPT !.pc = "crawl", !.landing = x]
  <1>1. r.pc = "crawl" /\ r.landing = x /\ r.tier = call[c].tier /\ r.url = call[c].url /\ r.got = 0
    BY IdleFields DEF GoodCall
  <1>2. Put(c, r)
    BY DEF Crawl
  <1> HIDE DEF r
  <1>3. AsksAsAlone(r) /\ CrawlsAsAlone(r) /\ SubpagesAsAlone(r)
    BY <1>1, PlacesOfCalls DEF AsksAsAlone, CrawlsAsAlone, SubpagesAsAlone, InSubpages
  <1> QED
    BY <1>1, <1>2, <1>3, PlacesOfCalls, ReadOnAsAlone

(* Where a text leads that llms.txt, a site's own handler or the browser gave. *)
DeepenedAlone(u, x) ==
  IF ~x.followed /\ isDocsSiteUrl(Web[u]) /\ x.len >= 200
  THEN CrawledAlone(x, LinksAlone(u), LayeredAlone(x)) ELSE LayeredAlone(x)

LEMMA DeepenAsAlone ==
  ASSUME NEW c \in Calls, GoodCall(call[c]), AsAlone(c, call[c]), call[c].pc \in Reading, call[c].got = 0,
         NEW x, x.source # "html", DeepenedAlone(call[c].url, x) \in ResolvedAlone(call[c].url), Deepen(c, x)
  PROVE  AloneStep(c)
  <1>1. LandingAlone(call[c].url, x) = LayeredAlone(x)
    BY DEF LandingAlone
  <1> QED
    BY <1>1, CrawlAsAlone, LayeredAsAlone DEF Deepen, DeepenedAlone, Here

(* What is not the page itself is not called html.                           *)
LEMMA SourcesOfTexts ==
  ASSUME NEW u \in DOMAIN Web
  PROVE  /\ \A page \in Fetched[u] : page.type # "pdf" => page.source = "html"
         /\ \A x \in CheapLayers[u] : x.source # "html"
         /\ \A p : \A x \in Rendering(p).text : x.source # "html"
  <1>1. \A page \in Fetched[u] : page.type # "pdf" => page.source = "html"
    <2>1. \A page \in Fetched[u] : page = FetchContent(Web[u].page)
      BY DEF Fetched
    <2>2. \A p : FetchContent(p).type = "pdf" \/ FetchContent(p).source = "html"
      BY DEF FetchContent, Content
    <2> QED
      BY <2>1, <2>2
  <1>2. \A x \in CheapLayers[u] : x.source # "html"
    BY DEF CheapLayers, LlmsTxt, SiteSpecific, Content
  <1>3. \A p : \A x \in Rendering(p).text : x.source # "html"
    BY DEF Rendering, Rendered, Content
  <1> QED
    BY <1>1, <1>2, <1>3

LEMMA FetchAsAlone ==
  ASSUME NEW c \in Calls, GoodCall(call[c]), AsAlone(c, call[c]), resolveWhitepaper(c), faults = 0, faults' = 0
  PROVE  AloneStep(c)
  <1> DEFINE u == call[c].url
  <1>1. call[c].pc = "fetch"
    BY DEF resolveWhitepaper, At
  <1>2. call[c].pc \in Reading /\ call[c].got = 0
    BY <1>1, PlacesOfCalls DEF AsAlone, CrawlsAsAlone, InSubpages
  <1>3. u \in DOMAIN Web
    BY <1>2, UrlOfACall
  <1>4. CASE Fetched[u] = {}
    <2>1. NextTier(c)
      BY <1>4 DEF resolveWhitepaper
    <2> QED
      BY <1>2, <1>4, <2>1, FailedUrlAsAlone
  <1>5. CASE Fetched[u] # {}
    <2>1. PICK page \in Fetched[u] :
            IF page.home
            THEN IF CheapLayers[u] = {} THEN Direct(c, [page EXCEPT !.len = 0, !.about = {}])
                 ELSE \E e \in CheapLayers[u] : Layered(c, e)
            ELSE IF page.len >= THIN_CONTENT_THRESHOLD
            THEN IF page.type # "pdf" /\ isDocsSite(Here(c), page.len) THEN Crawl(c, page) ELSE Direct(c, page)
            ELSE IF CheapLayers[u] # {} THEN \E e \in CheapLayers[u] : Deepen(c, e)
            ELSE IF page.spa THEN Enter(c, "page", 0)
            ELSE Direct(c, page)
      BY <1>5, NoFault DEF resolveWhitepaper
    <2>2. ResolvedFrom(u, page) \subseteq ResolvedAlone(u)
      BY <2>1 DEF ResolvedAlone
    <2>3. CASE page.home
      <3>1. CASE CheapLayers[u] = {}
        <4>1. Direct(c, [page EXCEPT !.len = 0, !.about = {}])
          BY <2>1, <2>3, <3>1
        <4>2. DirectAlone(u, [page EXCEPT !.len = 0, !.about = {}]) \in ResolvedFrom(u, page)
          BY <2>3, <3>1 DEF ResolvedFrom
        <4> QED
          BY <1>2, <2>2, <4>1, <4>2, DirectAsAlone
      <3>2. CASE CheapLayers[u] # {}
        <4>1. PICK e \in CheapLayers[u] : Layered(c, e)
          BY <2>1, <2>3, <3>2
        <4>2. LayeredAlone(e) \in ResolvedFrom(u, page)
          BY <2>3, <3>2 DEF ResolvedFrom
        <4> QED
          BY <1>2, <2>2, <4>1, <4>2, LayeredAsAlone
      <3> QED
        BY <3>1, <3>2
    <2>4. CASE ~page.home /\ page.len >= THIN_CONTENT_THRESHOLD
      <3>1. CASE page.type # "pdf" /\ isDocsSite(Here(c), page.len)
        <4>1. Crawl(c, page)
          BY <2>1, <2>4, <3>1
        <4>2. CrawledAlone(page, LinksAlone(u), DirectAlone(u, page)) \in ResolvedFrom(u, page)
          BY <2>4, <3>1 DEF ResolvedFrom, Here
        <4>3. LandingAlone(u, page) = DirectAlone(u, page)
          BY <1>3, <2>1, <3>1, SourcesOfTexts DEF LandingAlone
        <4> QED
          BY <1>2, <2>2, <4>1, <4>2, <4>3, CrawlAsAlone
      <3>2. CASE ~(page.type # "pdf" /\ isDocsSite(Here(c), page.len))
        <4>1. Direct(c, page)
          BY <2>1, <2>4, <3>2
        <4>2. DirectAlone(u, page) \in ResolvedFrom(u, page)
          BY <2>4, <3>2 DEF ResolvedFrom, Here
        <4> QED
          BY <1>2, <2>2, <4>1, <4>2, DirectAsAlone
      <3> QED
        BY <3>1, <3>2
    <2>5. CASE ~page.home /\ ~(page.len >= THIN_CONTENT_THRESHOLD)
      <3>1. CASE CheapLayers[u] # {}
        <4>1. PICK e \in CheapLayers[u] : Deepen(c, e)
          BY <2>1, <2>5, <3>1
        <4>2. DeepenedAlone(u, e) \in ResolvedFrom(u, page)
          BY <2>5, <3>1 DEF ResolvedFrom, DeepenedAlone
        <4>3. e.source # "html"
          BY <1>3, SourcesOfTexts
        <4> QED
          BY <1>2, <2>2, <4>1, <4>2, <4>3, DeepenAsAlone
      <3>2. CASE CheapLayers[u] = {} /\ page.spa
        <4> DEFINE r == [call[c] EXCEPT !.pc = "entering", !.want = "page", !.plain = 0]
        <4>1. r.pc = "entering" /\ r.want = "page" /\ r.tier = call[c].tier /\ r.url = u /\ r.got = 0
          BY <1>2, IdleFields DEF GoodCall
        <4>2. Put(c, r)
          BY <2>1, <2>5, <3>2 DEF Enter
        <4> HIDE DEF r
        <4>3. AsksAsAlone(r)
          BY <2>1, <2>5, <3>2, <4>1 DEF AsksAsAlone
        <4>4. CrawlsAsAlone(r) /\ SubpagesAsAlone(r)
          BY <4>1 DEF CrawlsAsAlone, SubpagesAsAlone, InSubpages, InCrawl
        <4>5. r.pc \in Reading
          BY <4>1 DEF Reading
        <4> QED
          BY <1>2, <4>1, <4>2, <4>3, <4>4, <4>5, ReadOnAsAlone
      <3>3. CASE CheapLayers[u] = {} /\ ~page.spa
        <4>1. Direct(c, page)
          BY <2>1, <2>5, <3>3
        <4>2. DirectAlone(u, page) \in ResolvedFrom(u, page)
          BY <2>5, <3>3 DEF ResolvedFrom
        <4> QED
          BY <1>2, <2>2, <4>1, <4>2, DirectAsAlone
      <3> QED
        BY <3>1, <3>2, <3>3
    <2> QED
      BY <2>3, <2>4, <2>5
  <1> QED
    BY <1>4, <1>5

LEMMA RenderedPageAsAlone ==
  ASSUME NEW c \in Calls, GoodCall(call[c]), AsAlone(c, call[c]), RenderedPage(c)
  PROVE  AloneStep(c)
  <1> DEFINE u == call[c].url
             text == Rendering(Web[u].spa).text
  <1>1. call[c].pc = "returned" /\ call[c].want = "page" /\ call[c].pc \in Visit /\ call[c].pc \in Reading
    BY PlacesOfCalls DEF RenderedPage, At, Visit
  <1>2. call[c].got = 0
    BY <1>1 DEF AsAlone, CrawlsAsAlone, InSubpages
  <1>3. u \in DOMAIN Web
    BY <1>1, UrlOfACall
  <1>4. PICK page \in Fetched[u] : ~page.home /\ ~(page.len >= THIN_CONTENT_THRESHOLD) /\ page.spa
    BY <1>1 DEF AsAlone, AsksAsAlone
  <1>5. CheapLayers[u] = {} /\ call[c].back = text
    BY <1>1 DEF AsAlone, AsksAsAlone
  <1>6. ResolvedFrom(u, page) \subseteq ResolvedAlone(u)
    BY <1>4 DEF ResolvedAlone
  <1>7. CASE text = {}
    <2> DEFINE nothing == [NoContent EXCEPT !.source = "headless-browser"]
    <2>1. Layered(c, nothing)
      BY <1>5, <1>7 DEF RenderedPage
    <2>2. LayeredAlone(nothing) \in ResolvedFrom(u, page)
      BY <1>4, <1>5, <1>7 DEF ResolvedFrom
    <2> QED
      BY <1>1, <1>6, <2>1, <2>2, LayeredAsAlone
  <1>8. CASE text # {}
    <2>1. PICK x \in text : Deepen(c, x)
      BY <1>5, <1>8 DEF RenderedPage
    <2>2. DeepenedAlone(u, x) \in ResolvedFrom(u, page)
      BY <1>4, <1>5, <1>8 DEF ResolvedFrom, DeepenedAlone
    <2>3. x.source # "html"
      BY <1>3, SourcesOfTexts
    <2> QED
      BY <1>1, <1>2, <1>6, <2>1, <2>2, <2>3, DeepenAsAlone
  <1> QED
    BY <1>7, <1>8

-------------------------------------------------------------------------------
(* A crawl.                                                                  *)

LEMMA ReadSubpagesAsAlone ==
  ASSUME NEW c \in Calls, GoodCall(call[c]), AsAlone(c, call[c]), call[c].pc \in Reading,
         InCrawl(call[c]), call[c].got = 0, ReadSubpages(c, LinksAlone(call[c].url))
  PROVE  AloneStep(c)
  <1> DEFINE u == call[c].url
             links == LinksAlone(u)
             landing == call[c].landing
  <1>1. u \in DOMAIN Web
    BY UrlOfACall
  <1>2. links \in Seq(Range(links)) /\ Len(links) \in Nat
    BY <1>1, LinksAreASequence
  <1>3. ReadAlone(landing, links)[0] = [sum |-> landing.len, got |-> 0]
    <2> HIDE DEF links, landing
    <2> QED
      BY <1>2, ReadAloneSteps
  <1>4. CrawledAlone(landing, links, LandingAlone(u, landing)) \in ResolvedAlone(u)
    BY DEF AsAlone, CrawlsAsAlone
  <1>5. CASE links = <<>>
    <2>1. Len(links) = 0
      BY <1>5, EmptySeq
    <2>2. CrawledAlone(landing, links, LandingAlone(u, landing)) = LandingAlone(u, landing)
      <3> HIDE DEF links, landing
      <3> QED
        BY <1>3, <2>1 DEF CrawledAlone, Together
    <2>3. Landing(c)
      BY <1>5 DEF ReadSubpages
    <2> QED
      BY <1>4, <2>2, <2>3, LandingAsAlone
  <1>6. CASE links # <<>>
    <2> DEFINE r == [call[c] EXCEPT !.pc = "subpage", !.todo = links, !.sum = landing.len]
    <2>1. /\ r.pc = "subpage" /\ r.todo = links /\ r.sum = landing.len /\ r.landing = landing
          /\ r.tier = call[c].tier /\ r.url = u /\ r.got = 0
      BY IdleFields DEF GoodCall
    <2>2. Put(c, r)
      BY <1>6 DEF ReadSubpages
    <2> HIDE DEF r
    <2>3. links = SubSeq(links, 0 + 1, Len(links))
      <3> HIDE DEF links
      <3>1. links = SubSeq(links, 1, Len(links))
        BY <1>2
      <3> QED
        BY <3>1
    <2>4. HasRead(r, 0)
      BY <1>3, <2>1, <2>3, PlacesOfCalls DEF HasRead
    <2>5. 0 \in 0..Len(links)
      BY <1>2
    <2>6. SubpagesAsAlone(r)
      BY <2>1, <2>4, <2>5 DEF SubpagesAsAlone
    <2>7. AsksAsAlone(r) /\ CrawlsAsAlone(r)
      BY <1>4, <2>1, PlacesOfCalls DEF AsksAsAlone, CrawlsAsAlone, InSubpages
    <2> QED
      BY <2>1, <2>2, <2>6, <2>7, PlacesOfCalls, ReadOnAsAlone
  <1> QED
    BY <1>5, <1>6

LEMMA CrawlStartAsAlone ==
  ASSUME NEW c \in Calls, GoodCall(call[c]), AsAlone(c, call[c]), crawl(c), faults = 0, faults' = 0
  PROVE  AloneStep(c)
  <1> DEFINE u == call[c].url
  <1>1. call[c].pc = "crawl" /\ call[c].pc \in Reading /\ InCrawl(call[c])
    BY PlacesOfCalls DEF crawl, At, InCrawl
  <1>2. call[c].got = 0
    BY <1>1, PlacesOfCalls DEF AsAlone, CrawlsAsAlone, InSubpages
  <1>3. IF Web[u].links = <<>> THEN Enter(c, "links", 0) ELSE ReadSubpages(c, Subpages[u])
    BY NoFault DEF crawl, Here
  <1>4. CASE Web[u].links # <<>>
    <2>1. ReadSubpages(c, LinksAlone(u))
      BY <1>3, <1>4 DEF LinksAlone
    <2> QED
      BY <1>1, <1>2, <2>1, ReadSubpagesAsAlone
  <1>5. CASE Web[u].links = <<>>
    <2> DEFINE r == [call[c] EXCEPT !.pc = "entering", !.want = "links", !.plain = 0]
    <2>1. /\ r.pc = "entering" /\ r.want = "links" /\ r.landing = call[c].landing
          /\ r.tier = call[c].tier /\ r.url = u /\ r.got = 0
      BY <1>2, IdleFields DEF GoodCall
    <2>2. Put(c, r)
      BY <1>3, <1>5 DEF Enter
    <2> HIDE DEF r
    <2>3. AsksAsAlone(r) /\ SubpagesAsAlone(r)
      BY <2>1 DEF AsksAsAlone, SubpagesAsAlone, InSubpages
    <2>4. CrawlsAsAlone(r)
      BY <1>1, <1>5, <2>1 DEF AsAlone, CrawlsAsAlone
    <2>5. r.pc \in Reading
      BY <2>1 DEF Reading
    <2> QED
      BY <1>1, <2>1, <2>2, <2>3, <2>4, <2>5, ReadOnAsAlone
  <1> QED
    BY <1>4, <1>5

LEMMA RenderedLinksAsAlone ==
  ASSUME NEW c \in Calls, GoodCall(call[c]), AsAlone(c, call[c]), RenderedLinks(c)
  PROVE  AloneStep(c)
  <1>1. call[c].pc = "returned" /\ call[c].want = "links" /\ call[c].pc \in Visit /\ call[c].pc \in Reading
    BY PlacesOfCalls DEF RenderedLinks, At, Visit
  <1>2. call[c].got = 0 /\ InCrawl(call[c])
    BY <1>1 DEF AsAlone, CrawlsAsAlone, InSubpages, InCrawl
  <1>3. Web[call[c].url].links = <<>> /\ call[c].links = Rendering(Web[call[c].url].spa).dom
    BY <1>1 DEF AsAlone, CrawlsAsAlone
  <1>4. ReadSubpages(c, LinksAlone(call[c].url))
    BY <1>3 DEF RenderedLinks, LinksAlone
  <1> QED
    BY <1>1, <1>2, <1>4, ReadSubpagesAsAlone

(* A page that is read gives what it gives alone.                            *)
LEMMA TakeAsAlone ==
  ASSUME NEW c \in Calls, GoodCall(call[c]), AsAlone(c, call[c]), call[c].pc \in Reading, InSubpages(call[c]),
         NEW k \in 0..Len(LinksAlone(call[c].url)), HasRead(call[c], k),
         k < Len(LinksAlone(call[c].url)), call[c].sum < MAX_TOTAL_CHARS,
         Take(c, SubpageAlone(LinksAlone(call[c].url)[k + 1]))
  PROVE  AloneStep(c)
  <1> DEFINE u == call[c].url
             links == LinksAlone(u)
             landing == call[c].landing
             len == SubpageAlone(links[k + 1])
             r == [call[c] EXCEPT !.pc = "subpage", !.todo = Tail(@),
                                  !.sum = @ + (IF len > 100 THEN len ELSE 0), !.got = @ + (IF len > 100 THEN 1 ELSE 0)]
  <1>1. u \in DOMAIN Web
    BY UrlOfACall
  <1>2. links \in Seq(Range(links)) /\ Len(links) \in Nat
    BY <1>1, LinksAreASequence
  <1>3. /\ r.pc = "subpage" /\ r.todo = Tail(call[c].todo) /\ r.landing = landing
        /\ r.sum = call[c].sum + (IF len > 100 THEN len ELSE 0) /\ r.got = call[c].got + (IF len > 100 THEN 1 ELSE 0)
        /\ r.tier = call[c].tier /\ r.url = u
    <2> HIDE DEF len
    <2> QED
      BY IdleFields DEF GoodCall
  <1>4. Put(c, r)
    BY DEF Take
  <1> HIDE DEF r
  <1>5. /\ call[c].todo = SubSeq(links, k + 1, Len(links))
        /\ [sum |-> call[c].sum, got |-> call[c].got] = ReadAlone(landing, links)[k]
    BY DEF HasRead
  <1>6. k + 1 \in 0..Len(links) /\ k \in 0..(Len(links) - 1)
    BY <1>2
  <1>7. r.todo = SubSeq(links, (k + 1) + 1, Len(links))
    <2> HIDE DEF links
    <2> QED
      BY <1>2, <1>3, <1>5, RestOfLinks
  <1>8. [sum |-> r.sum, got |-> r.got] = ReadAlone(landing, links)[k + 1]
    <2> DEFINE before == ReadAlone(landing, links)[k]
    <2>1. ReadAlone(landing, links)[k + 1] = WithPage(before, len)
      <3> HIDE DEF links, landing
      <3> QED
        BY <1>2, <1>6, ReadAloneSteps
    <2>2. before.sum = call[c].sum /\ before.got = call[c].got
      BY <1>5
    <2> HIDE DEF before, len
    <2>3. before.sum < MAX_TOTAL_CHARS
      BY <2>2
    <2> QED
      BY <1>3, <2>1, <2>2, <2>3 DEF WithPage
  <1>9. HasRead(r, k + 1)
    BY <1>3, <1>7, <1>8, PlacesOfCalls DEF HasRead
  <1>10. SubpagesAsAlone(r)
    BY <1>3, <1>6, <1>9 DEF SubpagesAsAlone
  <1>11. AsksAsAlone(r) /\ CrawlsAsAlone(r)
    BY <1>3, PlacesOfCalls DEF AsAlone, AsksAsAlone, CrawlsAsAlone, InSubpages, InCrawl
  <1> QED
    BY <1>3, <1>4, <1>10, <1>11, PlacesOfCalls, ReadOnAsAlone

LEMMA FetchAndStripAsAlone ==
  ASSUME NEW c \in Calls, GoodCall(call[c]), AsAlone(c, call[c]), fetchAndStrip(c), faults = 0, faults' = 0
  PROVE  AloneStep(c)
  <1> DEFINE u == call[c].url
             links == LinksAlone(u)
  <1>1. /\ call[c].pc = "subpage" /\ call[c].pc \in Reading /\ InSubpages(call[c])
        /\ call[c].todo # <<>> /\ call[c].sum < MAX_TOTAL_CHARS
    BY PlacesOfCalls DEF fetchAndStrip, At, InSubpages
  <1>2. PICK k \in 0..Len(links) : HasRead(call[c], k)
    BY <1>1 DEF AsAlone, SubpagesAsAlone
  <1>3. u \in DOMAIN Web
    BY <1>1, UrlOfACall
  <1>4. links \in Seq(Range(links)) /\ Len(links) \in Nat
    BY <1>3, LinksAreASequence
  <1>5. k < Len(links) /\ Head(call[c].todo) = links[k + 1]
    <2>1. call[c].todo = SubSeq(links, k + 1, Len(links))
      BY <1>2 DEF HasRead
    <2> HIDE DEF links
    <2> QED
      BY <1>1, <1>2, <1>4, <2>1, RestOfLinks
  <1> DEFINE len == links[k + 1].plain
  <1>6. IF len >= 200 THEN Take(c, len) ELSE Enter(c, "subpage", len)
    BY <1>5, NoFault DEF fetchAndStrip
  <1>7. CASE len >= 200
    <2>1. SubpageAlone(links[k + 1]) = len
      BY <1>7 DEF SubpageAlone, TextOf
    <2> QED
      BY <1>1, <1>2, <1>5, <1>6, <1>7, <2>1, TakeAsAlone
  <1>8. CASE ~(len >= 200)
    <2> DEFINE r == [call[c] EXCEPT !.pc = "entering", !.want = "subpage", !.plain = len]
    <2>1. /\ r.pc = "entering" /\ r.want = "subpage" /\ r.plain = len /\ r.landing = call[c].landing
          /\ r.tier = call[c].tier /\ r.url = u /\ r.todo = call[c].todo /\ r.sum = call[c].sum /\ r.got = call[c].got
      BY IdleFields DEF GoodCall
    <2>2. Put(c, r)
      BY <1>6, <1>8 DEF Enter
    <2> HIDE DEF r
    <2>3. r.pc \in Reading /\ r.pc \in Visit
      BY <2>1 DEF Reading, Visit
    <2>4. HasRead(r, k)
      <3>1. r.todo = SubSeq(links, k + 1, Len(links)) /\ [sum |-> r.sum, got |-> r.got] = ReadAlone(r.landing, links)[k]
        BY <1>2, <2>1 DEF HasRead
      <3>2. k < Len(links) /\ r.sum < MAX_TOTAL_CHARS /\ r.plain = len /\ ~(r.plain >= 200)
        BY <1>1, <1>5, <1>8, <2>1
      <3>3. r.pc \notin {"leaving", "returned"}
        BY <2>1
      <3> QED
        BY <2>1, <3>1, <3>2, <3>3 DEF HasRead
    <2>5. SubpagesAsAlone(r)
      BY <2>1, <2>4 DEF SubpagesAsAlone
    <2>6. AsksAsAlone(r) /\ CrawlsAsAlone(r)
      BY <1>1, <2>1, <2>3 DEF AsAlone, AsksAsAlone, CrawlsAsAlone, InSubpages, InCrawl
    <2> QED
      BY <1>1, <2>1, <2>2, <2>3, <2>5, <2>6, ReadOnAsAlone
  <1> QED
    BY <1>7, <1>8

LEMMA RenderedSubpageAsAlone ==
  ASSUME NEW c \in Calls, GoodCall(call[c]), AsAlone(c, call[c]), RenderedSubpage(c)
  PROVE  AloneStep(c)
  <1> DEFINE u == call[c].url
             links == LinksAlone(u)
  <1>1. call[c].pc = "returned" /\ call[c].want = "subpage" /\ call[c].pc \in Visit /\ call[c].pc \in Reading
    BY PlacesOfCalls DEF RenderedSubpage, At, Visit
  <1>2. InSubpages(call[c])
    BY <1>1 DEF InSubpages
  <1>3. PICK k \in 0..Len(links) : HasRead(call[c], k)
    BY <1>2 DEF AsAlone, SubpagesAsAlone
  <1> DEFINE text == Rendering(links[k + 1].spa).text
  <1>4. /\ k < Len(links) /\ call[c].sum < MAX_TOTAL_CHARS /\ call[c].plain = links[k + 1].plain
        /\ ~(call[c].plain >= 200) /\ call[c].back = text
    BY <1>1, <1>3 DEF HasRead
  <1>5. Take(c, SubpageAlone(links[k + 1]))
    <2>1. CASE text = {}
      BY <1>4, <2>1 DEF RenderedSubpage, SubpageAlone, TextOf
    <2>2. CASE text # {}
      <3>1. PICK x \in text : Take(c, x.len)
        BY <1>4, <2>2 DEF RenderedSubpage
      <3>2. x = CHOOSE t \in text : TRUE
        <4>1. \A y \in text : y = x
          BY <1>4 DEF GoodCall
        <4> HIDE DEF text
        <4> QED
          BY <3>1, <4>1
      <3>3. SubpageAlone(links[k + 1]) = x.len
        BY <1>4, <2>2, <3>2 DEF SubpageAlone, TextOf
      <3> QED
        BY <3>1, <3>3
    <2> QED
      BY <2>1, <2>2
  <1> QED
    BY <1>1, <1>2, <1>3, <1>4, <1>5, TakeAsAlone

LEMMA CrawlEndsAsAlone ==
  ASSUME NEW c \in Calls, GoodCall(call[c]), AsAlone(c, call[c]), CrawlEnds(c), faults = 0, faults' = 0
  PROVE  AloneStep(c)
  <1> DEFINE u == call[c].url
             links == LinksAlone(u)
             landing == call[c].landing
             len == Smaller(call[c].sum, MAX_TOTAL_CHARS)
  <1>1. call[c].pc = "subpage" /\ call[c].pc \in Reading /\ InSubpages(call[c])
    BY PlacesOfCalls DEF CrawlEnds, At, InSubpages
  <1>2. call[c].todo = <<>> \/ ~(call[c].sum < MAX_TOTAL_CHARS)
    BY DEF CrawlEnds, Fault
  <1>3. PICK k \in 0..Len(links) : HasRead(call[c], k)
    BY <1>1 DEF AsAlone, SubpagesAsAlone
  <1>4. u \in DOMAIN Web
    BY <1>1, UrlOfACall
  <1>5. links \in Seq(Range(links)) /\ Len(links) \in Nat
    BY <1>4, LinksAreASequence
  <1>6. /\ call[c].todo = SubSeq(links, k + 1, Len(links))
        /\ [sum |-> call[c].sum, got |-> call[c].got] = ReadAlone(landing, links)[k]
    BY <1>3 DEF HasRead
  <1>7. ReadAlone(landing, links)[Len(links)] = [sum |-> call[c].sum, got |-> call[c].got]
    <2>1. CASE call[c].todo = <<>>
      <3>1. k = Len(links)
        <4> HIDE DEF links
        <4> QED
          BY <1>3, <1>5, <1>6, <2>1, RestOfLinks
      <3> QED
        BY <1>6, <3>1
    <2>2. CASE ~(call[c].sum < MAX_TOTAL_CHARS)
      <3>1. ~(ReadAlone(landing, links)[k].sum < MAX_TOTAL_CHARS)
        BY <1>6, <2>2
      <3> HIDE DEF links, landing
      <3> QED
        BY <1>3, <1>5, <1>6, <3>1, EnoughIsEnough
    <2> QED
      BY <1>2, <2>1, <2>2
  <1>8. CrawledAlone(landing, links, LandingAlone(u, landing)) =
          IF call[c].got = 0 \/ 2 * len <= 3 * landing.len THEN LandingAlone(u, landing)
          ELSE buildResult(Content(len, "html", "docs-crawl", landing.about), "docs-crawl")
    <2> HIDE DEF links, landing
    <2> QED
      BY <1>7 DEF CrawledAlone, Together
  <1>9. CrawledAlone(landing, links, LandingAlone(u, landing)) \in ResolvedAlone(u)
    BY <1>1 DEF AsAlone, CrawlsAsAlone, InCrawl
  <1>10. IF call[c].got = 0 \/ 2 * len <= 3 * landing.len THEN Landing(c)
         ELSE Judge(c, buildResult(Content(len, "html", "docs-crawl", landing.about), "docs-crawl"))
    BY DEF CrawlEnds
  <1> HIDE DEF len
  <1> QED
    BY <1>1, <1>8, <1>9, <1>10, LandingAsAlone, JudgeAsAlone

-------------------------------------------------------------------------------
(* The browser shows a call what it shows it alone.                          *)

LEMMA OutsideAsAlone ==
  ASSUME NEW c \in Calls, GoodCall(call[c]), AsAlone(c, call[c]), Outside(c), faults = 0, faults' = 0
  PROVE  AloneStep(c)
  BY StartAsAlone, UrlTierAsAlone, NamedTierAsAlone, ComposeAsAlone, FetchAsAlone, RenderedPageAsAlone,
     CrawlStartAsAlone, RenderedLinksAsAlone, FetchAndStripAsAlone, RenderedSubpageAsAlone, CrawlEndsAsAlone
     DEF Outside, DiscoverLinked, DiscoverSite, DiscoverSearch, DiscoverGitHub, DiscoverAggregator

(* What a visit to the browser leaves alone.                                 *)
SameVisit(r, s) ==
  /\ r.want = s.want /\ r.tier = s.tier /\ r.url = s.url /\ r.landing = s.landing
  /\ r.plain = s.plain /\ r.todo = s.todo /\ r.sum = s.sum /\ r.got = s.got

LEMMA VisitAsAlone ==
  ASSUME NEW c \in Calls, AsAlone(c, call[c]), call[c].pc \in Visit, NEW r, Put(c, r),
         r.pc \in Visit, SameVisit(r, call[c]),
         r.pc \in {"leaving", "returned"} =>
           /\ r.want = "page" => r.back = Rendering(Web[r.url].spa).text
           /\ r.want = "links" => r.links = Rendering(Web[r.url].spa).dom
           /\ r.want = "subpage" => \A k \in 0..Len(LinksAlone(r.url)) :
                HasRead(call[c], k) => r.back = Rendering(LinksAlone(r.url)[k + 1].spa).text
  PROVE  AloneStep(c)
  <1>1. r.pc \in Reading /\ call[c].pc \in Reading /\ r.pc \notin {"crawl", "subpage"} /\ call[c].pc \notin {"crawl", "subpage"}
    BY PlacesOfCalls
  <1>2. AsksAsAlone(r)
    BY DEF AsAlone, AsksAsAlone, SameVisit
  <1>3. CrawlsAsAlone(r)
    BY <1>1 DEF AsAlone, CrawlsAsAlone, InCrawl, InSubpages, SameVisit
  <1>4. SubpagesAsAlone(r)
    <2> SUFFICES ASSUME r.want = "subpage"
                 PROVE  \E k \in 0..Len(LinksAlone(r.url)) : HasRead(r, k)
      BY <1>1 DEF SubpagesAsAlone, InSubpages
    <2>1. PICK k \in 0..Len(LinksAlone(r.url)) : HasRead(call[c], k)
      BY DEF AsAlone, SubpagesAsAlone, InSubpages, SameVisit
    <2>2. HasRead(r, k)
      BY <2>1 DEF HasRead, SameVisit
    <2> QED
      BY <2>2
  <1> QED
    BY <1>1, <1>2, <1>3, <1>4, ReadOnAsAlone DEF SameVisit

(* A caller in the line stands there as it came.                             *)
LEMMA GoesAsAlone ==
  ASSUME NEW c \in Calls, GoodCall(call[c]), AsAlone(c, call[c]), call[c].pc \in Visit, NEW place \in Visit,
         Goes(c, place), place \in {"leaving", "returned"} => call[c].pc \in {"leaving", "returned"}
  PROVE  AloneStep(c)
  <1> DEFINE r == [call[c] EXCEPT !.pc = place]
  <1>1. r.pc = place /\ SameVisit(r, call[c]) /\ r.back = call[c].back /\ r.links = call[c].links
    BY IdleFields DEF GoodCall, SameVisit
  <1>2. Put(c, r)
    BY DEF Goes
  <1> HIDE DEF r
  <1>3. ASSUME r.pc \in {"leaving", "returned"}
        PROVE  /\ r.want = "page" => r.back = Rendering(Web[r.url].spa).text
               /\ r.want = "links" => r.links = Rendering(Web[r.url].spa).dom
               /\ r.want = "subpage" => \A k \in 0..Len(LinksAlone(r.url)) :
                    HasRead(call[c], k) => r.back = Rendering(LinksAlone(r.url)[k + 1].spa).text
    <2>1. call[c].pc \in {"leaving", "returned"}
      BY <1>1, <1>3
    <2>2. r.want = "page" => r.back = Rendering(Web[r.url].spa).text
      BY <1>1, <2>1 DEF AsAlone, AsksAsAlone, SameVisit
    <2>3. r.want = "links" => r.links = Rendering(Web[r.url].spa).dom
      BY <1>1, <2>1 DEF AsAlone, CrawlsAsAlone, SameVisit
    <2>4. ASSUME NEW k \in 0..Len(LinksAlone(r.url)), HasRead(call[c], k)
          PROVE  r.back = Rendering(LinksAlone(r.url)[k + 1].spa).text
      BY <1>1, <2>1, <2>4 DEF HasRead, SameVisit
    <2> QED
      BY <2>2, <2>3, <2>4
  <1> QED
    BY <1>1, <1>2, <1>3, VisitAsAlone

LEMMA LineAsAlone ==
  ASSUME NEW c \in Calls, GoodCall(call[c]), AsAlone(c, call[c]), Queue(c) \/ Enters(c) \/ Leaves(c)
  PROVE  AloneStep(c)
  <1>1. CASE Queue(c)
    <2> DEFINE r == [call[c] EXCEPT !.pc = "queued", !.waits = lock, !.mine = lock + 1]
    <2>1. r.pc = "queued" /\ SameVisit(r, call[c])
      BY IdleFields DEF GoodCall, SameVisit
    <2>2. Put(c, r) /\ call[c].pc = "entering"
      BY <1>1 DEF Queue, At
    <2> HIDE DEF r
    <2>3. r.pc \in Visit /\ call[c].pc \in Visit /\ r.pc \notin {"leaving", "returned"}
      BY <2>1, <2>2 DEF Visit, InLine
    <2> QED
      BY <2>1, <2>2, <2>3, VisitAsAlone
  <1>2. CASE Enters(c)
    <2>1. call[c].pc \in Visit /\ "inside" \in Visit /\ Goes(c, "inside")
      BY <1>2 DEF Enters, At, Visit, InLine
    <2> QED
      BY <2>1, GoesAsAlone
  <1>3. CASE Leaves(c)
    <2>1. call[c].pc = "leaving" /\ call[c].pc \in Visit /\ "returned" \in Visit /\ Goes(c, "returned")
      BY <1>3 DEF Leaves, At, Visit, InLine
    <2> QED
      BY <2>1, GoesAsAlone
  <1> QED
    BY <1>1, <1>2, <1>3

(* Short of a fault and of the ration a caller gets a browser.               *)
LEMMA EnsureAsAlone ==
  ASSUME ProcessOK, NEW c \in Calls, GoodCall(call[c]), AsAlone(c, call[c]), ensureBrowser(c),
         driver # "absent", browser.up # "dead", Calm, Calm'
  PROVE  AloneStep(c) /\ browser'.up # "dead"
  <1>1. PICK recent \in Recent :
          IF Len(recent) >= RATE_LIMIT_PER_HOUR
          THEN history' = [history EXCEPT !.refused = TRUE]
          ELSE \E problem \in {"", "memory", "launch"} :
            LET keep == \/ problem = "memory"
                        \/ browser.up # "none" /\ ~needsRestart
            IN /\ Fault(problem # "")
               /\ IF problem # "" THEN GiveUp(c) ELSE Goes(c, "rendering")
               /\ browser' = IF keep THEN browser
                             ELSE [up |-> IF problem = "" THEN "alive" ELSE "none", pageCount |-> 0]
    BY DEF ensureBrowser
  <1>2. ~(Len(recent) >= RATE_LIMIT_PER_HOUR)
    <2>1. history' # [history EXCEPT !.refused = TRUE]
      BY DEF ProcessOK, Calm
    <2> QED
      BY <1>1, <2>1
  <1>3. PICK problem \in {"", "memory", "launch"} :
          LET keep == \/ problem = "memory"
                      \/ browser.up # "none" /\ ~needsRestart
          IN /\ Fault(problem # "")
             /\ IF problem # "" THEN GiveUp(c) ELSE Goes(c, "rendering")
             /\ browser' = IF keep THEN browser
                           ELSE [up |-> IF problem = "" THEN "alive" ELSE "none", pageCount |-> 0]
    BY <1>1, <1>2
  <1>4. problem = ""
    BY <1>3, NoFault DEF Calm
  <1>5. Goes(c, "rendering") /\ browser'.up # "dead"
    BY <1>3, <1>4
  <1>6. call[c].pc \in Visit /\ "rendering" \in Visit
    BY DEF ensureBrowser, At, Visit, InLine
  <1> QED
    BY <1>5, <1>6, GoesAsAlone

LEMMA RenderAsAlone ==
  ASSUME ProcessOK, NEW c \in Calls, GoodCall(call[c]), AsAlone(c, call[c]), Render(c), browser.up # "dead", Calm, Calm'
  PROVE  AloneStep(c) /\ browser'.up # "dead"
  <1> DEFINE page == IF call[c].want = "subpage" THEN Head(call[c].todo).spa ELSE Here(c).spa
             forLinks == call[c].want = "links"
  <1>1. PICK failed \in BOOLEAN : \E shown \in Shows(IF failed THEN [ok |-> FALSE] ELSE page) :
          /\ Fault(failed)
          /\ LeaveWith(c, IF forLinks THEN {} ELSE shown.text, IF forLinks THEN shown.dom ELSE <<>>)
          /\ \E pages : browser' = [browser EXCEPT !.pageCount = @ + pages]
    BY DEF Render
  <1>2. ~failed
    BY <1>1, NoFault DEF Calm
  <1>3. PICK shown \in Shows(page) :
          /\ LeaveWith(c, IF forLinks THEN {} ELSE shown.text, IF forLinks THEN shown.dom ELSE <<>>)
          /\ \E pages : browser' = [browser EXCEPT !.pageCount = @ + pages]
    BY <1>1, <1>2
  <1>4. shown = Rendering(page)
    <2> HIDE DEF page
    <2> QED
      BY <1>3 DEF Shows, Renderings
  <1>5. browser'.up # "dead"
    BY <1>3 DEF ProcessOK
  <1>6. call[c].pc = "rendering" /\ call[c].pc \in Visit /\ call[c].pc \in Reading
    BY PlacesOfCalls DEF Render, At, Visit, InLine
  <1> DEFINE back == IF forLinks THEN {} ELSE shown.text
             links == IF forLinks THEN shown.dom ELSE <<>>
             r == [call[c] EXCEPT !.pc = "leaving", !.back = back, !.links = links]
  <1>7. r.pc = "leaving" /\ SameVisit(r, call[c]) /\ r.back = back /\ r.links = links
    <2> HIDE DEF back, links
    <2> QED
      BY IdleFields DEF GoodCall, SameVisit
  <1>8. Put(c, r)
    BY <1>3 DEF LeaveWith
  <1> HIDE DEF r
  <1>9. r.want = "page" => r.back = Rendering(Web[r.url].spa).text
    BY <1>4, <1>7 DEF SameVisit, Here
  <1>10. r.want = "links" => r.links = Rendering(Web[r.url].spa).dom
    BY <1>4, <1>7 DEF SameVisit, Here
  <1>11. ASSUME r.want = "subpage", NEW k \in 0..Len(LinksAlone(r.url)), HasRead(call[c], k)
         PROVE  r.back = Rendering(LinksAlone(r.url)[k + 1].spa).text
    <2> DEFINE all == LinksAlone(call[c].url)
    <2>1. r.url = call[c].url /\ call[c].want = "subpage"
      BY <1>7, <1>11 DEF SameVisit
    <2>2. all \in Seq(Range(all)) /\ Len(all) \in Nat
      BY <1>6, UrlOfACall, LinksAreASequence
    <2>3. call[c].todo = SubSeq(all, k + 1, Len(all)) /\ k < Len(all)
      BY <1>6, <1>11 DEF HasRead
    <2>4. k \in 0..Len(all)
      BY <2>1
    <2>5. Head(call[c].todo) = all[k + 1]
      <3> HIDE DEF all
      <3> QED
        BY <2>2, <2>3, <2>4, RestOfLinks
    <2> QED
      BY <1>4, <1>7, <2>1, <2>5
  <1>12. r.pc \in Visit
    BY <1>7 DEF Visit, InLine
  <1> QED
    BY <1>5, <1>6, <1>7, <1>8, <1>9, <1>10, <1>11, <1>12, VisitAsAlone

(* Faults are counted, and a refusal is remembered.                          *)
LEMMA CalmWasCalm ==
  ASSUME ProcessOK, Calm', [Next]_vars
  PROVE  Calm
  <1>1. faults \in Nat /\ history \in [yields : Seq(0..now), contexts : Nat, uncounted : Nat, refused : BOOLEAN]
    BY NumbersOK DEF ProcessOK
  <1>2. ASSUME NEW failed, Fault(failed)
        PROVE  faults = 0
    BY <1>1, <1>2 DEF Fault, Calm
  <1>3. ASSUME NEW c \in Calls, Outside(c)
        PROVE  Calm
    <2>1. history' = history
      BY <1>3 DEF Outside, DiscoverLinked, DiscoverSite, DiscoverSearch, DiscoverGitHub, DiscoverAggregator, DiscoverUrl,
             DiscoverNamed, DiscoverTier, Start, Compose, resolveWhitepaper, RenderedPage, crawl, RenderedLinks,
             fetchAndStrip, RenderedSubpage, CrawlEnds, Alone
    <2>2. \E failed : Fault(failed)
      BY <1>3 DEF Outside, DiscoverLinked, DiscoverSite, DiscoverSearch, DiscoverGitHub, DiscoverAggregator, DiscoverUrl,
             DiscoverNamed, Start, Compose, resolveWhitepaper, RenderedPage, crawl, RenderedLinks,
             fetchAndStrip, RenderedSubpage, CrawlEnds
    <2> QED
      BY <1>2, <2>1, <2>2 DEF Calm
  <1>4. ASSUME NEW c \in Calls, Queue(c) \/ Enters(c) \/ Leaves(c) \/ loadPlaywright(c)
        PROVE  Calm
    BY <1>2, <1>4 DEF Queue, Enters, Leaves, loadPlaywright, Calm
  <1>5. ASSUME NEW c \in Calls, ensureBrowser(c)
        PROVE  Calm
    <2>1. faults' = faults \/ \E failed : Fault(failed)
      BY <1>5 DEF ensureBrowser
    <2>2. \/ history' = history \/ history' = [history EXCEPT !.refused = TRUE]
          \/ history' = [history EXCEPT !.contexts = 0, !.uncounted = 0]
      BY <1>5 DEF ensureBrowser
    <2> QED
      BY <1>1, <1>2, <2>1, <2>2 DEF Calm
  <1>6. ASSUME NEW c \in Calls, Render(c)
        PROVE  Calm
    <2>1. faults' = faults \/ \E failed : Fault(failed)
      BY <1>6 DEF Render
    <2>2. history'.refused = history.refused
      BY <1>1, <1>6 DEF Render, Opens
    <2> QED
      BY <1>2, <2>1, <2>2 DEF Calm
  <1>7. CASE BrowserHangs \/ BrowserDies
    BY <1>1, <1>7 DEF BrowserHangs, BrowserDies, Calm
  <1>8. CASE Tick \/ UNCHANGED vars
    BY <1>8 DEF Tick, vars, Calm
  <1> QED
    BY <1>3, <1>4, <1>5, <1>6, <1>7, <1>8 DEF Next, Step, Outside

(* The other calls are where they were.                                      *)
LEMMA OneCallSteps ==
  ASSUME CallStory, Calm, AloneStory, NEW c \in Calls, AloneStep(c), driver' # "absent", browser'.up # "dead"
  PROVE  AloneStory'
  <1>1. PICK r : Put(c, r) /\ AsAlone(c, r)
    BY DEF AloneStep
  <1>2. call'[c] = r /\ \A d \in Calls \ {c} : call'[d] = call[d]
    BY <1>1, PutOfACall
  <1>3. \A d \in Calls : AsAlone(d, call'[d])
    BY <1>1, <1>2 DEF AloneStory
  <1> QED
    BY <1>3 DEF AloneStory

LEMMA NextKeepsTheAloneStory ==
  ASSUME DiscoveryStory, AloneStory, [Next]_vars
  PROVE  AloneStory'
  <1> SUFFICES ASSUME Calm'
               PROVE  AloneStory'
    BY DEF AloneStory
  <1>1. CallStory /\ ProcessOK
    BY DEF DiscoveryStory
  <1>2. Calm
    BY <1>1, CalmWasCalm
  <1>3. driver # "absent" /\ browser.up # "dead" /\ \A c \in Calls : GoodCall(call[c]) /\ AsAlone(c, call[c])
    BY <1>1, <1>2 DEF AloneStory, CallStory
  <1>4. faults = 0 /\ faults' = 0
    BY <1>2 DEF Calm
  <1>5. ASSUME NEW c \in Calls, Outside(c)
        PROVE  AloneStory'
    <2>1. driver' = driver /\ browser' = browser
      BY <1>1, <1>3, <1>5, OutsideIsFree DEF shared, ProcessOK
    <2> QED
      BY <1>1, <1>2, <1>3, <1>4, <1>5, <2>1, OutsideAsAlone, OneCallSteps
  <1>6. ASSUME NEW c \in Calls, Queue(c) \/ Enters(c) \/ Leaves(c)
        PROVE  AloneStory'
    <2>1. driver' = driver /\ browser' = browser
      BY <1>6 DEF Queue, Enters, Leaves, shared
    <2> QED
      BY <1>1, <1>2, <1>3, <1>6, <2>1, LineAsAlone, OneCallSteps
  <1>7. ASSUME NEW c \in Calls, loadPlaywright(c)
        PROVE  AloneStory'
    <2>1. UNCHANGED <<call, browser>> /\ driver' = "ready"
      BY <1>4, <1>7, NoFault DEF loadPlaywright
    <2> QED
      BY <1>3, <2>1 DEF AloneStory
  <1>8. ASSUME NEW c \in Calls, ensureBrowser(c)
        PROVE  AloneStory'
    <2>1. driver' = driver
      BY <1>8 DEF ensureBrowser
    <2> QED
      BY <1>1, <1>2, <1>3, <1>8, <2>1, EnsureAsAlone, OneCallSteps
  <1>9. ASSUME NEW c \in Calls, Render(c)
        PROVE  AloneStory'
    <2>1. driver' = driver
      BY <1>9 DEF Render
    <2> QED
      BY <1>1, <1>2, <1>3, <1>9, <2>1, RenderAsAlone, OneCallSteps
  <1>10. CASE BrowserHangs \/ BrowserDies
    BY <1>4, <1>10 DEF BrowserHangs, BrowserDies
  <1>11. CASE Tick \/ UNCHANGED vars
    <2>1. UNCHANGED <<call, driver, browser>>
      BY <1>11 DEF Tick, vars, shared
    <2> QED
      BY <1>3, <2>1 DEF AloneStory
  <1> QED
    BY <1>5, <1>6, <1>7, <1>8, <1>9, <1>10, <1>11 DEF Next, Step, Outside

LEMMA InitIsInTheAloneStory ==
  ASSUME Init
  PROVE  AloneStory
  <1>1. \A c \in Calls : call[c] = Idle
    BY DEF Init
  <1>2. Idle.pc = "start" /\ Idle.got = 0
    BY DEF Idle
  <1> HIDE DEF Idle
  <1>3. \A c \in Calls : AsAlone(c, Idle)
    BY <1>2, PlacesOfCalls
       DEF AsAlone, ReadsAsAlone, AsksAsAlone, CrawlsAsAlone, SubpagesAsAlone, InCrawl, InSubpages
  <1>4. driver = "unloaded" /\ browser.up = "none"
    BY DEF Init
  <1> QED
    BY <1>1, <1>3, <1>4 DEF AloneStory

(* The calls of discover share a browser, its lock and its ration.  However  *)
(* many they are and however they interleave, and whatever the servers       *)
(* answer: short of a fault and of a refusal for the ration, each one ends   *)
(* with the document it would have found alone.                              *)
THEOREM CallsAreIndependent == Spec => []CallsDoNotDisturbEachOther
  <1>1. AloneStory => CallsDoNotDisturbEachOther
    BY DEF AloneStory, Calm, AsAlone, CallsDoNotDisturbEachOther, At
  <1>2. Spec => []AloneStory
    BY InitIsInTheAloneStory, NextKeepsTheAloneStory, StoryHolds, PTL DEF Spec
  <1> QED
    BY <1>1, <1>2, PTL

===============================================================================
