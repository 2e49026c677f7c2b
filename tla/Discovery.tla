----------------------------- MODULE Discovery -----------------------------
(***************************************************************************)
(* The document discovery of packages/grey-pipeline: for every call of     *)
(* TieredDocumentDiscovery.discover the tiers in their order, the layers a *)
(* URL is resolved through, the crawl of a documentation site, and the one *)
(* headless browser all calls share: its render lock is a chain of         *)
(* promises, its process is recycled, its renders are rationed by the      *)
(* hour.                                                                   *)
(*                                                                         *)
(* A step ends at an await during which another call may touch the         *)
(* browser; fetches between two such awaits are one step.                  *)
(***************************************************************************)
EXTENDS Documents

CONSTANTS
  Calls,               \* calls of discover
  Project,             \* call -> what is known of the project
  Web,                 \* URL -> what the servers answer for it
  RATE_LIMIT_PER_HOUR, \* renders in any hour
  BROWSER_RESTART_THRESHOLD,  \* pages after which the browser is restarted
  Hour,                \* ticks of the clock in an hour
  MaxNow,              \* bound of the clock
  MaxFaults            \* fetches, renders, launches and loads that may fail, in all

ASSUME DiscoveryAssumption ==
  /\ {RATE_LIMIT_PER_HOUR, BROWSER_RESTART_THRESHOLD, Hour} \subseteq Nat \ {0}
  /\ {MaxNow, MaxFaults} \subseteq Nat

\* Every address a call may come to is some server's, what is searched has an
\* order, and a text has a length.
ASSUME WebAssumption ==
  /\ \A u \in DOMAIN Web :
       /\ Web[u].links \in Seq(Range(Web[u].links))
       /\ Web[u].spa.ok => Web[u].spa.dom \in Seq(Range(Web[u].spa.dom))
       /\ Web[u].scraped \in Seq(Range(Web[u].scraped))
       /\ {l.url : l \in Range(Web[u].scraped)} \subseteq DOMAIN Web
       /\ Web[u].page.ok => Web[u].page.len \in Nat /\ (Web[u].page.type = "pdf" => Web[u].page.raw \in Nat)
  /\ \A c \in Calls :
       /\ Project[c].linked \in Seq(DOMAIN Web) /\ Project[c].known \in DOMAIN Web \cup {""}
       /\ Project[c].queries \in Seq(Range(Project[c].queries))
       /\ \A results \in Range(Project[c].queries) :
            results \in Seq(Range(results)) /\ {r.url : r \in Range(results)} \subseteq DOMAIN Web
       /\ Project[c].virtuals.ok => Project[c].virtuals.len \in Nat

VARIABLES
  call,      \* where every call stands and what it remembers
  lock,      \* the last promise of the render lock: its number
  settled,   \* the promises of the chain that are settled
  driver,    \* playwright: "unloaded", "ready" or "absent"
  browser,   \* the browser process, and the page count kept of it
  timestamps,\* the renders the ration still counts, oldest first
  now,
  faults,
  history    \* what happened: when the browser yielded a text or a list of links to a caller,
             \* the contexts of this browser process and how many of them it does not count,
             \* whether a render was refused

vars == <<call, lock, settled, driver, browser, timestamps, now, faults, history>>
shared == <<lock, settled, driver, browser, timestamps>>

-----------------------------------------------------------------------------
None == [len |-> 0, about |-> {}, source |-> "none", imageOnly |-> FALSE, locked |-> FALSE]
NoContent == Content(0, "html", "html", {})

Idle == [pc |-> "start", tier |-> 0, url |-> "", landing |-> NoContent, plain |-> 0,
         todo |-> <<>>, sum |-> 0, got |-> 0, want |-> "page", waits |-> 0, mine |-> 0,
         back |-> {}, links |-> <<>>, answer |-> None]

Init ==
  /\ call = [c \in Calls |-> Idle]
  /\ lock = 0 /\ settled = {0}
  /\ driver = "unloaded"
  /\ browser = [up |-> "none", pageCount |-> 0]
  /\ timestamps = <<>>
  /\ now = 0 /\ faults = 0
  /\ history = [yields |-> <<>>, contexts |-> 0, uncounted |-> 0, refused |-> FALSE]

At(c, place) == call[c].pc = place
Put(c, state) == call' = [call EXCEPT ![c] = state]
Goes(c, place) == Put(c, [call[c] EXCEPT !.pc = place])
IsDocumentUrl(u) == Web[u].document
Here(c) == Web[call[c].url]

\* What the servers answer does not change: it is worked out once for a URL.
Fetched == [u \in DOMAIN Web |-> IF Web[u].page.ok THEN {FetchContent(Web[u].page)} ELSE {}]

CheapLayers ==
  [u \in DOMAIN Web |->
     LET llms == LlmsTxt(Web[u].llmsFull, Web[u].llms)
     IN IF llms # {} THEN llms ELSE SiteSpecific(Web[u].gitbook, Web[u].markdown)]

Best(links) == Ranked(links, 3, CRAWLED_SUBPAGES)
Subpages == [u \in DOMAIN Web |-> Best(Web[u].links)]

\* What the browser shows of a page: nothing, text, or the links in it.
Rendering(page) ==
  IF page.ok THEN [text |-> Rendered(page), extra |-> renderAndExtract(page).extra, dom |-> Best(page.dom), ok |-> TRUE]
  ELSE [text |-> {}, extra |-> 0, dom |-> <<>>, ok |-> FALSE]

Renderings ==
  [page \in {[ok |-> FALSE]} \cup UNION {{Web[u].spa} \cup {l.spa : l \in Range(Web[u].links \o Rendering(Web[u].spa).dom)} :
                    u \in DOMAIN Web} |-> Rendering(page)]

Shows(page) == {Renderings[p] : p \in DOMAIN Renderings \cap {page}}

\* The tiers, in the order they are tried.
Tiers == <<"linked", "site", "github", "aggregator", "search", "compose">>

\* The texts a search takes for a document at all.
Long == {u \in DOMAIN Web : \E t \in Fetched[u] : t.len > 500}

\* The URLs each tier has for a call, when every server answers.
Offers(c, tier) ==
  LET p == Project[c]
      sites == FirstOf(p.linked, LAMBDA u : ~IsDocumentUrl(u) /\ Web[u].scraped # <<>>)
  IN CASE tier = "linked" -> FirstOf(p.linked, IsDocumentUrl)
       [] tier = "site" -> {l.url : l \in UNION {findWhitepaperLink(Web[u].scraped) : u \in sites}}
       [] tier = "github" -> GitHubDocument(p.hits, Long)
       [] tier = "aggregator" -> AggregatorDocument(p.listings, Long)
       [] tier = "search" -> searchWhitepaper(p.known, p.queries)
       [] tier = "compose" -> {}

Offered == [c \in Calls |-> [tier \in Range(Tiers) |-> Offers(c, tier)]]

\* A fetch that fails uses up one of the faults considered.
Fault(failed) == (failed => faults < MaxFaults) /\ faults' = faults + (IF failed THEN 1 ELSE 0)
Alone == UNCHANGED <<shared, now, history>>

Cleared(c) ==
  [call[c] EXCEPT !.url = "", !.landing = NoContent, !.todo = <<>>, !.sum = 0, !.got = 0, !.plain = 0,
                  !.back = {}, !.links = <<>>]
NextTier(c) == Put(c, [Cleared(c) EXCEPT !.pc = "tier", !.tier = @ + 1])
Resolve(c, u) == Put(c, [call[c] EXCEPT !.pc = "fetch", !.url = u])
Answer(c, r) == Put(c, [Cleared(c) EXCEPT !.pc = "done", !.answer = r])
Judge(c, r) == IF Readable(r) THEN Answer(c, r) ELSE NextTier(c)
Try(c, found) == IF found = {} THEN NextTier(c) ELSE \E u \in found : Resolve(c, u)

Start(c) == At(c, "start") /\ Put(c, [call[c] EXCEPT !.pc = "tier", !.tier = 1]) /\ Fault(FALSE) /\ Alone

DiscoverTier(c, name) == At(c, "tier") /\ Tiers[call[c].tier] = name /\ Alone

\* The next tier takes over whenever one finds nothing that can be read.
DiscoverUrl(c, tier, unfailing) ==
  /\ DiscoverTier(c, tier)
  /\ \E failed \in BOOLEAN :
       /\ Fault(failed)
       /\ Try(c, IF failed /\ ~unfailing THEN {} ELSE Offered[c][tier])

DiscoverLinked(c) == DiscoverUrl(c, "linked", TRUE)
DiscoverSite(c) == DiscoverUrl(c, "site", FALSE)
DiscoverSearch(c) == DiscoverUrl(c, "search", Project[c].known # "")

\* A file that is about something else is not replaced by the next best one.
DiscoverNamed(c, tier) ==
  /\ DiscoverTier(c, tier)
  /\ \E failed \in BOOLEAN :
       /\ Fault(failed)
       /\ LET found == {t \in UNION {Fetched[u] : u \in IF failed THEN {} ELSE Offered[c][tier]} :
                          verifyRelevance(t.about, Project[c].name, Project[c].token)}
          IN IF found = {} THEN NextTier(c)
             ELSE \E t \in found :
                    Answer(c, [buildResult(t, "direct") EXCEPT !.imageOnly = FALSE, !.locked = FALSE])

DiscoverGitHub(c) == DiscoverNamed(c, "github")
DiscoverAggregator(c) == DiscoverNamed(c, "aggregator")

Compose(c) ==
  /\ DiscoverTier(c, "compose")
  /\ \E failed \in BOOLEAN :
       /\ Fault(failed)
       /\ Answer(c, compose(IF failed THEN NoPage ELSE Project[c].virtuals,
                            {Project[c].name, Project[c].token}))

-----------------------------------------------------------------------------
(* A URL: the direct fetch, the cheap layers, the browser, the crawl.      *)

Source(c) == IF Here(c).cid THEN "ipfs" ELSE "direct"
Direct(c, content) == Judge(c, buildResult(content, Source(c)))
Layered(c, content) == Judge(c, buildResult(content, mapSource(content.source)))
Enter(c, want, plain) == Put(c, [call[c] EXCEPT !.pc = "entering", !.want = want, !.plain = plain])
Crawl(c, landing) == Put(c, [call[c] EXCEPT !.pc = "crawl", !.landing = landing])

\* A site the browser has followed links on is not crawled again.
Deepen(c, content) ==
  IF ~content.followed /\ isDocsSiteUrl(Here(c)) /\ content.len >= 200
  THEN Crawl(c, content) ELSE Layered(c, content)

resolveWhitepaper(c) ==
  /\ At(c, "fetch")
  /\ Alone
  /\ \E failed \in BOOLEAN :
       /\ Fault(failed)
       /\ IF failed \/ Fetched[call[c].url] = {} THEN NextTier(c)
          ELSE \E content \in Fetched[call[c].url] :
            IF content.home
            THEN IF CheapLayers[call[c].url] = {} THEN Direct(c, [content EXCEPT !.len = 0, !.about = {}])
                 ELSE \E e \in CheapLayers[call[c].url] : Layered(c, e)
            ELSE IF content.len >= THIN_CONTENT_THRESHOLD
            THEN IF content.type # "pdf" /\ isDocsSite(Here(c), content.len)
                 THEN Crawl(c, content) ELSE Direct(c, content)
            ELSE IF CheapLayers[call[c].url] # {} THEN \E e \in CheapLayers[call[c].url] : Deepen(c, e)
            ELSE IF content.spa THEN Enter(c, "page", 0)
            ELSE Direct(c, content)

\* After the browser: nothing rendered counts as an empty text.
RenderedPage(c) ==
  /\ At(c, "returned") /\ call[c].want = "page"
  /\ IF call[c].back = {} THEN Layered(c, [NoContent EXCEPT !.source = "headless-browser"])
     ELSE \E content \in call[c].back : Deepen(c, content)
  /\ Fault(FALSE) /\ Alone

\* What is kept when the crawl adds nothing to its landing page.
Landing(c) ==
  LET landing == call[c].landing
  IN IF landing.source = "html" THEN Direct(c, landing) ELSE Layered(c, landing)

ReadSubpages(c, todo) ==
  IF todo = <<>> THEN Landing(c)
  ELSE Put(c, [call[c] EXCEPT !.pc = "subpage", !.todo = todo, !.sum = call[c].landing.len])

crawl(c) ==
  /\ At(c, "crawl")
  /\ Alone
  /\ \E failed \in BOOLEAN :
       /\ Fault(failed)
       /\ IF failed \/ Here(c).links = <<>> THEN Enter(c, "links", 0)
          ELSE ReadSubpages(c, Subpages[call[c].url])

RenderedLinks(c) ==
  /\ At(c, "returned") /\ call[c].want = "links"
  /\ ReadSubpages(c, call[c].links)
  /\ Fault(FALSE) /\ Alone

Take(c, len) ==
  Put(c, [call[c] EXCEPT !.pc = "subpage", !.todo = Tail(@),
                         !.sum = @ + (IF len > 100 THEN len ELSE 0),
                         !.got = @ + (IF len > 100 THEN 1 ELSE 0)])

\* A thin sub-page goes through the browser.
fetchAndStrip(c) ==
  /\ At(c, "subpage")
  /\ call[c].todo # <<>> /\ call[c].sum < MAX_TOTAL_CHARS
  /\ Alone
  /\ \E failed \in BOOLEAN :
       /\ Fault(failed)
       /\ LET len == IF failed THEN 0 ELSE Head(call[c].todo).plain
          IN IF len >= 200 THEN Take(c, len) ELSE Enter(c, "subpage", len)

RenderedSubpage(c) ==
  /\ At(c, "returned") /\ call[c].want = "subpage"
  /\ IF call[c].back = {} THEN Take(c, call[c].plain)
     ELSE \E content \in call[c].back : Take(c, content.len)
  /\ Fault(FALSE) /\ Alone

\* The pages are all read, the text is long enough, or 45 seconds are over.
CrawlEnds(c) ==
  /\ At(c, "subpage")
  /\ Fault(call[c].todo # <<>> /\ call[c].sum < MAX_TOTAL_CHARS)
  /\ LET len == Smaller(call[c].sum, MAX_TOTAL_CHARS)
     IN IF call[c].got = 0 \/ 2 * len <= 3 * call[c].landing.len THEN Landing(c)
        ELSE Judge(c, buildResult(Content(len, "html", "docs-crawl", call[c].landing.about), "docs-crawl"))
  /\ Alone

-----------------------------------------------------------------------------
(* The browser.                                                            *)

\* A caller leaves with nothing, or with what it was shown.
LeaveWith(c, back, links) == Put(c, [call[c] EXCEPT !.pc = "leaving", !.back = back, !.links = links])
GiveUp(c) == LeaveWith(c, {}, <<>>)

\* Mutant: the caller's promise does not take the place of the lock.
QueueBeside(c) ==
  /\ At(c, "entering")
  /\ Put(c, [call[c] EXCEPT !.pc = "queued", !.waits = lock, !.mine = lock + 1])
  /\ UNCHANGED <<shared, now, faults, history>>

\* A caller puts a promise of its own in the place of the lock and waits for
\* the one that was there.
Queue(c) ==
  /\ At(c, "entering")
  /\ Put(c, [call[c] EXCEPT !.pc = "queued", !.waits = lock, !.mine = lock + 1])
  /\ lock' = lock + 1
  /\ UNCHANGED <<settled, driver, browser, timestamps, now, faults, history>>

\* Mutant: a caller who finds the browser taken does without it.
EntersOrPasses(c) ==
  /\ At(c, "queued")
  /\ IF call[c].waits \in settled THEN Goes(c, "inside") ELSE GiveUp(c)
  /\ UNCHANGED <<shared, now, faults, history>>

Enters(c) ==
  /\ At(c, "queued") /\ call[c].waits \in settled
  /\ Goes(c, "inside")
  /\ UNCHANGED <<shared, now, faults, history>>

\* Only the first caller loads playwright; a load that fails is not repeated.
loadPlaywright(c) ==
  /\ At(c, "inside") /\ driver = "unloaded"
  /\ \E failed \in BOOLEAN : Fault(failed) /\ driver' = IF failed THEN "absent" ELSE "ready"
  /\ UNCHANGED <<call, lock, settled, browser, timestamps, now, history>>

\* The renders after a moment: the rest of the list from the first of them.
Since(moment) ==
  {SubSeq(timestamps, k, Len(timestamps)) :
     k \in {k \in 1..(Len(timestamps) + 1) : \A i \in DOMAIN timestamps : timestamps[i] > moment <=> i >= k}}

\* Mutant: the hour is a tick short.
RecentShort == Since(now - Hour + 1)

Recent == Since(now - Hour)

needsRestart == browser.pageCount >= BROWSER_RESTART_THRESHOLD

\* The ration, the memory guard, then a browser: an old one is closed first,
\* which one that hangs never answers, and a launch that fails leaves none.
ensureBrowser(c) ==
  /\ At(c, "inside") /\ driver # "unloaded"
  /\ IF driver = "absent"
     THEN GiveUp(c) /\ UNCHANGED <<timestamps, browser, faults, history>>
     ELSE \E recent \in Recent :
       /\ timestamps' = recent
       /\ IF Len(recent) >= RATE_LIMIT_PER_HOUR
          THEN /\ GiveUp(c)
               /\ history' = [history EXCEPT !.refused = TRUE]
               /\ UNCHANGED <<browser, faults>>
          ELSE \E problem \in {"", "memory", "launch"} :
            LET keep == \/ problem = "memory"
                        \/ browser.up # "none" /\ ~needsRestart
            IN /\ Fault(problem # "")
               /\ problem = "launch" => ~keep
               /\ browser.up = "hung" => keep
               /\ IF problem # "" THEN GiveUp(c) ELSE Goes(c, "rendering")
               /\ browser' = IF keep THEN browser
                             ELSE [up |-> IF problem = "" THEN "alive" ELSE "none", pageCount |-> 0]
               /\ history' = IF keep THEN history ELSE [history EXCEPT !.contexts = 0, !.uncounted = 0]
  /\ UNCHANGED <<lock, settled, driver, now>>

\* A context is opened; the code counts it or not, and it gives its caller
\* something or not.
Opens(counted, gave) ==
  [history EXCEPT !.contexts = @ + 1,
                  !.uncounted = @ + (IF counted THEN 0 ELSE 1),
                  !.yields = IF gave THEN Append(@, now) ELSE @]

\* One page in a context of its own.  A browser that has died opens no
\* context, one that hangs never answers; a page that fails is counted towards
\* the restart all the same, a list of links only when it was read.  The ration
\* counts a text of 100 characters and a list that was read, and no other load.
Render(c) ==
  /\ At(c, "rendering") /\ browser.up # "hung"
  /\ IF browser.up = "dead"
     THEN GiveUp(c) /\ UNCHANGED <<browser, timestamps, faults, history>>
     ELSE LET page == IF call[c].want = "subpage" THEN Head(call[c].todo).spa ELSE Here(c).spa
          IN \E failed \in BOOLEAN : \E shown \in Shows(IF failed THEN [ok |-> FALSE] ELSE page) :
            LET forLinks == call[c].want = "links"
                given == IF forLinks THEN {} ELSE shown.text
                gave == given # {} \/ (forLinks /\ shown.ok)
                counted == IF forLinks THEN shown.ok ELSE shown.text # {}
                pages == IF forLinks THEN (IF counted THEN 1 ELSE 0) ELSE 1 + shown.extra
            IN /\ Fault(failed)
               /\ LeaveWith(c, given, IF forLinks THEN shown.dom ELSE <<>>)
               /\ browser' = [browser EXCEPT !.pageCount = @ + pages]
               /\ timestamps' = IF counted THEN Append(timestamps, now) ELSE timestamps
               /\ history' = Opens(~forLinks \/ counted, gave)
  /\ UNCHANGED <<lock, settled, driver, now>>

\* Mutant: the lock is released only after a render.
LeavesRendered(c) ==
  /\ At(c, "leaving")
  /\ settled' = IF call[c].back = {} /\ call[c].links = <<>> THEN settled ELSE settled \cup {call[c].mine}
  /\ Goes(c, "returned")
  /\ UNCHANGED <<lock, driver, browser, timestamps, now, faults, history>>

Leaves(c) ==
  /\ At(c, "leaving")
  /\ settled' = settled \cup {call[c].mine}
  /\ Goes(c, "returned")
  /\ UNCHANGED <<lock, driver, browser, timestamps, now, faults, history>>

\* The process may stop answering.
BrowserHangs ==
  /\ browser.up = "alive" /\ faults < MaxFaults
  /\ browser' = [browser EXCEPT !.up = "hung"]
  /\ faults' = faults + 1
  /\ UNCHANGED <<call, lock, settled, driver, timestamps, now, history>>

\* It may die under the server, which learns of it from the next context.
BrowserDies ==
  /\ browser.up \in {"alive", "hung"} /\ faults < MaxFaults
  /\ browser' = [browser EXCEPT !.up = "dead"]
  /\ faults' = faults + 1
  /\ UNCHANGED <<call, lock, settled, driver, timestamps, now, history>>

Tick ==
  /\ now < MaxNow
  /\ now' = now + 1
  /\ UNCHANGED <<call, shared, faults, history>>

Step(c) ==
  \/ DiscoverLinked(c) \/ DiscoverSite(c) \/ DiscoverGitHub(c) \/ DiscoverAggregator(c)
  \/ DiscoverSearch(c) \/ Compose(c)
  \/ resolveWhitepaper(c) \/ RenderedPage(c)
  \/ crawl(c) \/ RenderedLinks(c) \/ fetchAndStrip(c) \/ RenderedSubpage(c) \/ CrawlEnds(c)
  \/ Queue(c) \/ Enters(c) \/ loadPlaywright(c) \/ ensureBrowser(c) \/ Render(c) \/ Leaves(c)

Next ==
  \/ \E c \in Calls : Start(c) \/ Step(c)
  \/ BrowserHangs \/ BrowserDies \/ Tick

Spec == Init /\ [][Next]_vars

\* The event loop runs a settled promise's continuation.  Fetches, the launch,
\* goto and waitForFunction have timeouts, and closing a context is raced with
\* one.  newContext, newPage, route, evaluate and the closing of the browser have
\* none: nothing is assumed of them in a browser that hangs, where a step that
\* waits for one is disabled.
FairSpec == Spec /\ \A c \in Calls : WF_vars(Step(c))

-----------------------------------------------------------------------------
(* Properties.                                                             *)

\* The state is of the shape the code keeps.
TypeOK ==
  /\ \A c \in Calls :
       /\ call[c].pc \in {"start", "tier", "fetch", "crawl", "subpage", "entering", "queued",
                          "inside", "rendering", "leaving", "returned", "done"}
       /\ call[c].tier \in 0..6
       /\ call[c].url \in DOMAIN Web \cup {""}
       /\ {call[c].mine, call[c].waits} \subseteq 0..lock
       /\ call[c].want \in {"page", "links", "subpage"}
       /\ call[c].got \in Nat
       /\ \A x, y \in call[c].back : x = y
  /\ lock \in Nat /\ settled \subseteq 0..lock
  /\ driver \in {"unloaded", "ready", "absent"}
  /\ browser \in [up : {"none", "alive", "hung", "dead"}, pageCount : Nat]
  /\ now \in 0..MaxNow /\ faults \in 0..MaxFaults
  /\ timestamps \in Seq(0..now)
  /\ history \in [yields : Seq(0..now), contexts : Nat, uncounted : Nat, refused : BOOLEAN]

Inside == {c \in Calls : call[c].pc \in {"inside", "rendering", "leaving"}}

\* The chain of promises lets one caller at a time to the browser.
OneRenderAtATime == Cardinality(Inside) <= 1

\* It serves its callers in the order they came.
FirstComeFirstServed == \A c \in Inside : 0..(call[c].mine - 1) \subseteq settled

\* Whatever the interleaving, the browser yields no more than the ration in an
\* hour, counting every text and every list of links a caller was given: the
\* check before a render and the entry after it are not torn apart.  Pages that
\* are loaded and yield nothing are not rationed.
YieldsAreRationed ==
  \A i, j \in DOMAIN history.yields :
    j = i + RATE_LIMIT_PER_HOUR => history.yields[i] + Hour <= history.yields[j]

\* A browser process is restarted before it has opened more contexts than the
\* threshold, but for the lists of links that failed: those are not counted.
BrowserIsRecycled == history.contexts <= BROWSER_RESTART_THRESHOLD + history.uncounted

\* What a call finds when it is alone, has no fault and no ration.  The browser
\* is asked for a page of a crawl that says little without it.
TextOf(plain, shown) == IF plain >= 200 \/ shown = {} THEN plain ELSE (CHOOSE t \in shown : TRUE).len
SubpageAlone(link) == TextOf(link.plain, Rendering(link.spa).text)

\* The pages of a crawl one after the other, until there is text enough.
WithPage(before, len) ==
  IF before.sum < MAX_TOTAL_CHARS
  THEN [sum |-> before.sum + (IF len > 100 THEN len ELSE 0), got |-> before.got + (IF len > 100 THEN 1 ELSE 0)]
  ELSE before

ReadAlone(landing, links) ==
  LET read[n \in 0..Len(links)] ==
        IF n = 0 THEN [sum |-> landing.len, got |-> 0]
        ELSE WithPage(read[n - 1], SubpageAlone(links[n]))
  IN read

Together(landing, read, plain) ==
  LET len == Smaller(read.sum, MAX_TOTAL_CHARS)
  IN IF read.got = 0 \/ 2 * len <= 3 * landing.len THEN plain
     ELSE buildResult(Content(len, "html", "docs-crawl", landing.about), "docs-crawl")

CrawledAlone(landing, links, plain) ==
  Together(landing, ReadAlone(landing, links)[Len(links)], plain)

LayeredAlone(x) == buildResult(x, mapSource(x.source))
DirectAlone(u, x) == buildResult(x, IF Web[u].cid THEN "ipfs" ELSE "direct")

\* The links a crawl follows, and what the direct fetch of page leads to.
LinksAlone(u) == IF Web[u].links # <<>> THEN Subpages[u] ELSE Rendering(Web[u].spa).dom

ResolvedFrom(u, page) ==
  LET thin == ~(page.len >= THIN_CONTENT_THRESHOLD)
      cheap == CheapLayers[u]
      asked == IF cheap # {} THEN cheap ELSE Rendering(Web[u].spa).text
      crawled(x) == ~x.followed /\ isDocsSiteUrl(Web[u]) /\ x.len >= 200
  IN IF page.home
     THEN IF cheap = {} THEN {DirectAlone(u, [page EXCEPT !.len = 0, !.about = {}])}
          ELSE {LayeredAlone(x) : x \in cheap}
     ELSE IF ~thin /\ page.type # "pdf" /\ isDocsSite(Web[u], page.len)
     THEN {CrawledAlone(page, LinksAlone(u), DirectAlone(u, page))}
     ELSE IF ~thin \/ (cheap = {} /\ ~page.spa) THEN {DirectAlone(u, page)}
     ELSE IF asked = {} THEN {LayeredAlone([NoContent EXCEPT !.source = "headless-browser"])}
     ELSE {IF crawled(x) THEN CrawledAlone(x, LinksAlone(u), LayeredAlone(x)) ELSE LayeredAlone(x) : x \in asked}

ResolvedAlone(u) == UNION {ResolvedFrom(u, page) : page \in Fetched[u]}

FoundAlone(c, tier) ==
  LET p == Project[c]
      urls == Offers(c, tier)
  IN CASE tier \in {"linked", "site", "search"} ->
            {r \in UNION {ResolvedAlone(u) : u \in urls} : Readable(r)}
       [] tier \in {"github", "aggregator"} ->
            {buildResult(t, "direct") :
               t \in {x \in UNION {Fetched[u] : u \in urls} : verifyRelevance(x.about, p.name, p.token)}}
       [] tier = "compose" -> {compose(p.virtuals, {p.name, p.token})}

FirstFound(found) == UNION FirstOf(found, LAMBDA results : results # {})
BestAlone == [c \in Calls |-> FirstFound([i \in DOMAIN Tiers |-> FoundAlone(c, Tiers[i])])]

\* The calls share a browser, a lock and a ration, and do not disturb one
\* another: short of a fault or a refusal for the ration, a call ends with the
\* document it would have found alone.
CallsDoNotDisturbEachOther ==
  \A c \in Calls :
    At(c, "done") /\ faults = 0 /\ ~history.refused => call[c].answer \in BestAlone[c]

\* A call that ended has a document that can be read: the composed one if all else fails.
NoCallComesBackEmpty ==
  \A c \in Calls :
    At(c, "done") => \/ Readable(call[c].answer)
                     \/ call[c].answer.source = "composed" /\ call[c].answer.len > 50

\* What holds of every state: its shape, the order at the browser, its recycling,
\* and an answer that is not empty.
DiscoveryInv ==
  TypeOK /\ OneRenderAtATime /\ FirstComeFirstServed /\ BrowserIsRecycled /\ NoCallComesBackEmpty

\* Every discovery ends, the render lock and a dead browser notwithstanding,
\* unless the browser hangs: then the call that waits for it never returns the
\* lock, and those who queue behind it wait for good.
EveryDiscoveryEnds ==
  <>[](\A c \in Calls :
         \/ call[c].pc \in {"start", "done"}
         \/ browser.up = "hung" /\ call[c].pc \in {"queued", "inside", "rendering"})
=============================================================================
