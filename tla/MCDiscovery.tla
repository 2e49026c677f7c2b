---------------------------- MODULE MCDiscovery ----------------------------
(* Three projects whose documents take every layer between them.           *)
EXTENDS Discovery

NoSpa == [ok |-> FALSE]
Spa(main, late, links, dom) ==
  [ok |-> TRUE, main |-> main, late |-> late, links |-> links, dom |-> dom,
   redirects |-> 0, host |-> "same", about |-> {}]
Link(high, plain, rendered) ==
  [noise |-> FALSE, high |-> high, mid |-> 0, depth |-> 1, plain |-> plain, rendered |-> rendered,
   spa |-> IF rendered = 0 THEN NoSpa ELSE Spa(rendered, rendered, <<>>, <<>>)]
Noise == [Link(2, 5000, 0) EXCEPT !.noise = TRUE]

Html(len, framework, home, about) ==
  [ok |-> TRUE, type |-> "html", len |-> len, framework |-> framework, home |-> home, about |-> about]
Pdf(len, raw, pages, about) ==
  [ok |-> TRUE, type |-> "pdf", len |-> len, raw |-> raw, pages |-> pages, about |-> about]

Url(page) ==
  [page |-> page, document |-> FALSE, cid |-> FALSE, gitbook |-> FALSE, docsHost |-> FALSE, docsPath |-> "none",
   llmsFull |-> NoPage, llms |-> NoPage, markdown |-> NoPage, spa |-> NoSpa, links |-> <<>>, scraped |-> <<>>]

World ==
  [ipfs    |-> [Url(NoPage) EXCEPT !.document = TRUE, !.cid = TRUE],
   scan    |-> [Url(Pdf(0, 90, 12, {})) EXCEPT !.document = TRUE],
   \* a page that links to an application whose index is thin
   home    |-> [Url(Html(900, FALSE, FALSE, {})) EXCEPT
                  !.scraped = <<[url |-> "index", type |-> "docs_site"], [url |-> "scan", type |-> "page"]>>],
   index   |-> [Url(Html(20, TRUE, FALSE, {})) EXCEPT !.docsHost = TRUE,
                  !.spa = Spa(150, 300, <<Link(1, 0, 900), Link(2, 0, 500), Noise>>, <<>>)],
   \* an application whose links only the browser sees
   app     |-> [Url(Html(20, TRUE, FALSE, {})) EXCEPT !.docsHost = TRUE,
                  !.spa = Spa(250, 250, <<>>, <<Link(1, 50, 400)>>)],
   \* a static documentation site with one thin page
   docs    |-> [Url(Html(1200, FALSE, FALSE, {})) EXCEPT !.docsPath = "prefix",
                  !.links = <<Link(1, 60, 800), Link(2, 900, 0), Noise>>],
   gone    |-> Url(Html(4000, FALSE, TRUE, {})),
   fork    |-> Url(Pdf(9000, 9000, 20, {"Other"})),
   listed  |-> Url(Pdf(7000, 7000, 15, {"Three"}))]

Hit(ext, keywords, url) == [ext |-> ext, keywords |-> keywords, owner |-> TRUE, repo |-> FALSE, url |-> url]
Result(url) ==
  [url |-> url, pdf |-> FALSE, named |-> TRUE, titled |-> TRUE, mirror |-> FALSE, research |-> FALSE,
   docs |-> TRUE, gitbook |-> FALSE]
Asked(name, linked, hits, listings, known, queries) ==
  [name |-> name, token |-> "0x", linked |-> linked, hits |-> hits, listings |-> listings, known |-> known,
   queries |-> queries, virtuals |-> NoPage]

Projects ==
  [c1 |-> Asked("One", <<"ipfs", "home">>, <<>>, <<>>, "", <<>>),
   c2 |-> Asked("Two", <<"scan">>, <<Hit("md", 1, "listed"), Hit("pdf", 1, "fork"), Hit("zip", 9, "fork")>>,
                <<"ipfs">>, "docs", <<>>),
   c3 |-> Asked("Three", <<>>, <<Hit("tex", 0, "scan")>>, <<>>, "", <<<<>>, <<Result("app")>>>>)]

=============================================================================
