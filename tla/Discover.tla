------------------------------- MODULE Discover -------------------------------
(***************************************************************************)
(* The crawl of the collect stage (services/browser/crawler.ts and         *)
(* discover.ts): an optional login, the base URL, the navigation targets   *)
(* of the scenarios, then a breadth-first search over links and clickable  *)
(* elements on the same page, merged into one list.                        *)
(***************************************************************************)
EXTENDS Web, Sitemap, Functions

CONSTANTS
    MaxPages, MaxDepth,  \* crawl.maxPages, crawl.maxDepth
    MaxCandidates,       \* MAX_CLICK_CANDIDATES_PER_PAGE
    NoUrl

ASSUME DiscoverAssumption ==
    /\ {MaxDepth, MaxCandidates} \subseteq Nat /\ MaxPages \in Nat \ {0}
    /\ NoUrl \notin Url
    /\ \A v \in DOMAIN App : \A url \in Url :
          \A i \in DOMAIN App[v].pages[url].clicks : App[v].pages[url].clicks[i].goes \in Url \cup {NoUrl}

VARIABLE crawl

NoCrawl == [stage |-> "none"]

\* Base and scenario pages first, then the queue of the search.
newCrawl(target, skipLogin, stepTargets) ==
    [stage |-> IF skipLogin THEN "base" ELSE "login", target |-> target,
     todo |-> stepTargets, visitedUrls |-> {}, rawPages |-> <<>>,
     queue |-> <<>>, visited |-> {}, results |-> <<>>, edges |-> <<>>,
     at |-> [url |-> NoUrl, depth |-> 0], candidates |-> <<>>,
     failed |-> {}, cut |-> {}, held |-> TRUE]

\* A cookie that came or went in the middle: what the pages show has changed.
Noticed(c, before, after) == [c EXCEPT !.held = @ /\ before = after]

-------------------------------------------------------------------------------
(* crawlWithBrowser.                                                         *)

\* performFormLogin: the login path, fill, click, wait for the network, and no
\* verdict.  Where the form is not, nothing can be filled.
CrawlLogin(user) ==
    /\ crawl.stage = "login"
    /\ \/ /\ Mishap  \* goto or fill throws: the stage fails
          /\ crawl' = [crawl EXCEPT !.stage = "failed"]
          /\ UNCHANGED <<page, session>>
       \/ /\ NoMishap
          /\ LET at     == Lands(PathForm[crawl.target].url, session)
                 isForm == at = SignIn[crawl.target]
             IN /\ page' = [at |-> at,
                            arriving |-> IF isForm THEN Answer(crawl.target, user) ELSE <<>>]
                /\ crawl' = [crawl EXCEPT !.stage = IF isForm THEN "base" ELSE "failed"]
          /\ UNCHANGED session
    /\ UNCHANGED version

CaptureBase ==
    /\ crawl.stage = "base"
    /\ \/ /\ Mishap
          /\ crawl' = [crawl EXCEPT !.stage = "failed"]
          /\ UNCHANGED <<page, session>>
       \/ /\ NoMishap
          /\ Goto(BaseUrl[crawl.target])
          /\ crawl' = [crawl EXCEPT !.stage = "scenario", !.visitedUrls = {page'.at},
                                    !.rawPages = <<page'.at>>]
    /\ UNCHANGED version

\* The next step target that is a path or a URL and not visited under that name.
FollowScenario ==
    /\ crawl.stage = "scenario" /\ crawl.todo # <<>>
    /\ LET url  == Head(crawl.todo)
           rest == [crawl EXCEPT !.todo = Tail(@)]
       IN \/ /\ url \in crawl.visitedUrls
             /\ crawl' = rest /\ UNCHANGED <<page, session, mishaps>>
          \/ /\ url \notin crawl.visitedUrls /\ Mishap  \* skipped
             /\ crawl' = rest /\ UNCHANGED <<page, session>>
          \/ /\ url \notin crawl.visitedUrls /\ NoMishap
             /\ Goto(url)
             /\ crawl' = [rest EXCEPT !.visitedUrls = @ \cup {url},
                                      !.rawPages = Append(@, page'.at)]
    /\ UNCHANGED version

-------------------------------------------------------------------------------
(* discoverPages.                                                            *)

StartDiscovery ==
    /\ crawl.stage = "scenario" /\ crawl.todo = <<>>
    /\ crawl' = [crawl EXCEPT !.stage = "discover",
                   !.queue = <<[url |-> BaseUrl[crawl.target], depth |-> 0, from |-> NoUrl]>>]
    /\ UNCHANGED webVars

\* What the search may enqueue.
Eligible(url) ==
    TargetOf[url] = crawl.target /\ url \notin Asset \cup Logout \cup Excluded

\* Faulty variant: a stack instead of a queue.
Pop(queue) == [item |-> Last(queue), rest |-> Front(queue)]
Dequeue(queue) == [item |-> Head(queue), rest |-> Tail(queue)]

extractLinks(url) == app.pages[url].links

\* Visible, not in a link or a form, no submit button, harmless, and named.
discoverClickTargets(url) ==
    LET clicks == app.pages[url].clicks
    IN Only(clicks, {c \in ToSet(clicks) : c.plain /\ c.label \notin Destructive /\ c.named})

FirstOf(seq, n) == IF Len(seq) <= n THEN seq ELSE SubSeq(seq, 1, n)

CandidatesOn(url) == FirstOf(discoverClickTargets(url), MaxCandidates)

\* Links into pages not visited so far; a page may be queued twice.
NewLinks(url, visited) ==
    Only(extractLinks(url), {l \in Url : Eligible(l) /\ Key[l] \notin visited})

Enqueued(links, depth, from) ==
    [i \in DOMAIN links |-> [url |-> links[i], depth |-> depth, from |-> from]]

Enough(results) == Len(results) >= MaxPages

\* Take the next page off the queue and capture it.
VisitNext ==
    /\ crawl.stage = "discover" /\ crawl.queue # <<>> /\ ~Enough(crawl.results)
    /\ LET next == Dequeue(crawl.queue)
           item == next.item
           key  == Key[item.url]
           seen == [crawl EXCEPT !.queue = next.rest, !.visited = @ \cup {key}]
       IN \/ /\ key \in crawl.visited
             /\ crawl' = [crawl EXCEPT !.queue = next.rest]
             /\ UNCHANGED <<page, session, mishaps>>
          \/ /\ key \notin crawl.visited /\ Mishap
             /\ crawl' = [seen EXCEPT !.failed = @ \cup {key}]
             /\ UNCHANGED <<page, session>>
          \/ /\ key \notin crawl.visited /\ NoMishap
             /\ Goto(item.url)
             /\ LET results == Append(crawl.results, page'.at)
                    deeper  == ~Enough(results) /\ item.depth < MaxDepth
                    queued  == Enqueued(NewLinks(page'.at, seen.visited), item.depth + 1, key)
                IN crawl' = Noticed(
                     [seen EXCEPT
                       !.results = results,
                       !.edges = IF item.from = NoUrl THEN @
                                 ELSE Append(@, [from |-> item.from, to |-> Key[page'.at],
                                                 kind |-> "link"]),
                       !.queue = IF deeper THEN @ \o queued ELSE @,
                       !.at = [url |-> item.url, depth |-> item.depth],
                       !.stage = IF deeper THEN "click" ELSE @,
                       !.candidates =
                         IF deeper THEN CandidatesOn(page'.at) ELSE <<>>], session, session')
    /\ UNCHANGED version

\* The next candidate, on a fresh copy of the page.
ClickNext ==
    /\ crawl.stage = "click" /\ crawl.candidates # <<>>
    /\ LET candidate == Head(crawl.candidates)
           here == Key[crawl.at.url]
           rest == [crawl EXCEPT !.candidates = Tail(@)]
           again == Lands(crawl.at.url, session)
           shown == candidate \in ToSet(discoverClickTargets(again))
           after == IF candidate.goes = NoUrl THEN again ELSE Lands(candidate.goes, session)
           fresh == /\ Key[after] # here /\ Eligible(after)
                    /\ Key[after] \notin crawl.visited
                    /\ \A i \in DOMAIN crawl.queue : Key[crawl.queue[i].url] # Key[after]
       IN \/ /\ Mishap  \* the reload fails: no more clicks; the click fails: the next one
             /\ crawl' \in {[c EXCEPT !.cut = @ \cup {here}] :
                              c \in {rest, [crawl EXCEPT !.candidates = <<>>]}}
             /\ UNCHANGED <<page, session>>
          \/ /\ ~shown /\ NoMishap
             /\ crawl' = rest
             /\ page' = [at |-> again, arriving |-> <<>>] /\ UNCHANGED session
          \/ /\ shown /\ NoMishap
             /\ page' = [at |-> after, arriving |-> <<>>]
             /\ session' = SessionAfter(after, session)
             /\ crawl' = Noticed(
                  IF fresh
                  THEN [rest EXCEPT
                          !.queue = Append(@, [url |-> after, depth |-> crawl.at.depth + 1,
                                               from |-> NoUrl]),
                          !.edges = Append(@, [from |-> here, to |-> Key[after],
                                               kind |-> "click"])]
                  ELSE rest, session, session')
    /\ UNCHANGED version

EndClicks ==
    /\ crawl.stage = "click" /\ crawl.candidates = <<>>
    /\ crawl' = [crawl EXCEPT !.stage = "discover"]
    /\ UNCHANGED webVars

\* The pages found join the others, up to maxPages in all.
Merge(rawPages, results) ==
    LET merged[n \in 0..Len(results)] ==
            IF n = 0 THEN rawPages
            ELSE LET pages == merged[n - 1]
                 IN IF Enough(pages) \/ \E i \in DOMAIN pages : Key[pages[i]] = Key[results[n]]
                    THEN pages ELSE Append(pages, results[n])
    IN merged[Len(results)]

EndDiscovery ==
    /\ crawl.stage = "discover" /\ (crawl.queue = <<>> \/ Enough(crawl.results))
    /\ crawl' = [crawl EXCEPT !.stage = "done", !.rawPages = Merge(@, crawl.results)]
    /\ UNCHANGED webVars

CrawlStep(user) ==
    \/ CrawlLogin(user) \/ CaptureBase \/ FollowScenario \/ StartDiscovery
    \/ VisitNext \/ ClickNext \/ EndClicks \/ EndDiscovery
===============================================================================
