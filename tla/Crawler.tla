------------------------------ MODULE Crawler -------------------------------
(***************************************************************************)
(* A run of the web crawler (connectors/web_crawler.py) as the ingestion   *)
(* job drives it (ingestion/pipeline.py): discover() is suspended at its   *)
(* yield while the page it found is fetched from the page cache, parsed,   *)
(* chunked and stored, and follows the page's links afterwards.            *)
(*                                                                         *)
(* Time counts for the politeness delay only, and is kept per domain up to *)
(* that delay.  The ingestion of a page is IngestPipeline's; here it is    *)
(* its outcome.                                                            *)
(***************************************************************************)
EXTENDS Chunking

CONSTANTS Urls,
          Domain,       \* Domain[url]: its netloc
          Served,       \* Served[url]: the url whose content is returned, after redirects
          Html,         \* urls whose content is text/html
          Hrefs,        \* Hrefs[served, requested]: the http links of that content, relative
                        \* ones resolved against the url that was requested
          Disallowed,   \* urls their site's robots.txt disallows
          Jobs,         \* what the run may be given
          Texts,        \* Texts[url]: what the text of its content may be
          Delay,        \* per_domain_delay_seconds
          MaxAttempts   \* stop_after_attempt

Domains == {Domain[u] : u \in Urls}
Job == [seeds: Seq(Urls), allowed: SUBSET Domains, depth: Nat, pages: Nat]

ASSUME SiteAssumption == /\ Domain \in [Urls -> Domains] /\ Served \in [Urls -> Urls]
                         /\ Html \subseteq Urls /\ Disallowed \subseteq Urls
                         /\ Hrefs \in [Urls \X Urls -> Seq(Urls)]
ASSUME JobAssumption == Jobs \subseteq Job /\ Texts \in [Urls -> SUBSET Seq(Line)]
ASSUME LimitAssumption == Delay \in Nat /\ MaxAttempts \in Nat \ {0}

VARIABLES
  job,        \* the run's parameters
  phase,      \* where the run is
  queue,      \* discover: pairs of a url and its depth
  seen,       \* discover: urls taken from the queue
  robots,     \* _robots_cache: "rules" or "allow_all", "unknown" before it is asked for
  pageCache,  \* domain of _page_cache
  idle,       \* time since _last_fetch_at, Delay if there is none
  quiet,      \* history: time since a page was last asked for, retries not counted
  current,    \* the url and depth being dealt with
  attempt,    \* _get's attempt
  text,       \* the text being ingested, and its chunks
  chunks,
  stored,     \* contents of the active documents the run has stored
  quarantined,\* contents of its quarantined ones
  stats,
  rowCount    \* what record_run adds to the catalog

frontier == <<queue, seen, current>>
net == <<robots, pageCache, idle, quiet, attempt>>
ingest == <<text, chunks, stored, quarantined, stats, rowCount>>
vars == <<job, phase, frontier, net, ingest>>

Url == current[1]
Depth == current[2]
Here == Domain[Url]

Phase == {"popping", "robots", "waiting", "asking", "ingesting", "following", "done", "failed"}
Status == {"ingested", "duplicate", "quarantined", "error"}

TypeOK ==
  /\ job \in Jobs
  /\ phase \in Phase
  /\ queue \in Seq(Urls \X Nat)
  /\ seen \subseteq Urls
  /\ robots \in [Domains -> {"unknown", "rules", "allow_all"}]
  /\ pageCache \subseteq Urls
  /\ idle \in [Domains -> 0..Delay] /\ quiet \in [Domains -> 0..Delay]
  /\ attempt \in 1..MaxAttempts
  /\ text = <<>> \/ text \in UNION {Texts[u] : u \in stored}
  /\ stored \subseteq Urls /\ quarantined \subseteq Urls
  \* fetch() finds the page discover() has yielded.
  /\ phase = "ingesting" => Url \in pageCache
  /\ stats \in [Status -> Nat]
  /\ rowCount \in 0..stats["ingested"]

-----------------------------------------------------------------------------
Init ==
  /\ job \in Jobs
  /\ phase = IF job.seeds = <<>> THEN "done" ELSE "popping"
  /\ queue = [i \in DOMAIN job.seeds |-> <<job.seeds[i], 0>>]
  /\ seen = {}
  /\ robots = [d \in Domains |-> "unknown"]
  /\ pageCache = {}
  /\ idle = [d \in Domains |-> Delay]
  /\ quiet = idle
  /\ current \in {<<u, 0>> : u \in {CHOOSE v \in Urls : TRUE}}
  /\ attempt = 1
  /\ text = <<>> /\ chunks = <<>>
  /\ stored = {} /\ quarantined = {}
  /\ stats = [s \in Status |-> 0]
  /\ rowCount = 0

\* allowed_domains, or the domains of the seeds.
Allowed == IF job.allowed # {} THEN job.allowed ELSE {Domain[u] : u \in ToSet(job.seeds)}

\* Time goes by.
Later(clock, time) == [d \in Domains |-> Min({Delay, clock[d] + time})]

Emitted == Cardinality(pageCache)

\* Variant: the newest entry is taken first.
Newest == Len(queue)

\* The entry that is popped.
Oldest == 1

\* The loop's head: the next url, unless it was seen or is out of scope; the end of the run.
Pop ==
  /\ phase = "popping"
  /\ queue # <<>> /\ Emitted < job.pages
  /\ LET entry == queue[Oldest]
         skip == entry[1] \in seen \/ Domain[entry[1]] \notin Allowed
     IN  /\ queue' = RemoveAt(queue, Oldest)
         /\ IF skip THEN UNCHANGED <<phase, seen, current>>
            ELSE phase' = "robots" /\ seen' = seen \cup {entry[1]} /\ current' = entry
  /\ UNCHANGED <<job, net, ingest>>

\* record_run, once discover() is exhausted.
Finish ==
  /\ phase = "popping"
  /\ queue = <<>> \/ Emitted >= job.pages
  /\ phase' = "done"
  /\ rowCount' = stats["ingested"]
  /\ UNCHANGED <<job, frontier, net, text, chunks, stored, quarantined, stats>>

\* Variant: the answer is not heeded.
AnyPermits(rules, url) == TRUE

\* What is known of a domain allows url.
Permits(rules, url) == rules = "allow_all" \/ url \notin Disallowed

\* _robots_allows: asked for once per domain; any answer but 200, and none, allow everything.
CheckRobots ==
  /\ phase = "robots"
  /\ \E rules \in IF robots[Here] = "unknown" THEN {"rules", "allow_all"} ELSE {robots[Here]} :
       /\ robots' = [robots EXCEPT ![Here] = rules]
       /\ phase' = IF Permits(rules, Url) THEN "waiting" ELSE "popping"
  /\ UNCHANGED <<job, frontier, pageCache, idle, quiet, attempt, ingest>>

\* _last_fetch_at is taken after the sleep.
StampAfter == 0

\* _politeness_wait: until the delay is over.
PolitenessWait ==
  /\ phase = "waiting"
  /\ LET wait == Delay - idle[Here]
     IN  /\ idle' = [Later(idle, wait) EXCEPT ![Here] = StampAfter]
         /\ quiet' = Later(quiet, wait)
  /\ attempt' = 1
  /\ phase' = "asking"
  /\ UNCHANGED <<job, frontier, robots, pageCache, ingest>>

\* The request, the first of its page, is over after this time.
Passed(time) ==
  /\ idle' = Later(idle, time)
  /\ quiet' = Later(IF attempt = 1 THEN [quiet EXCEPT ![Here] = 0] ELSE quiet, time)

\* Variant: no attempt is counted.
SameAttempt == attempt

NextAttempt == attempt + 1

\* _get: an error status or a transport error is tried again, a second later at least.
Fail(time) ==
  /\ phase = "asking"
  /\ IF attempt < MaxAttempts THEN attempt' = NextAttempt /\ phase' = "asking" /\ Passed(time + 1)
     ELSE phase' = "popping" /\ Passed(time) /\ UNCHANGED attempt
  /\ UNCHANGED <<job, frontier, robots, pageCache, ingest>>

\* Too many redirects: not tried again.
GiveUp ==
  /\ phase = "asking"
  /\ phase' = "popping"
  /\ Passed(0)
  /\ UNCHANGED <<job, frontier, robots, pageCache, attempt, ingest>>

\* Variant: the url after redirects.
FinalUrl == Served[Url]

\* The key of _page_cache.
CacheKey == Url

\* The page is there: kept under the url that was asked for, and yielded if it is HTML.
Get(time) ==
  /\ phase = "asking"
  /\ IF Served[Url] \in Html
     THEN phase' = "ingesting" /\ pageCache' = pageCache \cup {CacheKey}
     ELSE phase' = "popping" /\ UNCHANGED pageCache
  /\ Passed(time)
  /\ UNCHANGED <<job, frontier, robots, attempt, ingest>>

Count(status) == stats' = [stats EXCEPT ![status] = @ + 1]

\* What fetch() finds in the page cache; it need not ask the site again.
Fetched == Served[Url]

\* ingest_item: a content that has a row is a duplicate; one that is not parsed is an error
\* and has none; one the quality gate refuses is quarantined.  The crawl goes on.
IngestPage(time) ==
  /\ phase = "ingesting"
  /\ \/ /\ Fetched \in stored \cup quarantined
        /\ Count("duplicate")
        /\ UNCHANGED <<text, chunks, stored, quarantined>>
     \/ /\ Fetched \notin stored \cup quarantined
        /\ \/ Count("error") /\ UNCHANGED <<text, chunks, stored, quarantined>>
           \/ /\ Count("quarantined")
              /\ quarantined' = quarantined \cup {Fetched}
              /\ UNCHANGED <<text, chunks, stored>>
           \/ /\ Count("ingested")
              /\ stored' = stored \cup {Fetched}
              /\ text' \in Texts[Fetched]
              /\ chunks' = ChunkText(text')
              /\ UNCHANGED quarantined
  /\ idle' = Later(idle, time) /\ quiet' = Later(quiet, time)
  /\ phase' = "following"
  /\ UNCHANGED <<job, frontier, robots, pageCache, attempt, rowCount>>

\* _extract_links: the links of the page found at url.
Links(url) == Hrefs[<<Served[url], url>>]

\* The queue after the loop over the links of a page: those already taken are left out.
Longer(links) ==
  LET after[n \in 0..Len(links)] ==
        CASE n = 0 -> queue
          [] n > 0 /\ links[n] \in seen -> after[n - 1]
          [] OTHER -> Append(after[n - 1], <<links[n], Depth + 1>>)
  IN  after[Len(links)]

\* discover() is resumed and follows the page's links.
FollowLinks ==
  /\ phase = "following"
  /\ queue' = IF Depth < job.depth THEN Longer(Links(Url)) ELSE queue
  /\ phase' = "popping"
  /\ text' = <<>> /\ chunks' = <<>>
  /\ UNCHANGED <<job, seen, current, net, stored, quarantined, stats, rowCount>>

\* An exception discover() or ingest_item() lets through ends the run: a link urljoin cannot
\* take, a url httpx cannot, a page that cannot be stored or indexed.
Abort ==
  /\ phase \in {"robots", "asking", "ingesting", "following"}
  /\ phase' = "failed"
  /\ UNCHANGED <<job, frontier, net, ingest>>

Step == Pop \/ Finish \/ CheckRobots \/ PolitenessWait \/ GiveUp \/ FollowLinks
        \/ \E time \in 0..1 : Fail(time) \/ Get(time) \/ IngestPage(time)

Next == Step \/ Abort

Spec == Init /\ [][Next]_vars

\* The event loop goes on with the coroutine.
FairSpec == Spec /\ WF_vars(Step)

-----------------------------------------------------------------------------
(* Properties. *)

\* The urls within n links of the seeds, over these pages.
Within(seeds, n, pages) ==
  LET reach[k \in Nat] ==
        IF k = 0 THEN ToSet(seeds)
        ELSE reach[k - 1] \cup UNION {ToSet(Links(u)) : u \in reach[k - 1] \cap pages}
  IN  reach[n]

\* Of the urls it asks for (a redirect it follows may lead anywhere) the crawler takes only
\* those in its scope, within its depth, which the site's rules, if it got them, allow, and no
\* sooner after the page before than the politeness delay; it yields no more pages than it
\* may, each once and each HTML.
CrawlStaysInBounds ==
  /\ \A u \in seen : Domain[u] \in Allowed /\ u \in Within(job.seeds, job.depth, pageCache)
  /\ \A u \in pageCache : /\ u \in seen /\ Served[u] \in Html
                          /\ robots[Domain[u]] = "rules" => u \notin Disallowed
  /\ phase = "asking" => /\ robots[Here] = "rules" => Url \notin Disallowed
                         /\ attempt = 1 => quiet[Here] >= Delay
  /\ Emitted <= job.pages

\* A run that ends below its page limit has tried every url of its scope that is within its
\* depth: the first time a url is popped is the shortest way to it, so that no detour uses up
\* its depth.  The catalog is told of the documents stored, one per content.
CrawlMissesNothing ==
  phase = "done" =>
    /\ Emitted < job.pages =>
         \A u \in Within(job.seeds, job.depth, pageCache) : Domain[u] \in Allowed => u \in seen
    /\ rowCount = Cardinality(stored)
    /\ \A u \in stored : \E v \in pageCache : Served[v] = u

\* The chunks of every page that is stored hold the promises of chunk_text.
ChunksCoverText == text # <<>> => GoodChunking(text, chunks)

\* The crawl ends, whatever the sites answer and however their pages link to each other.
CrawlEnds == <>(phase \in {"done", "failed"})
=============================================================================
