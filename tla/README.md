# A verification of vasco

vasco turns web pages into Markdown for programs that read the web. What is hard to get right in it is
what is shared or decided late: one resident daemon that collapses and paces the fetches of all
consumers, one browser process that serves all of them, one cache database written by every process,
clients of servers that come and go, adapters that ask several services and conclude from whatever
answers. This directory models that in TLA+, checks the models with TLC and proves the main safety
properties with TLAPS. All paths below are relative to `src/vasco/` unless they start with another
directory.

## 1. The system

| Component | State it keeps | Operations | Talks to |
|---|---|---|---|
| Fetch coordinator (`service/coordinator.py`) | table of fetches in flight, a semaphore per domain, next start time per domain | `fetch`, `_run`, done-callback | `fetch_one`, cache |
| Daemon (`service/daemon.py`, `protocol.py`) | connections | one request at a time per connection: fetch, fetch_many, extract, answer, map, search | coordinator, threads |
| Daemon's client (`service/client.py`) | none | request with one reconnect, in-process fallback | daemon |
| Browser server (`fetch/browser_server.py`) | browser, context manager, handouts, timeout streak, two locks, a page semaphore, the manual hold, cookie-clear times | per request: two attempts; relaunch, recycle, wedge probe, manual hold, login-wall recovery | Camoufox, Xvfb |
| Browser client (`fetch/browser.py`) | remembered handshake | `fetch`, `close` | browser server |
| Escalation chain (`fetch/core.py`) | none of its own | http, honest retry, browser, mobile, wayback, with budgets | browser client, cache (learning) |
| fetch_one, fetch_many (`fetch/__init__.py`, `caching.py`, `documents.py`) | none | cache read, adapter dispatch, document shortcut, chain, cache write | all of the above |
| Cache database (`cache.py`) | page rows, route strategies, header profiles, probe verdicts | get, put, bump, probe, purge | SQLite, several processes |
| URLs and routes (`urls.py`, `strategy.py`) | none | `normalize_url`, `registered_domain`, `route_key`, seeds | - |
| Block classification (`fetch/bot_detect.py`) | none | `classify` | - |
| Housekeeping (`fetch/browser_housekeeping.py`) | installed browser bundles | prune | file system |
| Site mapping (`map.py`) | one llms.txt file per host, per map a queue and what it has merged | llms.txt, sitemaps, feeds and a crawl, each read by a thread the map can only abandon | http, the file system |
| Answers, extraction, search (`summarize.py`, `extract.py`, `search.py`) | none | provider fallback, ranking, one retry | external models, search engines, `fetch_one` |
| Content adapters (`adapters/`) | per process: probe verdicts (also in the database), a shop's currency, an API token | claim a URL, ask, conclude, or leave the page to the tiers | sites and their APIs, the tiers, cache |
| Converters, quality, telemetry, interfaces | none that is shared | parsing, formatting, wiring | - |

A consumer (CLI, MCP server, a program) asks the daemon, or works in its own process when no daemon
answers. The daemon's coordinator joins identical fetches and paces the others; `fetch_one` reads the
cache or walks adapters, documents and the escalation chain; the chain's browser tiers ask the
browser server through a UNIX socket; results go back through the cache.

**What is hard.** Everything is asyncio: state read before an `await` is stale after it. Callers are
cancelled while others share their work. The browser crashes, hangs while it claims to be connected,
and is replaced under requests that still use it. Every tier has a budget and every failure may be
retried by a layer above. Several processes write one database. `PROJECT.json` lists each hazard at
its line with the properties that cover it.

**What makes each part correct.**

- Coordinator: one running fetch per key; whoever waits is aboard a fetch that runs or has finished;
  nobody gets a result he ruled out; at most N fetches of a domain on the network; every caller is
  answered.
- Browser server: one browser process at a time, never leaked; a bound on the pages a browser opens;
  a retry that really uses another browser; page creation one at a time; every request answered.
- Chain: stops at the first tier with content, reports the failure that matters, keeps its budget,
  learns where to start.
- Cache: rows answer only for what stored them; three strikes flip a route; processes lose no update.
- Clients: a stopped peer is noticed and does not become an error of its own; work is not done twice.
- fetch_one: one envelope for every call, of the kind that was asked for, screened before it is stored.
- Page work: every page is closed once, by the one who owns it (one whose set-up failed is not, see section 3); the shared profile is cleared sparingly.
- Maps: a map that says nothing is whole, whatever it returns was screened, and it ends though its sources hang.
- Answers, extracts, searches: the first text a provider gives is served and its provider named; the best passages are returned; a retry makes nothing worse.
- Adapters: the part that matters decides, in whatever order the answers come; a failure says what is
  known; a listing is what the page shows.

## 2. Modules

| Module | Models | Lines of source |
|---|---|---|
| `SingleFlight` | what the coordinator promises its callers, without gates, cache and network | `service/coordinator.py` 133-168 |
| `Coordinator` | the coordinator, with `fetch_one` as it uses it | `service/coordinator.py`, the seams of `fetch/__init__.py` and `cache.py` |
| `MCCoordinator` | instances for TLC | - |
| `CoordinatorProofs` | proofs about `Coordinator`, the refinement included | - |
| `BrowserServer` | request loop, supervisor, page life cycle and wedge probe | `fetch/browser_server.py` |
| `MCBrowserServer` | instances for TLC | - |
| `BrowserServerProofs` | proofs about `BrowserServer` | - |
| `Learning` | what `bump` makes of a route's row; used by the next two | `cache.py` 220-278 |
| `EscalationChain` | one run of the chain of tiers, and what it teaches the route | `fetch/core.py` 101-703, `cache.py` 280-297, the floors of `fetch/urlutils.py` |
| `MCEscalationChain` | instances for TLC | - |
| `EscalationChainProofs` | proofs about `EscalationChain` | - |
| `SharedCache` | many fetches of one route by several processes on one database | `cache.py` 94-278, `fetch/core.py` 299-330 and 559-628 as what is recorded |
| `MCSharedCache` | the instance for TLC | - |
| `SharedCacheProofs` | proofs about `SharedCache` | - |
| `FetchOne` | the fetches of one process: cache, dispatch, document or page, screening, storing, and the browser client they share | `fetch/__init__.py` 112-829, `fetch/caching.py`, `fetch/documents.py` 43-191, `fetch/browser.py` |
| `MCFetchOne` | the instance for TLC | - |
| `FetchOneProofs` | proofs about `FetchOne` | - |
| `Service` | the daemon, its clients and the socket between them | `service/client.py`, `service/daemon.py` 138-210 |
| `ServiceProofs` | proofs about `Service` | - |
| `PageWork` | what is done on a page of the browser server | `fetch/browser_server.py` 367-562, 606-695, 927-981 |
| `MCPageWork` | the instance for TLC | - |
| `PageWorkProofs` | proofs about `PageWork` | - |
| `Ordered` | parts of a list, in its order or another one; operators | the loops that keep entries, and the sorts, behind `Listings` and `Answers` |
| `Listings` | what the adapters of shops and portals make of a page (operators) | `adapters/` amazon, mercadolivre, olx, petlove, aliexpress, shopee, realestate, google_shopping |
| `Apis` | what the adapters of services ask for and conclude (operators) | `adapters/` steam, itad, github, npm, gitlab, shopify, phabricator, wikimedia, scholar, youtube, wayback, `_common` |
| `Adapters` | the waiting, the order of the answers and the memory the fetches share; uses the two above | the fetch functions of `adapters/`, `cache.py` 299-323 |
| `MCAdapters` | the instance for TLC: small pages, every answer | - |
| `SiteMap` | maps, the threads of their sources and the llms.txt files all maps share | `map.py` |
| `Answers` | answers, extracts and searches after their fetch | `summarize.py`, `extract.py`, `semantic.py`, `search.py`, `adapters/` claude_api, claude_cli, deepseek, brave, ddgs |
| `Operations` | the daemon's operations that are not fetches, side by side: composes the two above | `service/daemon.py` (`Dispatcher`) |
| `MCOperations` | the instances for TLC | - |
| `OperationsProofs` | proofs about `Operations` and `Adapters` | - |

An action is the code between two awaits, which nothing interrupts on one event loop; where an
`await` returns at once (a free lock) the action goes on, and where the lock is taken the request waits in a
state of its own.

Definitions whose comment starts with "Slip" are mistakes a maintainer could make (an unreleased
slot, a lock not taken). They are not part of the specification: the mutation runs listed in
`PROJECT.json` put each in place of the definition after it to see that the property notices.

### Coordinator

A call of `Coordinator.fetch` is a member of `Calls`; the task it creates carries its name. The
variables are the code's: `inflight` is `_inflight`, `slots` the holders of the per-domain semaphores, `task` how far
`_run` has come, `row` the cache's row of a page, `result` what the task returned. `phase` and
`flight` say where the caller stands, which the code keeps in the awaiting coroutine.

- `Lead`, `Join`, `Answer`, `Cancel`: the four things that happen to a call. `Cancel` leaves the task
  alone, because of the `shield`.
- `StartUnpaced`, `StartPaced`: the cache test `_is_cache_hit` decides whether both gates apply;
  `AcquireSlot` and `LeaveLimiter` are the gates. `EnterFetch` is `fetch_one` up to its first await, with its own, different cache test.
- `FetchReturns`, `FetchRaises`: the fetch ends, leaves a row where the code stores one, and leaves
  its slot. `Unregister` is the done-callback, which runs in a later pass of the loop: in between a call can
  still join a finished task.
- `RowWritten`, `RowExpires`: the writers the coordinator does not see (extract, answer, the CLI's own
  process) and the TTL.

A request's `page` (normalised URL) and `domain` (of the URL as given) are separate, as in the code.

### BrowserServer

`pc` is where a request stands in `_serve_fetch`; `cm`, `browser`, `persistent`, `handouts`, `streak`
and `lock` are the supervisor's fields, `createLock` is `_CREATE_LOCK`. Browsers are numbered as
`AsyncCamoufox` objects are made, 0 is `None`. `running` and `wedged` describe the processes outside:
`Crash`, `Wedge` and `Exit` (a browser that is being closed drops its pages before the close returns)
are the environment's.

- `Arrive`, `Admit`: a request is read and gets a page permit.
- `Handout`, `Replace`, `Replaced`, `LaunchSucceeds`, `ProfileLocked`, `LaunchFails`: `get_browser` with
  its fast path, close, launch, the ephemeral fallback and the ways a launch fails.
- `OpenPage`, `PageOpens`, `OpenRaises`, `PageEnds`, `PageCloses`: `fetch_page` under the creation lock, then
  the navigation, then the close, after which `Judge` decides: answer, retry, probe or give up.
- `MarkDead`, `MarkedDead`, `Condemned`: `mark_dead` with and without waiting for the lock.
- `ProbeOpens`, `ProbeLoads`, `ProbeAnswers`, `ProbeFails`: `is_wedged`, which may time out at each of its awaits.

What the page does between creation and close is its outcome only: "ok", "disconnect", "timeout" or
"other". Playwright is external: a dead browser disconnects, a wedged one answers nothing but may
still open a page.

### EscalationChain

One run of `_do_fetch_html`. `pc` is the tier that is awaited, `seen` what each tier answered, `left` the seconds
until the call's deadline (negative once it has passed), `record` what the run told `bump`, `out` the
outcome's mode and reason. `row` and `header` are what the cache has learned of the route; `OthersLearn` is
every other run of the same route, which may change both at any time, so that a run works with the strategy it read at its start.

- `Begin` reads strategy and header profile, either of which may fail to be read, and chooses the first tier.
- `HttpTier` is the first request and, if nothing calls for a second, the decisions of `JudgeHttp`; `HonestTier` is the
  second one with minimal headers, whose answer counts only if it succeeded.
- `BrowserTier`, `MobileTier`, `ArchiveTier` are the other tiers with the gates after each.

A failure is a fingerprint block (other headers may clear it), a captcha, "not found", an unavailable browser server, an
exception that leaves the tier, or any other one; content is text, a document, a binary body or an unrendered
shell. This is as far as the chain tells them apart. A tier may take any time, because the code does
not enforce its caps: httpx's timeout is per operation and the browser client has none.

### SharedCache

`EscalationChain` follows one run; here each process makes one run after another on the same route, and each run is reduced to
what it reads and writes. `pc` is where a process stands between its statements, `start` the tier that
`get_strategy` made it start at, `told` the verdict that `bump` is called with (one of those that
`LearnsWhatItShowed` allows), `found` what its SELECT returned.

- `Start`, `Ends`, `BumpReads`, `BumpWrites`, `Put`: the read of the strategy, the end of the run, `bump`'s two
  statements, and the write of the page, which stands for every other write of the connection.
- `Read`, `Commit`, `Collide`, `Refused`: what a statement does to the connection. `sqlite3` opens a transaction
  before an INSERT or UPDATE and closes it in `commit()`, which the code calls after a statement that raised
  nothing; there is no `rollback()` in it. So an INSERT that collides leaves the write lock with its process, and a write that waited
  in vain leaves a transaction, in which the next SELECT pins a snapshot; after another commit that snapshot is stale and
  SQLite refuses every write from it at once. This is how `sqlite3` with the code's settings (WAL, `timeout=5.0`, the default
  isolation level) behaves when the same statements are put to it; SQLite itself is external here.
- `Restart`, `SiteChanges`: a process ends, and with it its transaction; the site changes which tiers get through.

`gaveUp`, `raced` and `tally` are history: whether a write ever gave up, whether a bump was written while another
process was between its two statements, and what the verdicts make one after another until either has happened.

### FetchOne

A member of `Callers` is one call of `fetch_one`, or one URL of the process's one `fetch_many` (`batch`), which lets
`Workers` of them run at a time. `pc` is where the call is, `env` the envelope it will return, `row` the stored envelope of
each URL. `Shape` is what the code can tell of a URL before fetching it: whether it normalises, whether it names a document,
which adapters claim it. `remote`, `lock` and `started` are `BrowserPool._remote`, its lock, and `browser_started`; `call` is
where a call stands with the browser server, which starts and stops as it likes (`Outages` bounds the stops).

- `Invalid`, `Hit`, `Miss`: the start of a call up to its first await; a raw call goes past the cache (`UseCache`).
- `AdapterAnswers`, `AdapterDeclines`, `AdapterRaises`: the first adapter that claims the URL, those that may find it is not
  theirs, and those whose exceptions nobody catches, which end a whole batch.
- `Document`, `Page`, `Redirected`, `Unhandled`: a document by its URL, the tiers, a document the tiers came upon, and the net
  under what they raise. `Finish` is the seam all of them end in: screen, then store, best effort.
- `Ask`, `TakeLock`, `Handshake`, `Send`: the browser client, whose handshake is made once under the lock and remembered.
- `Return`, `Yield`, `EndBatch`, `LeaveBatch`: how calls end; the browser is closed (the handshake forgotten) by those that noted
  that they used it. A consumer that leaves the batch early cancels the rest.

The tiers are `EscalationChain`'s subject and one step here.

### Service

A member of `Calls` is one `request_or`; it makes up to two connections (`attempt`, `conn`), each of which is a `job` of a daemon.
`path` is the daemon that the socket path leads to, `file` whether the file is there: it outlives a daemon that was killed. Daemons
start once each, at any time, also while another is still closing (`overlap`).

- `Connect`, `NotListening`, `CannotConnect`, `Sent`, `TakeAnswer`, `Dropped`, `Reconnect`, `TimesOut`, `Closed`, `RunLocal`: the client, and the
  fallback. A request of `Large` does not fit in the socket's buffers: the caller may have to wait until the daemon takes it (`"sending"`), and, when it
  gave up on the answer, until what is left of it has gone (`"closing"`). Neither wait has a time-out in the code. An error the client does not catch, a broken
  pipe while something is still to be sent among them, ends the call `"raised"`.
- `Read`, `Answer`: the handler; a frame too large ends the connection, and so does an answer that is no JSON; an answer too large counts as none.
- `Start`, `Stop`, `Gone`, `Killed`: a daemon removes whatever is at the path, listens, closes when its connections have ended,
  and removes the file again.

The daemon works on what it has read whether or not the caller still waits, so a call that timed out may run twice at once
(`NotRunTwice` says it does not; it is violated, as the client's comment accepts, and is not one of the runs).

### PageWork

Each of `Pages` is a request with its page or, before that, its context; `pc` is where `fetch_page` is, `hold` where the human's hold of the page is, which
goes on when the request has been answered. `walled` and `cleared` are what the site's cookies in the shared profile lead to, `manual`
is `_manual_in_progress`, `cooling` whether `_last_cookie_clear` lies less than the cooldown back. A site that was never cleared counts
as cleared at the clock's origin, which on a host that has just started is within the cooldown: hence both values in `Init`.
The actions follow `fetch_page` in order: `Create`, `Created` (the page, or for a mobile fetch its context and then the page), `Dressed` (viewport and headers, still under the
lock and before the `try` that closes the page: a request that fails there or before is `"failed"`, whatever it leaves open), `Load`, `Judge`, `Solve`, `HandOver` or `LeaveChallenge`, `NoWall` or
`Recover`, `Clear`, `Retry`, `Close`; `Show`, `HoldEnds`, `HoldCloses` are the hold's task.

### Listings, Apis, Adapters

A fetch of an adapter asks for one or more parts, takes the answers in any order, asks for more or ends. `Adapters` has that machine:
`job` is what the URL asks of the site, with the facts of the thing behind it, `left` the parts awaited, `got` the answers,
`env` the outcome. `Sends`, `Answered`, `AskMore` and `End` are the steps between awaits; what is asked for and
concluded is in `Apis` (`...Parts`, `...Then`, `...Result` of each service) and, for pages, in `Listings`, where a page is the list of its cards with the
facts that decide whether and where an entry appears. An answer is a class: the body the parser looks for, one that says there is
nothing, one without it, each kind of failure that the adapter tells apart.

`verdict` and `table` are `_probe_memo` and the table `adapter_probe`; `StartByVerdict` and `PassBy` are how a host is judged before anything is asked,
`Remember` what a probe leaves behind. `money` and `token` are the two other memories. `Restart` ends the process: memos go, the table stays.

### SiteMap, Answers, Operations

A member of `Maps` is one `map_site`; `at` and `turn` are where it is in the list of its sources, `out`, `seen` and `notes` what it has
merged, dropped and told, `late` whether its deadline has passed. The thread that reads a source is `pump`: it goes on for itself, puts what it finds into
`queue`, and the map takes from there, so that a thread may hang, fail, or go on after its map has ended. `file` is the kept llms.txt of a host, written in place (`Open`, then `Fill`)
by any map and read by any other, with whatever an earlier process left.

- `LookUp`, `Ask`, `Open`, `Fill`, `NotKept`: llms.txt, kept for a day (`Expires`).
- `ReadSitemap`, `NextPlace`, `WalkEnds`: the walk through sitemaps, its cap, and the places tried after the host's own.
- `FindFeeds`, `Crawl`, `CrawlEnds`, `DiscoveryFails`: the other two sources; `PutUrl`, `PutLast` hand over what they found.
- `StartStream`, `TakeUrl`, `TakeNotice`, `TakeEnd`, `TakeError`, `OutOfTime`, `NoStreamLeft`: the merge, with its limit, its exclusions, the guard and the notices.

A member of `Asks` is one answer, extract or search; `where` is the step it is at. `Skip` and `Provide` walk the chain of providers, each of which may lack its configuration or reply
in every way its client tells apart, and with a text cut at the token limit where its client does not look for that; `RankPassages` orders the passages of a page by their scores, or the model it needs
raises; `SearchAnswers` and `SearchFails` are the one or two attempts
of an engine: what DuckDuckGo finds is cut to the number asked for by the code, what Brave sends is passed on as it comes. `Operations` puts both beside each other; they share nothing, which the proofs use.

## 3. Runs

| Run | Question | Answer | Size |
|---|---|---|---|
| `coordinator` | do single-flight, the waiter's guarantee, the answers' kind and the domain cap hold, and does the coordinator implement `SingleFlight`? | yes | 894,636 states |
| `coordinator_live` | is every caller answered or cancelled? | yes | - |
| `browser_server` | one browser, the recycle bound, the retry, one creation at a time? | yes | 372,263 states |
| `browser_server_live` | is every request answered when nothing wedges? | yes | 113,623 states |
| `escalation` | does a run stop at the first content, give up last, name the tier that failed, and learn what it showed? | yes | 161,268 states |
| `escalation_unavailable` | does the chain go past an unavailable browser server to the archive? | no | counterexample |
| `shared_cache` | is the cache shared, do strikes add up, while nobody gave up and no bumps overlap? does a route learned as browser heal? | yes | 122,282 states |
| `fetch_one` | do raw and converted texts stay apart, is all that is served screened, does every call end? | yes | 115,335 states |
| `service` | does every call end unless its large request is never read, is nothing started more often than its attempts and once more, is a lone daemon reachable? | yes | 449,642 states |
| `page_work` | has every page whose set-up succeeded one owner and is it closed, are cookies cleared once per cooldown? | yes | 4,624 states |
| `operations` | is a silent map whole and all it returns screened, is an answer the first text and an error the right one, are passages the best, is a retry a bonus, does everything end? | yes | 195,929 states |
| `adapters` | does the deciding part decide, who may say NOT_FOUND, do probes stay harmless, are listings the page's? | yes | 119,935 states |

Fourteen more configurations are kept beside the runs. Each checks one statement, most of them found in the code's documentation, and TLC answers
with a counterexample: `MCCoordinatorRaw.cfg` (`NetworkCap`), `MCBrowserServerDisplay.cfg` (`DisplaySurvives`), `MCBrowserServerStale.cfg` (`TearsDownItsOwn`),
`MCSharedCachePinned.cfg` (`SharesCache`), `MCSharedCacheHeals.cfg` (`HealsFromHttp`), `MCFetchOneDown.cfg` (`DownIsNoError`), `MCFetchOneRaises.cfg` (`NeverRaises`),
`MCServiceRaises.cfg` (`DropsAreCaught`), `MCServiceWedged.cfg` (`NeverKept`), `MCOperationsLimit.cfg` (`LimitIsTold`), `MCOperationsOutline.cfg` (`OutlineIsTheOrigins`),
`MCOperationsEmptyPage.cfg` (`ErrorTellsWhy`), `MCOperationsScores.cfg` (`ScoresArePositive`) and `MCPageWorkLeft.cfg` (`NoPageLeft`, which no document states: it is what `PageHasOneOwner` would be without its condition).

**Bounds.** The coordinator runs with three calls for one page of one domain, a cap of one and the
requests that differ in each part of the key: with three calls a leader can be cancelled, a follower
wait and a third call lead the next flight for the same key, or two keys contend for the one slot. The
assignment of requests to calls is fixed up to permutation (`MCInit`), which loses nothing because
calls are interchangeable. The browser server runs with three requests, two permits, a browser
recycled after two pages and a streak of two timeouts (the code's 3, 150 and 3): two requests can hold
one browser while the third waits, every threshold is reached, and each request can fail twice. Two
crashes and one wedge (`MaxCrashes`, `MaxWedges`) let the retry's browser die too. The safety runs use
symmetry over requests; the liveness run, where symmetry is unsound, lets requests arrive in order instead.
Both systems stop when all calls are done: the browser server's runs switch the deadlock check off, the coordinator's rows keep expiring.

The chain runs once in each of the five modes with deadlines of 0, 4 and 6 s and any whole number of seconds per tier
(`Latest` bounds how far past its deadline it gets): every floor, 1, 3 and 4 s, is met, just missed and
missed by far. The seed is "browser", the host's profile the default; learned rows and profiles take every value.

`fetch_one` runs two calls in five mixes (`MCMixes`): a plain fetch beside a refresh of the same page, beside a raw fetch that is a batch of its own,
a product two probing adapters claim beside a listing, and two batches of two with one worker, one of which contains an invalid URL. Two
calls are enough for one to hold the lock or the row while the other comes, one outage for the handshake to be outdated. `service` has two calls, both too large for
the socket's buffers (a large request does all a small one does and more) and one of them too large for a frame, and two daemons, so that one may be killed, replaced, or overlap with its successor. `page_work` has two pages of one site: they
meet at the wall, at the hold and at the creation lock. `adapters` takes every site alone over every answer, pages of up to three cards (nine
for the price fence, which starts at eight), and pairs of fetches where they share a host's verdict, the currency or the token, with one restart.
`operations` runs one map of two sources in a row, with limits of one and two and two URLs besides the llms.txt, so that a source ends below, at and above the limit and two sources
name one URL; or two maps of llms.txt that share a file, each with or without the guard; or one answer with up to three providers, one page of up to three
passages with scores that tie, one search of up to two rows. Maps and asks share nothing, so they are not run together.

Two processes share the cache, which is enough for every pair of statements to meet, for one to hold the lock while the other
waits and for one to commit under the other's snapshot. The route's row takes every value (three
strikes in each direction). The site starts with any tiers blocked; `MaxUpsets` (two) lets it change and a process
end, in either order. The liveness property is checked together with the safety ones, without symmetry.

**Fairness.** Coordinator: weak fairness of whatever the event loop runs when it is ready, strong
fairness of taking a slot (asyncio's semaphore is first come, first served), and that `fetch_one` ends,
which is the code's own stated invariant (`service/coordinator.py:34-36`). Browser server: strong
fairness of the lock, permit and creation-lock acquisitions (FIFO in asyncio) and weak fairness of
what the code bounds by a timeout. Creating or closing a page has no timeout, so nothing is assumed of
it in a wedged browser; that is why the liveness run has none. Shared cache: the route keeps being fetched (weak fairness of the
steps that need no lock), and a write that can go on again and again does (strong fairness): SQLite polls the lock for five
seconds, which others hold for one statement. A write may still give up whenever the lock is taken. `fetch_one`: weak fairness of each call's next step and of the batch's end; an answer
of the browser server counts as such a step, which is what `browser_server_live` shows of the server and what the client, without a timeout of its own,
relies on. `service`: the callers only, where their waits have time-outs or what they wait for is there; daemons need never do anything,
so that the two waits without a time-out may last for ever, which `EveryCallEnds` says and `NeverKept` denies. `page_work`: weak fairness of each page's and
each hold's next step, since every wait there has a deadline, and strong fairness of taking the creation lock. `operations`: the map's
own steps and its clock, never a source's thread, which may hang for ever; every step of an answer, extract or search, whose clients have time-outs.

**Disagreements found** between the code and what is written about it. As a run, with quotations in `PROJECT.json`: the chain stops at an unavailable browser
server, which three places say it escalates past. By the further configurations:

- `NeverRaises`: "`fetch_one` never raises" (`README.md:202` of the repository), "does not raise; it returns a failure envelope" (`fetch/__init__.py:11-12`), and likewise
  `service/protocol.py:20-22` and `tests/test_service.py:120-121`. Nothing catches what `scholar` or an adapter of the table raises (`fetch/__init__.py:461, 470`); the npm adapter
  for one raises on a document whose `keywords` is a number (`adapters/npm.py:137`, outside what 230 catches). `EveryFetchEnds` therefore counts a raise as an end.
- `DropsAreCaught`: "connection dropped mid-request (e.g. a redeploy) → one reconnect after a short delay, then DaemonUnavailable" (`service/client.py:14-15`); only
  IncompleteReadError and ConnectionResetError are caught (79), and a drop while a large request is sent may be a BrokenPipeError, which ends the call.
- `NeverKept`: of the read time-out, "This only guards a wedged daemon" (`service/client.py:32-33`); the request is written before it begins, with a drain (`service/protocol.py:84`)
  and a `wait_closed` (`service/client.py:97-98`) that have none, so that a large request to a daemon that does not read is never given up.
- `ErrorTellsWhy`: "`answer_not_configured` (empty chain / missing model)" and "`answer_failed` (every ready provider returned nothing)" (`summarize.py:241-245`); an empty
  page is told as `answer_failed` in both cases, with nobody asked (154-155, 281).
- `ScoresArePositive`: "parity with the BM25 ranker, which also filters scores > 0" (`semantic.py:75-76`, likewise `tests/test_semantic.py:73-74`); it keeps whatever shares a
  term (`extract.py:157-166`, as its own comment says). `PassagesAreBest` follows the code: a hit by words is a shared term.
- `TearsDownItsOwn`: a late `mark_dead` tears down a browser that its caller never used, the "re-wedge loop" its comment says is stopped.
- `NetworkCap`: "N simultaneous in-flight network fetches" of a domain; raw fetches of cached pages escape the pacing test, which is not
  told that they ignore the cache.
- `DisplaySurvives`: the forced close kills every descendant of the browser server, the display of manual-solve mode included.
- `SharesCache`: a write that gave up leaves its process with an outdated cache that it can no longer write.
- `HealsFromHttp`: a route learned as http never learns that only the browser gets through, since each failure that the browser repairs
  goes unrecorded while the repair counts as a success.
- `DownIsNoError`: "when the server is down, browser-tier fetches return a typed `browser_unavailable` and the chain escalates past it"
  (`README.md:25` of the repository); once a handshake is remembered, the refused connection is no such error, is raised through the tiers and ends as the
  safety net's SERVER_ERROR "unhandled fetch error".

- `LimitIsTold`: "When the limit, the budget or the size's sitemap cap cuts discovery short", a final record says so (`map.py:367`); a limit met exactly
  at the end of a source leaves the later sources unread without a notice.
- `OutlineIsTheOrigins`: "for the given URL's origin" (`map.py:116`); the kept file is named after the host alone, so that another port's or scheme's text is served.

And one that only the code tells: `NoPageLeft`, a page whose viewport or headers raise stays open for good (`fetch/browser_server.py:618-625`).

Two more, stated as definitions without a configuration: `NotFoundIsTold` (scholar says NOT_FOUND, kept for a day, when no source could be
reached; gitlab takes any message for one) and `NotRunTwice` (above).

**What a property leaves out.** `MapIsWhole` excepts a sitemap whose cap was met without a page in it, of which the code says nothing although
`map.py:367` promises a final record for the cap. `EveryRequestAnswered` is checked with an ephemeral browser (`Profile` is FALSE), so the fallback
from a locked profile is met by the safety run only. `RunsOnce` bounds the starts by the attempts and one local run. `StrikesAddUp` excepts bumps that
overlap, `Reachable` daemons that overlap, and `NotFoundIsToldElsewhere` gitlab and scholar.

## 4. Proofs

What TLC shows for three calls, TLAPS proves for any number, for every value of the constants that meets the
named assumptions (non-empty limits, a finite set of requests, "no call" is not a call).

`CoordinatorProofs`. The invariant is `IInv`. `OneTaskPerKey` is not inductive: it needs that a running task
is the one registered under its key, which needs that every task's entry is its own until the callback runs;
`WaiterAboard` needs in addition that a call's flight carries the call's key, and `AnswerMeetsRequest`
that a task's result fits its own request, so that equal keys make it fit everybody else's. `DomainCap`
rests on a slot being held by every paced task past the gate and on the counting of a domain's slots. Each
action preserves `IInv` (`Invariance`); the properties follow, and
`CoordinatorImplementsSingleFlight` maps each action to an action or a stutter of `SingleFlight`.

`BrowserServerProofs`. `IInv` adds to the properties what they rest on: who may hold the lock where
(`LockInv`, `CreateInv`), that a browser being closed is the supervisor's current one (`ClosingInv`), what the
fields are while a launch is on (`LaunchInv`), that numbers are never reused (`NumberInv`), and that a browser noted by a
waiting `mark_dead` is either still the current one or never comes back (`StaleInv`), from which
`RetryGetsAnotherBrowser` follows. `RecycleBound` counts with the cardinality lemmas of
`FiniteSetTheorems`.

`EscalationChainProofs`. What a run reports at its end depends on how it came there, so `IInv` adds to the four
properties what lies behind a run that awaits each tier (`AtStart` to `AtWayback`): which tiers are still untried, that
none before yielded content, what was recorded, and that past the browser the run is either the one tier
its mode names or an auto run whose browser was blocked. `JudgeCases` lists the six ways the http tier's
last word is judged; one lemma per action keeps `IInv`. Nothing is assumed of the deadlines beyond their being
natural numbers, nor of what other runs write.

`SharedCacheProofs`. `SharesWhilePatient` rests on `SnapInv` (only a transaction pins a snapshot, and one that is not stale
shows the committed row) and `PatientInv` (before anybody gave up, an open transaction holds the lock, so that nobody else
commits under it). `StrikesAddUp` rests on these and on `FoundInv`: a bump that nobody overlaps writes over the row it read. One lemma per
kind of statement, then one per action; the number of processes, of restarts and of changes of the site is arbitrary.

`FetchOneProofs`. `FetchInv` says of every call that its envelope has its own kind of text, and of every envelope and every row that it was screened, unless a detector failed;
rows are never a source's, since raw calls go past the cache. All ends of a call go through `FinishStep`, all steps on the way through `OnTheWay`. The calls, urls and mixes are arbitrary.
`TypeInv` adds two facts that the types rest on and no run states: the client's lock is held by exactly the call that makes the handshake, so that a failure, an end and a cancellation all let it go
(`LockIsLetGo`), and of a batch no more than `Workers` are at work, which `FiniteSetTheorems` counts (`WorkersSuffice`).

`ServiceProofs`. `Budget` counts what may still start the operation of a call: the daemon, if it has not read the current attempt, and the caller, if it has no end; every step
that starts it spends from there, and the reconnect, which may only follow a dropped first attempt, adds one. `OneDaemon` is `Reachable` with the uniqueness of a daemon that is serving or closing,
without which one that goes could take the other's file away. `Budget` also bounds the runs of a call, the one part of the types that is not immediate (`ServiceTypes`, by `LinksKept`).

`PageWorkProofs`. `Owned` lists the combinations of request, hold and page that occur, those of a creation that failed included, of which `PageHasOneOwner` says nothing; `HeldByOne` ties the flag to the set of held pages, and `ClearedOnce` says that while a page
clears cookies the cooldown is on and no other page of its site clears. `CreateInv` is the lock around the creation of a page: who creates or sets one up holds it, so pages are created one at a time (`OneCreates`).

`OperationsProofs`. For the maps, `IInv` adds that what ends a stream is the last thing in its queue and that between two streams the queue is empty (`PipeInv`), that whatever was seen and not excluded
was merged unless the limit was told (`MergeInv`), that sitemaps left unread are told or about to be (`NoteInv`), and that no page is in any queue (`BodyInv`). The threads' steps
are instances of one lemma, `PutsIsGood`. Nothing is assumed of the files found at the start. For answers, `Trying` says how far a chain came, and that somebody was ready exactly when somebody was asked; it gives `AnswerIsServed` for chains of any length,
and with the kinds of page asked and of answer heard (`AskKinds`) the types of what is asked (`AskTypes`).

The same module proves what is sorted and filtered. `Ordered` defines a sorted or filtered list by its places: the n-th entry is the one with n - 1 others before it. That needs no induction:
`Ordering` shows by cardinalities that the places of any finite strict total order are counted off so, each once, `Arranges` says that a list is another one's entries in an order,
and `Holds` what such a list contains. That these are the lists `SortSeq` and `SelectSeq` give is what TLC checks (`OrderedAgrees` of `MCAdapters`).
`ExtractGood` then gives `PassagesAreBest` (by `BestAreFirst`, for any scores, ties and negative numbers asked for included) and `SearchGood` gives `RetryIsABonus` (by `KeptOfRows`, which bounds DuckDuckGo's rows only). Of what is asked,
`AskMixesAssumption` says no more than its kinds of page, row and number, and `FoundAssumption` (of `Answers`) that an engine's rows are a list.

For the adapters, whose specification is `AdapterSpec`, `AdapterInv` says of every fetch what it `Awaits` and, at its end, what it `Concluded`. A fetch that waits has its main part among those awaited or answered; a fetch of
wikimedia asks for the article only behind the redirect and past the structured endpoint, alone (`ArticleInv`); a listing waits for its page only. Without these, what a fetch
has at its end could be answers no fetch can have, and `MainDecides` would not follow. `Concluded` is shown site by site (`MainResult`, `NotFoundResult`, `ProbeResult`, `ListedResult`),
and since a step changes one fetch (`StepIsAlone`), `StepIsGood` keeps the invariant whatever the shared memories hold. `ListedResult` rests on what each listing does with its page: `EachIdOnce`,
`CoveredFirst`, `SellersOf` and `Grouping`, and `SomethingLeft`, that the fence around the quartiles always has a price inside. `AdaptersAssumption` says of a page only that its entries are a list
and their prices and scores numbers, and that a fetch is of a site that has an adapter, or of none.
`OnceInv` is a second invariant: nothing is asked for twice (`AskedOnce`), which for the readmes of github means that the parts asked for are always the first few names (`UpToReadme`), and for wikimedia that an
endpoint's answers say what was not asked of it yet; a fetch waits exactly while it awaits something; and each site's conclusion is an outcome (`FetchHasOutcome`). With the types of the shared memories it gives `AdapterTypes`.

Model-checked only: the liveness properties (`EveryCallReturns`, `EveryRequestAnswered`, `HealsFromBrowser`, `EveryFetchEnds`, `EveryCallEnds`, `EveryPageCloses`, `EveryOperationEnds`), since
fairness and ENABLED are out of the prover's reach; and, as counterexamples, the violated properties. Type invariants are proved for every module with a behaviour.

## 5. Not modelled

- URL normalisation and routes, block classification: each is a pure function of one string, and what it does to the characters is the whole of it; a model that skips these would say nothing,
  one that keeps them would be the code. The other modules take a URL's normal form, route and domain as given, and every verdict of the classifier as possible.
- Converters, quality scores, the selectors of adapters and the fields they copy: text processing without state.
- Browser housekeeping prunes old bundles after a launch, one caller's work on the file system. Telemetry is logging. Configuration, command line, MCP and rendering parse and print.
- Of modelled parts: the coordinator without single-flight and the clock of its rate limiter (only that it lets callers through); the browser server's shutdown and display set-up; which
  requests a page blocks, what its viewport and headers are; the seconds a tier takes (any) and the telemetry phases; conversion of documents and the ages of rows; the purges of the cache; the framing of the protocol; prompts,
  keys, segmentation and the scores themselves; regions and time ranges of searches. Of trafilatura, SQLite, Playwright and the sites only what the code uses of them.
