------------------------------ MODULE SiteMap -------------------------------
(***************************************************************************)
(* The map operation (vasco/map.py), which the daemon runs in threads of   *)
(* its own: the URLs of a site merged from llms.txt, sitemaps, feeds and a *)
(* crawl, one source after the other, within a limit and a time.           *)
(*                                                                         *)
(* Each source is read by a thread that the map can only abandon; the two  *)
(* share a queue.  The directory of llms.txt files is shared by all maps   *)
(* and outlives the process.  Of a URL only its identity is kept, of a     *)
(* text what the guards look for.                                          *)
(***************************************************************************)
EXTENDS Naturals, Sequences, FiniteSets

CONSTANTS
  Maps,       \* the calls of map_site
  Urls,       \* what sitemaps, feeds and crawls may find
  Hosts,
  Origins,    \* the origins of a host, say by scheme or port
  MapMixes,   \* what the calls ask for, as functions on Maps
  Outline     \* the URL of an llms.txt

ASSUME OutlineAssumption == Outline \notin Urls

Sources == {"llmstxt", "sitemap", "feeds", "spider"}

VARIABLES
  site,     \* what each map was asked for
  at,       \* where a map is
  turn,     \* the number of its current stream
  pump,     \* what the thread of that stream is doing
  walk,     \* how far it came with a sitemap walk or a crawl
  batch,    \* the URLs that it has found and not yet put
  queue,    \* what it has put and the map has not yet taken
  seen, out, notes,
  late,     \* the map's deadline has passed
  capped,   \* history: a walk found URLs and left sitemaps unread
  file      \* the llms.txt kept for each host

mapVars == <<site, at, turn, pump, walk, batch, queue, seen, out, notes, late, capped, file>>

Kinds == {"text", "tainted", "html", "torn"}
Bodies == [kind : Kinds \union {"withheld", "none"}, of : Origins]
NoBody(m) == [kind |-> "none", of |-> site[m].origin]
Items ==
  [kind : {"url"}, url : Urls \union {Outline}, body : Bodies]
    \union [kind : {"notice", "end", "error"}]
Pumps == {"off", "look", "ask", "write", "fill", "walk", "find", "crawl", "emit", "over"}
Notes == {"sitemaps", "limit", "budget"}
Sites == [host : Hosts, origin : Origins, streams : Seq(Sources), limit : Nat,
          exclude : SUBSET (Urls \union {Outline}), sitemaps : Nat, pages : Nat, places : Nat, screened : BOOLEAN]

MapTypeOK ==
  /\ site \in [Maps -> Sites]
  /\ at \in [Maps -> {"next", "reading", "done", "failed"}]
  /\ turn \in [Maps -> Nat]
  /\ pump \in [Maps -> Pumps]
  /\ walk \in [Maps -> [places : Nat, read : Nat, listed : Nat, guessed : Nat,
                        found : SUBSET Urls, after : {"crawl", "notice", "end"}]]
  /\ batch \in [Maps -> SUBSET Urls]
  /\ queue \in [Maps -> Seq(Items)]
  /\ seen \in [Maps -> SUBSET (Urls \union {Outline})]
  /\ out \in [Maps -> SUBSET [url : Urls \union {Outline}, source : Sources, body : Bodies]]
  /\ notes \in [Maps -> SUBSET Notes]
  /\ late \in [Maps -> BOOLEAN] /\ capped \in [Maps -> BOOLEAN]
  /\ file \in [Hosts -> [kind : Kinds \union {"none"}, of : Origins, fresh : BOOLEAN]]

ASSUME MapMixesAssumption == MapMixes \subseteq [Maps -> Sites]

NoWalk == [places |-> 0, read |-> 0, listed |-> 0, guessed |-> 0, found |-> {}, after |-> "end"]

(* A file may be left from any earlier process, also from one that ended   *)
(* while it wrote, or that did not look for HTML yet.  A limit of nothing  *)
(* is met at once.                                                         *)
MapInit ==
  /\ site \in MapMixes
  /\ at = [m \in Maps |-> IF site[m].limit = 0 THEN "done" ELSE "next"]
  /\ turn = [m \in Maps |-> 1]
  /\ pump = [m \in Maps |-> "off"]
  /\ walk = [m \in Maps |-> NoWalk]
  /\ batch = [m \in Maps |-> {}]
  /\ queue = [m \in Maps |-> <<>>]
  /\ seen = [m \in Maps |-> {}] /\ out = [m \in Maps |-> {}] /\ notes = [m \in Maps |-> {}]
  /\ late = [m \in Maps |-> FALSE] /\ capped = [m \in Maps |-> FALSE]
  /\ file \in [Hosts -> [kind : Kinds \union {"none"}, of : Origins, fresh : BOOLEAN]]

Streams(m) == site[m].streams
Source(m) == Streams(m)[turn[m]]
Host(m) == site[m].host
Full(m) == Cardinality(out[m]) >= site[m].limit

Does(m, what) == pump' = [pump EXCEPT ![m] = what]
Queues(m, item) == queue' = [queue EXCEPT ![m] = Append(@, item)]
Walks(m, w) == walk' = [walk EXCEPT ![m] = w]

map == <<site, at, turn, seen, out, notes, late>>

(***************************************************************************)
(* The thread of a stream (pump, in _until).                               *)
(***************************************************************************)
PutUrl(m, u) ==
  /\ pump[m] = "emit" /\ u \in batch[m]
  /\ batch' = [batch EXCEPT ![m] = @ \ {u}]
  /\ Queues(m, [kind |-> "url", url |-> u, body |-> NoBody(m)])
  /\ UNCHANGED <<map, pump, walk, capped, file>>

(* The stream has yielded what it found: it goes on, or ends, perhaps with *)
(* a notice.                                                               *)
PutLast(m) ==
  /\ pump[m] = "emit" /\ batch[m] = {}
  /\ CASE walk[m].after = "crawl" -> Does(m, "crawl") /\ UNCHANGED queue
       [] walk[m].after = "end" -> Does(m, "over") /\ Queues(m, [kind |-> "end"])
       [] walk[m].after = "notice" ->
            /\ Does(m, "over")
            /\ queue' = [queue EXCEPT ![m] = @ \o <<[kind |-> "notice"], [kind |-> "end"]>>]
  /\ UNCHANGED <<map, walk, batch, capped, file>>

Ends(m) == Does(m, "over") /\ Queues(m, [kind |-> "end"])

(* Whatever else a stream raises is handed over too.                       *)
Raises(m) == Does(m, "over") /\ Queues(m, [kind |-> "error"])

(***************************************************************************)
(* llms.txt (_fetch_llmstxt): a file kept for a day, else the site's.      *)
(***************************************************************************)
Yields(m, kind, of) ==
  /\ Does(m, "over")
  /\ queue' = [queue EXCEPT ![m] = @ \o
       <<[kind |-> "url", url |-> Outline, body |-> [kind |-> kind, of |-> of]],
         [kind |-> "end"]>>]

(* A file that is not text raises no OSError, one that cannot be read does *)
(* and is asked for again.                                                 *)
LookUp(m) ==
  /\ pump[m] = "look"
  /\ LET kept == file[Host(m)] IN
     \/ kept.kind \notin {"none", "html"} /\ kept.fresh /\ Yields(m, kept.kind, kept.of)
     \/ kept.kind = "torn" /\ kept.fresh /\ Raises(m)
     \/ Does(m, "ask") /\ UNCHANGED queue
  /\ UNCHANGED <<map, walk, batch, capped, file>>

(* No answer, another status, too large, empty or a page: no llms.txt.     *)
Ask(m) ==
  /\ pump[m] = "ask"
  /\ \/ Ends(m)
     \/ Raises(m)
     \/ Does(m, "write") /\ UNCHANGED queue
  /\ UNCHANGED <<map, walk, batch, capped, file>>

(* The file is written in place: it is cut to nothing, then filled.        *)
Open(m) ==
  /\ pump[m] = "write"
  /\ file' = [file EXCEPT ![Host(m)] =
       [kind |-> "torn", of |-> site[m].origin, fresh |-> TRUE]]
  /\ Does(m, "fill")
  /\ UNCHANGED <<map, walk, batch, queue, capped>>

(* Slip in Fill: the page a site serves for unknown paths is kept too.     *)
FillAny(m) ==
  /\ pump[m] = "fill"
  /\ \E kind \in {"text", "tainted", "html"} :
       /\ file' = [file EXCEPT ![Host(m)] =
            [kind |-> kind, of |-> site[m].origin, fresh |-> TRUE]]
       /\ Yields(m, kind, site[m].origin)
  /\ UNCHANGED <<map, walk, batch, capped>>

(* What was received is yielded as it is, whether or not it could be kept. *)
Fill(m) ==
  /\ pump[m] = "fill"
  /\ \E kind \in {"text", "tainted"} :
       /\ \/ file' = [file EXCEPT ![Host(m)] =
               [kind |-> kind, of |-> site[m].origin, fresh |-> TRUE]]
          \/ UNCHANGED file
       /\ Yields(m, kind, site[m].origin)
  /\ UNCHANGED <<map, walk, batch, capped>>

NotKept(m) ==
  /\ pump[m] = "write"
  /\ \E kind \in {"text", "tainted"} : Yields(m, kind, site[m].origin)
  /\ UNCHANGED <<map, walk, batch, capped, file>>

Expires(h) ==
  /\ file[h].fresh /\ file[h].kind # "none"
  /\ file' = [file EXCEPT ![h].fresh = FALSE]
  /\ UNCHANGED <<map, pump, walk, batch, queue, capped>>

(***************************************************************************)
(* Sitemaps (_iter_sitemap): those of the host, then, if they name no      *)
(* page, those of places under the URL's own path.                         *)
(***************************************************************************)

(* One sitemap that robots.txt or another sitemap named, or one guessed.   *)
ReadSitemap(m) ==
  /\ pump[m] = "walk"
  /\ walk[m].read < site[m].sitemaps
  /\ \E found \in SUBSET Urls, more \in 0..1 :
       \/ /\ walk[m].listed > 0
          /\ Walks(m, [walk[m] EXCEPT !.read = @ + 1, !.found = @ \union found,
                                      !.listed = @ - 1 + more])
       \/ /\ walk[m].listed = 0 /\ walk[m].guessed > 0
          /\ Walks(m, [walk[m] EXCEPT !.read = @ + 1, !.found = @ \union found,
                                      !.guessed = @ - 1, !.listed = more])
  /\ UNCHANGED <<map, pump, batch, queue, capped, file>>

WalkOver(m) ==
  /\ pump[m] = "walk"
  /\ \/ walk[m].listed + walk[m].guessed = 0
     \/ walk[m].read >= site[m].sitemaps

(* Slip in WalkEnds: the last place's unread sitemaps are forgotten.       *)
WalkEndsQuietly(m) ==
  /\ WalkOver(m)
  /\ walk[m].found # {} \/ walk[m].places = 0
  /\ Does(m, "emit")
  /\ batch' = [batch EXCEPT ![m] = walk[m].found]
  /\ Walks(m, [NoWalk EXCEPT !.after = "end"])
  /\ capped' = [capped EXCEPT ![m] = walk[m].found # {} /\ walk[m].listed > 0]
  /\ UNCHANGED <<map, queue, file>>

(* What the walk left unread is told if it found a page, guesses aside.    *)
WalkEnds(m) ==
  /\ WalkOver(m)
  /\ walk[m].found # {} \/ walk[m].places = 0
  /\ LET cut == walk[m].found # {} /\ walk[m].listed > 0 IN
     /\ Does(m, "emit")
     /\ batch' = [batch EXCEPT ![m] = walk[m].found]
     /\ Walks(m, [NoWalk EXCEPT !.after = IF cut THEN "notice" ELSE "end"])
     /\ capped' = [capped EXCEPT ![m] = cut]
  /\ UNCHANGED <<map, queue, file>>

NextPlace(m) ==
  /\ WalkOver(m)
  /\ walk[m].found = {} /\ walk[m].places > 0
  /\ Walks(m, [NoWalk EXCEPT !.places = walk[m].places - 1, !.listed = 1])
  /\ UNCHANGED <<map, pump, batch, queue, capped, file>>

(***************************************************************************)
(* Feeds (_iter_feeds) and the crawl (_iter_spider), which goes by steps   *)
(* of five pages and looks at the clock between them.                      *)
(***************************************************************************)
Step == 5

FindFeeds(m) ==
  /\ pump[m] = "find"
  /\ \E found \in SUBSET Urls : batch' = [batch EXCEPT ![m] = found]
  /\ Does(m, "emit")
  /\ Walks(m, NoWalk)
  /\ UNCHANGED <<map, queue, capped, file>>

(* read counts the pages, found is what was yielded already.               *)
Crawl(m) ==
  /\ pump[m] = "crawl"
  /\ walk[m].read < site[m].pages /\ ~late[m]
  /\ \E found \in SUBSET Urls, todo \in BOOLEAN :
       LET known == walk[m].found \union found
           more == todo /\ Cardinality(known) < site[m].limit * 5
       IN  /\ batch' = [batch EXCEPT ![m] = known \ walk[m].found]
           /\ Walks(m, [walk[m] EXCEPT !.read = @ + Step, !.found = known,
                                       !.after = IF more THEN "crawl" ELSE "end"])
  /\ Does(m, "emit")
  /\ UNCHANGED <<map, queue, capped, file>>

CrawlEnds(m) ==
  /\ pump[m] = "crawl"
  /\ walk[m].read >= site[m].pages \/ late[m]
  /\ Ends(m)
  /\ UNCHANGED <<map, walk, batch, capped, file>>

(* Discovery that fails ends its stream with what it has yielded.          *)
DiscoveryFails(m) ==
  /\ pump[m] \in {"walk", "find", "crawl"}
  /\ Ends(m)
  /\ UNCHANGED <<map, walk, batch, capped, file>>

Pump(m) ==
  \/ \E u \in Urls : PutUrl(m, u)
  \/ PutLast(m) \/ LookUp(m) \/ Ask(m) \/ Open(m) \/ Fill(m) \/ NotKept(m)
  \/ ReadSitemap(m) \/ WalkEnds(m) \/ NextPlace(m)
  \/ FindFeeds(m) \/ Crawl(m) \/ CrawlEnds(m) \/ DiscoveryFails(m)

(***************************************************************************)
(* The map itself (map_site).                                              *)
(***************************************************************************)
Begins(source) ==
  CASE source = "llmstxt" -> "look"
    [] source = "sitemap" -> "walk"
    [] source = "feeds" -> "find"
    [] source = "spider" -> "crawl"

(* A sitemap walk begins with what robots.txt lists, or with guesses, or   *)
(* with nothing when the site does not answer.                             *)
StartStream(m) ==
  /\ at[m] = "next" /\ turn[m] <= Len(Streams(m))
  /\ at' = [at EXCEPT ![m] = "reading"]
  /\ Does(m, Begins(Source(m)))
  /\ \E listed \in 0..1, guessed \in 0..1 :
       /\ Source(m) = "sitemap" \/ listed + guessed = 0
       /\ listed = 0 \/ guessed = 0
       /\ Walks(m, [NoWalk EXCEPT !.listed = listed, !.guessed = guessed,
                                  !.places = site[m].places])
  /\ UNCHANGED <<site, turn, batch, queue, seen, out, notes, late, capped, file>>

NoStreamLeft(m) ==
  /\ at[m] = "next" /\ turn[m] > Len(Streams(m))
  /\ at' = [at EXCEPT ![m] = "done"]
  /\ UNCHANGED <<site, turn, pump, walk, batch, queue, seen, out, notes, late, capped, file>>

Taking(m, kind) ==
  /\ at[m] = "reading" /\ queue[m] # <<>> /\ Head(queue[m]).kind = kind
  /\ queue' = [queue EXCEPT ![m] = Tail(@)]
  /\ UNCHANGED <<site, pump, walk, batch, late, capped, file>>

(* The guard of a body, at the merge of all sources (_guard_llmstxt).      *)
Guarded(m, body) ==
  IF site[m].screened /\ body.kind = "tainted" THEN [body EXCEPT !.kind = "withheld"] ELSE body

(* The first source of a URL wins.  One more URL than fit is how the map   *)
(* knows that there are more.                                              *)
TakeUrl(m) ==
  /\ Taking(m, "url")
  /\ LET item == Head(queue[m])
         new == item.url \notin seen[m] /\ item.url \notin site[m].exclude
     IN  /\ seen' = [seen EXCEPT ![m] = @ \union {item.url}]
         /\ \/ ~new /\ UNCHANGED <<at, out, notes>>
            \/ /\ new /\ ~Full(m)
               /\ out' = [out EXCEPT ![m] = @ \union
                    {[url |-> item.url, source |-> Source(m), body |-> Guarded(m, item.body)]}]
               /\ UNCHANGED <<at, notes>>
            \/ /\ new /\ Full(m)
               /\ notes' = [notes EXCEPT ![m] = @ \union {"limit"}]
               /\ at' = [at EXCEPT ![m] = "done"]
               /\ UNCHANGED out
  /\ UNCHANGED turn

TakeNotice(m) ==
  /\ Taking(m, "notice")
  /\ notes' = [notes EXCEPT ![m] = @ \union {"sitemaps"}]
  /\ UNCHANGED <<at, turn, seen, out>>

(* With the limit met, no further source is opened.                        *)
TakeEnd(m) ==
  /\ Taking(m, "end")
  /\ turn' = [turn EXCEPT ![m] = @ + 1]
  /\ at' = [at EXCEPT ![m] = IF Full(m) THEN "done" ELSE "next"]
  /\ UNCHANGED <<seen, out, notes>>

(* What a source raised ends the map, with whatever it had found.          *)
TakeError(m) ==
  /\ Taking(m, "error")
  /\ at' = [at EXCEPT ![m] = "failed"]
  /\ UNCHANGED <<turn, seen, out, notes>>

(* Slip in OutOfTime: only a source that yields is held to the deadline.   *)
OutOfTimeOnYield(m) ==
  /\ at[m] = "reading" /\ late[m] /\ pump[m] = "emit" /\ queue[m] = <<>>
  /\ notes' = [notes EXCEPT ![m] = @ \union {"budget"}]
  /\ at' = [at EXCEPT ![m] = "done"]
  /\ UNCHANGED <<site, turn, pump, walk, batch, queue, seen, out, late, capped, file>>

(* Past the deadline the map takes what there is, and waits no more.       *)
OutOfTime(m) ==
  /\ at[m] = "reading" /\ late[m] /\ queue[m] = <<>>
  /\ notes' = [notes EXCEPT ![m] = @ \union {"budget"}]
  /\ at' = [at EXCEPT ![m] = "done"]
  /\ UNCHANGED <<site, turn, pump, walk, batch, queue, seen, out, late, capped, file>>

Deadline(m) ==
  /\ ~late[m] /\ at[m] \notin {"done", "failed"}
  /\ late' = [late EXCEPT ![m] = TRUE]
  /\ UNCHANGED <<site, at, turn, pump, walk, batch, queue, seen, out, notes, capped, file>>

Merge(m) ==
  \/ StartStream(m) \/ NoStreamLeft(m) \/ TakeUrl(m) \/ TakeNotice(m) \/ TakeEnd(m)
  \/ TakeError(m) \/ OutOfTime(m)

MapNext ==
  \/ \E m \in Maps : Pump(m) \/ Merge(m) \/ Deadline(m)
  \/ \E h \in Hosts : Expires(h)

(* A source may never answer; the map's own steps and the clock go on.     *)
MapFairness == \A m \in Maps : WF_mapVars(Merge(m)) /\ WF_mapVars(Deadline(m))

(***************************************************************************)
(* Properties.                                                             *)
(***************************************************************************)

(* A map that says nothing is whole: unless it met its limit exactly, it   *)
(* has read every source to its end, has left no listed sitemap unread     *)
(* that the walk knew of, and has dropped nothing a source yielded but     *)
(* what was excluded.  (A walk that found no page is not told, nor is a    *)
(* crawl that itself stopped for the time.)                                *)
MapIsWhole ==
  \A m \in Maps :
    /\ Cardinality(out[m]) <= site[m].limit
    /\ \A r, s \in out[m] : r.url = s.url => r = s
    /\ at[m] = "done" /\ notes[m] = {} /\ Cardinality(out[m]) < site[m].limit =>
         /\ turn[m] > Len(Streams(m)) /\ ~capped[m]
         /\ {r.url : r \in out[m]} = seen[m] \ site[m].exclude

(* A body that reaches the caller was neither a page nor, as long as the   *)
(* guard is on, tainted, whichever map stored it and whenever.             *)
BodiesAreScreened ==
  \A m \in Maps : \A r \in out[m] :
    r.body.kind # "html" /\ (site[m].screened => r.body.kind # "tainted")

(* A map ends though its sources never answer.                             *)
EveryMapEnds == \A m \in Maps : <>(at[m] \in {"done", "failed"})

(* "When the limit, the budget or the size's sitemap cap cuts discovery    *)
(* short", a final record says so (map_site): a map that says nothing has  *)
(* read every source.                                                      *)
LimitIsTold ==
  \A m \in Maps :
    at[m] = "done" /\ notes[m] = {} /\ site[m].limit > 0 => turn[m] > Len(Streams(m))

(* "Fetch /llms.txt for the given URL's origin" (_fetch_llmstxt).          *)
OutlineIsTheOrigins ==
  \A m \in Maps : \A r \in out[m] : r.body.of = site[m].origin
=============================================================================
