------------------------------ MODULE Adapters ------------------------------
(***************************************************************************)
(* The content adapters of one process at work (vasco/adapters): a fetch   *)
(* asks for what its site needs, waits for the answers, which come in any  *)
(* order, asks for more or ends with an outcome.  Listings and Apis hold   *)
(* what each site asks for and concludes; this module holds the waiting,   *)
(* and the memory that the fetches share: the verdicts of the probes       *)
(* (_probe_memo and the table adapter_probe), the currency of a shop       *)
(* (_currency_memo) and the token of Wikimedia Enterprise.                 *)
(*                                                                         *)
(* When the last awaited answer comes the code runs on to its next await,  *)
(* so that taking the answer, remembering and asking again is one step.    *)
(* One host is probed for each of the two platforms.                       *)
(*                                                                         *)
(* Left out: times; a deadline shows as an answer that is late.  The table *)
(* is read and written best effort, and a verdict in it expires.           *)
(***************************************************************************)
EXTENDS Apis, Integers

CONSTANTS
  Fetches,
  Mixes,      \* what the fetches may be asked together
  Restarts    \* bound for TLC: how often the process restarts

Probed == {"gitlab", "shopify"}
PageSites == {"amazon", "mercadolivre", "olx", "petlove", "aliexpress", "shopee",
              "realestate", "google_shopping"}
AdapterSites == Probed \union PageSites
           \union {"steam", "github", "npm", "phabricator", "wikimedia", "scholar",
                   "youtube", "wayback"}

(* The pages of searches that are parsed into lists: what their entries    *)
(* are compared by.                                                        *)
Parsed(entries) == entries \in Seq({entries[i] : i \in DOMAIN entries})
Priced(entries) == \A i \in DOMAIN entries : entries[i].price \in Nat
Weighed(entries) ==
  \A i \in DOMAIN entries : entries[i].covers \in Nat /\ entries[i].score \in Int
SearchPage(j) ==
  CASE j.site \in {"amazon", "aliexpress"} -> Parsed(j.page.cards)
    [] j.site = "mercadolivre" ->
         /\ Parsed(j.page.data) /\ Weighed(j.page.data)
         /\ Parsed(j.page.cards) /\ Weighed(j.page.cards)
         /\ j.page.options.least \in Nat
    [] j.site = "google_shopping" -> Parsed(j.page.cards) /\ Priced(j.page.cards)
    [] OTHER -> TRUE

ASSUME AdaptersAssumption ==
  /\ IsFiniteSet(Fetches) /\ Restarts \in Nat
  /\ \A m \in Mixes :
       /\ DOMAIN m = Fetches
       /\ \A f \in Fetches :
            /\ m[f].site \in AdapterSites \union {"none"}
            /\ m[f].kind = "search" => SearchPage(m[f])

VARIABLES
  job,      \* what each fetch is asked: site (none: it is not made), kind,
            \* facts, page
  pc,       \* new, waiting, ended, or dead with its process
  left,     \* the parts asked for and not answered
  got,      \* the answers
  probe,    \* the fetch is a probe
  env,      \* the outcome
  verdict,  \* _probe_memo
  table,    \* adapter_probe
  money,    \* _currency_memo
  token,    \* a token of Wikimedia Enterprise is held
  restarts

adapterVars == <<job, pc, left, got, probe, env, verdict, table, money, token, restarts>>
memory == <<verdict, table, money, token>>

Verdicts == {"unknown", "yes", "no"}
NoOutcome == Fails("none")
Nothing(outcome) == outcome.reason = NoOutcome.reason
NoAnswers == [p \in {} |-> "none"]

AdapterTypeOK ==
  /\ job \in Mixes
  /\ pc \in [Fetches -> {"new", "waiting", "ended", "dead"}]
  /\ probe \in [Fetches -> BOOLEAN]
  /\ \A f \in Fetches :
       /\ left[f] \intersect DOMAIN got[f] = {}
       /\ (pc[f] = "waiting") <=> (left[f] # {})
       /\ (pc[f] = "ended") <=> ~Nothing(env[f])
  /\ verdict \in [Probed -> Verdicts] /\ table \in [Probed -> Verdicts]
  /\ money \in {"unasked", "none", "known"}
  /\ token \in BOOLEAN
  /\ restarts \in 0..Restarts

AdapterInit ==
  /\ job \in Mixes
  /\ pc = [f \in Fetches |-> IF job[f].site = "none" THEN "dead" ELSE "new"]
  /\ left = [f \in Fetches |-> {}]
  /\ got = [f \in Fetches |-> NoAnswers]
  /\ probe = [f \in Fetches |-> FALSE]
  /\ env = [f \in Fetches |-> NoOutcome]
  /\ verdict = [s \in Probed |-> "unknown"]
  /\ table = [s \in Probed |-> "unknown"]
  /\ money = "unasked" /\ token = FALSE /\ restarts = 0

(***************************************************************************)
(* What is asked for, by site.                                             *)
(***************************************************************************)

(* A url of a shape no fetch can serve is refused without one: the hubs of *)
(* OLX, the feeds of YouTube, a real-estate site that is not known.        *)
Refusal(j) ==
  CASE j.kind = "hub" -> Fails("CATEGORY_LANDING")
    [] j.kind = "unknown" -> Fails("INVALID_URL")
    [] OTHER -> NoOutcome

FirstParts(j, held) ==
  CASE j.site = "steam" -> SteamParts(j)
    [] j.site = "npm" -> {"main", "downloads"}
    [] j.site = "gitlab" -> GitLabParts(j)
    [] j.site = "wikimedia" -> WikimediaParts(held)
    [] j.site = "scholar" -> ScholarParts(j)
    [] OTHER -> {"main"}

(* The reviews of an AliExpress product come after its page, walled or not.*)
AliExpressThen(j, g) ==
  IF j.kind = "product" /\ "reviews" \notin DOMAIN g /\ g["main"] \notin TierRaises
  THEN {"reviews"} ELSE {}

ShopifyThen(j, g, coin) ==
  IF ShopifyIsOne(j, g["main"]) /\ "currency" \notin DOMAIN g /\ coin = "unasked"
  THEN {"currency"} ELSE {}

NextParts(j, g, coin) ==
  CASE j.site = "github" -> GitHubThen(g)
    [] j.site = "npm" -> NpmThen(j, g) \ DOMAIN g
    [] j.site = "gitlab" -> GitLabThen(j, g) \ DOMAIN g
    [] j.site = "shopify" -> ShopifyThen(j, g, coin)
    [] j.site = "wikimedia" -> WikimediaThen(j, g)
    [] j.site = "scholar" -> ScholarThen(j, g)
    [] j.site = "youtube" -> YouTubeThen(j, g)
    [] j.site = "wayback" -> WaybackThen(j, g)
    [] j.site = "aliexpress" -> AliExpressThen(j, g)
    [] OTHER -> {}

(* While others are awaited: the game of a price history is followed up,   *)
(* and what was asked for together with a part that failed is given up.    *)
Along(part, a) == IF part = "game" /\ a = "good" THEN {"low", "history"} ELSE {}
GivenUp(j, part, a) ==
  CASE part \in {"low", "history"} /\ a \in WebRaises -> {"low", "history"}
    [] part = "captions" /\ a \in YtDlpFails -> {"segments"}
    [] part = "segments" /\ a = "late" -> {"captions"}
    [] OTHER -> {}

(***************************************************************************)
(* What may be answered.  Of what is only best effort, one answer of each  *)
(* kind its reader tells apart.                                            *)
(***************************************************************************)
Extra == {"good", "other", "late"}
WebExtra == {"good", "none", "timeout"}
Request == {"good", "none", "rejected", "unavailable"}

MainAnswers(j) ==
  CASE j.site \in PageSites -> {"good", "void"} \union (Tier \ TierOk)
    [] j.site \in {"steam", "shopify", "phabricator"} -> Tier
    [] j.site \in {"github", "npm", "gitlab"} -> Web \ {"none"}
    [] j.site = "youtube" -> IF j.kind = "video" THEN YtDlp \ {"none", "other"} ELSE YtDlp
    [] OTHER -> WebExtra
Answers(j, part) ==
  CASE part = "main" -> MainAnswers(j)
    [] part \in {"reviews", "players", "currency"} /\ j.site # "aliexpress" -> Extra
    [] part \in {"token", "redirect", "structured_token", "article_token"} -> {"good", "none"}
    [] part \in {"structured", "structured_again", "article", "article_again"} -> Request
    [] part = "captions" -> YtDlp \ {"other"}
    [] part = "segments" -> WebExtra \union {"absent", "late"}
    [] OTHER -> WebExtra

(***************************************************************************)
(* What is concluded, by site.                                             *)
(***************************************************************************)
AmazonFetch(j) ==
  IF j.kind = "search" THEN AmazonSearch(j.page) ELSE AmazonProduct(j.page, j.page.store)
MercadoLivreFetch(j) ==
  IF j.kind = "search" THEN MercadoLivreSearch(j.page, j.page.query, j.page.options)
  ELSE MercadoLivreProduct(j.page, j.page.wanted)
OlxFetch(j) ==
  IF j.kind = "search" THEN OlxListing(j.page, j.page.state) ELSE OlxDetail(j.page)
PetloveFetch(j) ==
  IF j.kind = "search" THEN PetloveSearch(j.page) ELSE PetloveProduct(j.page)
RealEstateFetch(j) ==
  IF j.kind = "search" THEN RealEstateList(j.page) ELSE RealEstateDetail(j.page)

PageOutcome(j) ==
  CASE j.site = "amazon" -> AmazonFetch(j)
    [] j.site = "mercadolivre" -> MercadoLivreFetch(j)
    [] j.site = "olx" -> OlxFetch(j)
    [] j.site = "petlove" -> PetloveFetch(j)
    [] j.site = "realestate" -> RealEstateFetch(j)
    [] j.site = "aliexpress" -> AliExpressSearch(j.page)
    [] j.site = "shopee" -> ShopeeProduct(j.page)
    [] j.site = "google_shopping" -> GoogleShopping(j.page, j.page.rewritten)

(* A walled search is the wall's reason, a walled product may have reviews.*)
AliExpressOutcome(j, g) ==
  LET a == g["main"]
      reviews == IF g["reviews"] = "good" THEN j.page.reviews ELSE "none"
  IN  IF a \in TierRaises THEN Fails(RaisedReason(a))
      ELSE AliExpressProduct(~Acquired(a), TierReason(a), j.page.fields, reviews)

PageResult(j, g) ==
  IF j.site = "aliexpress" /\ j.kind = "product" THEN AliExpressOutcome(j, g)
  ELSE IF Acquired(g["main"]) THEN PageOutcome(j) ELSE NotAcquired(g["main"])

Result(j, g, asProbe, coin) ==
  CASE j.site = "steam" -> SteamResult(j, g)
    [] j.site = "github" -> GitHubResult(j, g)
    [] j.site = "npm" -> NpmResult(j, g)
    [] j.site = "gitlab" -> GitLabResult(asProbe, g)
    [] j.site = "shopify" -> ShopifyResult(j, asProbe, g, coin)
    [] j.site = "phabricator" -> PhabricatorResult(j, g)
    [] j.site = "wikimedia" -> WikimediaResult(j, g)
    [] j.site = "scholar" -> ScholarResult(j, g)
    [] j.site = "youtube" -> YouTubeResult(j, g)
    [] j.site = "wayback" -> WaybackResult(g)
    [] OTHER -> PageResult(j, g)

(***************************************************************************)
(* What is remembered.                                                     *)
(***************************************************************************)

(* _probe_state: the memo, then the table, which seeds the memo.           *)
Seen(s, readable) ==
  IF verdict[s] # "unknown" THEN verdict[s]
  ELSE IF readable THEN table[s] ELSE "unknown"

(* is_..._candidate: a bare project counts on the host of a forge only.    *)
Candidate(j) == j.site = "shopify" \/ j.kind = "thread" \/ "hinted" \in j.facts

(* The verdict of a platform is reached with the answer that decides, not  *)
(* again with what is asked for afterwards.                                *)
Learned(j, asProbe, g) ==
  CASE j.site = "gitlab" /\ asProbe /\ "readme" \notin DOMAIN g -> GitLabVerdict(g["main"])
    [] /\ j.site = "shopify" /\ "static" \notin j.facts
       /\ "currency" \notin DOMAIN g -> ShopifyVerdict(j, asProbe, g["main"])
    [] OTHER -> "unknown"

Remember(s, v) ==
  IF v = "unknown" THEN UNCHANGED <<verdict, table>>
  ELSE /\ verdict' = [verdict EXCEPT ![s] = v]
       /\ table' \in {table, [table EXCEPT ![s] = v]}

Currency(part, a) ==
  IF part # "currency" THEN money ELSE IF a = "good" THEN "known" ELSE "none"

Token(part, a) ==
  CASE part \in {"token", "structured_token", "article_token"} -> a = "good"
    [] part \in {"structured", "article"} /\ a = "rejected" -> FALSE
    [] OTHER -> token

(***************************************************************************)
(* Steps.                                                                  *)
(***************************************************************************)
RefuseShape(f) ==
  /\ pc[f] = "new" /\ ~Nothing(Refusal(job[f]))
  /\ pc' = [pc EXCEPT ![f] = "ended"]
  /\ env' = [env EXCEPT ![f] = Refusal(job[f])]
  /\ UNCHANGED <<job, left, got, probe, memory, restarts>>

Sends(f) ==
  /\ left' = [left EXCEPT ![f] = FirstParts(job[f], token)]
  /\ pc' = [pc EXCEPT ![f] = "waiting"]
  /\ UNCHANGED <<job, got, env, money, token, restarts>>

Start(f) ==
  /\ pc[f] = "new" /\ Nothing(Refusal(job[f]))
  /\ job[f].site \notin Probed \/ "static" \in job[f].facts
  /\ Sends(f)
  /\ UNCHANGED <<probe, verdict, table>>

(* A host of a platform that is not known for it: by the verdict.          *)
StartByVerdict(f) ==
  /\ pc[f] = "new" /\ job[f].site \in Probed /\ "static" \notin job[f].facts
  /\ \E readable \in BOOLEAN :
       LET s == job[f].site
           v == Seen(s, readable)
       IN  /\ v = "yes" \/ (v = "unknown" /\ Candidate(job[f]))
           /\ verdict' = [verdict EXCEPT ![s] = v]
           /\ probe' = [probe EXCEPT ![f] = v = "unknown"]
  /\ Sends(f)
  /\ UNCHANGED table

PassBy(f) ==
  /\ pc[f] = "new" /\ job[f].site \in Probed /\ "static" \notin job[f].facts
  /\ \E readable \in BOOLEAN :
       LET s == job[f].site
           v == Seen(s, readable)
       IN  /\ v = "no" \/ (v = "unknown" /\ ~Candidate(job[f]))
           /\ verdict' = [verdict EXCEPT ![s] = v]
  /\ pc' = [pc EXCEPT ![f] = "ended"]
  /\ env' = [env EXCEPT ![f] = Declines]
  /\ UNCHANGED <<job, left, got, probe, table, money, token, restarts>>

With(f, part, a) ==
  [p \in DOMAIN got[f] \union {part} |-> IF p \in DOMAIN got[f] THEN got[f][p] ELSE a]
Still(f, part, a) ==
  ((left[f] \ {part}) \union Along(part, a)) \ GivenUp(job[f], part, a)

Take(f, part, a) ==
  /\ pc[f] = "waiting" /\ part \in left[f]
  /\ got' = [got EXCEPT ![f] = With(f, part, a)]
  /\ token' = Token(part, a)

(* An answer while others are awaited.                                     *)
Answered(f) ==
  /\ \E part \in left[f] : \E a \in Answers(job[f], part) :
       /\ Take(f, part, a)
       /\ Still(f, part, a) # {}
       /\ left' = [left EXCEPT ![f] = Still(f, part, a)]
  /\ UNCHANGED <<job, pc, probe, env, verdict, table, money, restarts>>

(* The last one, after which there is more to ask.                         *)
AskMore(f) ==
  /\ \E part \in left[f] : \E a \in Answers(job[f], part) :
       LET more == NextParts(job[f], With(f, part, a), money) IN
       /\ Take(f, part, a)
       /\ Still(f, part, a) = {} /\ more # {}
       /\ left' = [left EXCEPT ![f] = more]
       /\ Remember(job[f].site, Learned(job[f], probe[f], With(f, part, a)))
  /\ UNCHANGED <<job, pc, probe, env, money, restarts>>

End(f) ==
  /\ \E part \in left[f] : \E a \in Answers(job[f], part) :
       LET g == With(f, part, a) IN
       /\ Take(f, part, a)
       /\ Still(f, part, a) = {} /\ NextParts(job[f], g, money) = {}
       /\ money' = Currency(part, a)
       /\ env' = [env EXCEPT ![f] = Result(job[f], g, probe[f], Currency(part, a))]
       /\ Remember(job[f].site, Learned(job[f], probe[f], g))
  /\ left' = [left EXCEPT ![f] = {}]
  /\ pc' = [pc EXCEPT ![f] = "ended"]
  /\ UNCHANGED <<job, probe, restarts>>

(* The process ends and starts again: fetches and memory are lost, the     *)
(* table is not.                                                           *)
Restart ==
  /\ restarts < Restarts /\ restarts' = restarts + 1
  /\ pc' = [f \in Fetches |-> IF pc[f] = "waiting" THEN "dead" ELSE pc[f]]
  /\ left' = [f \in Fetches |-> {}]
  /\ verdict' = [s \in Probed |-> "unknown"]
  /\ money' = "unasked" /\ token' = FALSE
  /\ UNCHANGED <<job, got, probe, env, table>>

Expire(s) ==
  /\ table[s] # "unknown"
  /\ table' = [table EXCEPT ![s] = "unknown"]
  /\ UNCHANGED <<job, pc, left, got, probe, env, verdict, money, token, restarts>>

(* The token runs out.                                                     *)
Lapse ==
  /\ token /\ token' = FALSE
  /\ UNCHANGED <<job, pc, left, got, probe, env, verdict, table, money, restarts>>

AdapterStep(f) ==
  \/ RefuseShape(f) \/ Start(f) \/ StartByVerdict(f) \/ PassBy(f)
  \/ Answered(f) \/ AskMore(f) \/ End(f)

AdapterNext ==
  \/ \E f \in Fetches : AdapterStep(f)
  \/ Restart
  \/ \E s \in Probed : Expire(s)
  \/ Lapse

(* A request has a timeout of its own, so that each is answered.           *)
AdapterSpec ==
  /\ AdapterInit /\ [][AdapterNext]_adapterVars
  /\ \A f \in Fetches : WF_adapterVars(AdapterStep(f))

(***************************************************************************)
(* Properties.                                                             *)
(***************************************************************************)
Ended(f) == pc[f] = "ended"
Answer(f, part) == IF part \in DOMAIN got[f] THEN got[f][part] ELSE "unasked"

(* What was asked for is what the envelope is: when the part that decides  *)
(* has been answered with what it should hold, the fetch succeeds whatever *)
(* the other parts did, however they came.  (The captions of a video decide *)
(* too, and share a deadline with the segments.)                           *)
MainDecides ==
  \A f \in Fetches :
    /\ Ended(f)
    /\ \/ /\ job[f].site \in {"steam", "github", "gitlab", "shopify"}
          /\ Answer(f, "main") = "good"
       \/ /\ job[f].site = "npm" /\ Answer(f, "main") = "good"
          /\ "unknown_version" \notin job[f].facts
       \/ job[f].site = "scholar" /\ \E s \in ScholarBase : Answer(f, s) = "good"
       \/ /\ job[f].site = "wikimedia" /\ "text" \in job[f].facts
          /\ "good" \in {Answer(f, "article"), Answer(f, "article_again")}
    => env[f].reason = "ok"

(* NOT_FOUND is kept for about a day, so an envelope says it only when     *)
(* somebody has said so: an answer, or a page that tells that its ad has   *)
(* ended.                                                                  *)
Told404(f) ==
  \/ \E p \in DOMAIN got[f] : got[f][p] \in Absent \union {"none", "not_found", "gone"}
  \/ "unknown_version" \in job[f].facts
  \/ job[f].site = "mercadolivre" /\ job[f].page.ended
NotFoundIsTold ==
  \A f \in Fetches : Ended(f) /\ env[f].reason = "NOT_FOUND" => Told404(f)

(* The same of all adapters but two: scholar takes a source that cannot be *)
(* reached for one that knows nothing, gitlab takes any message for 404.   *)
NotFoundIsToldElsewhere ==
  \A f \in Fetches :
    Ended(f) /\ env[f].reason = "NOT_FOUND" /\ job[f].site \notin {"scholar", "gitlab"}
    => Told404(f)

(* A fetch that only probes a host never fails the url: it succeeds, or    *)
(* leaves the page to the tiers; and a host that answered as the platform  *)
(* is not passed by, whatever was remembered by others in the meantime.    *)
ProbeNeverFails ==
  \A f \in Fetches :
    Ended(f) /\ probe[f] =>
      /\ env[f].reason \in {"ok", "declined"}
      /\ Answer(f, "main") = "good" => env[f].reason = "ok"

(* A listing is the page it was read from.                                 *)
Ids(entries) == {entries[i].id : i \in DOMAIN entries}
EachOnce(page, found) ==
  /\ Ids(found) = Ids(page.cards) \ {0}
  /\ Len(found) = Cardinality(Ids(found))
ByCoverage(page, found, dropped) ==
  /\ Len(found) + dropped = Len(MercadoLivreFound(page))
  /\ \A i, j \in DOMAIN found : i < j /\ page.query /\ page.options.relevance
                                => found[i].covers >= found[j].covers
Offered(groups) ==
  UNION {{<<groups[n].title, groups[n].sellers[k].store, groups[n].sellers[k].price>> :
            k \in DOMAIN groups[n].sellers} : n \in DOMAIN groups}
GroupsOf(page, groups) ==
  LET offers == Offers(page.cards) IN
  /\ Offered(groups) \subseteq {<<offers[i].title, offers[i].store, offers[i].price>> :
                                  i \in DOMAIN offers}
  /\ offers # <<>> => groups # <<>>
  /\ Len(offers) < OutlierLeast =>
       \A i \in DOMAIN offers :
         <<offers[i].title, offers[i].store, offers[i].price>> \in Offered(groups)
  /\ \A n \in DOMAIN groups :
       /\ \A k \in DOMAIN groups[n].sellers : groups[n].price <= groups[n].sellers[k].price
       /\ groups[n].price = groups[n].sellers[1].price
       /\ \A m \in DOMAIN groups : groups[m].title = groups[n].title => m = n

(* Every usable entry of a page is in its listing, once; an ordering by    *)
(* relevance loses none unless it says how many; and the offers of a       *)
(* product are those of the page that carry its title, the cheapest first, *)
(* with something left of them whatever the prices are.                    *)
ListingIsPage ==
  \A f \in Fetches :
    Ended(f) /\ env[f].reason = "ok" /\ job[f].kind = "search" =>
      CASE job[f].site \in {"amazon", "aliexpress"} -> EachOnce(job[f].page, env[f].found)
        [] job[f].site = "mercadolivre" ->
             ByCoverage(job[f].page, env[f].found, env[f].dropped)
        [] job[f].site = "google_shopping" -> GroupsOf(job[f].page, env[f].found)
        [] OTHER -> TRUE

(* Every fetch ends, unless its process does.                              *)
EveryAdapterEnds == \A f \in Fetches : <>(pc[f] \in {"ended", "dead"})
=============================================================================
