----------------------------- MODULE MCAdapters -----------------------------
(* Adapters with two fetches: every site on its own over small pages, and  *)
(* two fetches of one host, or of one token, where they share memory.      *)
EXTENDS Adapters, TLC

Job(site, kind, facts, page) == [site |-> site, kind |-> kind, facts |-> facts, page |-> page]
NoPage == [ended |-> FALSE]
Api(site, kinds, facts) == {Job(site, k, s, NoPage) : k \in kinds, s \in SUBSET facts}
Of(site, kind, pages) == {Job(site, kind, {}, p) : p \in pages}

UpTo(S, n) == UNION {[1..k -> S] : k \in 0..n}

(* The sort and the filter of Ordered are those of the standard modules.   *)
ASSUME OrderedAgrees ==
  \A s \in UpTo(1..3, 4) :
    /\ Sorted(s) = SortSeq(s, <)
    /\ Only(s, LAMBDA x : x > 1) = SelectSeq(s, LAMBDA x : x > 1)

SteamJobs == Api("steam", {"app"}, {"key"}) \union Api("steam", {"search"}, {})
GitHubJobs == Api("github", {"repo"}, {"archived"})
NpmJobs == Api("npm", {"package"},
               {"readme", "repository", "old_version", "unknown_version", "deprecated"})
PhabricatorJobs == Api("phabricator", {"task", "search"}, {})
WikimediaJobs == Api("wikimedia", {"article"}, {"beta", "outline", "text"})
ScholarJobs ==
  Api("scholar", {"doi"}, {"email", "open", "pdf", "full_text"})
    \union Api("scholar", {"pii"}, {"retracted", "abstract", "pmc_pdf"})
YouTubeJobs ==
  Api("youtube", {"video"}, {"captions", "description", "all_sponsored"})
    \union Api("youtube", {"list", "unknown"}, {})
WaybackJobs == Api("wayback", {"snapshot"}, {"path"})

Card(i) == [id |-> i]
AmazonPages == {[grid |-> g, cards |-> [n \in DOMAIN s |-> Card(s[n])]] :
                  g \in BOOLEAN, s \in UpTo(0..2, 3)}
Amounts == {[currency |-> c, value |-> v] : c \in {"USD", "BRL"}, v \in 0..2}
AmazonProducts == [spine : BOOLEAN, price : Amounts, listed : Amounts, store : {"USD"}]
AliExpressProducts == [fields : BOOLEAN, reviews : {"zeros", "some"}]

Entry(named, paid, covers, score) ==
  [named |-> named, paid |-> paid, covers |-> covers, score |-> score]
Entries == {Entry(TRUE, FALSE, 0, 1), Entry(TRUE, FALSE, 1, 0), Entry(TRUE, FALSE, 1, 1),
            Entry(FALSE, FALSE, 1, 1), Entry(TRUE, TRUE, 1, 0)}
Relevance == [relevance : BOOLEAN, drop : BOOLEAN, least : {1}]
MercadoLivrePages ==
  [data : UpTo({Entry(TRUE, FALSE, 1, 0)}, 1), cards : UpTo(Entries, 2), query : BOOLEAN,
   options : {[relevance |-> TRUE, drop |-> FALSE, least |-> 1]}, ended : {FALSE}]
    \union [data : UpTo(Entries, 3), cards : {<<>>}, query : {TRUE},
            options : Relevance, ended : {FALSE}]
MercadoLivreProducts ==
  [data : UpTo({[id |-> 9]}, 1), variants : UpTo({Card(1), Card(2)}, 2),
   wanted : 1..3, ended : BOOLEAN]

Ads == {[named |-> TRUE, state |-> s] : s \in {"none", "sp", "rj"}}
         \union {[named |-> FALSE, state |-> "sp"]}
OlxPages ==
  [arrays : {<<a>> : a \in UpTo(Ads, 2)} \union {<<<<x>>, <<x, x>>>> : x \in Ads},
   cards : {<<>>}, older : {"none"}, state : {"none", "sp"}]
    \union [arrays : {<<>>}, cards : UpTo(Ads, 2), older : {"none", "malformed", "there"},
            state : {"none", "sp"}]
OlxProducts == [spine : BOOLEAN, offer : BOOLEAN]

PetlovePages ==
  [grid : BOOLEAN, data : UpTo({[named |-> TRUE], [named |-> FALSE]}, 2),
   cards : UpTo({[named |-> TRUE], [named |-> FALSE]}, 1)]
Variants == {[price |-> p, stock |-> s] : p \in 0..2, s \in {"in", "out"}}
PetloveProducts ==
  [grid : {TRUE}, spine : {FALSE}, variants : UpTo(Variants, 2), price : {0}, stock : {"out"}]
    \union [grid : {FALSE}, spine : BOOLEAN, variants : {<<>>}, price : 0..1,
            stock : {"in", "out"}]

ShopeeProducts == [spine : BOOLEAN, id : {1}]
RealEstatePages == [grid : BOOLEAN, data : UpTo({[named |-> TRUE], [named |-> FALSE]}, 2)]
RealEstateProducts == [spine : BOOLEAN]

Offer(label, title, store, price) ==
  [label |-> label, title |-> title, store |-> store, price |-> price]
Labels == {Offer("offer", t, s, p) : t \in {"a", "b"}, s \in {"x", "y"}, p \in 1..2}
            \union {Offer(l, "a", "x", 1) : l \in {"partial", "used", "abroad"}}
(* Nine prices that do not fall, all of one product and of its own store.  *)
Rising == {s \in [1..9 -> {1, 2, 9}] : \A i \in 1..8 : s[i] <= s[i + 1]}
Offering(s) == [n \in DOMAIN s |-> Offer("offer", "a", n, s[n])]
ShoppingPages ==
  [cards : UpTo(Labels, 2) \union {<<a, b, c>> : a, b, c \in
             {Offer("offer", t, "x", p) : t \in {"a", "b"}, p \in 1..2}}
             \union {Offering(s) : s \in Rising},
   rewritten : BOOLEAN]

PageJobs ==
  Of("amazon", "search", AmazonPages) \union Of("amazon", "product", AmazonProducts)
    \union Of("aliexpress", "search", AmazonPages)
    \union Of("aliexpress", "product", AliExpressProducts)
    \union Of("mercadolivre", "search", MercadoLivrePages)
    \union Of("mercadolivre", "product", MercadoLivreProducts)
    \union Of("olx", "search", OlxPages) \union Of("olx", "product", OlxProducts)
    \union Of("petlove", "search", PetlovePages) \union Of("petlove", "product", PetloveProducts)
    \union Of("shopee", "product", ShopeeProducts)
    \union Of("realestate", "search", RealEstatePages)
    \union Of("realestate", "product", RealEstateProducts)
    \union Of("google_shopping", "search", ShoppingPages)

ShopifyJobs == Api("shopify", {"product", "collection"}, {"static"})
GitLabJobs ==
  Api("gitlab", {"project"}, {"static", "hinted", "readme_url"})
    \union Api("gitlab", {"thread"}, {"static"})

Hubs == Api("olx", {"hub"}, {}) \union Api("realestate", {"unknown"}, {})
Alone == Job("none", "none", {}, NoPage)
Both(first, second) == [f1 |-> first, f2 |-> second]

MCFetches == {"f1", "f2"}
Single == {Both(j, Alone) :
             j \in SteamJobs \union GitHubJobs \union NpmJobs \union PhabricatorJobs
                     \union ScholarJobs \union YouTubeJobs \union WaybackJobs
                     \union WikimediaJobs \union ShopifyJobs \union GitLabJobs
                     \union Hubs \union PageJobs}

Product == Job("shopify", "product", {}, NoPage)
Thread == Job("gitlab", "thread", {}, NoPage)
Project == Job("gitlab", "project", {"hinted", "readme_url"}, NoPage)
Article == Job("wikimedia", "article", {"text"}, NoPage)
Pairs ==
  {Both(Product, Product), Both(Product, Job("shopify", "collection", {}, NoPage)),
   Both(Project, Project), Both(Project, Thread), Both(Article, Article)}
MCMixes == Single \union Pairs
=============================================================================
