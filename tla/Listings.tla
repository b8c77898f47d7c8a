------------------------------ MODULE Listings ------------------------------
(***************************************************************************)
(* What the adapters of the shop and listing sites make of a page          *)
(* (vasco/adapters: amazon, mercadolivre, olx, petlove, aliexpress,        *)
(* shopee, realestate, google_shopping).  Operators only: Adapters calls   *)
(* them when the page has come.                                            *)
(*                                                                         *)
(* A page is a record of the anchors the parser looks for and of the       *)
(* entries behind them, in their order on the page:                        *)
(*   grid      the element that holds the results is there                 *)
(*   data      entries of the structured data                              *)
(*   cards     entries that are only rendered, or in a second place        *)
(*   variants  the variants of one product                                 *)
(*   spine     the element a product page cannot do without                *)
(* and an entry a record of what decides on it: its id (0: none), whether  *)
(* it is named (a title and a link), and what else its site looks at.      *)
(* Titles, images and the other fields that are copied are left out.       *)
(***************************************************************************)
EXTENDS Ordered, FiniteSetsExt

(* An outcome: the reason, the entries found, the warnings, how many       *)
(* entries were taken out on purpose, and, of an API, the parts it gives.  *)
Outcome(why, found, warnings, dropped) ==
  [reason |-> why, found |-> found, warnings |-> warnings, dropped |-> dropped,
   parts |-> {}]
Fails(why) == Outcome(why, <<>>, {}, 0)
Rot == Fails("PARSE_FAILED")
One(entry) == Outcome("ok", <<entry>>, {}, 0)
Listing(found, warnings) ==
  Outcome("ok", found, warnings \union (IF found = <<>> THEN {"no_results"} ELSE {}), 0)

(* Slip in FirstOfEach: an entry is compared with the one before it only.*)
FirstOfRun(entries) ==
  At(entries, {i \in DOMAIN entries :
                 /\ entries[i].id # 0
                 /\ i > 1 => entries[i - 1].id # entries[i].id})

(* The entries with an id, each id once, the first one kept.               *)
FirstOfEach(entries) ==
  At(entries, {i \in DOMAIN entries :
                 /\ entries[i].id # 0
                 /\ \A j \in 1..(i - 1) : entries[j].id # entries[i].id})

Named(entries) == Only(entries, LAMBDA e : e.named)

(***************************************************************************)
(* Amazon: cards, or the container of a search without results; a product  *)
(* page by its title.  A list price counts when it is above the price, and *)
(* an amount of another currency is no price.                              *)
(***************************************************************************)
AmazonSearch(page) ==
  IF page.cards = <<>> /\ ~page.grid THEN Rot
  ELSE Listing(FirstOfEach(page.cards), {})

OwnMoney(store, amount) == IF amount.currency = store THEN amount.value ELSE 0
ListPrice(original, price) ==
  IF original > price /\ price # 0 THEN original ELSE 0

AmazonProduct(page, store) ==
  IF ~page.spine THEN Rot
  ELSE LET price == OwnMoney(store, page.price)
       IN  One([price |-> price,
                list |-> ListPrice(OwnMoney(store, page.listed), price)])

(***************************************************************************)
(* MercadoLivre: the structured products, or else the rendered cards, of   *)
(* which paid ones go through a click tracker and are left out.            *)
(***************************************************************************)
MercadoLivreFound(page) ==
  IF page.data # <<>> THEN Named(page.data)
  ELSE Only(page.cards, LAMBDA e : e.named /\ ~e.paid)

(* _apply_relevance: by the words of the query the entry covers, then by   *)
(* its score, then in the order of the page.                               *)
Ahead(entries, i, j) ==
  \/ entries[i].covers > entries[j].covers
  \/ entries[i].covers = entries[j].covers /\ entries[i].score > entries[j].score
  \/ /\ entries[i].covers = entries[j].covers /\ entries[i].score = entries[j].score
     /\ i < j
OffQuery(entries, least) == {i \in DOMAIN entries : entries[i].covers < least}
ByRelevance(entries, drop, least) ==
  LET kept == IF drop THEN DOMAIN entries \ OffQuery(entries, least) ELSE DOMAIN entries
  IN  InOrder(entries, kept, {p \in kept \X kept : Ahead(entries, p[1], p[2])})

MercadoLivreSearch(page, query, options) ==
  LET found == MercadoLivreFound(page)
      off == OffQuery(found, options.least)
      filters == query /\ options.relevance /\ found # <<>>
      kept == IF filters THEN ByRelevance(found, options.drop, options.least) ELSE found
      dropped == IF filters /\ options.drop THEN Cardinality(off) ELSE 0
  IN  IF page.data = <<>> /\ page.cards = <<>> THEN Rot
      ELSE Outcome("ok", kept,
                   IF kept # <<>> THEN {}
                   ELSE IF dropped > 0 THEN {"all_off_query"} ELSE {"no_results"},
                   dropped)

(* An ad that has ended is answered with a listing of its category.        *)
MercadoLivreProduct(page, wanted) ==
  LET asked == {i \in DOMAIN page.variants : page.variants[i].id = wanted}
  IN  IF page.data # <<>> THEN One(page.data[1])
      ELSE IF page.variants # <<>>
      THEN One(page.variants[IF asked # {} THEN Min(asked) ELSE 1])
      ELSE Fails(IF page.ended THEN "NOT_FOUND" ELSE "PARSE_FAILED")

(***************************************************************************)
(* OLX: the longest of the arrays in the page's stream, where the ad slots *)
(* have no subject; without an array there, the older data, in which a     *)
(* missing list reads as an empty one.                                     *)
(***************************************************************************)
Longest(arrays) ==
  arrays[Min({i \in DOMAIN arrays : \A j \in DOMAIN arrays : Len(arrays[j]) <= Len(arrays[i])})]

(* Most of the entries that tell their state are of another one than the   *)
(* url asks for.                                                           *)
LocationIgnored(found, state) ==
  LET told == Only(found, LAMBDA e : e.state # "none")
      there == Only(told, LAMBDA e : e.state = state)
  IN  state # "none" /\ told # <<>> /\ 2 * Len(there) < Len(told)

OlxListing(page, state) ==
  LET found == IF page.arrays # <<>> THEN Named(Longest(page.arrays)) ELSE page.cards
  IN  IF page.arrays = <<>> /\ page.older # "there" THEN Rot
      ELSE Listing(found, IF LocationIgnored(found, state)
                          THEN {"location_not_applied"} ELSE {})

OlxDetail(page) ==
  IF page.spine THEN One([from |-> "initial-data"])
  ELSE IF page.offer THEN One([from |-> "json-ld"])
  ELSE Rot

(***************************************************************************)
(* Petlove: the products of the item list, or those on their own; a        *)
(* product is a group of variants or a single one.                         *)
(***************************************************************************)
PetloveSearch(page) ==
  IF ~page.grid /\ page.cards = <<>> THEN Rot
  ELSE Listing(Named(IF page.grid /\ page.data # <<>> THEN page.data ELSE page.cards), {})

(* A variant without a price (0) or a stock state counts for neither.      *)
OfVariants(variants) ==
  LET prices == {variants[i].price : i \in DOMAIN variants} \ {0}
      low == IF prices = {} THEN 0 ELSE Min(prices)
      high == IF prices = {} THEN 0 ELSE Max(prices)
  IN  [price |-> low, top |-> IF high # low THEN high ELSE 0,
       stock |-> IF variants = <<>> THEN "unknown"
                 ELSE IF \E i \in DOMAIN variants : variants[i].stock = "in"
                 THEN "in" ELSE "out"]

PetloveProduct(page) ==
  IF page.grid THEN One(OfVariants(page.variants))
  ELSE IF page.spine THEN One([price |-> page.price, top |-> 0, stock |-> page.stock])
  ELSE Rot

(***************************************************************************)
(* AliExpress: links to items, or the grid without any.  A product is what *)
(* its page and the reviews of a second, open service give; a page behind  *)
(* a wall counts as empty.                                                 *)
(***************************************************************************)
AliExpressSearch(page) ==
  IF page.cards = <<>> /\ ~page.grid THEN Rot
  ELSE Listing(FirstOfEach(page.cards), {})

(* Reviews are none, a statistic of zeros, or some.                        *)
AliExpressProduct(blocked, why, fields, reviews) ==
  IF blocked /\ reviews = "none"
  THEN Fails(IF why = "ok" THEN "SERVER_ERROR" ELSE why)
  ELSE Outcome("ok", <<[fields |-> ~blocked /\ fields, reviews |-> reviews]>>,
               IF blocked THEN {"page_blocked"} ELSE {}, 0)

(***************************************************************************)
(* Shopee has products only; the shell it shows a browser it does not know *)
(* has none.  The real-estate site has lists and products.                 *)
(***************************************************************************)
ShopeeProduct(page) == IF page.spine THEN One([id |-> page.id]) ELSE Rot

RealEstateList(page) ==
  IF ~page.grid THEN Rot ELSE Listing(Named(page.data), {})
RealEstateDetail(page) == IF page.spine THEN One([id |-> 0]) ELSE Rot

(***************************************************************************)
(* Google Shopping: cards with a full label, without used and foreign      *)
(* ones, without prices far from the others, and grouped by their title.   *)
(***************************************************************************)
Offers(cards) == Only(cards, LAMBDA e : e.label = "offer")
Taken(cards) == Len(Only(cards, LAMBDA e : e.label \in {"used", "abroad"}))

Prices(offers) == [i \in DOMAIN offers |-> offers[i].price]

(* Cheaper first, and of equal ones the earlier.                           *)
Cheaper(prices, i, j) == prices[i] < prices[j] \/ (prices[i] = prices[j] /\ i < j)
Sorted(prices) ==
  LET all == DOMAIN prices
  IN  InOrder(prices, all, {p \in all \X all : Cheaper(prices, p[1], p[2])})

(* statistics.quantiles(prices, n=4), four times each.                     *)
Quantile4(prices, i) ==
  LET n == Len(prices)
      k == (i * (n + 1)) \div 4
      j == IF k < 1 THEN 1 ELSE IF k > n - 1 THEN n - 1 ELSE k
      delta == i * (n + 1) - 4 * j
      s == Sorted(prices)
  IN  s[j] * (4 - delta) + s[j + 1] * delta

OutlierLeast == 8
WithinFence(prices, price) ==
  LET q1 == Quantile4(prices, 1)
      q3 == Quantile4(prices, 3)
  IN  q3 > q1 => /\ 2 * q1 <= 8 * price + 3 * (q3 - q1)
                 /\ 8 * price <= 2 * q3 + 3 * (q3 - q1)
WithoutOutliers(offers) ==
  LET prices == Prices(offers)
  IN  IF Len(offers) < OutlierLeast THEN offers
      ELSE Only(offers, LAMBDA e : WithinFence(prices, e.price))

(* _group_by_product: a group stands where its first offer does; a seller  *)
(* that asks the same price twice is listed once, the cheapest first.      *)
Sellers(group) ==
  LET once == {i \in DOMAIN group : \A j \in 1..(i - 1) :
                 \/ group[j].store # group[i].store
                 \/ group[j].price # group[i].price}
  IN  InOrder(group, once, {p \in once \X once : Cheaper(Prices(group), p[1], p[2])})
Cheapest(group) == Min({group[i].price : i \in DOMAIN group})
Grouped(offers) ==
  LET first == {i \in DOMAIN offers : \A j \in 1..(i - 1) : offers[j].title # offers[i].title}
      lead == At(offers, first)
  IN  [n \in DOMAIN lead |->
         LET group == Only(offers, LAMBDA e : e.title = lead[n].title)
         IN  [title |-> lead[n].title,
              price |-> Cheapest(group),
              sellers |-> Sellers(group)]]

(* A search in the form Google has given up is rewritten before it is      *)
(* fetched.                                                                *)
GoogleShopping(page, rewritten) ==
  LET offers == Offers(page.cards)
      kept == WithoutOutliers(offers)
      noted == IF rewritten THEN {"rewrote_shopping_search_to_udm28"} ELSE {}
      products == Grouped(kept)
  IN  IF page.cards = <<>> THEN [Rot EXCEPT !.warnings = noted]
      ELSE Outcome("ok", products,
                   noted \union (IF products = <<>> THEN {"no_results"} ELSE {}),
                   Taken(page.cards) + Len(offers) - Len(kept))
=============================================================================
