---------------------------- MODULE MCOperations ----------------------------
(* One map of all sources, or two of llms.txt that share a file; or one    *)
(* answer, extract or search.  What does not run is an empty job.          *)
EXTENDS Operations

MCMaps == {"m1", "m2"}
MCUrls == {"u1", "u2"}

Map(streams, limit) ==
  [host |-> "h", origin |-> "o1", streams |-> streams, limit |-> limit, exclude |-> {},
   sitemaps |-> 2, pages |-> 10, places |-> 1, screened |-> TRUE]
NoMap == Map(<<>>, 0)
Outlines ==
  {[Map(<<"llmstxt">>, 1) EXCEPT !.origin = o, !.screened = s] : o \in Origins, s \in BOOLEAN}
Merged ==
  {[Map(<<"llmstxt", "sitemap">>, limit) EXCEPT !.exclude = x] :
     limit \in 1..2, x \in {{}, {"u2"}, {Outline}}}
    \union {Map(<<"sitemap", "feeds">>, 1), Map(<<"feeds", "spider">>, 2)}

Pair(a, b) == [m \in MCMaps |-> IF m = "m1" THEN a ELSE b]
MapPairs ==
  {Pair(job, NoMap) : job \in Merged}
    \union {Pair(a, b) : a \in Outlines, b \in Outlines}
Idle == {Pair(NoMap, NoMap)}

UpTo(S, n) == UNION {[1..k -> S] : k \in 0..n}

Answerers ==
  [kind : {"claude", "claude_cli", "deepseek"}, lacks : {"nothing"}]
    \union {[kind |-> "claude", lacks |-> "no_api_key"],
            [kind |-> "claude_cli", lacks |-> "claude_cli_unavailable"],
            [kind |-> "deepseek", lacks |-> "answer_not_configured"]}
MCPages ==
  UpTo([score : -1..1, shared : 0..2], 2) \union [1..3 -> [score : {-1, 1}, shared : 0..1]]
MCAskJobs ==
  [op : {"answer"}, page : {<<>>, <<[score |-> 1, shared |-> 1]>>}, providers : UpTo(Answerers, 3)]
    \union [op : {"extract"}, page : MCPages, rank : {"bm25", "semantic"}, installed : {TRUE},
            top : {-1, 0, 1, 2, 5}]
    \union [op : {"extract"}, page : {<<>>}, rank : {"bm25", "semantic", "other"},
            installed : BOOLEAN, top : {1}]
    \union [op : {"search"}, engine : {"ddg", "brave", "other"}, key : BOOLEAN, most : 0..2,
            screened : BOOLEAN]
NoAsk == [op |-> "extract", page |-> <<>>, rank |-> "other", installed |-> FALSE, top |-> 1]

MCAsks == {"a"}
MCFound == UpTo([leads : {"page", "ad", "nowhere"}, tainted : BOOLEAN], 2)
MCMapMixes == MapPairs \union Idle
MCAskMixes == {[a \in MCAsks |-> j] : j \in MCAskJobs}

(* Either maps or an ask: they share nothing.  A file matters to two maps. *)
NoFile == [h \in Hosts |-> [kind |-> "none", of |-> "o1", fresh |-> FALSE]]
MCInit ==
  /\ Init
  /\ \/ ask["a"] = NoAsk /\ site["m2"] # NoMap
     \/ (ask["a"] = NoAsk \/ site \in Idle) /\ file = NoFile
MCSpec == MCInit /\ [][Next]_vars /\ MapFairness /\ AskFairness
=============================================================================
