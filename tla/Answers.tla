------------------------------ MODULE Answers -------------------------------
(***************************************************************************)
(* The operations over a fetched page and the search: answer               *)
(* (vasco/summarize.py) with its three kinds of provider, extract          *)
(* (vasco/extract.py) with its two rankers, and search (vasco/search.py)   *)
(* with its two engines.                                                   *)
(*                                                                         *)
(* What the fetch returns is left to FetchOne: a failure, an empty text or *)
(* one with passages.  A passage is its score and the number of the        *)
(* query's terms it shares; a row of a search is where it leads and        *)
(* whether its text is tainted.                                            *)
(***************************************************************************)
EXTENDS Integers, Ordered

CONSTANTS
  Asks,       \* the calls
  AskMixes,   \* what they ask for, as functions on Asks
  Found       \* what a search engine may answer: sequences of rows

VARIABLES
  ask,      \* what each call asks for
  where,    \* where it is
  nth,      \* the provider that is next, or the attempt at a search
  first,    \* what the first provider, or attempt, lacked
  ready,    \* a provider was ready
  tried,    \* history: what each provider asked has replied
  text,     \* the fetched page
  result

askVars == <<ask, where, nth, first, ready, tried, text, result>>

Lacks == {"no_api_key", "claude_cli_unavailable", "answer_not_configured"}
Errors == Lacks \union {"answer_failed", "failure", "raised"}
None == [is |-> "none"]
Passages == [score : Int, shared : Nat]
Rows == [leads : {"page", "ad", "nowhere"}, tainted : BOOLEAN]
Pages == Seq(Passages)
Providers == [kind : {"claude", "claude_cli", "deepseek"}, lacks : Lacks \union {"nothing"}]
AskJobs ==
  [op : {"answer"}, page : Pages, providers : Seq(Providers)]
    \union [op : {"extract"}, page : Pages, rank : {"bm25", "semantic", "other"}, installed : BOOLEAN,
            top : Int]
    \union [op : {"search"}, engine : {"ddg", "brave", "other"}, key : BOOLEAN, most : Nat,
            screened : BOOLEAN]

ASSUME AskMixesAssumption == AskMixes \subseteq [Asks -> AskJobs]
ASSUME FoundAssumption == Found \subseteq Seq(Rows)

AskTypeOK ==
  /\ ask \in [Asks -> AskJobs]
  /\ where \in [Asks -> {"start", "provider", "rank", "search", "done"}]
  /\ nth \in [Asks -> Nat \ {0}]
  /\ first \in [Asks -> Lacks \union {"none", "nothing", "error"}]
  /\ ready \in [Asks -> BOOLEAN]
  /\ text \in [Asks -> Pages]

AskInit ==
  /\ ask \in AskMixes
  /\ where = [a \in Asks |-> "start"]
  /\ nth = [a \in Asks |-> 1]
  /\ first = [a \in Asks |-> "none"]
  /\ ready = [a \in Asks |-> FALSE]
  /\ tried = [a \in Asks |-> <<>>]
  /\ text = [a \in Asks |-> <<>>]
  /\ result = [a \in Asks |-> None]

Op(a) == ask[a].op
Moves(a, to) == where' = [where EXCEPT ![a] = to]
Concludes(a, r) == Moves(a, "done") /\ result' = [result EXCEPT ![a] = r]
Error(code) == [is |-> "error", code |-> code]

(***************************************************************************)
(* The fetch that answer and extract begin with.                           *)
(***************************************************************************)

(* An unknown ranker, or one that is not installed, is told before it.     *)
Refused(a) ==
  /\ Op(a) = "extract"
  /\ \/ ask[a].rank = "other"
     \/ ask[a].rank = "semantic" /\ ~ask[a].installed

Refuse(a) ==
  /\ where[a] = "start" /\ Refused(a)
  /\ Concludes(a, Error("raised"))
  /\ UNCHANGED <<ask, nth, first, ready, tried, text>>

(* An answer to a failed fetch is the fetch's own envelope; an extract     *)
(* carries the failure along.                                              *)
FetchFails(a) ==
  /\ where[a] = "start" /\ Op(a) # "search" /\ ~Refused(a)
  /\ Concludes(a, Error("failure"))
  /\ UNCHANGED <<ask, nth, first, ready, tried, text>>

FetchPage(a) ==
  /\ where[a] = "start" /\ Op(a) # "search" /\ ~Refused(a)
  /\ text' = [text EXCEPT ![a] = ask[a].page]
  /\ Moves(a, IF Op(a) = "answer" THEN "provider" ELSE "rank")
  /\ UNCHANGED <<ask, nth, first, ready, tried, result>>

(***************************************************************************)
(* answer: the providers in order (_generate).                             *)
(***************************************************************************)
Chain(a) == ask[a].providers
Provider(a) == Chain(a)[nth[a]]

(* A text may have been cut at the token limit.  The client of the Claude  *)
(* API looks for that and raises ("max_tokens"); the other two pass on     *)
(* what they got, so there it is a text like any other ("cut").            *)
Replies(kind) ==
  CASE kind = "claude" -> {"text", "empty", "refusal", "max_tokens", "error"}
    [] kind = "claude_cli" -> {"text", "cut", "empty", "timeout", "exit", "no_success", "malformed"}
    [] kind = "deepseek" -> {"text", "cut", "empty", "error", "malformed"}

(* Slip in Usable: an answer known to be cut will do.                      *)
UsableCut(reply) == reply \in {"text", "cut", "max_tokens"}

(* Whatever else a client meets it raises, and an empty text is no answer. *)
Usable(reply) == reply \in {"text", "cut"}

(* No provider is asked about an empty page.                               *)
NothingToAnswer(a) ==
  /\ where[a] = "provider" /\ text[a] = <<>>
  /\ Concludes(a, Error("answer_failed"))
  /\ UNCHANGED <<ask, nth, first, ready, tried, text>>

NotConfigured(a) ==
  /\ where[a] = "provider" /\ text[a] # <<>> /\ Chain(a) = <<>>
  /\ Concludes(a, Error("answer_not_configured"))
  /\ UNCHANGED <<ask, nth, first, ready, tried, text>>

Asking(a) ==
  /\ where[a] = "provider" /\ text[a] # <<>> /\ nth[a] <= Len(Chain(a))
  /\ first' = [first EXCEPT ![a] = IF @ = "none" THEN Provider(a).lacks ELSE @]

Skip(a) ==
  /\ Asking(a) /\ Provider(a).lacks # "nothing"
  /\ nth' = [nth EXCEPT ![a] = @ + 1]
  /\ tried' = [tried EXCEPT ![a] = Append(@, "skipped")]
  /\ UNCHANGED <<ask, where, ready, text, result>>

Provide(a) ==
  /\ Asking(a) /\ Provider(a).lacks = "nothing"
  /\ ready' = [ready EXCEPT ![a] = TRUE]
  /\ \E reply \in Replies(Provider(a).kind) :
       /\ tried' = [tried EXCEPT ![a] = Append(@, reply)]
       /\ \/ /\ Usable(reply)
             /\ Concludes(a, [is |-> "answer", by |-> nth[a], fellBack |-> nth[a] > 1])
             /\ UNCHANGED nth
          \/ /\ ~Usable(reply)
             /\ nth' = [nth EXCEPT ![a] = @ + 1]
             /\ UNCHANGED <<where, result>>
  /\ UNCHANGED <<ask, text>>

(* With nobody ready the first one's reason is told.                       *)
NobodyAnswers(a) ==
  /\ where[a] = "provider" /\ text[a] # <<>> /\ Chain(a) # <<>> /\ nth[a] > Len(Chain(a))
  /\ Concludes(a, Error(IF ready[a] THEN "answer_failed" ELSE first[a]))
  /\ UNCHANGED <<ask, nth, first, ready, tried, text>>

(***************************************************************************)
(* extract: the passages that match, best first.                           *)
(***************************************************************************)
Before(p, q, i, j) ==
  \/ p.score > q.score
  \/ p.score = q.score /\ p.shared > q.shared
  \/ p.score = q.score /\ p.shared = q.shared /\ i < j

(* By words a passage matches that shares a term, whatever its score; by   *)
(* meaning one whose score is positive, and the terms break no ties.       *)
Matches(rank, p) == IF rank = "bm25" THEN p.shared > 0 ELSE p.score > 0
Judged(rank, p) == IF rank = "bm25" THEN p ELSE [p EXCEPT !.shared = 0]

(* Slip in Ranked: the terms shared come before the score.                 *)
RankedByTerms(rank, page) ==
  LET hits == {i \in DOMAIN page : Matches(rank, page[i])}
  IN  Order(hits, {p \in hits \X hits :
              LET i == p[1]  j == p[2] IN
              \/ page[i].shared > page[j].shared
              \/ page[i].shared = page[j].shared /\ Before(page[i], page[j], i, j)})

(* The matching passages of a page, by their places, in order.             *)
Ranked(rank, page) ==
  LET hits == {i \in DOMAIN page : Matches(rank, page[i])}
  IN  Order(hits, {p \in hits \X hits :
              Before(Judged(rank, page[p[1]]), Judged(rank, page[p[2]]), p[1], p[2])})

Clip(n, most) == IF n < 0 THEN 0 ELSE IF n > most THEN most ELSE n

(* hits[:top], which a negative top counts from the end; by meaning it     *)
(* counts as none.                                                         *)
TopOf(rank, hits, top) ==
  LET n == IF top < 0 /\ rank = "bm25" THEN Len(hits) + top ELSE top
  IN  SubSeq(hits, 1, Clip(n, Len(hits)))

(* The model of meanings is loaded and run only when there is something to *)
(* rank; what it raises is not caught.                                     *)
RankPassages(a) ==
  /\ where[a] = "rank"
  /\ \/ Concludes(a, [is |-> "passages",
                      of |-> TopOf(ask[a].rank, Ranked(ask[a].rank, text[a]), ask[a].top)])
     \/ /\ ask[a].rank = "semantic" /\ text[a] # <<>>
        /\ Concludes(a, Error("raised"))
  /\ UNCHANGED <<ask, nth, first, ready, tried, text>>

(***************************************************************************)
(* search: one request, and with DuckDuckGo a second after an empty answer *)
(* or a failed one.                                                        *)
(***************************************************************************)
NoEngine(a) ==
  \/ ask[a].engine = "other"
  \/ ask[a].engine = "brave" /\ ~ask[a].key

OpenSearch(a) ==
  /\ where[a] = "start" /\ Op(a) = "search"
  /\ \/ NoEngine(a) /\ Concludes(a, Error("raised"))
     \/ ~NoEngine(a) /\ Moves(a, "search") /\ UNCHANGED result
  /\ UNCHANGED <<ask, nth, first, ready, tried, text>>

UpToMost(a, rows) == SubSeq(rows, 1, Clip(ask[a].most, Len(rows)))

(* Brave is asked for no more rows than are wanted, and all it answers are *)
(* passed on.                                                              *)
Kept(a, rows) ==
  IF ask[a].engine = "brave"
  THEN Only(rows, LAMBDA r : r.leads # "nowhere")
  ELSE UpToMost(a, Only(rows, LAMBDA r : r.leads = "page"))

(* A tainted row keeps where it leads and loses its text (_guard_result).  *)
Screened(a, rows) ==
  [i \in DOMAIN rows |->
     IF ask[a].screened THEN [rows[i] EXCEPT !.tainted = FALSE] ELSE rows[i]]

Served(a, rows) == Concludes(a, [is |-> "rows", of |-> Screened(a, rows)])
LastTry(a) == ask[a].engine = "brave" \/ nth[a] = 2
Retry(a, why) ==
  /\ nth' = [nth EXCEPT ![a] = 2]
  /\ first' = [first EXCEPT ![a] = why]
  /\ UNCHANGED <<where, result>>

SearchAnswers(a) ==
  /\ where[a] = "search"
  /\ \E rows \in Found :
       \/ /\ Kept(a, rows) # <<>> \/ LastTry(a)
          /\ Served(a, Kept(a, rows)) /\ UNCHANGED <<nth, first>>
       \/ Kept(a, rows) = <<>> /\ ~LastTry(a) /\ Retry(a, "nothing")
  /\ UNCHANGED <<ask, ready, tried, text>>

(* Slip in SearchFails: the second error is told, whatever came first.     *)
SearchFailsAnyway(a) ==
  /\ where[a] = "search"
  /\ \/ LastTry(a) /\ Concludes(a, Error("raised")) /\ UNCHANGED <<nth, first>>
     \/ ~LastTry(a) /\ Retry(a, "error")
  /\ UNCHANGED <<ask, ready, tried, text>>

(* A failed second attempt does not turn an empty answer into an error.    *)
SearchFails(a) ==
  /\ where[a] = "search"
  /\ \/ ~LastTry(a) /\ Retry(a, "error")
     \/ LastTry(a) /\ first[a] = "nothing" /\ Served(a, <<>>) /\ UNCHANGED <<nth, first>>
     \/ LastTry(a) /\ first[a] # "nothing" /\ Concludes(a, Error("raised"))
          /\ UNCHANGED <<nth, first>>
  /\ UNCHANGED <<ask, ready, tried, text>>

AskStep(a) ==
  \/ Refuse(a) \/ FetchFails(a) \/ FetchPage(a)
  \/ NothingToAnswer(a) \/ NotConfigured(a) \/ Skip(a) \/ Provide(a) \/ NobodyAnswers(a)
  \/ RankPassages(a) \/ OpenSearch(a) \/ SearchAnswers(a) \/ SearchFails(a)

AskNext == \E a \in Asks : AskStep(a)
AskFairness == \A a \in Asks : WF_askVars(AskStep(a))

(***************************************************************************)
(* Properties.                                                             *)
(***************************************************************************)

(* A provider was asked, whatever came of it.                              *)
AnyAsked(a) == \E i \in DOMAIN tried[a] : tried[a][i] # "skipped"

(* An answer is by the first provider that gave a text, cut only if its    *)
(* client does not tell, and says whether that was the first of the chain. *)
(* Without one the error is answer_failed if any was asked; it is the      *)
(* first one's lack only when each was looked at and none was ready.  An   *)
(* empty page is answer_failed too, see ErrorTellsWhy.                     *)
AnswerIsServed ==
  \A a \in Asks : where[a] = "done" /\ Op(a) = "answer" =>
    LET r == result[a]
        Text(i) == tried[a][i] \in {"text", "cut"}
    IN
    \/ /\ r.is = "answer"
       /\ Len(tried[a]) = r.by /\ Text(r.by) /\ ~\E i \in 1..(r.by - 1) : Text(i)
       /\ r.fellBack = (r.by # 1)
    \/ /\ r.is = "error"
       /\ ~\E i \in DOMAIN tried[a] : Text(i)
       /\ AnyAsked(a) => r.code = "answer_failed"
       /\ r.code = "answer_failed" => AnyAsked(a) \/ text[a] = <<>>
       /\ r.code \in Lacks =>
            /\ Len(tried[a]) = Len(Chain(a))
            /\ r.code = IF Chain(a) = <<>> THEN "answer_not_configured" ELSE Chain(a)[1].lacks

(* What answer's description says of its errors: answer_failed is that     *)
(* every ready provider returned nothing, and an empty chain is told as    *)
(* answer_not_configured.  Of an empty page it does not hold.              *)
ErrorTellsWhy ==
  \A a \in Asks : where[a] = "done" /\ Op(a) = "answer" /\ result[a].is = "error" =>
    (result[a].code = "answer_failed" => AnyAsked(a))

(* What extract returns: no passage twice, none that does not match, none  *)
(* left out that is better than one returned, and as many as asked for;    *)
(* when that is negative, none by meaning and all but the last by words.   *)
PassagesAreBest ==
  \A a \in Asks : where[a] = "done" /\ Op(a) = "extract" /\ result[a].is = "passages" =>
    LET got == result[a].of
        hits == {i \in DOMAIN text[a] : Matches(ask[a].rank, text[a][i])}
        most == ask[a].top
        all == Cardinality(hits)
    IN  /\ \A i, j \in DOMAIN got : i < j =>
             got[i] # got[j] /\ text[a][got[i]].score >= text[a][got[j]].score
        /\ \A i \in DOMAIN got : got[i] \in hits
        /\ \A i \in DOMAIN got, h \in hits : text[a][h].score > text[a][got[i]].score =>
             \E j \in DOMAIN got : got[j] = h
        /\ most >= 0 => Len(got) = Clip(most, all)
        /\ most < 0 => Len(got) = IF ask[a].rank = "bm25" THEN Clip(all + most, all) ELSE 0

(* What the ranker by meaning and its test say of the one by words: that   *)
(* it, too, keeps scores above zero only.  It does not.                    *)
ScoresArePositive ==
  \A a \in Asks : where[a] = "done" /\ Op(a) = "extract" /\ result[a].is = "passages" =>
    \A i \in DOMAIN result[a].of : text[a][result[a].of[i]].score > 0

(* A search that was once answered does not fail, and what it returns      *)
(* leads somewhere and is screened.  By DuckDuckGo it is no longer than    *)
(* asked for; of Brave, that is left to the server.                        *)
RetryIsABonus ==
  \A a \in Asks : where[a] = "done" /\ Op(a) = "search" =>
    \/ result[a].is = "error" /\ first[a] # "nothing"
    \/ /\ result[a].is = "rows"
       /\ ask[a].engine = "ddg" => Len(result[a].of) <= ask[a].most
       /\ \A i \in DOMAIN result[a].of :
            result[a].of[i].leads # "nowhere" /\ (ask[a].screened => ~result[a].of[i].tainted)
=============================================================================
