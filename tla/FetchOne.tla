------------------------------ MODULE FetchOne ------------------------------
(***************************************************************************)
(* The fetches of one process (fetch_one and fetch_many,                   *)
(* vasco/fetch/__init__.py): the cache row, the adapter that claims the    *)
(* url, the document and the page behind it, the one place that screens    *)
(* and stores an envelope, and the client of the browser server            *)
(* (vasco/fetch/browser.py) that all of them share.                        *)
(*                                                                         *)
(* An action is what runs between two awaits.  The tiers of the page are   *)
(* one step here, with or without a call of the browser tier, whose        *)
(* handshake is remembered across fetches; EscalationChain has the tiers.  *)
(* The callers in batch are the urls of one fetch_many, the others call    *)
(* fetch_one; all share one cache file, in which rows may expire.          *)
(*                                                                         *)
(* Left out: times and phases, and the ages of the rows.                   *)
(***************************************************************************)
EXTENDS Naturals, Sequences, FiniteSets

CONSTANTS
  Callers,    \* the calls
  NoOne,      \* none of them
  Workers,    \* its concurrency
  Urls,
  Shape,      \* what the code can tell of each url before fetching it
  Mixes,      \* who may call together, asking for what
  GuardOn,    \* the configuration enables the smuggling detector
  Outages     \* bound for TLC: how often the browser server stops

Adapters == <<"youtube", "wikimedia", "github", "scholar", "table",
              "phabricator", "shopify", "gitlab">>

(* Those that may find the url is not theirs, and leave it to the page;    *)
(* and those that fetch through the tiers.                                 *)
MayDecline == {"wikimedia", "github", "shopify", "gitlab"}
UseTiers == {"table", "phabricator", "shopify"}

(* Those that read parts of an answer outside of any try.                  *)
MayRaise == {"youtube", "scholar", "table"}

ASSUME CallersAssumption == IsFiniteSet(Callers) /\ NoOne \notin Callers
ASSUME WorkersAssumption == Workers \in Nat \ {0}
ASSUME ShapeAssumption ==
  Shape \in [Urls -> [valid : BOOLEAN, document : BOOLEAN,
                      claims : SUBSET {Adapters[i] : i \in DOMAIN Adapters}]]
Request == [url : Urls, cached : BOOLEAN, refresh : BOOLEAN, raw : BOOLEAN]
ASSUME MixesAssumption ==
  Mixes \subseteq [asks : [Callers -> Request], batch : SUBSET Callers]
ASSUME OptionsAssumption == GuardOn \in BOOLEAN /\ Outages \in Nat

(* An envelope: why it failed or "ok", what its text is, and whether a     *)
(* payload hides in it (looked at in successes only).  "unhandled" is the  *)
(* SERVER_ERROR of the safety net, "failed" any reason the tiers, a        *)
(* download, the conversion or an adapter report.                          *)
Reasons == {"ok", "invalid_url", "failed", "browser_unavailable",
            "prompt_smuggling", "unhandled"}
Texts == {"none", "page", "raw", "document", "adapter"}
Envelope == [reason : Reasons, text : Texts, tainted : BOOLEAN]

Failure(why) == [reason |-> why, text |-> "none", tainted |-> FALSE]
NoEnvelope == [reason |-> "none", text |-> "none", tainted |-> FALSE]
NoRow == NoEnvelope

VARIABLES
  server,   \* the browser server runs
  outages,  \* how often it has stopped
  remote,   \* BrowserPool._remote: a handshake is remembered
  lock,     \* who holds BrowserPool._lock
  row,      \* the stored envelope of each url
  missed,   \* history: a failing detector let a payload through
  batch,    \* the calls that are the urls of the one fetch_many
  pc, req, env,
  call,     \* where a caller is with the browser server
  started,  \* browser_started
  dark      \* history: the server has been down since the caller began

vars == <<server, outages, remote, lock, row, missed, batch, pc, req, env, call, started, dark>>
pool == <<server, outages, remote, lock, dark>>
store == <<row, missed>>
mix == <<batch, req>>

Running == {"adapter", "document", "page", "redirected"}
Ended == {"returned", "raised", "cancelled"}

TypeOK ==
  /\ server \in BOOLEAN /\ remote \in BOOLEAN /\ missed \in BOOLEAN
  /\ outages \in 0..Outages
  /\ lock \in Callers \union {NoOne}
  /\ row \in [Urls -> Envelope \union {NoRow}]
  /\ batch \in SUBSET Callers
  /\ pc \in [Callers -> {"new", "closing", "yielded"} \union Running \union Ended]
  /\ req \in [Callers -> Request]
  /\ env \in [Callers -> Envelope \union {NoEnvelope}]
  /\ call \in [Callers -> {"none", "waits", "handshake", "send",
                           "html", "hint", "unavailable", "error"}]
  /\ started \in [Callers -> BOOLEAN]
  /\ dark \in [Callers -> BOOLEAN]

Init ==
  /\ server \in BOOLEAN /\ outages = 0
  /\ remote = FALSE /\ lock = NoOne /\ missed = FALSE
  /\ row = [u \in Urls |-> NoRow]
  /\ pc = [c \in Callers |-> "new"]
  /\ \E m \in Mixes : req = m.asks /\ batch = m.batch
  /\ env = [c \in Callers |-> NoEnvelope]
  /\ call = [c \in Callers |-> "none"]
  /\ started = [c \in Callers |-> FALSE]
  /\ dark = [c \in Callers |-> FALSE]

(***************************************************************************)
(* What the code computes.                                                 *)
(***************************************************************************)

(* Slip in UseCache: a raw body goes through the row.                    *)
UseCacheRaw(r) == r.cached

(* A raw body is neither read from nor written to the row of the page.     *)
UseCache(r) == r.cached /\ ~r.raw

(* The first in the order of _dispatch_adapters that claims the url.       *)
Claimants(u) == {i \in DOMAIN Adapters : Adapters[i] \in Shape[u].claims}
Claimed(u) == Claimants(u) # {}
Adapter(u) == Adapters[CHOOSE i \in Claimants(u) : \A j \in Claimants(u) : i <= j]

(* Where a fetch goes when no adapter answers.                             *)
Unclaimed(u) == IF Shape[u].document THEN "document" ELSE "page"

(* _smuggling_guard: only successes are scanned, and a detector that fails *)
(* leaves the envelope as it is.                                           *)
Screened(e, detects) ==
  IF GuardOn /\ e.reason = "ok" /\ e.tainted /\ detects
  THEN Failure("prompt_smuggling") ELSE e

(* Slip in Finish: what is stored has not been screened.                 *)
FinishStoresFirst(c, e) ==
  \E detects \in BOOLEAN, written \in (IF UseCache(req[c]) THEN BOOLEAN ELSE {FALSE}) :
    /\ env' = [env EXCEPT ![c] = Screened(e, detects)]
    /\ missed' = (missed \/ (~detects /\ e.tainted))
    /\ row' = IF written THEN [row EXCEPT ![req[c].url] = e] ELSE row
    /\ pc' = [pc EXCEPT ![c] = "closing"]

(* store and _finalize_adapter_envelope: screen, then write; a write that  *)
(* fails is swallowed.                                                     *)
Finish(c, e) ==
  \E detects \in BOOLEAN, written \in (IF UseCache(req[c]) THEN BOOLEAN ELSE {FALSE}) :
    LET kept == Screened(e, detects) IN
    /\ env' = [env EXCEPT ![c] = kept]
    /\ missed' = (missed \/ (~detects /\ e.tainted))
    /\ row' = IF written
              THEN [row EXCEPT ![req[c].url] = kept] ELSE row
    /\ pc' = [pc EXCEPT ![c] = "closing"]

(* The envelope of a page (_fetch_html_envelope, _converted_success): raw, *)
(* converted, or without words; a failure keeps what could be converted.   *)
PageText(r) == IF r.raw THEN "raw" ELSE "page"
PageEnvelopes(r) ==
  [reason : {"ok"}, text : {PageText(r)}, tainted : BOOLEAN]
    \union [reason : {"failed", "browser_unavailable"}, text : {PageText(r)},
            tainted : {FALSE}]

DocumentEnvelopes ==
  [reason : {"ok"}, text : {"document"}, tainted : BOOLEAN] \union {Failure("failed")}

AdapterEnvelopes ==
  [reason : {"ok"}, text : {"adapter"}, tainted : BOOLEAN] \union {Failure("failed")}

(***************************************************************************)
(* A call from its start to its first await (_fetch_one_body).  A url of   *)
(* the batch waits for a worker first.                                     *)
(***************************************************************************)
Free(c) ==
  c \in batch => Cardinality({b \in batch : pc[b] \in Running}) < Workers

Begin(c) ==
  /\ pc[c] = "new" /\ Free(c)
  /\ dark' = [dark EXCEPT ![c] = ~server]
  /\ UNCHANGED <<server, outages, remote, lock, row, missed, mix, call, started>>

Invalid(c) ==
  /\ Begin(c)
  /\ ~Shape[req[c].url].valid
  /\ env' = [env EXCEPT ![c] = Failure("invalid_url")]
  /\ pc' = [pc EXCEPT ![c] = "closing"]

(* A hit is served as it was stored (_hydrate_cache_hit).                  *)
Hit(c) ==
  /\ Begin(c)
  /\ Shape[req[c].url].valid
  /\ UseCache(req[c]) /\ ~req[c].refresh /\ row[req[c].url] # NoRow
  /\ env' = [env EXCEPT ![c] = row[req[c].url]]
  /\ pc' = [pc EXCEPT ![c] = "closing"]

(* A row that cannot be read is a miss as well, so there may be one.       *)
Miss(c) ==
  /\ Begin(c)
  /\ Shape[req[c].url].valid
  /\ pc' = [pc EXCEPT ![c] = IF Claimed(req[c].url) THEN "adapter"
                             ELSE Unclaimed(req[c].url)]
  /\ UNCHANGED env

(***************************************************************************)
(* The client of the browser server: _ensure_started, then one request.    *)
(***************************************************************************)
MayCall(c) ==
  \/ pc[c] = "page"
  \/ pc[c] = "adapter" /\ Adapter(req[c].url) \in UseTiers

Called(c, stage) == call' = [call EXCEPT ![c] = stage]

Ask(c) ==
  /\ MayCall(c) /\ call[c] = "none"
  /\ Called(c, IF remote THEN "send" ELSE "waits")
  /\ UNCHANGED <<pool, store, pc, mix, env, started>>

(* The handshake may have been made by the one that held the lock before.  *)
TakeLock(c) ==
  /\ call[c] = "waits" /\ lock = NoOne
  /\ IF remote
     THEN Called(c, "send") /\ UNCHANGED lock
     ELSE Called(c, "handshake") /\ lock' = c
  /\ UNCHANGED <<server, outages, remote, dark, store, pc, mix, env, started>>

(* Slip in Handshake: a failure leaves the lock taken.                   *)
HandshakeKeepsLock(c) ==
  /\ call[c] = "handshake"
  /\ \/ server /\ remote' = TRUE /\ lock' = NoOne /\ Called(c, "send")
     \/ Called(c, "unavailable") /\ UNCHANGED <<remote, lock>>
  /\ UNCHANGED <<server, outages, dark, store, pc, mix, env, started>>

(* A server that runs may still answer the handshake with an error.        *)
Handshake(c) ==
  /\ call[c] = "handshake"
  /\ lock' = NoOne
  /\ \/ server /\ remote' = TRUE /\ Called(c, "send")
     \/ Called(c, "unavailable") /\ UNCHANGED remote
  /\ UNCHANGED <<server, outages, dark, store, pc, mix, env, started>>

(* Errors that look like a timeout or a block become a hint; the others,   *)
(* a lost or refused connection among them, are raised (_browser_fetch).   *)
Send(c) ==
  /\ call[c] = "send"
  /\ \/ server /\ \E answer \in {"html", "hint"} : Called(c, answer)
     \/ Called(c, "error")
  /\ UNCHANGED <<pool, store, pc, mix, env, started>>

(***************************************************************************)
(* The three ways to an envelope.                                          *)
(***************************************************************************)
Answered == {"none", "html", "hint", "unavailable"}
UsedBrowser(c) == call[c] \in Answered \ {"none"}

(* An adapter that gets no page reports it, whatever the error was; one    *)
(* that raised in the tiers has not noted that it used the browser.        *)
AdapterAnswers(c) ==
  /\ pc[c] = "adapter" /\ call[c] \in Answered \union {"error"}
  /\ started' = [started EXCEPT ![c] = UsedBrowser(c)]
  /\ \E e \in AdapterEnvelopes :
       /\ call[c] = "error" => e = Failure("failed")
       /\ Finish(c, e)
  /\ UNCHANGED <<pool, mix, call>>

AdapterDeclines(c) ==
  /\ pc[c] = "adapter" /\ call[c] \in Answered \union {"error"}
  /\ Adapter(req[c].url) \in MayDecline
  /\ pc' = [pc EXCEPT ![c] = Unclaimed(req[c].url)]
  /\ started' = [started EXCEPT ![c] = UsedBrowser(c)]
  /\ Called(c, "none")
  /\ UNCHANGED <<pool, store, mix, env>>

(* A document by its url is fetched without the tiers, and the browser an  *)
(* adapter has used before is forgotten.                                   *)
Document(c) ==
  /\ pc[c] = "document"
  /\ \E e \in DocumentEnvelopes : Finish(c, e)
  /\ started' = [started EXCEPT ![c] = FALSE]
  /\ UNCHANGED <<pool, mix, call>>

(* The outcome's browser_started replaces that of the adapter.             *)
Page(c) ==
  /\ pc[c] = "page" /\ call[c] \in Answered
  /\ started' = [started EXCEPT ![c] = UsedBrowser(c)]
  /\ \/ \E e \in PageEnvelopes(req[c]) :
           /\ e.reason = "browser_unavailable" => call[c] = "unavailable"
           /\ Finish(c, e)
     \/ pc' = [pc EXCEPT ![c] = "redirected"] /\ UNCHANGED <<store, env>>
  /\ UNCHANGED <<pool, mix, call>>

(* The tiers found a document behind the url.                              *)
Redirected(c) ==
  /\ pc[c] = "redirected"
  /\ \E e \in DocumentEnvelopes : Finish(c, e)
  /\ UNCHANGED <<pool, mix, call, started>>

(* The safety net of _fetch_html_envelope: whatever the tiers raise.       *)
Unhandled(c) ==
  /\ pc[c] = "page" /\ call[c] = "error"
  /\ Finish(c, Failure("unhandled"))
  /\ UNCHANGED <<pool, mix, call, started>>

(***************************************************************************)
(* The end of a call, and of the batch.                                    *)
(***************************************************************************)
Return(c) ==
  /\ c \notin batch /\ pc[c] = "closing"
  /\ pc' = [pc EXCEPT ![c] = "returned"]
  /\ remote' = (remote /\ ~started[c])
  /\ call' = [call EXCEPT ![c] = "none"]
  /\ started' = [started EXCEPT ![c] = FALSE]
  /\ env' = [env EXCEPT ![c] = NoEnvelope]
  /\ UNCHANGED <<server, outages, lock, dark, store, mix>>

Yield(c) ==
  /\ c \in batch /\ pc[c] = "closing"
  /\ pc' = [pc EXCEPT ![c] = "yielded"]
  /\ UNCHANGED <<pool, store, mix, env, call, started>>

(* The finally of fetch_many, when all urls are done or when the consumer   *)
(* has had enough and the rest is cancelled.  A cancelled url has not      *)
(* noted that it used the browser, and lets go of the lock.                *)
CloseBatchFrom(at) ==
  /\ remote' = (remote /\ ~\E b \in batch : at[b] \in {"closing", "yielded"} /\ started[b])
  /\ pc' = [c \in Callers |->
              IF c \notin batch \/ at[c] \in Ended THEN at[c]
              ELSE IF at[c] = "yielded" THEN "returned" ELSE "cancelled"]
  /\ lock' = IF lock \in batch THEN NoOne ELSE lock
  /\ call' = [c \in Callers |-> IF c \in batch THEN "none" ELSE call[c]]
  /\ started' = [c \in Callers |-> c \notin batch /\ started[c]]
  /\ env' = [c \in Callers |-> IF c \in batch THEN NoEnvelope ELSE env[c]]
  /\ UNCHANGED <<server, outages, dark, store, mix>>

EndBatch == batch # {} /\ (\A b \in batch : pc[b] = "yielded") /\ CloseBatchFrom(pc)

LeaveBatch ==
  /\ \E b \in batch : pc[b] = "yielded"
  /\ \E b \in batch : pc[b] # "yielded"
  /\ CloseBatchFrom(pc)

(* Nothing catches what an adapter raises: the call ends with it, without  *)
(* closing the browser, and so does the batch it belongs to.               *)
AdapterRaises(c) ==
  /\ pc[c] = "adapter" /\ call[c] \in Answered
  /\ Adapter(req[c].url) \in MayRaise
  /\ IF c \in batch
     THEN LET others == [pc EXCEPT ![c] = "raised"] IN CloseBatchFrom(others)
     ELSE /\ pc' = [pc EXCEPT ![c] = "raised"]
          /\ Called(c, "none")
          /\ UNCHANGED <<pool, store, mix, env, started>>

(***************************************************************************)
(* The server and the rows go their own way.                               *)
(***************************************************************************)
ServerStops ==
  /\ server /\ outages < Outages
  /\ server' = FALSE /\ outages' = outages + 1
  /\ UNCHANGED <<remote, lock, dark, store, pc, mix, env, call, started>>

ServerStarts ==
  /\ ~server
  /\ server' = TRUE
  /\ dark' = [c \in Callers |-> FALSE]
  /\ UNCHANGED <<outages, remote, lock, store, pc, mix, env, call, started>>

Expires(u) ==
  /\ row[u] # NoRow
  /\ row' = [row EXCEPT ![u] = NoRow]
  /\ UNCHANGED <<pool, missed, pc, mix, env, call, started>>

Step(c) ==
  \/ Invalid(c) \/ Hit(c) \/ Miss(c)
  \/ Ask(c) \/ TakeLock(c) \/ Handshake(c) \/ Send(c)
  \/ AdapterAnswers(c) \/ AdapterDeclines(c) \/ AdapterRaises(c)
  \/ Document(c) \/ Page(c) \/ Redirected(c) \/ Unhandled(c)
  \/ Return(c) \/ Yield(c)

Next ==
  \/ \E c \in Callers : Step(c)
  \/ EndBatch \/ LeaveBatch \/ ServerStops \/ ServerStarts
  \/ \E u \in Urls : Expires(u)

Fairness == (\A c \in Callers : WF_vars(Step(c))) /\ WF_vars(EndBatch)
Spec == Init /\ [][Next]_vars /\ Fairness

(***************************************************************************)
(* Properties.                                                             *)
(***************************************************************************)
Delivered(c) == pc[c] \in {"closing", "yielded"}

(* The row is shared by calls that want the page and calls that want its   *)
(* source: neither is ever given the other's text, however they overlap.   *)
OwnText ==
  \A c \in Callers : Delivered(c) =>
    env[c].text # (IF req[c].raw THEN "page" ELSE "raw")

(* With the detector on and working, no success carries a payload: not one *)
(* of an adapter, a document or a page, not one out of the cache.          *)
NoPayloadServed ==
  GuardOn /\ ~missed =>
    \A c \in Callers : env[c].reason = "ok" => ~env[c].tainted

(* A fetch that began while the browser server was down, and was down all  *)
(* along, is not answered by the safety net's unhandled error.             *)
DownIsNoError ==
  [][\A c \in Callers : dark[c] /\ pc[c] = "page" => env'[c].reason # "unhandled"]_vars

(* What is said of fetch_one in four places: it never raises.  Of adapters *)
(* that read an answer outside of any try it does not hold.                *)
NeverRaises == \A c \in Callers : pc[c] # "raised"

(* Every call returns or raises, or is cancelled with its batch: none      *)
(* waits for ever for the handshake, the server or a worker.               *)
EveryFetchEnds == \A c \in Callers : <>(pc[c] \in Ended)
=============================================================================
