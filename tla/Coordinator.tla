---------------------------- MODULE Coordinator -----------------------------
(***************************************************************************)
(* The fetch path of vascod (vasco/service/coordinator.py): identical      *)
(* fetches collapse into one task, and a fetch that will reach the network *)
(* first takes a concurrency slot of its domain and then waits for the     *)
(* domain's rate limiter.                                                  *)
(*                                                                         *)
(* Everything runs on one event loop, so what the code does between two    *)
(* awaits is one action here.  A call of Coordinator.fetch is a member of  *)
(* Calls and is made at most once; a task is named by the call that        *)
(* created it.  fetch_one appears as the coordinator uses it: it reads the *)
(* row of the page, or reaches the network and then stores a row.          *)
(*                                                                         *)
(* Left out: single_flight = false (every call then runs _run by itself),  *)
(* the two limiters' disabled forms, and a call's deadline, which is not   *)
(* part of the key.  The length of the limiter's sleep is abstracted: a    *)
(* paced task sleeps for some time, perhaps none.                          *)
(***************************************************************************)
EXTENDS Naturals, FiniteSets

CONSTANTS
  Calls,         \* calls of Coordinator.fetch
  Requests,      \* the requests a call may carry
  Pages,         \* normalized URLs
  Domains,       \* registered domains
  Modes,         \* fetch modes
  MaxPerDomain,  \* service.max_concurrent_per_domain
  NoCall

(* Two spellings of one page may have different registered domains: a      *)
(* redirect wrapper normalizes to the page it wraps.                       *)
RequestShape ==
  [page : Pages, domain : Domains, mode : Modes, raw : BOOLEAN,
   refresh : BOOLEAN, useCache : BOOLEAN]

ASSUME NoCallAssumption == NoCall \notin Calls
ASSUME RequestsAssumption == Requests \subseteq RequestShape
ASSUME LimitAssumption == MaxPerDomain \in Nat \ {0}

(* Slips the mutation runs try stand before the definition they replace;    *)
(* nothing uses them otherwise.  Here: a refresh shares a plain fetch.      *)
KeyWithoutRefresh(r) ==
  [page |-> r.page, mode |-> r.mode, raw |-> r.raw, useCache |-> r.useCache]

(* Coordinator.fetch's key: what, in its words, changes the result. *)
KeyOf(r) ==
  [page |-> r.page, mode |-> r.mode, raw |-> r.raw,
   refresh |-> r.refresh, useCache |-> r.useCache]

Keys == {KeyOf(r) : r \in Requests}

VARIABLES
  req,       \* the request of each call
  phase,     \* where each call stands with its caller
  flight,    \* the task a call awaits
  inflight,  \* Coordinator._inflight
  task,      \* how far the task led by a call has come
  slots,     \* the tasks holding a slot of their domain's semaphore
  result,    \* what a finished task returned
  row        \* what the cache holds for each page

vars == <<req, phase, flight, inflight, task, slots, result, row>>
callVars == <<phase, flight>>

Phases == {"idle", "waiting", "answered", "gone"}
Running == {"created", "queued", "pacing", "fetching"}
Bodies == {"markdown", "raw", "failure"}
NoResult == [from |-> "nowhere", kind |-> "none"]
Results ==
  [from : {"nowhere", "cache", "network"},
   kind : Bodies \union {"none", "error"}]

TypeOK ==
  /\ req \in [Calls -> Requests]
  /\ phase \in [Calls -> Phases]
  /\ flight \in [Calls -> Calls \union {NoCall}]
  /\ inflight \in [Keys -> Calls \union {NoCall}]
  /\ task \in [Calls -> Running \union {"none", "finished"}]
  /\ slots \in SUBSET Calls
  /\ result \in [Calls -> Results]
  /\ row \in [Pages -> Bodies \union {"none"}]

Init ==
  /\ req \in [Calls -> Requests]
  /\ phase = [c \in Calls |-> "idle"]
  /\ flight = [c \in Calls |-> NoCall]
  /\ inflight = [k \in Keys |-> NoCall]
  /\ task = [c \in Calls |-> "none"]
  /\ slots = {}
  /\ result = [c \in Calls |-> NoResult]
  /\ row = [p \in Pages |-> "none"]

-----------------------------------------------------------------------------
(* The callers' side: Coordinator.fetch.                                   *)

(* The key is not in flight: create the task and register it. *)
Lead(c) ==
  /\ phase[c] = "idle"
  /\ inflight[KeyOf(req[c])] = NoCall
  /\ phase' = [phase EXCEPT ![c] = "waiting"]
  /\ flight' = [flight EXCEPT ![c] = c]
  /\ inflight' = [inflight EXCEPT ![KeyOf(req[c])] = c]
  /\ task' = [task EXCEPT ![c] = "created"]
  /\ UNCHANGED <<req, slots, result, row>>

(* The key is in flight: await that task. *)
Join(c) ==
  /\ phase[c] = "idle"
  /\ inflight[KeyOf(req[c])] # NoCall
  /\ phase' = [phase EXCEPT ![c] = "waiting"]
  /\ flight' = [flight EXCEPT ![c] = inflight[KeyOf(req[c])]]
  /\ UNCHANGED <<req, inflight, task, slots, result, row>>

(* Slip: the resumed caller, not the task, clears the table. *)
AnswerUnregisters(c) ==
  /\ phase[c] = "waiting"
  /\ task[flight[c]] = "finished"
  /\ phase' = [phase EXCEPT ![c] = "answered"]
  /\ inflight' = [inflight EXCEPT ![KeyOf(req[c])] = NoCall]
  /\ UNCHANGED <<req, flight, task, slots, result, row>>

(* The awaited task has finished and the caller resumes. *)
Answer(c) ==
  /\ phase[c] = "waiting"
  /\ task[flight[c]] = "finished"
  /\ phase' = [phase EXCEPT ![c] = "answered"]
  /\ UNCHANGED <<req, flight, inflight, task, slots, result, row>>

(* Slips: no shield, so the cancellation reaches the task; and a `finally` *)
(* in the caller that takes the key out of the table.                      *)
CancelKillsTask(c) ==
  /\ phase[c] = "waiting"
  /\ phase' = [phase EXCEPT ![c] = "gone"]
  /\ task' = [task EXCEPT ![flight[c]] = "none"]
  /\ UNCHANGED <<req, flight, inflight, slots, result, row>>

CancelUnregisters(c) ==
  /\ phase[c] = "waiting"
  /\ phase' = [phase EXCEPT ![c] = "gone"]
  /\ inflight' = [inflight EXCEPT ![KeyOf(req[c])] = NoCall]
  /\ UNCHANGED <<req, flight, task, slots, result, row>>

(* The caller is cancelled; the shield keeps the task. *)
Cancel(c) ==
  /\ phase[c] = "waiting"
  /\ phase' = [phase EXCEPT ![c] = "gone"]
  /\ UNCHANGED <<req, flight, inflight, task, slots, result, row>>

-----------------------------------------------------------------------------
(* The task's side: Coordinator._run.                                      *)

(* Slip: the hit test forgets that a refresh ignores the row. *)
LooksCachedToRefresh(r) == r.useCache /\ row[r.page] # "none"

(* Coordinator._is_cache_hit: it does not ask whether the body is raw. *)
LooksCached(r) == r.useCache /\ ~r.refresh /\ row[r.page] # "none"

(* fetch_one's own test, which turns the cache off for a raw body. *)
ReadsRow(r) == r.useCache /\ ~r.raw /\ ~r.refresh /\ row[r.page] # "none"

(* Slip: the slot is not released. *)
FinishKeepsSlot(t, res) ==
  /\ task' = [task EXCEPT ![t] = "finished"]
  /\ result' = [result EXCEPT ![t] = res]
  /\ UNCHANGED slots

(* A task ends; leaving the `async with` releases its slot. *)
Finish(t, res) ==
  /\ task' = [task EXCEPT ![t] = "finished"]
  /\ result' = [result EXCEPT ![t] = res]
  /\ slots' = slots \ {t}

(* fetch_one up to its first await: return the row, or go to the network. *)
EnterFetch(t) ==
  \/ /\ ReadsRow(req[t])
     /\ Finish(t, [from |-> "cache", kind |-> row[req[t].page]])
  \/ /\ ~ReadsRow(req[t])
     /\ task' = [task EXCEPT ![t] = "fetching"]
     /\ UNCHANGED <<slots, result>>

(* A page that looks cached skips both gates. *)
StartUnpaced(t) ==
  /\ task[t] = "created"
  /\ LooksCached(req[t])
  /\ EnterFetch(t)
  /\ UNCHANGED <<req, callVars, inflight, row>>

StartPaced(t) ==
  /\ task[t] = "created"
  /\ ~LooksCached(req[t])
  /\ task' = [task EXCEPT ![t] = "queued"]
  /\ UNCHANGED <<req, callVars, inflight, slots, result, row>>

SlotsOf(d) == {t \in slots : req[t].domain = d}

(* _DomainConcurrencyLimiter: the semaphore of the requested URL's domain. *)
AcquireSlot(t) ==
  /\ task[t] = "queued"
  /\ Cardinality(SlotsOf(req[t].domain)) < MaxPerDomain
  /\ slots' = slots \union {t}
  /\ task' = [task EXCEPT ![t] = "pacing"]
  /\ UNCHANGED <<req, callVars, inflight, result, row>>

(* _DomainRateLimiter.acquire returns. *)
LeaveLimiter(t) ==
  /\ task[t] = "pacing"
  /\ EnterFetch(t)
  /\ UNCHANGED <<req, callVars, inflight, row>>

(* The row fetch_one leaves behind: none for a raw body, and a cache write *)
(* that fails is swallowed.                                                *)
Store(r, body) ==
  \/ /\ r.useCache /\ ~r.raw
     /\ row' = [row EXCEPT ![r.page] = body]
  \/ UNCHANGED row

(* fetch_one returns an envelope: the body or a failure. *)
FetchReturns(t) ==
  /\ task[t] = "fetching"
  /\ \E kind \in {"failure", IF req[t].raw THEN "raw" ELSE "markdown"} :
       /\ Finish(t, [from |-> "network", kind |-> kind])
       /\ Store(req[t], kind)
  /\ UNCHANGED <<req, callVars, inflight>>

(* Slip: the exception is stored like an envelope. *)
FetchRaisesAndStores(t) ==
  /\ task[t] = "fetching"
  /\ Finish(t, [from |-> "network", kind |-> "error"])
  /\ row' = [row EXCEPT ![req[t].page] = "error"]
  /\ UNCHANGED <<req, callVars, inflight>>

(* fetch_one raises: the exception is what every waiter gets. *)
FetchRaises(t) ==
  /\ task[t] = "fetching"
  /\ Finish(t, [from |-> "network", kind |-> "error"])
  /\ UNCHANGED <<req, callVars, inflight, row>>

(* The task's done-callback, in a later pass of the event loop. *)
Unregister(t) ==
  /\ task[t] = "finished"
  /\ inflight[KeyOf(req[t])] = t
  /\ inflight' = [inflight EXCEPT ![KeyOf(req[t])] = NoCall]
  /\ UNCHANGED <<req, callVars, task, slots, result, row>>

-----------------------------------------------------------------------------
(* The cache is shared with uncoordinated writers (extract, answer, the    *)
(* CLI's own process), and rows expire.                                    *)
RowWritten(p) ==
  /\ row[p] = "none"
  /\ row' = [row EXCEPT ![p] = "markdown"]
  /\ UNCHANGED <<req, callVars, inflight, task, slots, result>>

RowExpires(p) ==
  /\ row[p] # "none"
  /\ row' = [row EXCEPT ![p] = "none"]
  /\ UNCHANGED <<req, callVars, inflight, task, slots, result>>

-----------------------------------------------------------------------------
CallStep(c) == Lead(c) \/ Join(c) \/ Answer(c) \/ Cancel(c)

TaskStep(t) ==
  \/ StartUnpaced(t) \/ StartPaced(t) \/ AcquireSlot(t) \/ LeaveLimiter(t)
  \/ FetchReturns(t) \/ FetchRaises(t) \/ Unregister(t)

Next ==
  \/ \E c \in Calls : CallStep(c) \/ TaskStep(c)
  \/ \E p \in Pages : RowWritten(p) \/ RowExpires(p)

(* The event loop runs what is ready, the domain semaphore is first come   *)
(* first served, and fetch_one ends: by its own deadline, the coordinator  *)
(* assumes.                                                                *)
Fairness ==
  \A c \in Calls :
    /\ WF_vars(Answer(c))
    /\ WF_vars(StartUnpaced(c) \/ StartPaced(c))
    /\ SF_vars(AcquireSlot(c))
    /\ WF_vars(LeaveLimiter(c))
    /\ WF_vars(FetchReturns(c) \/ FetchRaises(c))
    /\ WF_vars(Unregister(c))

Spec == Init /\ [][Next]_vars /\ Fairness

-----------------------------------------------------------------------------
(* Safety                                                                  *)

(* Single-flight (coordinator.py:5-8): at no time do two tasks for the     *)
(* same key run, so concurrent identical fetches cost one fetch.           *)
OneTaskPerKey ==
  \A t, u \in Calls :
    task[t] \in Running /\ task[u] \in Running /\ KeyOf(req[t]) = KeyOf(req[u])
      => t = u

(* "One caller's cancellation can never kill the shared fetch": whoever    *)
(* still waits is aboard a task of its own key that is either finished or  *)
(* running and registered, whoever led it and wherever that caller is now. *)
WaiterAboard ==
  \A c \in Calls : phase[c] = "waiting" =>
    /\ flight[c] \in Calls
    /\ KeyOf(req[flight[c]]) = KeyOf(req[c])
    /\ \/ task[flight[c]] = "finished"
       \/ /\ task[flight[c]] \in Running
          /\ inflight[KeyOf(req[c])] = flight[c]

(* "A refresh request never joins a non-refresh one and gets stale data"   *)
(* (coordinator.py:153), and the same for raw and for use_cache: the       *)
(* answer is of the kind the call asked for, whoever led the flight, and   *)
(* it is not a row when the call ruled the cache out.                      *)
AnswerMeetsRequest ==
  \A c \in Calls : phase[c] = "answered" =>
    LET answer == result[flight[c]]
    IN  /\ answer.from # "nowhere"
        /\ answer.from = "cache" =>
             req[c].useCache /\ ~req[c].refresh /\ ~req[c].raw
        /\ answer.kind = "raw" => req[c].raw
        /\ answer.kind = "markdown" => ~req[c].raw

(* The per-domain cap (coordinator.py:19-23) over the fetches that are on  *)
(* the network for a Markdown body: at most max_concurrent_per_domain of a *)
(* domain, whatever the cache did while they queued.  Raw fetches escape   *)
(* it: see NetworkCap.                                                     *)
OnNetwork(d) == {t \in Calls : task[t] = "fetching" /\ req[t].domain = d}

DomainCap ==
  \A d \in Domains :
    Cardinality({t \in OnNetwork(d) : ~req[t].raw}) <= MaxPerDomain

(* What coordinator.py:19-23 says of all of them: "a registered domain can *)
(* be limited to N simultaneous in-flight network fetches".  The code does *)
(* not keep this: _is_cache_hit skips the gates for a raw fetch of a       *)
(* cached page, and fetch_one then ignores the cache.                      *)
NetworkCap == \A d \in Domains : Cardinality(OnNetwork(d)) <= MaxPerDomain

-----------------------------------------------------------------------------
(* Liveness and refinement                                                 *)

(* "Can never strand its waiters" (coordinator.py:34-36), given that every *)
(* fetch_one ends: a caller is answered, unless it is cancelled first,     *)
(* through both gates and behind any number of other fetches.              *)
EveryCallReturns ==
  \A c \in Calls : phase[c] = "waiting" ~> phase[c] \in {"answered", "gone"}

(* The coordinator implements SingleFlight: keys are those of the          *)
(* requests, open flights the registered tasks, decided flights the        *)
(* finished ones.                                                          *)
Flights == INSTANCE SingleFlight WITH
  key <- [c \in Calls |-> KeyOf(req[c])],
  open <- inflight,
  decided <- {t \in Calls : task[t] = "finished"}

ImplementsSingleFlight == Flights!Init /\ [][Flights!Next]_Flights!vars
=============================================================================
