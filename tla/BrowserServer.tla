--------------------------- MODULE BrowserServer ----------------------------
(***************************************************************************)
(* The browser server (vasco/fetch/browser_server.py): requests share one  *)
(* Camoufox browser, kept by _BrowserSupervisor, which relaunches it when  *)
(* it dies, wedges, or has served enough pages.  _serve_fetch gives every  *)
(* request two attempts.                                                   *)
(*                                                                         *)
(* One event loop runs everything: an action is the code between two       *)
(* awaits.  A request is a member of Requests and is made at most once.    *)
(* Browsers are numbered in the order in which AsyncCamoufox objects are   *)
(* made; 0 stands for Python's None.                                       *)
(*                                                                         *)
(* The browser process is outside src/: it may crash, wedge (alive, but no *)
(* navigation ends other than by its timeout), and its close may hang.     *)
(* Left out here: what a page does between its creation and its close      *)
(* beyond its outcome (blocking, Turnstile, manual hold, login wall), and  *)
(* the shutdown of the server.                                             *)
(***************************************************************************)
EXTENDS Naturals, FiniteSets

CONSTANTS
  Requests,        \* requests read by _handle_client, on any connection
  MaxPages,        \* _MAX_CONCURRENT_PAGES
  RecycleAfter,    \* _RECYCLE_AFTER_PAGES
  Threshold,       \* _TIMEOUT_RELAUNCH_THRESHOLD
  Profile,         \* TRUE: a persistent profile is configured
  ManagedDisplay,  \* TRUE: manual_solve started an Xvfb of the server's own
  MaxCrashes,      \* bounds on the faults of the browser process, for TLC
  MaxWedges,
  NoOne

ASSUME RequestsAssumption == NoOne \notin Requests /\ IsFiniteSet(Requests)
ASSUME PagesAssumption == MaxPages \in Nat \ {0}
ASSUME RecycleAssumption == RecycleAfter \in Nat \ {0}
ASSUME ThresholdAssumption == Threshold \in Nat \ {0}
ASSUME SwitchesAssumption == Profile \in BOOLEAN /\ ManagedDisplay \in BOOLEAN
ASSUME FaultsAssumption == MaxCrashes \in Nat /\ MaxWedges \in Nat

VARIABLES
  pc,          \* where each request stands in _serve_fetch
  attempt,     \* 0 or 1
  got,         \* the browser the attempt was handed
  tried,       \* the browser attempt 0 was handed, once attempt 1 has begun
  outcome,     \* how the page's work ended, while the page is being closed
  doomed,      \* the browser a request is closing, waits to close, or probes
  cm,          \* _BrowserSupervisor._cm
  browser,     \* _BrowserSupervisor._browser
  persistent,  \* _BrowserSupervisor.is_persistent
  handouts,    \* _BrowserSupervisor._handouts
  streak,      \* _BrowserSupervisor._consecutive_timeouts
  lock,        \* who holds _BrowserSupervisor._lock
  createLock,  \* who holds _CREATE_LOCK
  made,        \* how many AsyncCamoufox objects have been made
  running,     \* the browsers that have a live process
  wedged,      \* those of them that no longer navigate
  display,     \* the server's own X display
  crashes,     \* how often a browser has crashed
  wedges       \* how often a browser has wedged

requestVars == <<pc, attempt, got, tried, outcome, doomed>>
supervisorVars == <<cm, browser, persistent, handouts, streak, lock>>
processVars == <<made, running, wedged, display, crashes, wedges>>
vars == <<requestVars, supervisorVars, createLock, processVars>>

Supervising == {"replacing", "launching", "fallback", "condemning"}
Creating == {"opening", "probeOpen"}
Serving ==
  Supervising \union Creating
    \union {"asking", "creating", "loading", "leaving", "marking",
            "probeWait", "probeLoad"}
Outcomes == {"ok", "disconnect", "timeout", "other"}

TypeOK ==
  /\ pc \in [Requests -> Serving \union {"idle", "waiting", "ok", "error"}]
  /\ attempt \in [Requests -> {0, 1}]
  /\ got \in [Requests -> Nat]
  /\ tried \in [Requests -> Nat]
  /\ outcome \in [Requests -> Outcomes \union {"none"}]
  /\ doomed \in [Requests -> Nat]
  /\ cm \in Nat
  /\ browser \in {0, cm}
  /\ persistent \in BOOLEAN
  /\ handouts \in 0..RecycleAfter
  /\ streak \in 0..(Threshold - 1)
  /\ lock \in Requests \union {NoOne}
  /\ createLock \in Requests \union {NoOne}
  /\ made \in Nat
  /\ running \subseteq 1..made
  /\ wedged \subseteq running
  /\ display \in {"none", "up", "killed"}
  /\ crashes \in 0..MaxCrashes
  /\ wedges \in 0..MaxWedges

(* run_server has started the supervisor: start() launched a browser,      *)
(* perhaps the ephemeral one, and handed nothing out.                      *)
Init ==
  /\ pc = [r \in Requests |-> "idle"]
  /\ attempt = [r \in Requests |-> 0]
  /\ got = [r \in Requests |-> 0]
  /\ tried = [r \in Requests |-> 0]
  /\ outcome = [r \in Requests |-> "none"]
  /\ doomed = [r \in Requests |-> 0]
  /\ cm = 1
  /\ browser = 1
  /\ persistent \in {Profile, FALSE}
  /\ handouts = 0
  /\ streak = 0
  /\ lock = NoOne
  /\ createLock = NoOne
  /\ made = 1
  /\ running = {1}
  /\ wedged = {}
  /\ display = IF ManagedDisplay THEN "up" ELSE "none"
  /\ crashes = 0
  /\ wedges = 0

Inside == {r \in Requests : pc[r] \in Serving}

Goto(r, p) == pc' = [pc EXCEPT ![r] = p]

(* _handle_client writes the answer; the request's memory is forgotten. *)
Reply(r, p) ==
  /\ Goto(r, p)
  /\ got' = [got EXCEPT ![r] = 0]
  /\ tried' = [tried EXCEPT ![r] = 0]
  /\ outcome' = [outcome EXCEPT ![r] = "none"]
  /\ doomed' = [doomed EXCEPT ![r] = 0]
  /\ UNCHANGED attempt

-----------------------------------------------------------------------------
(* Admission: _handle_client reads the request, _PAGE_SEMAPHORE admits it. *)
Arrive(r) ==
  /\ pc[r] = "idle"
  /\ Goto(r, "waiting")
  /\ UNCHANGED <<attempt, got, tried, outcome, doomed>>
  /\ UNCHANGED <<supervisorVars, createLock, processVars>>

Admit(r) ==
  /\ pc[r] = "waiting"
  /\ Cardinality(Inside) < MaxPages
  /\ Goto(r, "asking")
  /\ UNCHANGED <<attempt, got, tried, outcome, doomed>>
  /\ UNCHANGED <<supervisorVars, createLock, processVars>>

-----------------------------------------------------------------------------
(* _BrowserSupervisor.get_browser                                          *)

(* _alive: a persistent context has no is_connected, nor has its .browser, *)
(* and is then taken to be alive.                                          *)
Alive == browser # 0 /\ (persistent \/ browser \in running)

(* Slip: one page too many. *)
FitOnceMore == Alive /\ handouts <= RecycleAfter

Fit == Alive /\ handouts < RecycleAfter

(* Both the fast path and the re-check under the lock: no request that     *)
(* waits for the lock can see the browser become fit before it is free.    *)
Handout(r) ==
  /\ pc[r] = "asking"
  /\ Fit
  /\ handouts' = handouts + 1
  /\ got' = [got EXCEPT ![r] = browser]
  /\ Goto(r, "creating")
  /\ UNCHANGED <<attempt, tried, outcome, doomed, cm, browser, persistent>>
  /\ UNCHANGED <<streak, lock, createLock, processVars>>

(* What follows _close_locked in get_browser, up to the launch's await. *)
BeginLaunch(r) ==
  /\ cm' = made + 1
  /\ made' = made + 1
  /\ browser' = 0
  /\ lock' = r
  /\ Goto(r, "launching")

Replace(r) ==
  /\ pc[r] = "asking"
  /\ ~Fit
  /\ lock = NoOne
  /\ \/ /\ cm # 0
        /\ lock' = r
        /\ doomed' = [doomed EXCEPT ![r] = cm]
        /\ Goto(r, "replacing")
        /\ UNCHANGED <<cm, browser, made>>
     \/ /\ cm = 0
        /\ BeginLaunch(r)
        /\ UNCHANGED doomed
  /\ UNCHANGED <<attempt, got, tried, outcome, persistent, handouts, streak>>
  /\ UNCHANGED <<createLock, running, wedged, display, crashes, wedges>>

(* __aexit__ returns, or it fails or exceeds _CLOSE_TIMEOUT and every      *)
(* descendant of the server is killed.  Either way the browser is gone.    *)
CloseEnds(b) ==
  /\ running' = running \ {b}
  /\ wedged' = wedged \ {b}
  /\ \/ b \notin wedged /\ UNCHANGED display
     \/ display' = IF display = "up" THEN "killed" ELSE display

Replaced(r) ==
  /\ pc[r] = "replacing"
  /\ CloseEnds(doomed[r])
  /\ doomed' = [doomed EXCEPT ![r] = 0]
  /\ BeginLaunch(r)
  /\ UNCHANGED <<attempt, got, tried, outcome, persistent, handouts, streak>>
  /\ UNCHANGED <<createLock, crashes, wedges>>

(* Slip: the relaunch does not count the page it serves, as start() does    *)
(* not.                                                                    *)
LaunchSucceedsUncounted(r) ==
  /\ pc[r] \in {"launching", "fallback"}
  /\ display # "killed"
  /\ browser' = cm
  /\ running' = running \union {cm}
  /\ handouts' = 0
  /\ lock' = NoOne
  /\ got' = [got EXCEPT ![r] = cm]
  /\ Goto(r, "creating")
  /\ UNCHANGED <<attempt, tried, outcome, doomed, cm, persistent, streak>>
  /\ UNCHANGED <<createLock, made, wedged, display, crashes, wedges>>

(* A browser without its display does not start. *)
LaunchSucceeds(r) ==
  /\ pc[r] \in {"launching", "fallback"}
  /\ display # "killed"
  /\ browser' = cm
  /\ running' = running \union {cm}
  /\ handouts' = 1
  /\ lock' = NoOne
  /\ got' = [got EXCEPT ![r] = cm]
  /\ Goto(r, "creating")
  /\ UNCHANGED <<attempt, tried, outcome, doomed, cm, persistent, streak>>
  /\ UNCHANGED <<createLock, made, wedged, display, crashes, wedges>>

(* The profile is still locked: go on, for good, with an ephemeral browser. *)
ProfileLocked(r) ==
  /\ pc[r] = "launching"
  /\ persistent
  /\ persistent' = FALSE
  /\ cm' = made + 1
  /\ made' = made + 1
  /\ Goto(r, "fallback")
  /\ UNCHANGED <<attempt, got, tried, outcome, doomed, browser, handouts>>
  /\ UNCHANGED <<streak, lock, createLock, running, wedged, display, crashes, wedges>>

(* Slip: the lock is not released on the way out. *)
LaunchFailsLocked(r) ==
  /\ \/ pc[r] = "launching" /\ cm' = 0
     \/ pc[r] = "fallback" /\ UNCHANGED cm
  /\ Reply(r, "error")
  /\ UNCHANGED <<lock, browser, persistent, handouts, streak>>
  /\ UNCHANGED <<createLock, processVars>>

(* get_browser is called outside _serve_fetch's try: a launch that fails   *)
(* fails the request.  A fallback that fails leaves _cm behind.            *)
LaunchFails(r) ==
  /\ \/ pc[r] = "launching" /\ cm' = 0
     \/ pc[r] = "fallback" /\ UNCHANGED cm
  /\ lock' = NoOne
  /\ Reply(r, "error")
  /\ UNCHANGED <<browser, persistent, handouts, streak>>
  /\ UNCHANGED <<createLock, processVars>>

-----------------------------------------------------------------------------
(* fetch_page                                                              *)

OpenPage(r) ==
  /\ pc[r] = "creating"
  /\ createLock = NoOne
  /\ createLock' = r
  /\ Goto(r, "opening")
  /\ UNCHANGED <<attempt, got, tried, outcome, doomed>>
  /\ UNCHANGED <<supervisorVars, processVars>>

PageOpens(r) ==
  /\ pc[r] = "opening"
  /\ got[r] \in running
  /\ createLock' = NoOne
  /\ Goto(r, "loading")
  /\ UNCHANGED <<attempt, got, tried, outcome, doomed>>
  /\ UNCHANGED <<supervisorVars, processVars>>

(* How the page's work may end in a browser: a dead one disconnects, a     *)
(* wedged one runs into the timeout, a sound one does as the site does.    *)
PageOutcomes(b) ==
  IF b \notin running THEN {"disconnect"}
  ELSE IF b \in wedged THEN {"timeout"}
  ELSE {"ok", "timeout", "other"}

(* Navigation and what follows it end, and _close_page is called. *)
PageEnds(r) ==
  /\ pc[r] = "loading"
  /\ \E o \in PageOutcomes(got[r]) : outcome' = [outcome EXCEPT ![r] = o]
  /\ Goto(r, "leaving")
  /\ UNCHANGED <<attempt, got, tried, doomed>>
  /\ UNCHANGED <<supervisorVars, createLock, processVars>>

-----------------------------------------------------------------------------
(* _serve_fetch's judgement of an attempt, and mark_dead.                  *)

Again(r) ==
  /\ Goto(r, "asking")
  /\ attempt' = [attempt EXCEPT ![r] = 1]
  /\ tried' = [tried EXCEPT ![r] = got[r]]
  /\ got' = [got EXCEPT ![r] = 0]
  /\ outcome' = [outcome EXCEPT ![r] = "none"]
  /\ doomed' = [doomed EXCEPT ![r] = 0]

(* Slips: mark_dead does not take the lock; mark_dead gives up when        *)
(* somebody else holds it.                                                 *)
MarkDeadUnlocked(r) ==
  \/ /\ cm # 0
     /\ doomed' = [doomed EXCEPT ![r] = cm]
     /\ Goto(r, "condemning")
     /\ UNCHANGED <<attempt, got, tried, outcome, lock>>
  \/ /\ cm = 0
     /\ Again(r)
     /\ UNCHANGED lock

MarkDeadUnlessBusy(r) ==
  \/ /\ lock = NoOne /\ cm # 0
     /\ lock' = r
     /\ doomed' = [doomed EXCEPT ![r] = cm]
     /\ Goto(r, "condemning")
     /\ UNCHANGED <<attempt, got, tried, outcome>>
  \/ /\ lock # NoOne \/ cm = 0
     /\ Again(r)
     /\ UNCHANGED lock

(* mark_dead notes the browser it finds and takes the lock, at once when   *)
(* it is free.                                                             *)
MarkDead(r) ==
  \/ /\ lock = NoOne /\ cm # 0
     /\ lock' = r
     /\ doomed' = [doomed EXCEPT ![r] = cm]
     /\ Goto(r, "condemning")
     /\ UNCHANGED <<attempt, got, tried, outcome>>
  \/ /\ lock = NoOne /\ cm = 0
     /\ Again(r)
     /\ UNCHANGED lock
  \/ /\ lock # NoOne
     /\ doomed' = [doomed EXCEPT ![r] = cm]
     /\ Goto(r, "marking")
     /\ UNCHANGED <<attempt, got, tried, outcome, lock>>

(* The third timeout in a row asks for a probe, of the browser it finds. *)
Suspect(r) ==
  \/ /\ browser = 0
     /\ MarkDead(r)
  \/ /\ browser # 0
     /\ doomed' = [doomed EXCEPT ![r] = browser]
     /\ Goto(r, "probeWait")
     /\ UNCHANGED <<attempt, got, tried, outcome, lock>>

(* The attempt ended with outcome o. *)
Judge(r, o) ==
  \/ /\ o = "ok"
     /\ streak' = 0
     /\ Reply(r, "ok")
     /\ UNCHANGED lock
  \/ /\ o = "disconnect" /\ attempt[r] = 0
     /\ MarkDead(r)
     /\ UNCHANGED streak
  \/ /\ o = "timeout" /\ attempt[r] = 0 /\ streak + 1 >= Threshold
     /\ streak' = 0
     /\ Suspect(r)
  \/ /\ o = "timeout" /\ attempt[r] = 0 /\ streak + 1 < Threshold
     /\ streak' = streak + 1
     /\ Reply(r, "error")
     /\ UNCHANGED lock
  \/ /\ o = "other" \/ (o # "ok" /\ attempt[r] = 1)
     /\ Reply(r, "error")
     /\ UNCHANGED <<lock, streak>>

(* Creation raises before the try that would close the page. *)
OpenRaises(r) ==
  /\ pc[r] = "opening"
  /\ createLock' = NoOne
  /\ Judge(r, IF got[r] \in running THEN "other" ELSE "disconnect")
  /\ UNCHANGED <<cm, browser, persistent, handouts, processVars>>

(* _close_page returns: its errors are suppressed, but it is awaited. *)
PageCloses(r) ==
  /\ pc[r] = "leaving"
  /\ Judge(r, outcome[r])
  /\ UNCHANGED <<cm, browser, persistent, handouts, createLock, processVars>>

(* The lock is handed to a waiting mark_dead. *)
MarkedDead(r) ==
  /\ pc[r] = "marking"
  /\ lock = NoOne
  /\ \/ /\ cm = 0 \/ cm # doomed[r]
        /\ Again(r)
        /\ UNCHANGED lock
     \/ /\ cm # 0 /\ cm = doomed[r]
        /\ lock' = r
        /\ Goto(r, "condemning")
        /\ UNCHANGED <<attempt, got, tried, outcome, doomed>>
  /\ UNCHANGED <<cm, browser, persistent, handouts, streak>>
  /\ UNCHANGED <<createLock, processVars>>

Condemned(r) ==
  /\ pc[r] = "condemning"
  /\ CloseEnds(doomed[r])
  /\ cm' = 0
  /\ browser' = 0
  /\ lock' = NoOne
  /\ Again(r)
  /\ UNCHANGED <<persistent, handouts, streak, createLock, made, crashes, wedges>>

-----------------------------------------------------------------------------
(* is_wedged: an about:blank probe, bounded as a whole.                    *)

(* Slip: the probe opens its page without _CREATE_LOCK. *)
ProbeOpensUnlocked(r) ==
  /\ pc[r] = "probeWait"
  /\ Goto(r, "probeOpen")
  /\ UNCHANGED <<attempt, got, tried, outcome, doomed>>
  /\ UNCHANGED <<supervisorVars, createLock, processVars>>

ProbeOpens(r) ==
  /\ pc[r] = "probeWait"
  /\ createLock = NoOne
  /\ createLock' = r
  /\ Goto(r, "probeOpen")
  /\ UNCHANGED <<attempt, got, tried, outcome, doomed>>
  /\ UNCHANGED <<supervisorVars, processVars>>

ProbeLoads(r) ==
  /\ pc[r] = "probeOpen"
  /\ doomed[r] \in running
  /\ createLock' = NoOne
  /\ Goto(r, "probeLoad")
  /\ UNCHANGED <<attempt, got, tried, outcome, doomed>>
  /\ UNCHANGED <<supervisorVars, processVars>>

(* about:blank loaded: the sites are slow, and the timeout propagates. *)
ProbeAnswers(r) ==
  /\ pc[r] = "probeLoad"
  /\ doomed[r] \in running \ wedged
  /\ Reply(r, "error")
  /\ UNCHANGED <<supervisorVars, createLock, processVars>>

(* Any error, or 2.5 s, the wait for _CREATE_LOCK included. *)
ProbeFails(r) ==
  /\ pc[r] \in {"probeWait", "probeOpen", "probeLoad"}
  /\ createLock' = IF createLock = r THEN NoOne ELSE createLock
  /\ MarkDead(r)
  /\ UNCHANGED <<cm, browser, persistent, handouts, streak, processVars>>

-----------------------------------------------------------------------------
(* The browser process.                                                    *)
Crash ==
  /\ crashes < MaxCrashes
  /\ \E b \in running :
       running' = running \ {b} /\ wedged' = wedged \ {b}
  /\ crashes' = crashes + 1
  /\ UNCHANGED <<requestVars, supervisorVars, createLock, made, display, wedges>>

Wedge ==
  /\ wedges < MaxWedges
  /\ \E b \in running \ wedged : wedged' = wedged \union {b}
  /\ wedges' = wedges + 1
  /\ UNCHANGED <<requestVars, supervisorVars, createLock>>
  /\ UNCHANGED <<made, running, display, crashes>>

(* A browser that is being closed drops its pages before the close returns. *)
Exit(r) ==
  /\ pc[r] \in {"replacing", "condemning"}
  /\ doomed[r] \in running \ wedged
  /\ running' = running \ {doomed[r]}
  /\ UNCHANGED <<requestVars, supervisorVars, createLock>>
  /\ UNCHANGED <<made, wedged, display, crashes, wedges>>

Serve(r) ==
  \/ Arrive(r) \/ Admit(r)
  \/ Handout(r) \/ Replace(r) \/ Replaced(r)
  \/ LaunchSucceeds(r) \/ ProfileLocked(r) \/ LaunchFails(r)
  \/ OpenPage(r) \/ PageOpens(r) \/ OpenRaises(r) \/ PageEnds(r)
  \/ PageCloses(r) \/ MarkedDead(r) \/ Condemned(r)
  \/ ProbeOpens(r) \/ ProbeLoads(r) \/ ProbeAnswers(r) \/ ProbeFails(r)
  \/ Exit(r)

Next == (\E r \in Requests : Serve(r)) \/ Crash \/ Wedge

(* asyncio's locks and semaphore are first come, first served.  Closing is *)
(* bounded by its timeout, navigation by the request's, the probe by its   *)
(* own, and a launch ends.  Creating and closing a page, the probe's page  *)
(* included, have no bound in the code: they end in a browser that is      *)
(* sound or dead, and may hang in a wedged one.                            *)
Acquires(r) == Admit(r) \/ Handout(r) \/ Replace(r) \/ OpenPage(r) \/ MarkedDead(r)

Proceeds(r) ==
  \/ Replaced(r) \/ Condemned(r)
  \/ LaunchSucceeds(r) \/ ProfileLocked(r) \/ LaunchFails(r)
  \/ got[r] \notin wedged /\ (PageOpens(r) \/ OpenRaises(r) \/ PageCloses(r))
  \/ PageEnds(r)
  \/ doomed[r] \notin wedged /\ (ProbeAnswers(r) \/ ProbeFails(r))

Fairness ==
  \A r \in Requests : SF_vars(Acquires(r)) /\ WF_vars(Proceeds(r))

Spec == Init /\ [][Next]_vars /\ Fairness

-----------------------------------------------------------------------------
(* Safety                                                                  *)

(* "Owns the long-lived Camoufox browser" (browser_server.py:1032): no two *)
(* browser processes run at once, and one that runs is the supervisor's,   *)
(* so that a close, a probe or a recycle can still reach it - across       *)
(* crashes, failed launches, fallbacks and concurrent teardowns.           *)
OneBrowser == running \subseteq {cm}

(* Recycling bounds the pages a browser opens (browser_server.py:71-75):   *)
(* every request that holds the current browser is counted against it,     *)
(* whoever closed or relaunched what while they were handed out.           *)
Using(b) == {r \in Requests : got[r] = b}

RecycleBound ==
  browser # 0 =>
    Cardinality(Using(browser)) <= handouts /\ handouts <= RecycleAfter

(* "Retried once against a freshly relaunched browser"                     *)
(* (browser_server.py:157): attempt 1 never gets attempt 0's browser, even *)
(* while that one is being closed and still looks alive.                   *)
RetryGetsAnotherBrowser ==
  \A r \in Requests :
    attempt[r] = 1 /\ got[r] # 0 => got[r] # tried[r]

(* Concurrent page creation deadlocks Camoufox (browser_server.py:56-60):  *)
(* at most one request creates a page, the wedge probe's included.         *)
OneCreation ==
  \A r, s \in Requests : pc[r] \in Creating /\ pc[s] \in Creating => r = s

(* mark_dead "stops a late mark_dead from tearing down a freshly           *)
(* relaunched browser" (browser_server.py:1144-1148): what a failed fetch  *)
(* tears down is the browser it failed in.  The code does not keep this:   *)
(* it compares with the browser found when mark_dead is called, which is   *)
(* after the failed page's close was awaited.                              *)
TearsDownItsOwn ==
  \A r \in Requests : pc[r] = "condemning" => doomed[r] = got[r]

(* "Its descendants are exactly the Playwright node driver + camoufox-bin  *)
(* + content-process tree" (browser_server.py:989-991), so that killing    *)
(* them leaves the rest of the server alone.  With manual_solve the Xvfb   *)
(* and x11vnc are descendants too: after a forced close no browser starts. *)
DisplaySurvives == display # "killed"

(* Every request is answered, through crashes, relaunches and failed       *)
(* launches, provided that the browser never wedges.                       *)
EveryRequestAnswered ==
  \A r \in Requests : pc[r] = "waiting" ~> pc[r] \in {"ok", "error"}
=============================================================================
