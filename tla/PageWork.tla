------------------------------ MODULE PageWork ------------------------------
(***************************************************************************)
(* What the browser server does on a page (fetch_page,                     *)
(* vasco/fetch/browser_server.py): create it under the lock, load it, try  *)
(* to clear a challenge, hand the page to a human, recover from a login    *)
(* wall, and close it.  Pages of one site share the cookies of the         *)
(* persistent profile, the one manual hold, and the cooldown of clearing   *)
(* cookies.                                                                *)
(*                                                                         *)
(* BrowserServer has the browser these pages live in; here it does not     *)
(* die, and a page that fails for that or any other reason just fails.     *)
(* Deadlines may pass at any await.  Which images and trackers are blocked *)
(* does not change the control and is left out.  A close that raises is    *)
(* suppressed by the code and counts as a close.                           *)
(***************************************************************************)
EXTENDS Naturals, FiniteSets

CONSTANTS
  Pages,          \* the requests, each with a page of its own
  Sites,          \* registered domains
  Site,           \* of each page
  Nobody,         \* no page
  SolveTurnstile, \* browser.solve_turnstile
  ManualSolve,    \* browser.manual_solve
  ClearOnWall     \* browser.clear_cookies_on_wall, on a persistent profile

ASSUME SitesAssumption == Site \in [Pages -> Sites] /\ Nobody \notin Pages
ASSUME SwitchesAssumption ==
  SolveTurnstile \in BOOLEAN /\ ManualSolve \in BOOLEAN /\ ClearOnWall \in BOOLEAN

VARIABLES
  pc,       \* where the request of a page is
  page,     \* the page itself
  seen,     \* what the last load of the page showed
  hold,     \* where the human's hold of the page is
  create,   \* who holds _CREATE_LOCK
  manual,   \* _manual_in_progress
  cooling,  \* _last_cookie_clear is less than the cooldown ago
  walled,   \* the site's cookies lead to a login wall
  cleared,  \* the site's cookies hold a clearance
  clears    \* history: how often cookies were cleared in this cooldown

vars == <<pc, page, seen, hold, create, manual, cooling, walled, cleared, clears>>
profile == <<walled, cleared>>
wall == <<cooling, clears>>

TypeOK ==
  /\ pc \in [Pages -> {"new", "creating", "dressing", "loading", "judging", "solving", "unsolved",
                       "content", "clearing", "retrying", "closing", "done", "failed"}]
  /\ page \in [Pages -> {"none", "context", "open", "closed"}]
  /\ seen \in [Pages -> {"nothing", "content", "challenge", "wall"}]
  /\ hold \in [Pages -> {"none", "showing", "waiting", "closing", "over"}]
  /\ create \in Pages \union {Nobody}
  /\ manual \in BOOLEAN
  /\ cooling \in [Sites -> BOOLEAN]
  /\ walled \in [Sites -> BOOLEAN] /\ cleared \in [Sites -> BOOLEAN]
  /\ clears \in [Sites -> Nat]

(* Never cleared counts as cleared when the clock began, which on a host   *)
(* that has just started is less than the cooldown ago.                    *)
Init ==
  /\ pc = [p \in Pages |-> "new"]
  /\ page = [p \in Pages |-> "none"]
  /\ seen = [p \in Pages |-> "nothing"]
  /\ hold = [p \in Pages |-> "none"]
  /\ create = Nobody /\ manual = FALSE
  /\ \E justBooted \in BOOLEAN : cooling = [s \in Sites |-> justBooted]
  /\ walled \in [Sites -> BOOLEAN]
  /\ cleared = [s \in Sites |-> FALSE]
  /\ clears = [s \in Sites |-> 0]

Goes(p, where) == pc' = [pc EXCEPT ![p] = where]

(* What a load of the page may show, given the cookies of its site.        *)
Shows(p) ==
  (IF walled[Site[p]] THEN {"wall"} ELSE {"content"})
    \union (IF cleared[Site[p]] THEN {} ELSE {"challenge"})

(***************************************************************************)
(* Creating and loading.                                                   *)
(***************************************************************************)
Create(p) ==
  /\ pc[p] = "new" /\ create = Nobody
  /\ create' = p
  /\ Goes(p, "creating")
  /\ UNCHANGED <<page, seen, hold, manual, wall, profile>>

(* A page of its own context, for a mobile fetch of an ephemeral browser,  *)
(* may fail when the context is there already, which nobody closes then.   *)
Created(p) ==
  /\ pc[p] = "creating"
  /\ \/ page' = [page EXCEPT ![p] = "open"] /\ Goes(p, "dressing") /\ UNCHANGED create
     \/ /\ \E left \in {"none", "context"} : page' = [page EXCEPT ![p] = left]
        /\ Goes(p, "failed") /\ create' = Nobody
  /\ UNCHANGED <<seen, hold, manual, wall, profile>>

(* The page gets its viewport and headers, if any.  When that raises, the  *)
(* request is over: the try that closes the page begins after it.          *)
Dressed(p) ==
  /\ pc[p] = "dressing"
  /\ create' = Nobody
  /\ \E next \in {"loading", "failed"} : Goes(p, next)
  /\ UNCHANGED <<page, seen, hold, manual, wall, profile>>

Load(p) ==
  /\ pc[p] = "loading"
  /\ \/ \E what \in Shows(p) :
          seen' = [seen EXCEPT ![p] = what] /\ Goes(p, "judging")
     \/ Goes(p, "closing") /\ UNCHANGED seen
  /\ UNCHANGED <<page, hold, create, manual, wall, profile>>

(***************************************************************************)
(* A challenge: the automatic solver, then a human.                        *)
(***************************************************************************)
Judge(p) ==
  /\ pc[p] = "judging"
  /\ Goes(p, IF seen[p] # "challenge" THEN "content"
             ELSE IF SolveTurnstile THEN "solving" ELSE "unsolved")
  /\ UNCHANGED <<page, seen, hold, create, manual, wall, profile>>

(* A click and polling until the challenge is gone or the deadline passes; *)
(* the content read after it is whatever is there by then.                 *)
Solve(p) ==
  /\ pc[p] = "solving"
  /\ \/ /\ cleared' = [cleared EXCEPT ![Site[p]] = TRUE]
        /\ seen' = [seen EXCEPT ![p] = IF walled[Site[p]] THEN "wall" ELSE "content"]
        /\ Goes(p, "content")
     \/ Goes(p, "unsolved") /\ UNCHANGED <<cleared, seen>>
     \/ Goes(p, "closing") /\ UNCHANGED <<cleared, seen>>
  /\ UNCHANGED <<page, hold, create, manual, wall, walled>>

(* _start_manual_hold: the page stays open behind the answer, unless there *)
(* is a hold already.                                                      *)
HandOver(p) ==
  /\ pc[p] = "unsolved" /\ ManualSolve /\ ~manual
  /\ manual' = TRUE
  /\ hold' = [hold EXCEPT ![p] = "showing"]
  /\ Goes(p, "done")
  /\ UNCHANGED <<page, seen, create, wall, profile>>

(* Slip in LeaveChallenge: a page that was refused to the human counts   *)
(* as handed over.                                                         *)
LeaveChallengeHeld(p) ==
  /\ pc[p] = "unsolved" /\ (ManualSolve => manual)
  /\ Goes(p, IF ManualSolve THEN "done" ELSE "closing")
  /\ UNCHANGED <<page, seen, hold, create, manual, wall, profile>>

LeaveChallenge(p) ==
  /\ pc[p] = "unsolved" /\ (ManualSolve => manual)
  /\ Goes(p, "closing")
  /\ UNCHANGED <<page, seen, hold, create, manual, wall, profile>>

(* _manual_solve_hold: images are shown and the user is told, then the     *)
(* page is polled until it clears, the hold times out or the page is gone. *)
Show(p) ==
  /\ hold[p] = "showing"
  /\ hold' = [hold EXCEPT ![p] = "waiting"]
  /\ UNCHANGED <<pc, page, seen, create, manual, wall, profile>>

(* Slip in HoldEnds: the flag is cleared by a hold that was solved only. *)
HoldEndsFlagged(p) ==
  /\ hold[p] \in {"showing", "waiting"}
  /\ hold' = [hold EXCEPT ![p] = "closing"]
  /\ \/ /\ hold[p] = "waiting" /\ manual' = FALSE
        /\ cleared' = [cleared EXCEPT ![Site[p]] = TRUE]
     \/ UNCHANGED <<manual, cleared>>
  /\ UNCHANGED <<pc, page, seen, create, wall, walled>>

HoldEnds(p) ==
  /\ hold[p] \in {"showing", "waiting"}
  /\ hold' = [hold EXCEPT ![p] = "closing"]
  /\ manual' = FALSE
  /\ \/ hold[p] = "waiting" /\ cleared' = [cleared EXCEPT ![Site[p]] = TRUE]
     \/ UNCHANGED cleared
  /\ UNCHANGED <<pc, page, seen, create, wall, walled>>

HoldCloses(p) ==
  /\ hold[p] = "closing"
  /\ hold' = [hold EXCEPT ![p] = "over"]
  /\ page' = [page EXCEPT ![p] = "closed"]
  /\ UNCHANGED <<pc, seen, create, manual, wall, profile>>

(***************************************************************************)
(* A login wall (_maybe_recover_login_wall): clear the site's cookies and  *)
(* load the page once more.                                                *)
(***************************************************************************)
NoWall(p) ==
  /\ pc[p] = "content"
  /\ seen[p] # "wall" \/ ~ClearOnWall \/ cooling[Site[p]]
  /\ Goes(p, "closing")
  /\ UNCHANGED <<page, seen, hold, create, manual, wall, profile>>

(* Slip in Recover: the cooldown is not noted before the clear.          *)
RecoverUnnoted(p) ==
  /\ pc[p] = "content" /\ seen[p] = "wall" /\ ClearOnWall /\ ~cooling[Site[p]]
  /\ Goes(p, "clearing")
  /\ UNCHANGED <<page, seen, hold, create, manual, wall, profile>>

Recover(p) ==
  /\ pc[p] = "content" /\ seen[p] = "wall" /\ ClearOnWall /\ ~cooling[Site[p]]
  /\ cooling' = [cooling EXCEPT ![Site[p]] = TRUE]
  /\ Goes(p, "clearing")
  /\ UNCHANGED <<page, seen, hold, create, manual, clears, profile>>

(* All of the site's cookies go, a clearance among them.                   *)
Clear(p) ==
  /\ pc[p] = "clearing"
  /\ \/ /\ walled' = [walled EXCEPT ![Site[p]] = FALSE]
        /\ cleared' = [cleared EXCEPT ![Site[p]] = FALSE]
        /\ clears' = [clears EXCEPT ![Site[p]] = @ + 1]
        /\ \E next \in {"retrying", "closing"} : Goes(p, next)
     \/ Goes(p, "closing") /\ UNCHANGED <<profile, clears>>
  /\ UNCHANGED <<page, seen, hold, create, manual, cooling>>

(* What the second load shows counts unless it is a wall again.            *)
Retry(p) ==
  /\ pc[p] = "retrying"
  /\ \/ \E what \in Shows(p) : seen' = [seen EXCEPT ![p] = what]
     \/ UNCHANGED seen
  /\ Goes(p, "closing")
  /\ UNCHANGED <<page, hold, create, manual, wall, profile>>

Close(p) ==
  /\ pc[p] = "closing"
  /\ page' = [page EXCEPT ![p] = "closed"]
  /\ Goes(p, "done")
  /\ UNCHANGED <<seen, hold, create, manual, wall, profile>>

(***************************************************************************)
(* Sites turn on a profile, clearances expire, and time passes; no clear   *)
(* takes as long as the cooldown.                                          *)
(***************************************************************************)
Sours(s) ==
  /\ ~walled[s]
  /\ walled' = [walled EXCEPT ![s] = TRUE]
  /\ UNCHANGED <<pc, page, seen, hold, create, manual, wall, cleared>>

Cools(s) ==
  /\ cooling[s] /\ ~\E p \in Pages : pc[p] = "clearing" /\ Site[p] = s
  /\ cooling' = [cooling EXCEPT ![s] = FALSE]
  /\ clears' = [clears EXCEPT ![s] = 0]
  /\ UNCHANGED <<pc, page, seen, hold, create, manual, profile>>

Serve(p) ==
  \/ Create(p) \/ Created(p) \/ Dressed(p)
  \/ Load(p) \/ Judge(p) \/ Solve(p) \/ HandOver(p) \/ LeaveChallenge(p)
  \/ NoWall(p) \/ Recover(p) \/ Clear(p) \/ Retry(p) \/ Close(p)

Hold(p) == Show(p) \/ HoldEnds(p) \/ HoldCloses(p)

Next ==
  \/ \E p \in Pages : Serve(p) \/ Hold(p)
  \/ \E s \in Sites : Sours(s) \/ Cools(s)

(* Waits on a page are bounded by the deadline or the hold's own timeout;  *)
(* the lock is taken in turn.                                              *)
Fairness == \A p \in Pages : SF_vars(Create(p)) /\ WF_vars(Serve(p)) /\ WF_vars(Hold(p))
Spec == Init /\ [][Next]_vars /\ Fairness

(***************************************************************************)
(* Properties.                                                             *)
(***************************************************************************)
Held == {p \in Pages : hold[p] \in {"showing", "waiting"}}

(* Once the creation has come to its end, a page has one owner: a request  *)
(* that is over has closed its page, or the hold owns it, open until its   *)
(* own end; and there is one human at a time, never nobody: the flag that  *)
(* keeps a second page from being held is set exactly while a page is.     *)
PageHasOneOwner ==
  /\ Cardinality(Held) = (IF manual THEN 1 ELSE 0)
  /\ \A p \in Pages :
       /\ pc[p] = "done" /\ hold[p] = "none" => page[p] = "closed"
       /\ p \in Held \/ hold[p] = "closing" => page[p] = "open"

(* No page stays open without an owner, however its request ended.  It     *)
(* does not hold: one whose viewport or headers failed is open for good.   *)
NoPageLeft ==
  \A p \in Pages :
    pc[p] \in {"done", "failed"} /\ hold[p] \in {"none", "over"} => page[p] # "open"

(* However many pages of a site meet its login wall together, its cookies  *)
(* are cleared once per cooldown.                                          *)
ClearsOncePerCooldown == \A s \in Sites : clears[s] <= 1

(* Every page that was opened is closed in the end, unless its creation    *)
(* failed after that (see NoPageLeft).                                    *)
EveryPageCloses ==
  \A p \in Pages : page[p] = "open" ~> (page[p] = "closed" \/ pc[p] = "failed")
=============================================================================
