-------------------------- MODULE EscalationChain ---------------------------
(***************************************************************************)
(* One run of the escalation chain (_do_fetch_html, vasco/fetch/core.py):  *)
(* http, http again with honest headers, browser, mobile browser, archive, *)
(* each gated by the time left, and what the run teaches the route about   *)
(* where to start (vasco/cache.py, bump).                                  *)
(*                                                                         *)
(* An action is one tier with the decisions after it, up to the next       *)
(* tier's await.  Other runs of the same route appear by what they teach   *)
(* it meanwhile.                                                           *)
(*                                                                         *)
(* Time is the whole seconds left of the call's deadline.  A tier may take *)
(* any time: the caps are handed to httpx, whose timeout is per operation, *)
(* and to the browser server, which gives each of its attempts the whole   *)
(* cap.  Responses are told apart as far as the chain does.                *)
(*                                                                         *)
(* Left out: a run without a cache, and the telemetry of the phases.       *)
(***************************************************************************)
EXTENDS Integers, Learning

CONSTANTS
  Modes,        \* the modes a call may ask for
  Deadlines,    \* the deadlines a call may set, in seconds
  Latest,       \* bound for TLC: how far past its deadline a run may get
  Seed,         \* strategy.seed_strategy of the route, or "none"
  SeedProfile,  \* strategy.seed_header_profile of the host, or "browser"
  Rule          \* the header profile of a user's domains rule, or "none"

ASSUME ModesAssumption ==
  Modes \subseteq {"auto", "http", "browser", "mobile", "wayback"}
ASSUME TimeAssumption == Deadlines \subseteq Nat /\ Latest \in Nat
ASSUME SeedsAssumption ==
  /\ Seed \in {"none", "http", "browser"}
  /\ SeedProfile \in {"browser", "honest"}
  /\ Rule \in {"none", "browser", "honest"}

HTTP_TIMEOUT_FLOOR == 1
BROWSER_MIN_BUDGET == 3
MOBILE_MIN_BUDGET == 3
WAYBACK_MIN_BUDGET == 4

(* A fingerprint block stands for BLOCKED_CLOUDFLARE and BLOCKED_BOT, which *)
(* other headers may clear; "failed" for every reason that neither ends    *)
(* the http tier for good nor justifies recovery.                          *)
Blocks == {"fingerprint", "captcha"}
Failures == Blocks \union {"not_found", "failed"}

Failed(reasons) == [reason : reasons, body : {"none"}]
Ok(bodies) == [reason : {"ok"}, body : bodies]

HttpAnswers == Ok({"text", "shell", "document", "binary"}) \union Failed(Failures)
BrowserAnswers ==
  Ok({"text", "shell"}) \union Failed(Failures \union {"unavailable", "raised"})
ArchiveAnswers == Ok({"text", "shell"}) \union Failed({"miss"})

Untried == [reason |-> "untried", body |-> "none"]
Answers == HttpAnswers \union BrowserAnswers \union ArchiveAnswers \union {Untried}

Tiers == {"http", "honest", "browser", "mobile", "wayback"}

VARIABLES
  mode,     \* the call's mode
  raw,      \* TRUE: the body is wanted verbatim
  archive,  \* allow_snapshot
  profile,  \* the header profile resolved for this run
  pc,       \* the tier that is awaited
  left,     \* seconds until the deadline
  seen,     \* what each tier answered
  record,   \* what this run told bump about each tier
  out,      \* the outcome: the mode it names and its reason
  row,      \* the route's row of fetch_strategy
  header    \* the route's learned header profile

callVars == <<mode, raw, archive>>
vars == <<callVars, profile, pc, left, seen, record, out, row, header>>

NoOutcome == [mode |-> "none", reason |-> "none"]
Outcomes ==
  [mode : Tiers \union {"browser+mobile", "none"},
   reason : Failures \union {"ok", "unavailable", "unsupported", "deadline",
                             "error", "none"}]

TypeOK ==
  /\ mode \in Modes
  /\ raw \in BOOLEAN /\ archive \in BOOLEAN
  /\ profile \in {"browser", "honest"}
  /\ pc \in Tiers \union {"start", "done"}
  /\ left \in Int
  /\ seen \in [Tiers -> Answers]
  /\ record \in [Learnable -> {"none", "success", "failure"}]
  /\ out \in Outcomes
  /\ row \in Rows
  /\ header \in {"none", "honest"}

Init ==
  /\ mode \in Modes
  /\ raw \in BOOLEAN /\ archive \in BOOLEAN
  /\ profile = "browser"
  /\ pc = "start"
  /\ left \in Deadlines
  /\ seen = [t \in Tiers |-> Untried]
  /\ record = [t \in Learnable |-> "none"]
  /\ out = NoOutcome
  /\ row \in Rows
  /\ header \in {"none", "honest"}

-----------------------------------------------------------------------------
(* Learning: Cache.bump, get_strategy, set_header_profile.                 *)

(* A write that fails is suppressed. *)
Record(t, good) ==
  /\ record' = [record EXCEPT ![t] = IF good THEN "success" ELSE "failure"]
  /\ row' \in {row, Bumped(row, t, good)}

NoRecord == UNCHANGED <<record, row>>

(* Another run of the route. *)
OthersLearn ==
  /\ \/ \E t \in Learnable, good \in BOOLEAN : row' = Bumped(row, t, good)
     \/ UNCHANGED row
  /\ header' \in {header, "honest"}
  /\ UNCHANGED <<callVars, profile, pc, left, seen, record, out>>

-----------------------------------------------------------------------------
Strategy(found) == IF found = NoRow THEN Seed ELSE found.pref

ResolvedProfile(learned) ==
  IF Rule # "none" THEN Rule
  ELSE IF learned # "none" THEN learned
  ELSE SeedProfile

FirstTier(strategy) ==
  IF mode # "auto" THEN mode
  ELSE IF strategy = "browser" /\ profile' # "honest" THEN "browser" ELSE "http"

(* Up to the first tier's await.  A read that fails finds nothing. *)
Begin ==
  /\ pc = "start"
  /\ \E learned \in {header, "none"} : profile' = ResolvedProfile(learned)
  /\ \E found \in {row, NoRow} : pc' = FirstTier(Strategy(found))
  /\ UNCHANGED <<callVars, left, seen, record, out, row, header>>

Escalate(t) == pc' = t /\ UNCHANGED out

Finish(m, reason) ==
  /\ pc' = "done"
  /\ out' = [mode |-> m, reason |-> reason]

(* Tier t is awaited and answers a.  With no time left it is not tried. *)
Await(t, answers) ==
  /\ pc = t
  /\ left' \in (-Latest)..left
  /\ \E a \in answers :
       /\ left <= 0 => a.reason \in {"failed", "miss"}
       /\ seen' = [seen EXCEPT ![t] = a]

-----------------------------------------------------------------------------
(* The http tier.                                                          *)

(* An unrendered shell in auto mode, with time for the browser. *)
GoesOnEmpty(a) ==
  a.body = "shell" /\ ~raw /\ mode = "auto" /\ left' >= BROWSER_MIN_BUDGET

(* Slip: a shell that the browser will render is recorded as a success. *)
JudgeHttpShellLearned(a) ==
  \/ /\ a.reason = "ok" /\ a.body = "binary" /\ ~raw
     /\ Finish("http", "unsupported")
     /\ NoRecord
  \/ /\ a.reason = "ok" /\ (a.body = "binary" => raw)
     /\ Record("http", TRUE)
     /\ IF GoesOnEmpty(a) THEN Escalate("browser") ELSE Finish("http", "ok")
  \/ /\ a.reason # "ok" /\ mode = "http"
     /\ Record("http", FALSE)
     /\ Finish("http", a.reason)
  \/ /\ a.reason = "not_found" /\ mode = "auto"
     /\ Finish("http", "not_found")
     /\ NoRecord
  \/ /\ a.reason \notin {"ok", "not_found"} /\ mode = "auto"
     /\ IF left' < BROWSER_MIN_BUDGET
        THEN Record("http", FALSE) /\ Finish("http", "deadline")
        ELSE NoRecord /\ Escalate("browser")

(* What becomes of the http tier's last word a. *)
JudgeHttp(a) ==
  \/ /\ a.reason = "ok" /\ a.body = "binary" /\ ~raw
     /\ Finish("http", "unsupported")
     /\ NoRecord
  \/ /\ a.reason = "ok" /\ (a.body = "binary" => raw) /\ ~GoesOnEmpty(a)
     /\ Record("http", TRUE)
     /\ Finish("http", "ok")
  \/ /\ GoesOnEmpty(a)
     /\ Escalate("browser")
     /\ NoRecord
  \/ /\ a.reason # "ok" /\ mode = "http"
     /\ Record("http", FALSE)
     /\ Finish("http", a.reason)
  \/ /\ a.reason = "not_found" /\ mode = "auto"
     /\ Finish("http", "not_found")
     /\ NoRecord
  \/ /\ a.reason \notin {"ok", "not_found"} /\ mode = "auto"
     /\ IF left' < BROWSER_MIN_BUDGET
        THEN Record("http", FALSE) /\ Finish("http", "deadline")
        ELSE NoRecord /\ Escalate("browser")

(* Other headers may clear a block of the browser-like ones. *)
HeaderRetry(a) ==
  a.reason = "fingerprint" /\ profile = "browser" /\ left' >= HTTP_TIMEOUT_FLOOR

HttpTier ==
  /\ Await("http", HttpAnswers)
  /\ \/ HeaderRetry(seen'["http"]) /\ Escalate("honest") /\ NoRecord
     \/ ~HeaderRetry(seen'["http"]) /\ JudgeHttp(seen'["http"])
  /\ UNCHANGED <<callVars, profile, header>>

(* Slip: the retry's success is learned, its answer is not taken over. *)
HonestTierForgets ==
  /\ Await("honest", HttpAnswers)
  /\ JudgeHttp(seen["http"])
  /\ header' \in IF seen'["honest"].reason = "ok" THEN {header, "honest"}
                 ELSE {header}
  /\ UNCHANGED <<callVars, profile>>

(* Only a success counts, and is learned; otherwise the block stands. *)
HonestTier ==
  /\ Await("honest", HttpAnswers)
  /\ \/ /\ seen'["honest"].reason = "ok"
        /\ JudgeHttp(seen'["honest"])
        /\ header' \in {header, "honest"}
     \/ /\ seen'["honest"].reason # "ok"
        /\ JudgeHttp(seen["http"])
        /\ UNCHANGED header
  /\ UNCHANGED <<callVars, profile>>

-----------------------------------------------------------------------------
(* The browser tiers and the archive.                                      *)

Archivable == archive /\ left' >= WAYBACK_MIN_BUDGET

(* With no archive to ask, the browser's block is the answer. *)
ToArchive(block) ==
  \/ Archivable /\ Escalate("wayback")
  \/ ~Archivable /\ Finish("browser", block)

(* An exception that is none of the known ones leaves the chain. *)
BrowserTier ==
  /\ Await("browser", BrowserAnswers)
  /\ LET reason == seen'["browser"].reason
     IN  \/ /\ reason = "raised"
            /\ Finish("none", "error")
            /\ NoRecord
         \/ /\ reason # "raised"
            /\ mode = "browser" \/ reason \notin Blocks
            /\ Record("browser", reason = "ok")
            /\ Finish("browser", reason)
         \/ /\ reason \in Blocks /\ mode = "auto"
            /\ Record("browser", FALSE)
            /\ IF left' >= MOBILE_MIN_BUDGET
               THEN Escalate("mobile") ELSE ToArchive(reason)
  /\ UNCHANGED <<callVars, profile, header>>

(* Slip: only a block goes on to the archive, an exception ends the chain. *)
MobileTierRaises ==
  /\ Await("mobile", BrowserAnswers)
  /\ LET reason == seen'["mobile"].reason
     IN  \/ reason = "raised" /\ Finish("none", "error")
         \/ /\ mode = "mobile" /\ reason # "raised"
            /\ Finish("mobile", reason)
         \/ /\ mode = "auto" /\ reason \notin Blocks \union {"raised"}
            /\ Finish("browser+mobile", reason)
         \/ mode = "auto" /\ reason \in Blocks /\ ToArchive(seen["browser"].reason)
  /\ NoRecord
  /\ UNCHANGED <<callVars, profile, header>>

(* Slip: the mobile tier's block replaces the browser's. *)
MobileTierOverwrites ==
  /\ Await("mobile", BrowserAnswers)
  /\ LET reason == seen'["mobile"].reason
     IN  \/ mode = "mobile" /\ reason = "raised" /\ Finish("none", "error")
         \/ mode = "mobile" /\ reason # "raised" /\ Finish("mobile", reason)
         \/ /\ mode = "auto" /\ reason \notin Blocks \union {"raised"}
            /\ Finish("browser+mobile", reason)
         \/ /\ mode = "auto" /\ reason \in Blocks \union {"raised"}
            /\ ToArchive(IF reason \in Blocks THEN reason ELSE seen["browser"].reason)
  /\ NoRecord
  /\ UNCHANGED <<callVars, profile, header>>

(* In auto mode the mobile tier is best effort: whatever it raises, the    *)
(* browser's block stands and the archive is next.                         *)
MobileTier ==
  /\ Await("mobile", BrowserAnswers)
  /\ LET reason == seen'["mobile"].reason
     IN  \/ mode = "mobile" /\ reason = "raised" /\ Finish("none", "error")
         \/ mode = "mobile" /\ reason # "raised" /\ Finish("mobile", reason)
         \/ /\ mode = "auto" /\ reason \notin Blocks \union {"raised"}
            /\ Finish("browser+mobile", reason)
         \/ /\ mode = "auto" /\ reason \in Blocks \union {"raised"}
            /\ ToArchive(seen["browser"].reason)
  /\ NoRecord
  /\ UNCHANGED <<callVars, profile, header>>

ArchiveTier ==
  /\ Await("wayback", ArchiveAnswers)
  /\ \/ seen'["wayback"].reason = "ok" /\ Finish("wayback", "ok")
     \/ /\ seen'["wayback"].reason = "miss"
        /\ IF mode = "wayback" THEN Finish("wayback", "not_found")
           ELSE Finish("browser", seen["browser"].reason)
  /\ NoRecord
  /\ UNCHANGED <<callVars, profile, header>>

Next ==
  Begin \/ HttpTier \/ HonestTier \/ BrowserTier \/ MobileTier \/ ArchiveTier
    \/ OthersLearn

Spec == Init /\ [][Next]_vars

-----------------------------------------------------------------------------
(* Properties of a run that has ended.                                     *)

Done == pc = "done"

Label(t) ==
  CASE t = "honest" -> "http"
    [] t = "mobile" /\ mode = "auto" -> "browser+mobile"
    [] OTHER -> t

Rank == [http |-> 1, honest |-> 2, browser |-> 3, mobile |-> 4, wayback |-> 5]

HasContent(t) == seen[t].reason = "ok" /\ seen[t].body \in {"text", "document"}

(* "Stopping at the first tier that yields content" (README.md:236): the   *)
(* outcome of a run in which a tier yielded content is that tier's, and no *)
(* later tier was tried.                                                   *)
FirstContent ==
  Done => \A t \in Tiers : HasContent(t) =>
    /\ out = [mode |-> Label(t), reason |-> "ok"]
    /\ \A u \in Tiers : Rank[u] > Rank[t] => seen[u] = Untried

(* The strategy "does not shorten the recovery tail" (core.py:389-390): in *)
(* auto mode a block is reported only when each recovery tier was tried or *)
(* had no time left, wherever the run started, and it is the block of the  *)
(* desktop browser, whatever the mobile tier and the archive said.         *)
GivesUpLast ==
  Done /\ mode = "auto" /\ out.reason \in Blocks =>
    /\ out.mode = "browser" /\ out.reason = seen["browser"].reason
    /\ seen["mobile"] = Untried => left < MOBILE_MIN_BUDGET
    /\ seen["wayback"] = Untried => ~archive \/ left < WAYBACK_MIN_BUDGET

(* A reported failure is one that the tier it names met, a run that ended  *)
(* for lack of time after the http tier had indeed no time for a browser,  *)
(* and auto mode's exceptions come from the desktop browser alone.         *)
NamesItsTier ==
  Done /\ out.reason # "ok" =>
    CASE out.reason = "unsupported" ->
           ~raw /\ \E t \in {"http", "honest"} : seen[t].body = "binary"
      [] out.reason = "deadline" ->
           mode = "auto" /\ seen["http"].reason \in Failures
             /\ left < BROWSER_MIN_BUDGET
      [] out.reason = "error" ->
           seen[IF mode = "mobile" THEN "mobile" ELSE "browser"].reason = "raised"
      [] OTHER ->
           \/ \E t \in Tiers :
                Label(t) = out.mode /\ seen[t].reason = out.reason
           \/ mode = "wayback" /\ seen["wayback"].reason = "miss"

(* What a run teaches the route is what it showed of each tier: no http    *)
(* success for a page that the browser had to render (core.py:577-579), no *)
(* trace of the mobile tier and the archive, no strike for a page that     *)
(* does not exist, and a strike of http only where the run ended there.    *)
LearnsWhatItShowed ==
  Done =>
    /\ record["http"] = "success" <=> out = [mode |-> "http", reason |-> "ok"]
    /\ record["http"] = "failure" <=>
         /\ out.mode = "http"
         /\ \/ out.reason = "deadline"
            \/ mode = "http" /\ out.reason \in Failures
    /\ record["browser"] = "success" <=> seen["browser"].reason = "ok"
    /\ record["browser"] = "failure" <=>
         seen["browser"].reason \notin {"ok", "untried", "raised"}

(* "Return a sentinel so the auto chain escalates (e.g. to wayback) like   *)
(* any other browser-tier failure" (core.py:231-234): when the browser     *)
(* server is not there, the archive is tried if there is time.  The code   *)
(* does not keep this: the reason is not among the recoverable ones.       *)
UnavailableGoesOn ==
  Done /\ mode = "auto" /\ seen["browser"].reason = "unavailable"
    /\ archive /\ left >= WAYBACK_MIN_BUDGET
    => seen["wayback"] # Untried
=============================================================================
