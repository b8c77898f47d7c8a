------------------------ MODULE BrowserServerProofs -------------------------
(***************************************************************************)
(* Proofs about BrowserServer, for every finite set of requests and every  *)
(* positive limit.                                                         *)
(*                                                                         *)
(* None of the properties is inductive.  IInv adds who holds which lock,   *)
(* what the holder of the supervisor's lock knows (the browser it closes   *)
(* is the supervisor's, the browser it launches is new and alone), and     *)
(* that the browser of a failed attempt is never the supervisor's again.   *)
(***************************************************************************)
EXTENDS BrowserServer, FiniteSetTheorems, TLAPS

(* The two locks: who is in the code they protect holds them. *)
LockInv == \A r \in Requests : pc[r] \in Supervising <=> lock = r

CreateInv == \A r \in Requests : pc[r] \in Creating <=> createLock = r

(* A browser that is being closed is the supervisor's. *)
ClosingInv ==
  \A r \in Requests : pc[r] \in {"replacing", "condemning"} =>
    doomed[r] = cm /\ cm # 0

(* A browser that is being launched is the newest, nobody has been handed  *)
(* it, and no browser runs.                                                *)
LaunchInv ==
  \A r \in Requests : pc[r] \in {"launching", "fallback"} =>
    /\ cm = made /\ cm # 0 /\ browser = 0 /\ running = {}
    /\ \A s \in Requests : got[s] # cm

(* Browsers' numbers come from one counter. *)
NumberInv ==
  /\ cm <= made
  /\ \A r \in Requests : got[r] <= made /\ tried[r] <= made

(* A request that waits in mark_dead noted its own browser if that one is  *)
(* still there, and a retried request's browser is not there.              *)
StaleInv ==
  /\ \A r \in Requests :
       pc[r] = "marking" /\ got[r] # 0 /\ got[r] = cm => doomed[r] = cm
  /\ \A r \in Requests : attempt[r] = 1 /\ tried[r] # 0 => tried[r] # cm

IInv ==
  /\ TypeOK /\ LockInv /\ CreateInv /\ ClosingInv /\ LaunchInv /\ NumberInv
  /\ StaleInv /\ OneBrowser /\ RetryGetsAnotherBrowser /\ RecycleBound

-----------------------------------------------------------------------------
(* What the steps do to the invariant.  Most steps of a request outside    *)
(* the supervisor move it on, and take or give up _CREATE_LOCK.            *)
Places == {"waiting", "asking", "creating", "loading", "leaving", "probeWait", "probeLoad"}

Moves(r) ==
  /\ pc[r] \notin Supervising
  /\ UNCHANGED <<attempt, got, tried, doomed>>
  /\ UNCHANGED <<supervisorVars, processVars>>
  /\ outcome' \in [Requests -> Outcomes \union {"none"}]
  /\ \/ /\ createLock = NoOne /\ createLock' = r
        /\ \E p \in Creating : Goto(r, p)
     \/ /\ createLock' = IF createLock = r THEN NoOne ELSE createLock
        /\ \E p \in Places : Goto(r, p)

(* The end of an attempt or of a probe: the request is answered, condemns  *)
(* the browser, queues up to do so, tries again or probes.                 *)
Answered(r) == lock' = lock /\ \E p \in {"ok", "error"} : Reply(r, p)

Condemns(r) ==
  /\ lock = NoOne /\ lock' = r /\ cm # 0
  /\ doomed' = [doomed EXCEPT ![r] = cm]
  /\ Goto(r, "condemning")
  /\ UNCHANGED <<attempt, got, tried, outcome>>

Queues(r) ==
  /\ doomed' = [doomed EXCEPT ![r] = cm]
  /\ Goto(r, "marking")
  /\ UNCHANGED <<attempt, got, tried, outcome, lock>>

Retries(r) == lock' = lock /\ Again(r) /\ (got[r] # 0 => got[r] # cm)

Probes(r) ==
  /\ doomed' = [doomed EXCEPT ![r] = browser]
  /\ Goto(r, "probeWait")
  /\ UNCHANGED <<attempt, got, tried, outcome, lock>>

Judged(r) ==
  /\ pc[r] \notin Supervising
  /\ createLock' = IF createLock = r THEN NoOne ELSE createLock
  /\ streak' \in 0..(Threshold - 1)
  /\ UNCHANGED <<cm, browser, persistent, handouts, processVars>>
  /\ Answered(r) \/ Condemns(r) \/ Queues(r) \/ Retries(r) \/ Probes(r)

(* mark_dead, called while the supervisor's lock is free or not. *)
LEMMA MarkDeadEffect ==
  ASSUME TypeOK, NEW r \in Requests, MarkDead(r)
  PROVE  Condemns(r) \/ Queues(r) \/ Retries(r)
BY DEF MarkDead, Condemns, Queues, Retries

LEMMA JudgeEffect ==
  ASSUME TypeOK, NEW r \in Requests, NEW o, Judge(r, o)
  PROVE  /\ streak' \in 0..(Threshold - 1)
         /\ Answered(r) \/ Condemns(r) \/ Queues(r) \/ Retries(r) \/ Probes(r)
<1>1. streak' \in 0..(Threshold - 1)
  <2>1. streak' = streak \/ streak' = 0 \/ (streak' = streak + 1 /\ streak + 1 < Threshold)
    BY DEF Judge
  <2>2. QED
    BY <2>1, ThresholdAssumption DEF TypeOK
<1>2. Answered(r) \/ MarkDead(r) \/ Probes(r)
  BY DEF Judge, Suspect, Answered, Probes
<1>3. QED
  BY <1>1, <1>2, MarkDeadEffect

LEMMA JudgedSteps ==
  ASSUME TypeOK, CreateInv, StaleInv, NEW r \in Requests,
         OpenRaises(r) \/ PageCloses(r) \/ MarkedDead(r)
         \/ ProbeAnswers(r) \/ ProbeFails(r)
  PROVE  Judged(r)
<1> USE DEF Supervising, Creating
<1>1. CASE OpenRaises(r)
  BY <1>1, JudgeEffect DEF OpenRaises, Judged, CreateInv
<1>2. CASE PageCloses(r)
  BY <1>2, JudgeEffect DEF PageCloses, Judged, CreateInv
<1>3. CASE MarkedDead(r)
  <2>1. Condemns(r) \/ Retries(r)
    BY <1>3 DEF MarkedDead, Condemns, Retries, StaleInv, TypeOK
  <2>2. QED
    BY <1>3, <2>1 DEF MarkedDead, Judged, CreateInv, TypeOK
<1>4. CASE ProbeAnswers(r)
  <2>1. Answered(r)
    BY <1>4 DEF ProbeAnswers, Answered, supervisorVars
  <2>2. QED
    BY <1>4, <2>1 DEF ProbeAnswers, Judged, CreateInv, TypeOK, supervisorVars
<1>5. CASE ProbeFails(r)
  BY <1>5, MarkDeadEffect DEF ProbeFails, Judged, TypeOK
<1>6. QED
  BY <1>1, <1>2, <1>3, <1>4, <1>5

LEMMA MovingSteps ==
  ASSUME TypeOK, CreateInv, NEW r \in Requests,
         Arrive(r) \/ Admit(r) \/ OpenPage(r) \/ PageOpens(r) \/ PageEnds(r)
         \/ ProbeOpens(r) \/ ProbeLoads(r)
  PROVE  Moves(r)
<1> USE DEF Supervising, Creating, Places, Moves, TypeOK
<1>1. CASE Arrive(r) \/ Admit(r)
  BY <1>1 DEF Arrive, Admit, CreateInv
<1>2. CASE OpenPage(r) \/ ProbeOpens(r)
  BY <1>2 DEF OpenPage, ProbeOpens
<1>3. CASE PageOpens(r) \/ ProbeLoads(r)
  BY <1>3 DEF PageOpens, ProbeLoads, CreateInv
<1>4. CASE PageEnds(r)
  BY <1>4 DEF PageEnds, CreateInv, PageOutcomes, Outcomes
<1>5. QED
  BY <1>1, <1>2, <1>3, <1>4

-----------------------------------------------------------------------------
(* Requests that hold a browser.  No step but a handout adds one.          *)
LEMMA UsingShrinks ==
  ASSUME NEW b, NEW c, Using(c)' \subseteq Using(b),
         Cardinality(Using(b)) <= handouts, handouts \in Nat
  PROVE  Cardinality(Using(c)') <= handouts
<1>1. IsFiniteSet(Using(b))
  BY RequestsAssumption, FS_Subset DEF Using
<1>2. /\ IsFiniteSet(Using(c)')
      /\ Cardinality(Using(c)') <= Cardinality(Using(b))
  BY <1>1, FS_Subset
<1>3. Cardinality(Using(c)') \in Nat /\ Cardinality(Using(b)) \in Nat
  BY <1>1, <1>2, FS_CardinalityType
<1>4. QED
  BY <1>2, <1>3

(* A handout adds at most one. *)
LEMMA UsingGrows ==
  ASSUME NEW b, NEW r \in Requests, Using(b)' \subseteq Using(b) \union {r},
         Cardinality(Using(b)) <= handouts, handouts \in Nat
  PROVE  Cardinality(Using(b)') <= handouts + 1
<1>1. IsFiniteSet(Using(b))
  BY RequestsAssumption, FS_Subset DEF Using
<1>2. Cardinality(Using(b)) \in Nat
  BY <1>1, FS_CardinalityType
<1>3. /\ IsFiniteSet(Using(b) \union {r})
      /\ \/ Cardinality(Using(b) \union {r}) = Cardinality(Using(b))
         \/ Cardinality(Using(b) \union {r}) = Cardinality(Using(b)) + 1
  BY <1>1, FS_AddElement
<1>4. /\ IsFiniteSet(Using(b)')
      /\ Cardinality(Using(b)') <= Cardinality(Using(b) \union {r})
  BY <1>3, FS_Subset
<1>5. Cardinality(Using(b)') \in Nat
  BY <1>4, FS_CardinalityType
<1>6. QED
  BY <1>2, <1>3, <1>4, <1>5

(* Steps that change nothing of the supervisor but, perhaps, its streak,   *)
(* and give no request a browser, keep the count.                          *)
LEMMA CountKept ==
  ASSUME TypeOK, RecycleBound, browser' = browser, handouts' = handouts,
         \A s \in Requests : got'[s] = got[s] \/ got'[s] = 0
  PROVE  RecycleBound'
<1> SUFFICES ASSUME browser # 0
             PROVE  Cardinality(Using(browser)') <= handouts
  BY RecycleAssumption DEF RecycleBound, TypeOK
<1>1. Using(browser)' \subseteq Using(browser)
  BY DEF Using
<1>2. handouts \in Nat
  BY RecycleAssumption DEF TypeOK
<1>3. QED
  BY <1>1, <1>2, UsingShrinks DEF RecycleBound

-----------------------------------------------------------------------------
(* The invariant is preserved: first by the steps outside the supervisor.  *)
LEMMA MovesStep ==
  ASSUME IInv, NEW r \in Requests, Moves(r)
  PROVE  IInv'
<1> USE DEF IInv, Moves, Goto, supervisorVars, processVars
<1>1. TypeOK'
  BY DEF TypeOK, Serving, Places, Creating, Supervising
<1>2. LockInv' /\ CreateInv'
  BY RequestsAssumption DEF LockInv, CreateInv, TypeOK, Places, Creating, Supervising
<1>3. ClosingInv' /\ LaunchInv' /\ NumberInv' /\ OneBrowser'
  BY DEF ClosingInv, LaunchInv, NumberInv, OneBrowser, TypeOK, Places, Creating
<1>4. StaleInv' /\ RetryGetsAnotherBrowser'
  BY DEF StaleInv, RetryGetsAnotherBrowser, TypeOK, Places, Creating
<1>5. RecycleBound'
  BY CountKept
<1>6. QED
  BY <1>1, <1>2, <1>3, <1>4, <1>5

LEMMA JudgedStep ==
  ASSUME IInv, NEW r \in Requests, Judged(r)
  PROVE  IInv'
<1> USE DEF IInv, Judged, Answered, Condemns, Queues, Retries, Probes, Reply, Again, Goto,
            processVars
<1>1. TypeOK'
  <2>1. /\ pc' \in [Requests -> Serving \union {"idle", "waiting", "ok", "error"}]
        /\ attempt' \in [Requests -> {0, 1}]
    BY DEF TypeOK, Serving, Supervising, Creating
  <2>2. got' \in [Requests -> Nat] /\ tried' \in [Requests -> Nat]
    BY DEF TypeOK
  <2>3. /\ outcome' \in [Requests -> Outcomes \union {"none"}]
        /\ doomed' \in [Requests -> Nat]
    BY DEF TypeOK
  <2>4. QED
    BY <2>1, <2>2, <2>3 DEF TypeOK
<1>2. LockInv' /\ CreateInv'
  <2>1. LockInv'
    BY RequestsAssumption DEF LockInv, TypeOK, Supervising
  <2>2. CreateInv'
    BY RequestsAssumption DEF CreateInv, TypeOK, Creating
  <2>3. QED
    BY <2>1, <2>2
<1>3. ClosingInv' /\ LaunchInv' /\ NumberInv' /\ OneBrowser'
  <2>1. ClosingInv'
    BY DEF ClosingInv, TypeOK, Supervising
  <2>2. LaunchInv'
    BY DEF LaunchInv, TypeOK, Supervising
  <2>3. NumberInv' /\ OneBrowser'
    BY DEF NumberInv, OneBrowser, TypeOK
  <2>4. QED
    BY <2>1, <2>2, <2>3
<1>4. StaleInv' /\ RetryGetsAnotherBrowser'
  <2>1. StaleInv'
    BY DEF StaleInv, TypeOK
  <2>2. RetryGetsAnotherBrowser'
    BY DEF RetryGetsAnotherBrowser, TypeOK
  <2>3. QED
    BY <2>1, <2>2
<1>5. RecycleBound'
  <2>1. \A s \in Requests : got'[s] = got[s] \/ got'[s] = 0
    BY DEF TypeOK
  <2>2. QED
    BY <2>1, CountKept
<1>6. QED
  BY <1>1, <1>2, <1>3, <1>4, <1>5

-----------------------------------------------------------------------------
(* Then by the steps of the supervisor.                                    *)

(* A handout counts the request it serves.                                 *)
LEMMA HandoutStep ==
  ASSUME IInv, NEW r \in Requests, Handout(r)
  PROVE  IInv'
<1> USE DEF IInv, Handout, Goto, Fit, processVars
<1>1. TypeOK'
  BY RecycleAssumption DEF TypeOK, Serving, Supervising, Creating
<1>2. LockInv' /\ CreateInv'
  BY RequestsAssumption DEF LockInv, CreateInv, TypeOK, Supervising, Creating
<1>3. ClosingInv' /\ LaunchInv' /\ NumberInv' /\ OneBrowser'
  BY RequestsAssumption
  DEF ClosingInv, LaunchInv, NumberInv, OneBrowser, LockInv, TypeOK, Supervising
<1>4. StaleInv' /\ RetryGetsAnotherBrowser'
  BY DEF StaleInv, RetryGetsAnotherBrowser, ClosingInv, LaunchInv, NumberInv, OneBrowser, TypeOK
<1>5. RecycleBound'
  <2>1. Using(browser)' \subseteq Using(browser) \union {r} /\ browser' = browser
    BY DEF Using, TypeOK
  <2>2. Cardinality(Using(browser)) <= handouts /\ handouts \in Nat
    BY RecycleAssumption DEF RecycleBound, Alive, TypeOK
  <2>3. Cardinality(Using(browser)') <= handouts + 1
    BY <2>1, <2>2, UsingGrows
  <2>4. QED
    BY <2>1, <2>2, <2>3, RecycleAssumption DEF RecycleBound
<1>6. QED
  BY <1>1, <1>2, <1>3, <1>4, <1>5

(* Taking the lock to close the browser, or to launch at once. *)
LEMMA ReplaceStep ==
  ASSUME IInv, NEW r \in Requests, Replace(r)
  PROVE  IInv'
<1> USE DEF IInv, Replace, BeginLaunch, Goto
<1>1. TypeOK'
  BY DEF TypeOK, Serving, Supervising, Creating
<1>2. LockInv' /\ CreateInv'
  BY RequestsAssumption DEF LockInv, CreateInv, TypeOK, Supervising, Creating
<1>3. running = {} \/ cm # 0
  BY DEF OneBrowser, TypeOK
<1>4. ClosingInv' /\ LaunchInv' /\ NumberInv' /\ OneBrowser'
  BY <1>3, RequestsAssumption
  DEF ClosingInv, LaunchInv, NumberInv, OneBrowser, LockInv, TypeOK, Supervising
<1>5. StaleInv' /\ RetryGetsAnotherBrowser'
  BY DEF StaleInv, RetryGetsAnotherBrowser, NumberInv, TypeOK
<1>6. RecycleBound'
  <2>1. CASE browser' = browser
    BY <2>1, CountKept DEF TypeOK
  <2>2. CASE browser' = 0
    BY <2>2 DEF RecycleBound
  <2>3. QED
    BY <2>1, <2>2
<1>7. QED
  BY <1>1, <1>2, <1>4, <1>5, <1>6

(* The close in get_browser ends and the launch begins.                    *)
LEMMA ReplacedStep ==
  ASSUME IInv, NEW r \in Requests, Replaced(r)
  PROVE  IInv'
<1> USE DEF IInv, Replaced, BeginLaunch, CloseEnds, Goto
<1>0. running' = {} /\ wedged' = {}
  BY DEF ClosingInv, OneBrowser, TypeOK
<1>1. TypeOK'
  <2>1. /\ pc' \in [Requests -> Serving \union {"idle", "waiting", "ok", "error"}]
        /\ doomed' \in [Requests -> Nat]
    BY DEF TypeOK, Serving, Supervising
  <2>2. cm' \in Nat /\ made' \in Nat /\ browser' \in {0, cm'}
    BY DEF TypeOK
  <2>3. running' \subseteq 1..made' /\ wedged' \subseteq running'
    BY <1>0
  <2>4. QED
    BY <2>1, <2>2, <2>3 DEF TypeOK
<1>2. LockInv' /\ CreateInv'
  BY RequestsAssumption DEF LockInv, CreateInv, TypeOK, Supervising, Creating
<1>3. ClosingInv' /\ LaunchInv' /\ NumberInv' /\ OneBrowser'
  <2>1. ClosingInv'
    BY RequestsAssumption DEF ClosingInv, LockInv, TypeOK, Supervising
  <2>2. LaunchInv'
    <3>1. cm' = made' /\ cm' # 0 /\ \A s \in Requests : got'[s] # cm'
      BY DEF NumberInv, TypeOK
    <3>2. QED
      BY <1>0, <3>1 DEF LaunchInv
  <2>3. NumberInv' /\ OneBrowser'
    <3>1. OneBrowser'
      BY <1>0 DEF OneBrowser
    <3>2. NumberInv'
      BY DEF NumberInv, TypeOK
    <3>3. QED
      BY <3>1, <3>2
  <2>4. QED
    BY <2>1, <2>2, <2>3
<1>4. StaleInv' /\ RetryGetsAnotherBrowser'
  <2>1. StaleInv'
    BY <1>0 DEF StaleInv, NumberInv, ClosingInv, TypeOK
  <2>2. RetryGetsAnotherBrowser'
    BY DEF RetryGetsAnotherBrowser, StaleInv, NumberInv, TypeOK
  <2>3. QED
    BY <2>1, <2>2
<1>5. RecycleBound'
  BY DEF RecycleBound
<1>6. QED
  BY <1>1, <1>2, <1>3, <1>4, <1>5

(* The new browser serves the request that launched it and nobody else.    *)
LEMMA LaunchSucceedsStep ==
  ASSUME IInv, NEW r \in Requests, LaunchSucceeds(r)
  PROVE  IInv'
<1> USE DEF IInv, LaunchSucceeds, Goto
<1>0. running = {} /\ wedged = {} /\ cm = made /\ cm \in 1..made
  BY DEF LaunchInv, TypeOK
<1>1. TypeOK'
  BY <1>0, RecycleAssumption DEF TypeOK, LaunchInv, Serving, Supervising, Creating
<1>2. LockInv' /\ CreateInv'
  BY RequestsAssumption DEF LockInv, CreateInv, TypeOK, Supervising, Creating
<1>3. ClosingInv' /\ LaunchInv' /\ NumberInv' /\ OneBrowser'
  <2>1. ClosingInv'
    BY RequestsAssumption DEF ClosingInv, LockInv, TypeOK, Supervising
  <2>2. LaunchInv'
    BY <1>0, RequestsAssumption DEF LaunchInv, LockInv, NumberInv, TypeOK, Supervising
  <2>3. NumberInv' /\ OneBrowser'
    BY <1>0 DEF NumberInv, OneBrowser, LaunchInv, TypeOK
  <2>4. QED
    BY <2>1, <2>2, <2>3
<1>4. StaleInv' /\ RetryGetsAnotherBrowser'
  <2>1. StaleInv'
    BY <1>0 DEF StaleInv, NumberInv, LaunchInv, TypeOK
  <2>2. RetryGetsAnotherBrowser'
    BY DEF RetryGetsAnotherBrowser, StaleInv, NumberInv, TypeOK
  <2>3. QED
    BY <2>1, <2>2
<1>5. RecycleBound'
  <2>1. \A s \in Requests : got'[s] = cm <=> s = r
    BY DEF LaunchInv, TypeOK
  <2>2. Using(browser)' = {r} /\ Cardinality({r}) = 1
    BY <2>1, FS_Singleton DEF Using
  <2>3. QED
    BY <2>2, RecycleAssumption DEF RecycleBound
<1>6. QED
  BY <1>1, <1>2, <1>3, <1>4, <1>5

(* The fallback is another new browser.                                    *)
LEMMA ProfileLockedStep ==
  ASSUME IInv, NEW r \in Requests, ProfileLocked(r)
  PROVE  IInv'
<1> USE DEF IInv, ProfileLocked, Goto
<1>0. running = {} /\ wedged = {}
  BY DEF LaunchInv, TypeOK
<1>1. TypeOK'
  <2>1. /\ pc' \in [Requests -> Serving \union {"idle", "waiting", "ok", "error"}]
        /\ doomed' \in [Requests -> Nat]
    BY DEF TypeOK, Serving, Supervising
  <2>2. cm' \in Nat /\ made' \in Nat /\ browser' \in {0, cm'}
    BY DEF TypeOK, LaunchInv
  <2>3. running' \subseteq 1..made' /\ wedged' \subseteq running'
    BY <1>0
  <2>4. QED
    BY <2>1, <2>2, <2>3 DEF TypeOK
<1>2. LockInv' /\ CreateInv'
  BY RequestsAssumption DEF LockInv, CreateInv, TypeOK, Supervising, Creating
<1>3. ClosingInv' /\ LaunchInv' /\ NumberInv' /\ OneBrowser'
  <2>1. ClosingInv'
    BY RequestsAssumption DEF ClosingInv, LockInv, TypeOK, Supervising
  <2>2. LaunchInv'
    BY <1>0, RequestsAssumption DEF LaunchInv, LockInv, NumberInv, TypeOK, Supervising
  <2>3. NumberInv' /\ OneBrowser'
    BY <1>0 DEF NumberInv, OneBrowser, LaunchInv, TypeOK
  <2>4. QED
    BY <2>1, <2>2, <2>3
<1>4. StaleInv' /\ RetryGetsAnotherBrowser'
  <2>1. StaleInv'
    BY <1>0 DEF StaleInv, NumberInv, LaunchInv, TypeOK
  <2>2. RetryGetsAnotherBrowser'
    BY DEF RetryGetsAnotherBrowser, StaleInv, NumberInv, TypeOK
  <2>3. QED
    BY <2>1, <2>2
<1>5. RecycleBound'
  BY DEF RecycleBound, LaunchInv
<1>6. QED
  BY <1>1, <1>2, <1>3, <1>4, <1>5

(* A launch fails and its request with it.                                 *)
LEMMA LaunchFailsStep ==
  ASSUME IInv, NEW r \in Requests, LaunchFails(r)
  PROVE  IInv'
<1> USE DEF IInv, LaunchFails, Reply, Goto, processVars
<1>0. running = {} /\ wedged = {} /\ browser = 0
  BY DEF LaunchInv, TypeOK
<1>1. TypeOK'
  BY <1>0 DEF TypeOK, LaunchInv
<1>2. LockInv' /\ CreateInv'
  BY RequestsAssumption DEF LockInv, CreateInv, TypeOK, Supervising, Creating
<1>3. ClosingInv' /\ LaunchInv' /\ NumberInv' /\ OneBrowser'
  <2>1. ClosingInv'
    BY RequestsAssumption DEF ClosingInv, LockInv, TypeOK, Supervising
  <2>2. LaunchInv'
    BY <1>0, RequestsAssumption DEF LaunchInv, LockInv, NumberInv, TypeOK, Supervising
  <2>3. NumberInv' /\ OneBrowser'
    BY <1>0 DEF NumberInv, OneBrowser, LaunchInv, TypeOK
  <2>4. QED
    BY <2>1, <2>2, <2>3
<1>4. StaleInv' /\ RetryGetsAnotherBrowser'
  <2>1. StaleInv'
    BY <1>0 DEF StaleInv, NumberInv, LaunchInv, TypeOK
  <2>2. RetryGetsAnotherBrowser'
    BY DEF RetryGetsAnotherBrowser, StaleInv, NumberInv, TypeOK
  <2>3. QED
    BY <2>1, <2>2
<1>5. RecycleBound'
  BY DEF RecycleBound, LaunchInv
<1>6. QED
  BY <1>1, <1>2, <1>3, <1>4, <1>5

(* The close in mark_dead ends.                                            *)
LEMMA CondemnedStep ==
  ASSUME IInv, NEW r \in Requests, Condemned(r)
  PROVE  IInv'
<1> USE DEF IInv, Condemned, Again, CloseEnds, Goto
<1>0. running' = {} /\ wedged' = {}
  BY DEF ClosingInv, OneBrowser, TypeOK
<1>1. TypeOK'
  BY <1>0 DEF TypeOK, Serving, Supervising, Creating
<1>2. LockInv' /\ CreateInv'
  BY RequestsAssumption DEF LockInv, CreateInv, TypeOK, Supervising, Creating
<1>3. ClosingInv' /\ LaunchInv' /\ NumberInv' /\ OneBrowser'
  <2>1. ClosingInv'
    BY RequestsAssumption DEF ClosingInv, LockInv, TypeOK, Supervising
  <2>2. LaunchInv'
    BY <1>0, RequestsAssumption DEF LaunchInv, LockInv, NumberInv, TypeOK, Supervising
  <2>3. NumberInv' /\ OneBrowser'
    <3>1. OneBrowser'
      BY <1>0 DEF OneBrowser
    <3>2. NumberInv'
      BY DEF NumberInv, TypeOK
    <3>3. QED
      BY <3>1, <3>2
  <2>4. QED
    BY <2>1, <2>2, <2>3
<1>4. StaleInv' /\ RetryGetsAnotherBrowser'
  <2>1. StaleInv'
    BY <1>0 DEF StaleInv, NumberInv, ClosingInv, TypeOK
  <2>2. RetryGetsAnotherBrowser'
    BY DEF RetryGetsAnotherBrowser, StaleInv, NumberInv, TypeOK
  <2>3. QED
    BY <2>1, <2>2
<1>5. RecycleBound'
  BY DEF RecycleBound
<1>6. QED
  BY <1>1, <1>2, <1>3, <1>4, <1>5

(* Faults take processes away and touch nothing else. *)
LEMMA FaultStep ==
  ASSUME IInv, Crash \/ Wedge \/ \E r \in Requests : Exit(r)
  PROVE  IInv'
<1>1. /\ UNCHANGED <<requestVars, supervisorVars, createLock, made, display>>
      /\ running' \subseteq running /\ wedged' \subseteq running'
      /\ crashes' \in 0..MaxCrashes /\ wedges' \in 0..MaxWedges
  <2>1. CASE Crash
    BY <2>1, FaultsAssumption DEF IInv, TypeOK, Crash
  <2>2. CASE Wedge
    BY <2>2, FaultsAssumption DEF IInv, TypeOK, Wedge
  <2>3. CASE \E r \in Requests : Exit(r)
    BY <2>3 DEF IInv, TypeOK, Exit
  <2>4. QED
    BY <2>1, <2>2, <2>3
<1> USE <1>1 DEF IInv, requestVars, supervisorVars
<1>2. TypeOK'
  BY DEF TypeOK
<1>3. LockInv' /\ CreateInv' /\ ClosingInv' /\ LaunchInv' /\ NumberInv' /\ OneBrowser'
  BY DEF LockInv, CreateInv, ClosingInv, LaunchInv, NumberInv, OneBrowser
<1>4. StaleInv' /\ RetryGetsAnotherBrowser' /\ RecycleBound'
  BY CountKept DEF StaleInv, RetryGetsAnotherBrowser, TypeOK
<1>5. QED
  BY <1>2, <1>3, <1>4

-----------------------------------------------------------------------------
(* The invariant holds initially. *)
LEMMA InitInv == Init => IInv
<1> SUFFICES ASSUME Init PROVE IInv
  OBVIOUS
<1>1. TypeOK
  <2>1. /\ handouts \in 0..RecycleAfter /\ streak \in 0..(Threshold - 1)
        /\ crashes \in 0..MaxCrashes /\ wedges \in 0..MaxWedges
    BY RecycleAssumption, ThresholdAssumption, FaultsAssumption DEF Init
  <2>2. persistent \in BOOLEAN /\ display \in {"none", "up", "killed"}
    BY SwitchesAssumption DEF Init
  <2>3. running \subseteq 1..made /\ wedged \subseteq running
    BY DEF Init
  <2>4. QED
    BY <2>1, <2>2, <2>3 DEF Init, TypeOK
<1>2. LockInv /\ CreateInv /\ ClosingInv /\ LaunchInv
  BY RequestsAssumption DEF Init, LockInv, CreateInv, ClosingInv, LaunchInv, Supervising, Creating
<1>3. NumberInv /\ StaleInv /\ OneBrowser /\ RetryGetsAnotherBrowser
  BY DEF Init, NumberInv, StaleInv, OneBrowser, RetryGetsAnotherBrowser
<1>4. RecycleBound
  <2>1. Using(1) = {} /\ Cardinality({}) = 0
    BY FS_EmptySet DEF Init, Using
  <2>2. QED
    BY <2>1, RecycleAssumption DEF Init, RecycleBound
<1>5. QED
  BY <1>1, <1>2, <1>3, <1>4 DEF IInv

(* Every step preserves it. *)
LEMMA InvStep == IInv /\ [Next]_vars => IInv'
<1> SUFFICES ASSUME IInv, [Next]_vars PROVE IInv'
  OBVIOUS
<1>1. CASE UNCHANGED vars
  <2>1. /\ UNCHANGED <<pc, attempt, got, tried, outcome, doomed>>
        /\ UNCHANGED <<cm, browser, persistent, handouts, streak, lock, createLock>>
        /\ UNCHANGED <<made, running, wedged, display, crashes, wedges>>
    BY <1>1 DEF vars, requestVars, supervisorVars, processVars
  <2>2. /\ TypeOK' /\ LockInv' /\ CreateInv' /\ ClosingInv' /\ LaunchInv'
        /\ NumberInv' /\ StaleInv' /\ OneBrowser' /\ RetryGetsAnotherBrowser'
    BY <2>1 DEF IInv, TypeOK, LockInv, CreateInv, ClosingInv, LaunchInv, NumberInv,
                StaleInv, OneBrowser, RetryGetsAnotherBrowser
  <2>3. RecycleBound'
    BY <2>1, CountKept DEF IInv
  <2>4. QED
    BY <2>2, <2>3 DEF IInv
<1>2. ASSUME NEW r \in Requests, Serve(r)
      PROVE  IInv'
  <2>1. CASE Moves(r) \/ Judged(r)
    BY <2>1, MovesStep, JudgedStep
  <2>2. CASE \/ Arrive(r) \/ Admit(r) \/ OpenPage(r) \/ PageOpens(r) \/ PageEnds(r)
             \/ ProbeOpens(r) \/ ProbeLoads(r)
    BY <2>1, <2>2, MovingSteps DEF IInv
  <2>3. CASE \/ OpenRaises(r) \/ PageCloses(r) \/ MarkedDead(r)
             \/ ProbeAnswers(r) \/ ProbeFails(r)
    BY <2>1, <2>3, JudgedSteps DEF IInv
  <2>4. CASE Handout(r) \/ Replace(r) \/ Replaced(r) \/ Condemned(r)
    BY <2>4, HandoutStep, ReplaceStep, ReplacedStep, CondemnedStep
  <2>5. CASE LaunchSucceeds(r) \/ ProfileLocked(r) \/ LaunchFails(r)
    BY <2>5, LaunchSucceedsStep, ProfileLockedStep, LaunchFailsStep
  <2>6. CASE Exit(r)
    BY <2>6, FaultStep
  <2>7. QED
    BY <1>2, <2>2, <2>3, <2>4, <2>5, <2>6 DEF Serve
<1>3. CASE Crash \/ Wedge
  BY <1>3, FaultStep
<1>4. QED
  BY <1>1, <1>2, <1>3 DEF Next

(* The strengthening is an invariant of the browser server. *)
THEOREM Invariance == Spec => []IInv
BY InitInv, InvStep, PTL DEF Spec

(* Every variable keeps its type; in particular _browser is None or what   *)
(* _cm holds, and the timeout streak never reaches its threshold at rest.  *)
THEOREM TypeCorrect == Spec => []TypeOK
<1>1. IInv => TypeOK
  BY DEF IInv
<1>2. QED
  BY <1>1, Invariance, PTL

(* One browser process at a time, and it is the supervisor's: every launch *)
(* happens under the lock, after the close that emptied it.                *)
THEOREM OneBrowserHolds == Spec => []OneBrowser
<1>1. IInv => OneBrowser
  BY DEF IInv
<1>2. QED
  BY <1>1, Invariance, PTL

(* The recycling count covers every request that holds the browser. *)
THEOREM RecycleBoundHolds == Spec => []RecycleBound
<1>1. IInv => RecycleBound
  BY DEF IInv
<1>2. QED
  BY <1>1, Invariance, PTL

(* A retry runs in another browser than the attempt it repeats. *)
THEOREM RetryHolds == Spec => []RetryGetsAnotherBrowser
<1>1. IInv => RetryGetsAnotherBrowser
  BY DEF IInv
<1>2. QED
  BY <1>1, Invariance, PTL

(* Pages are created one at a time: their creators hold _CREATE_LOCK. *)
THEOREM OneCreationHolds == Spec => []OneCreation
<1>1. IInv => OneCreation
  BY DEF IInv, CreateInv, OneCreation
<1>2. QED
  BY <1>1, Invariance, PTL
=============================================================================
