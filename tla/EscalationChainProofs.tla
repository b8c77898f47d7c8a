----------------------- MODULE EscalationChainProofs ------------------------
(***************************************************************************)
(* Proofs about EscalationChain, for every set of modes and deadlines, any *)
(* seed and rule, and whatever other runs teach the route meanwhile.       *)
(***************************************************************************)
EXTENDS EscalationChain, TLAPS

NoneRecorded == record["http"] = "none" /\ record["browser"] = "none"
BlockRecorded == record["http"] = "none" /\ record["browser"] = "failure"

Fresh(tiers) == \A t \in tiers : seen[t] = Untried
Barren(tiers) == \A t \in tiers : ~HasContent(t)

(* What a run that awaits a tier has behind it. *)
AtStart == pc = "start" => Fresh(Tiers) /\ NoneRecorded
AtHttp ==
  pc = "http" => mode \in {"auto", "http"} /\ Fresh(Tiers) /\ NoneRecorded
AtHonest ==
  pc = "honest" =>
    /\ mode \in {"auto", "http"}
    /\ seen["http"].reason = "fingerprint"
    /\ Fresh(Tiers \ {"http"})
    /\ NoneRecorded
AtBrowser ==
  pc = "browser" =>
    /\ mode \in {"auto", "browser"}
    /\ Fresh({"browser", "mobile", "wayback"})
    /\ Barren({"http", "honest"})
    /\ NoneRecorded

(* Past the browser: either the one tier that the mode names, or auto mode *)
(* with the browser blocked.                                               *)
PastBrowser(own) ==
  \/ mode = own /\ Fresh(Tiers) /\ NoneRecorded
  \/ /\ mode = "auto"
     /\ seen["browser"].reason \in Blocks
     /\ Barren({"http", "honest"})
     /\ BlockRecorded
AtMobile ==
  pc = "mobile" => PastBrowser("mobile") /\ Fresh({"mobile", "wayback"})
AtWayback ==
  pc = "wayback" =>
    /\ PastBrowser("wayback")
    /\ Fresh({"wayback"})
    /\ mode = "auto" => seen["mobile"] # Untried /\ Barren({"mobile"})

Progress == AtStart /\ AtHttp /\ AtHonest /\ AtBrowser /\ AtMobile /\ AtWayback
Verdict == FirstContent /\ GivesUpLast /\ NamesItsTier /\ LearnsWhatItShowed

IInv == TypeOK /\ Progress /\ Verdict

-----------------------------------------------------------------------------
(* Learning keeps the row a row. *)
LEMMA BumpedTyped ==
  ASSUME NEW r \in Rows, NEW t \in Learnable, NEW good \in BOOLEAN
  PROVE  Bumped(r, t, good) \in Rows
BY DEF Bumped, Rows, NoRow, Learnable, OtherTier

(* What awaiting a tier does: the tier's answer is noted, the clock runs. *)
LEMMA AwaitTyped ==
  ASSUME TypeOK, TimeAssumption, NEW t \in Tiers,
         NEW answers \in SUBSET Answers, Await(t, answers)
  PROVE  /\ pc = t /\ left' \in Int
         /\ seen' \in [Tiers -> Answers]
         /\ seen'[t] \in answers
         /\ \A u \in Tiers : u # t => seen'[u] = seen[u]
BY DEF TypeOK, Await, TimeAssumption

(* What bump is told stays one of its two verdicts. *)
LEMMA RecordTyped ==
  ASSUME TypeOK,
         \/ NoRecord
         \/ \E t \in Learnable, good \in BOOLEAN : Record(t, good)
  PROVE  /\ record' \in [Learnable -> {"none", "success", "failure"}]
         /\ row' \in Rows
<1>1. CASE NoRecord
  BY <1>1 DEF NoRecord, TypeOK
<1>2. ASSUME NEW t \in Learnable, NEW good \in BOOLEAN, Record(t, good)
      PROVE  /\ record' \in [Learnable -> {"none", "success", "failure"}]
             /\ row' \in Rows
  <2>1. Bumped(row, t, good) \in Rows
    BY BumpedTyped DEF TypeOK
  <2>2. row' \in Rows
    BY <1>2, <2>1 DEF Record, TypeOK
  <2>3. record' \in [Learnable -> {"none", "success", "failure"}]
    BY <1>2 DEF Record, TypeOK
  <2> QED BY <2>2, <2>3
<1> QED BY <1>1, <1>2

(* The judgement on the http tier moves on or finishes, and records at     *)
(* most the http tier's verdict.                                           *)
LEMMA JudgeTyped ==
  ASSUME TypeOK, NEW a, a.reason \in Failures \union {"ok"}, JudgeHttp(a)
  PROVE  /\ pc' \in Tiers \union {"done"}
         /\ out' \in Outcomes
         /\ record' \in [Learnable -> {"none", "success", "failure"}]
         /\ row' \in Rows
<1>1. NoRecord \/ \E good \in BOOLEAN : Record("http", good)
  BY DEF JudgeHttp
<1>2. record' \in [Learnable -> {"none", "success", "failure"}] /\ row' \in Rows
  BY <1>1, RecordTyped DEF Learnable
<1>3. \/ Escalate("browser")
      \/ \E reason \in Failures \union {"ok", "unsupported", "deadline"} :
           Finish("http", reason)
  BY DEF JudgeHttp, Failures
<1>4. pc' \in Tiers \union {"done"} /\ out' \in Outcomes
  BY <1>3 DEF Finish, Escalate, TypeOK, Outcomes, Tiers
<1> QED BY <1>2, <1>4

(* So do the tail's moves. *)
LEMMA ToArchiveTyped ==
  ASSUME TypeOK, NEW block \in Blocks, ToArchive(block)
  PROVE  pc' \in {"wayback", "done"} /\ out' \in Outcomes
BY DEF ToArchive, Escalate, Finish, TypeOK, Outcomes, Tiers, Failures, Blocks

(* The answers of every tier are answers, and name a known reason. *)
LEMMA AnswersTyped ==
  /\ HttpAnswers \in SUBSET Answers
  /\ BrowserAnswers \in SUBSET Answers
  /\ ArchiveAnswers \in SUBSET Answers
  /\ \A a \in HttpAnswers : a.reason \in Failures \union {"ok"}
  /\ \A a \in BrowserAnswers :
       a.reason \in Failures \union {"ok", "unavailable", "raised"}
  /\ \A a \in ArchiveAnswers : a.reason \in {"ok", "miss"}
BY DEF Answers, HttpAnswers, BrowserAnswers, ArchiveAnswers, Ok, Failed

(* Every step keeps the types. *)
LEMMA TypeInvariance ==
  ASSUME TypeOK, Progress, TimeAssumption, SeedsAssumption, ModesAssumption,
         [Next]_vars
  PROVE  TypeOK'
<1>1. CASE Begin
  <2>1. profile' \in {"browser", "honest"}
    BY <1>1, SeedsAssumption DEF Begin, ResolvedProfile, TypeOK
  <2>2. pc' \in Tiers
    BY <1>1, ModesAssumption DEF Begin, FirstTier, TypeOK, Tiers
  <2> QED BY <1>1, <2>1, <2>2 DEF Begin, TypeOK, callVars
<1>2. CASE HttpTier
  <2>1. /\ left' \in Int /\ seen' \in [Tiers -> Answers]
        /\ seen'["http"] \in HttpAnswers
    BY <1>2, AwaitTyped, AnswersTyped DEF HttpTier, Tiers
  <2>2. CASE Escalate("honest") /\ NoRecord
    BY <1>2, <2>1, <2>2, RecordTyped
    DEF HttpTier, TypeOK, Escalate, callVars, Tiers
  <2>3. CASE JudgeHttp(seen'["http"])
    BY <1>2, <2>1, <2>3, JudgeTyped, AnswersTyped DEF HttpTier, TypeOK, callVars
  <2> QED BY <1>2, <2>2, <2>3 DEF HttpTier
<1>3. CASE HonestTier
  <2>1. /\ left' \in Int /\ seen' \in [Tiers -> Answers]
        /\ seen'["honest"] \in HttpAnswers
    BY <1>3, AwaitTyped, AnswersTyped DEF HonestTier, Tiers
  <2>2. header' \in {"none", "honest"}
    BY <1>3 DEF HonestTier, TypeOK
  <2>3. CASE JudgeHttp(seen'["honest"])
    BY <1>3, <2>1, <2>2, <2>3, JudgeTyped, AnswersTyped DEF HonestTier, TypeOK, callVars
  <2>4. CASE JudgeHttp(seen["http"])
    <3>1. seen["http"].reason \in Failures
      BY <1>3 DEF HonestTier, Await, Progress, AtHonest, Failures, Blocks
    <3> QED BY <1>3, <2>1, <2>2, <2>4, <3>1, JudgeTyped
            DEF HonestTier, TypeOK, callVars
  <2> QED BY <1>3, <2>3, <2>4 DEF HonestTier
<1>4. CASE BrowserTier
  <2>1. /\ left' \in Int /\ seen' \in [Tiers -> Answers]
        /\ seen'["browser"].reason \in Failures \union {"ok", "unavailable", "raised"}
    BY <1>4, AwaitTyped, AnswersTyped DEF BrowserTier, Tiers
  <2>2. record' \in [Learnable -> {"none", "success", "failure"}] /\ row' \in Rows
    <3>1. NoRecord \/ \E good \in BOOLEAN : Record("browser", good)
      BY <1>4 DEF BrowserTier
    <3> QED BY <3>1, RecordTyped DEF Learnable
  <2>3. \/ \E m \in {"browser", "none"},
             reason \in Failures \union {"ok", "unavailable", "error"} :
             Finish(m, reason)
        \/ Escalate("mobile")
        \/ \E reason \in Blocks : ToArchive(reason)
    BY <1>4, <2>1 DEF BrowserTier
  <2>4. pc' \in Tiers \union {"done"} /\ out' \in Outcomes
    BY <2>3, ToArchiveTyped DEF Finish, Escalate, TypeOK, Outcomes, Tiers
  <2> QED BY <1>4, <2>1, <2>2, <2>4 DEF BrowserTier, TypeOK, callVars
<1>5. CASE MobileTier
  <2>1. /\ left' \in Int /\ seen' \in [Tiers -> Answers]
        /\ seen'["mobile"].reason \in Failures \union {"ok", "unavailable", "raised"}
    BY <1>5, AwaitTyped, AnswersTyped DEF MobileTier, Tiers
  <2>2. record' \in [Learnable -> {"none", "success", "failure"}] /\ row' \in Rows
    BY <1>5, RecordTyped DEF MobileTier
  <2>3. mode = "auto" => seen["browser"].reason \in Blocks
    BY <1>5 DEF MobileTier, Await, Progress, AtMobile, PastBrowser
  <2>4. pc' \in Tiers \union {"done"} /\ out' \in Outcomes
    BY <1>5, <2>1, <2>3, ToArchiveTyped
    DEF MobileTier, Finish, Escalate, TypeOK, Outcomes, Tiers
  <2> QED BY <1>5, <2>1, <2>2, <2>4 DEF MobileTier, TypeOK, callVars
<1>6. CASE ArchiveTier
  <2>1. left' \in Int /\ seen' \in [Tiers -> Answers]
    BY <1>6, AwaitTyped, AnswersTyped DEF ArchiveTier, Tiers
  <2>2. record' \in [Learnable -> {"none", "success", "failure"}] /\ row' \in Rows
    BY <1>6, RecordTyped DEF ArchiveTier
  <2>3. mode # "wayback" => seen["browser"].reason \in Blocks
    BY <1>6 DEF ArchiveTier, Await, Progress, AtWayback, PastBrowser
  <2>4. \E m \in Tiers, reason \in Failures \union {"ok"} : Finish(m, reason)
    BY <1>6, <2>3 DEF ArchiveTier, Tiers, Failures
  <2> QED BY <1>6, <2>1, <2>2, <2>4
          DEF ArchiveTier, Finish, TypeOK, Outcomes, callVars
<1>7. CASE OthersLearn
  BY <1>7, BumpedTyped DEF OthersLearn, TypeOK, callVars
<1>8. CASE UNCHANGED vars
  BY <1>8 DEF vars, callVars, TypeOK
<1> QED BY <1>1, <1>2, <1>3, <1>4, <1>5, <1>6, <1>7, <1>8 DEF Next

-----------------------------------------------------------------------------
(* Where a run stands after each action, and what it reports at its end.   *)

(* The six ways the http tier's last word is judged. *)
LEMMA JudgeCases ==
  ASSUME TypeOK, mode \in {"auto", "http"}, NoneRecorded,
         NEW a, a.reason \in Failures \union {"ok"}, JudgeHttp(a)
  PROVE  \/ /\ pc' = "browser" /\ mode = "auto" /\ NoneRecorded'
            /\ a.reason = "ok" => a.body = "shell"
         \/ /\ pc' = "done" /\ out' = [mode |-> "http", reason |-> "unsupported"]
            /\ a.reason = "ok" /\ a.body = "binary" /\ ~raw /\ NoneRecorded'
         \/ /\ pc' = "done" /\ out' = [mode |-> "http", reason |-> "ok"]
            /\ a.reason = "ok"
            /\ record'["http"] = "success" /\ record'["browser"] = "none"
         \/ /\ pc' = "done" /\ out' = [mode |-> "http", reason |-> a.reason]
            /\ a.reason # "ok" /\ mode = "http"
            /\ record'["http"] = "failure" /\ record'["browser"] = "none"
         \/ /\ pc' = "done" /\ out' = [mode |-> "http", reason |-> "not_found"]
            /\ a.reason = "not_found" /\ mode = "auto" /\ NoneRecorded'
         \/ /\ pc' = "done" /\ out' = [mode |-> "http", reason |-> "deadline"]
            /\ a.reason # "ok" /\ mode = "auto" /\ left' < BROWSER_MIN_BUDGET
            /\ record'["http"] = "failure" /\ record'["browser"] = "none"
<1>1. /\ NoRecord => NoneRecorded'
      /\ Record("http", TRUE) =>
           record'["http"] = "success" /\ record'["browser"] = "none"
      /\ Record("http", FALSE) =>
           record'["http"] = "failure" /\ record'["browser"] = "none"
  BY DEF NoRecord, Record, NoneRecorded, TypeOK, Learnable
<1>2. CASE a.reason = "ok"
  BY <1>1, <1>2 DEF JudgeHttp, GoesOnEmpty, Finish, Escalate, Failures, Blocks
<1>3. CASE a.reason # "ok" /\ GoesOnEmpty(a)
  BY <1>1, <1>3 DEF JudgeHttp, GoesOnEmpty, Finish, Escalate
<1>4. CASE a.reason # "ok" /\ ~GoesOnEmpty(a)
  BY <1>1, <1>4 DEF JudgeHttp, Finish, Escalate
<1> QED BY <1>2, <1>3, <1>4

(* From the start to the first tier. *)
LEMMA BeginStep ==
  ASSUME IInv, ModesAssumption, Begin
  PROVE  Progress' /\ Verdict'
<1>1. Fresh(Tiers)' /\ NoneRecorded'
  BY DEF IInv, Begin, Progress, AtStart, Fresh, NoneRecorded
<1>2. Barren({"http", "honest"})'
  BY <1>1 DEF Barren, Fresh, HasContent, Untried, Tiers
<1>3. /\ mode' = mode /\ mode \in {"auto", "http", "browser", "mobile", "wayback"}
      /\ mode # "auto" => pc' = mode
      /\ mode = "auto" => pc' \in {"http", "browser"}
  BY ModesAssumption DEF IInv, Begin, FirstTier, TypeOK, callVars
<1>4. Progress'
  BY <1>1, <1>2, <1>3
  DEF Progress, AtStart, AtHttp, AtHonest, AtBrowser, AtMobile, AtWayback,
      PastBrowser, Fresh, Tiers
<1>5. Verdict'
  BY <1>3 DEF Verdict, FirstContent, GivesUpLast, NamesItsTier,
              LearnsWhatItShowed, Done
<1> QED BY <1>4, <1>5

(* The judgement leaves an http run that may go on or a verdict that       *)
(* holds, whether it judges the first answer or the retry's.               *)
LEMMA JudgeStep ==
  ASSUME TypeOK, mode \in {"auto", "http"}, NoneRecorded,
         UNCHANGED callVars, TypeOK',
         NEW t \in {"http", "honest"},
         seen'[t].reason \in Failures \union {"ok"},
         JudgeHttp(seen'[t]),
         t = "http" /\ seen'["http"].reason = "ok" => seen'["honest"] = Untried,
         t = "http" => seen'["honest"].reason # "ok",
         t = "honest" => /\ seen'["http"].reason \in Failures
                         /\ seen'["honest"].reason = "ok",
         Fresh({"browser", "mobile", "wayback"})'
  PROVE  Progress' /\ Verdict'
<1> DEFINE a == seen'[t]
<1>1. /\ mode' = mode /\ raw' = raw /\ archive' = archive
      /\ a.reason \in Failures \union {"ok"}
  BY DEF callVars
<1>2. /\ seen'["browser"] = Untried /\ seen'["mobile"] = Untried
      /\ seen'["wayback"] = Untried
  BY DEF Fresh
<1>3. \A u \in Tiers : HasContent(u)' => u = t
  BY <1>2 DEF HasContent, Untried, Tiers, Failures, Blocks
<1>4. Label(t)' = "http"
  BY DEF Label
<1>5. CASE /\ pc' = "browser" /\ mode = "auto" /\ NoneRecorded'
           /\ a.reason = "ok" => a.body = "shell"
  <2>1. Barren({"http", "honest"})'
    BY <1>3, <1>5 DEF Barren, HasContent, Tiers
  <2>2. Progress'
    BY <1>1, <1>5, <2>1
    DEF Progress, AtStart, AtHttp, AtHonest, AtBrowser, AtMobile, AtWayback
  <2> QED BY <1>5, <2>2 DEF Verdict, FirstContent, GivesUpLast, NamesItsTier,
                            LearnsWhatItShowed, Done
<1>6. CASE pc' = "done" /\ a.reason = "ok"
  <2>1. \/ /\ out' = [mode |-> "http", reason |-> "unsupported"]
           /\ a.body = "binary" /\ ~raw /\ NoneRecorded'
        \/ /\ out' = [mode |-> "http", reason |-> "ok"]
           /\ record'["http"] = "success" /\ record'["browser"] = "none"
    BY <1>1, <1>6, JudgeCases DEF Failures, Blocks
  <2>2. FirstContent'
    <3>1. ASSUME NEW u \in Tiers, HasContent(u)'
          PROVE  /\ out' = [mode |-> Label(u)', reason |-> "ok"]
                 /\ \A v \in Tiers : Rank[v] > Rank[u] => seen'[v] = Untried
      <4>1. u = t
        BY <1>3, <3>1
      <4>2. a.body # "binary"
        BY <3>1, <4>1 DEF HasContent
      <4>3. \A v \in Tiers : Rank[v] > Rank[t] => seen'[v] = Untried
        BY <1>2, <1>6 DEF Rank, Tiers
      <4> QED BY <1>4, <2>1, <4>1, <4>2, <4>3
    <3> QED BY <3>1 DEF FirstContent
  <2>3. GivesUpLast'
    BY <2>1 DEF GivesUpLast, Blocks
  <2>4. NamesItsTier'
    BY <1>1, <2>1 DEF NamesItsTier
  <2>5. LearnsWhatItShowed'
    BY <1>1, <1>2, <2>1 DEF LearnsWhatItShowed, NoneRecorded, Untried, Failures, Blocks
  <2> QED BY <1>6, <2>2, <2>3, <2>4, <2>5
      DEF Verdict, Progress, AtStart, AtHttp, AtHonest, AtBrowser, AtMobile, AtWayback
<1>7. CASE pc' = "done" /\ a.reason # "ok"
  <2>1. t = "http"
    BY <1>7
  <2>2. \/ /\ out' = [mode |-> "http", reason |-> a.reason] /\ mode = "http"
           /\ record'["http"] = "failure" /\ record'["browser"] = "none"
        \/ /\ out' = [mode |-> "http", reason |-> "not_found"]
           /\ a.reason = "not_found" /\ mode = "auto" /\ NoneRecorded'
        \/ /\ out' = [mode |-> "http", reason |-> "deadline"]
           /\ mode = "auto" /\ left' < BROWSER_MIN_BUDGET
           /\ record'["http"] = "failure" /\ record'["browser"] = "none"
    BY <1>1, <1>7, JudgeCases
  <2>3. FirstContent'
    BY <1>3, <1>7, <2>1 DEF FirstContent, HasContent
  <2>4. GivesUpLast'
    BY <1>1, <2>2 DEF GivesUpLast, Blocks
  <2>5. NamesItsTier'
    BY <1>1, <1>4, <1>7, <2>1, <2>2 DEF NamesItsTier, Failures, Blocks, Tiers
  <2>6. LearnsWhatItShowed'
    BY <1>1, <1>2, <1>7, <2>2
    DEF LearnsWhatItShowed, NoneRecorded, Untried, Failures, Blocks
  <2> QED BY <1>7, <2>3, <2>4, <2>5, <2>6
      DEF Verdict, Progress, AtStart, AtHttp, AtHonest, AtBrowser, AtMobile, AtWayback
<1> QED BY <1>1, <1>5, <1>6, <1>7, JudgeCases

(* The http tier: a retry, or its answer judged. *)
LEMMA HttpStep ==
  ASSUME IInv, TimeAssumption, TypeOK', HttpTier
  PROVE  Progress' /\ Verdict'
<1>1. /\ pc = "http" /\ seen'["http"] \in HttpAnswers
      /\ \A u \in Tiers : u # "http" => seen'[u] = seen[u]
  BY AwaitTyped, AnswersTyped DEF HttpTier, IInv, Tiers
<1>2. /\ mode \in {"auto", "http"} /\ NoneRecorded
      /\ Fresh({"honest", "browser", "mobile", "wayback"})'
  BY <1>1 DEF IInv, Progress, AtHttp, Fresh, Tiers
<1>3. CASE HeaderRetry(seen'["http"]) /\ Escalate("honest") /\ NoRecord
  <2>1. mode' = mode /\ NoneRecorded' /\ pc' = "honest"
    BY <1>2, <1>3 DEF HttpTier, NoRecord, NoneRecorded, Escalate, callVars
  <2>2. seen'["http"].reason = "fingerprint" /\ Fresh(Tiers \ {"http"})'
    BY <1>2, <1>3 DEF HeaderRetry, Fresh, Tiers
  <2> QED BY <1>2, <2>1, <2>2
      DEF Progress, AtStart, AtHttp, AtHonest, AtBrowser, AtMobile, AtWayback,
          Verdict, FirstContent, GivesUpLast, NamesItsTier, LearnsWhatItShowed, Done
<1>4. CASE JudgeHttp(seen'["http"])
  <2>1. seen'["http"].reason \in Failures \union {"ok"}
    BY <1>1, AnswersTyped
  <2>2. seen'["honest"] = Untried /\ seen'["honest"].reason # "ok"
    BY <1>2 DEF Fresh, Untried
  <2>3. Fresh({"browser", "mobile", "wayback"})'
    BY <1>2 DEF Fresh
  <2>4. UNCHANGED callVars
    BY DEF HttpTier
  <2> QED BY <1>2, <1>4, <2>1, <2>2, <2>3, <2>4, JudgeStep DEF IInv
<1> QED BY <1>3, <1>4 DEF HttpTier

(* The honest retry: its success, or the first answer, judged. *)
LEMMA HonestStep ==
  ASSUME IInv, TimeAssumption, TypeOK', HonestTier
  PROVE  Progress' /\ Verdict'
<1>1. /\ pc = "honest" /\ seen'["honest"] \in HttpAnswers
      /\ \A u \in Tiers : u # "honest" => seen'[u] = seen[u]
  BY AwaitTyped, AnswersTyped DEF HonestTier, IInv, Tiers
<1>2. /\ mode \in {"auto", "http"} /\ NoneRecorded
      /\ seen'["http"] = seen["http"] /\ seen'["http"].reason \in Failures
      /\ Fresh({"browser", "mobile", "wayback"})'
  BY <1>1 DEF IInv, Progress, AtHonest, Fresh, Tiers, Failures, Blocks
<1>3. UNCHANGED callVars
  BY DEF HonestTier
<1>4. CASE seen'["honest"].reason = "ok" /\ JudgeHttp(seen'["honest"])
  BY <1>2, <1>3, <1>4, JudgeStep DEF IInv
<1>5. CASE seen'["honest"].reason # "ok" /\ JudgeHttp(seen["http"])
  <2>1. seen'["http"].reason # "ok"
    BY <1>2 DEF Failures, Blocks
  <2> QED BY <1>2, <1>3, <1>5, <2>1, JudgeStep DEF IInv
<1> QED BY <1>4, <1>5 DEF HonestTier

(* The browser tier: the end, or a block and one of the recovery tiers. *)
LEMMA BrowserStep ==
  ASSUME IInv, TimeAssumption, TypeOK', BrowserTier
  PROVE  Progress' /\ Verdict'
<1> DEFINE a == seen'["browser"]
<1>1. /\ pc = "browser" /\ a \in BrowserAnswers
      /\ \A u \in Tiers : u # "browser" => seen'[u] = seen[u]
  BY AwaitTyped, AnswersTyped DEF BrowserTier, IInv, Tiers
<1>2. a.reason \in Failures \union {"ok", "unavailable", "raised"}
  BY <1>1, AnswersTyped
<1>3. /\ mode \in {"auto", "browser"} /\ NoneRecorded
      /\ Fresh({"mobile", "wayback"})' /\ Barren({"http", "honest"})'
  BY <1>1 DEF IInv, Progress, AtBrowser, Fresh, Barren, HasContent, Tiers
<1>4. mode' = mode /\ raw' = raw /\ archive' = archive
  BY DEF BrowserTier, callVars
<1>5. \A u \in Tiers : HasContent(u)' => u = "browser"
  BY <1>3 DEF Fresh, Barren, HasContent, Untried, Tiers
<1>6. /\ a.reason = "raised" => NoneRecorded'
      /\ a.reason = "ok" => record'["http"] = "none" /\ record'["browser"] = "success"
      /\ a.reason \notin {"ok", "raised"} => BlockRecorded'
  BY <1>3 DEF BrowserTier, NoRecord, Record, NoneRecorded, BlockRecorded, IInv,
              TypeOK, Learnable, Blocks
<1>7. ~(left' >= MOBILE_MIN_BUDGET) => ~Archivable
  BY DEF Archivable, TypeOK, MOBILE_MIN_BUDGET, WAYBACK_MIN_BUDGET
<1>8. \/ a.reason = "raised" /\ Finish("none", "error")
      \/ /\ a.reason # "raised" /\ Finish("browser", a.reason)
         /\ mode = "browser" \/ a.reason \notin Blocks
      \/ a.reason \in Blocks /\ mode = "auto" /\ Escalate("mobile")
      \/ /\ a.reason \in Blocks /\ mode = "auto" /\ Finish("browser", a.reason)
         /\ ~(left' >= MOBILE_MIN_BUDGET) /\ ~Archivable
  BY <1>7 DEF BrowserTier, ToArchive
<1>9. CASE pc' \in {"mobile", "wayback"}
  <2>1. mode = "auto" /\ a.reason \in Blocks
    BY <1>9, <1>8 DEF Finish
  <2>2. pc' = "mobile"
    BY <1>9, <1>8 DEF Escalate, Finish
  <2>3. PastBrowser("mobile")'
    BY <1>3, <1>4, <1>6, <2>1 DEF PastBrowser, Blocks
  <2>4. Progress'
    BY <1>3, <2>2, <2>3
    DEF Progress, AtStart, AtHttp, AtHonest, AtBrowser, AtMobile, AtWayback
  <2> QED BY <2>2, <2>4 DEF Verdict, FirstContent, GivesUpLast, NamesItsTier,
                            LearnsWhatItShowed, Done
<1>10. CASE pc' = "done"
  <2>1. \/ a.reason = "raised" /\ out' = [mode |-> "none", reason |-> "error"]
        \/ a.reason # "raised" /\ out' = [mode |-> "browser", reason |-> a.reason]
    BY <1>10, <1>8 DEF Finish, Escalate, Blocks
  <2>2. FirstContent'
    <3>1. HasContent("browser")' => out' = [mode |-> "browser", reason |-> "ok"]
      BY <2>1 DEF HasContent
    <3>2. \A v \in Tiers : Rank[v] > Rank["browser"] => seen'[v] = Untried
      BY <1>3 DEF Rank, Fresh, Tiers
    <3>3. Label("browser")' = "browser"
      BY DEF Label
    <3> QED BY <1>5, <3>1, <3>2, <3>3 DEF FirstContent
  <2>3. GivesUpLast'
    <3>1. ASSUME mode = "auto", a.reason \in Blocks
          PROVE  left' < MOBILE_MIN_BUDGET /\ (~archive \/ left' < WAYBACK_MIN_BUDGET)
      BY <1>8, <1>10, <3>1 DEF Archivable, Escalate, TypeOK, MOBILE_MIN_BUDGET,
                              WAYBACK_MIN_BUDGET, Blocks
    <3> QED BY <1>4, <2>1, <3>1 DEF GivesUpLast, Blocks
  <2>4. NamesItsTier'
    BY <1>2, <1>3, <1>4, <2>1 DEF NamesItsTier, Label, Tiers, Failures, Blocks
  <2>5. LearnsWhatItShowed'
    BY <1>2, <1>6, <2>1
    DEF LearnsWhatItShowed, NoneRecorded, BlockRecorded, Failures, Blocks
  <2> QED BY <1>10, <2>2, <2>3, <2>4, <2>5
      DEF Verdict, Progress, AtStart, AtHttp, AtHonest, AtBrowser, AtMobile, AtWayback
<1>11. pc' \in {"mobile", "wayback", "done"}
  BY DEF BrowserTier, ToArchive, Escalate, Finish
<1> QED BY <1>9, <1>10, <1>11

(* The mobile tier: its own answer, or the archive, or the browser's block. *)
LEMMA MobileStep ==
  ASSUME IInv, TimeAssumption, TypeOK', MobileTier
  PROVE  Progress' /\ Verdict'
<1> DEFINE a == seen'["mobile"]
<1>1. /\ pc = "mobile" /\ a \in BrowserAnswers
      /\ \A u \in Tiers : u # "mobile" => seen'[u] = seen[u]
  BY AwaitTyped, AnswersTyped DEF MobileTier, IInv, Tiers
<1>2. a.reason \in Failures \union {"ok", "unavailable", "raised"}
  BY <1>1, AnswersTyped
<1>3. PastBrowser("mobile") /\ seen'["wayback"] = Untried
  BY <1>1 DEF IInv, Progress, AtMobile, Fresh, Tiers
<1>4. mode' = mode /\ raw' = raw /\ archive' = archive /\ record' = record
  BY DEF MobileTier, NoRecord, callVars
<1>5. /\ mode = "mobile" \/ mode = "auto"
      /\ mode = "mobile" => /\ NoneRecorded' /\ seen'["browser"] = Untried
                            /\ seen'["http"] = Untried /\ seen'["honest"] = Untried
      /\ mode = "auto" => /\ BlockRecorded' /\ seen'["browser"].reason \in Blocks
                          /\ Barren({"http", "honest"})'
                          /\ seen["browser"] = seen'["browser"]
  BY <1>1, <1>3, <1>4
  DEF PastBrowser, Fresh, Barren, HasContent, NoneRecorded, BlockRecorded, Tiers
<1>6. \A u \in Tiers : HasContent(u)' => u = "mobile"
  BY <1>3, <1>5 DEF Barren, HasContent, Untried, Tiers, Blocks
<1>7. a # Untried
  BY <1>2 DEF Untried, Failures, Blocks
<1>8. \/ a.reason = "raised" /\ mode = "mobile" /\ Finish("none", "error")
      \/ a.reason # "raised" /\ mode = "mobile" /\ Finish("mobile", a.reason)
      \/ /\ a.reason \notin Blocks \union {"raised"} /\ mode = "auto"
         /\ Finish("browser+mobile", a.reason)
      \/ /\ a.reason \in Blocks \union {"raised"} /\ mode = "auto"
         /\ Archivable /\ Escalate("wayback")
      \/ /\ a.reason \in Blocks \union {"raised"} /\ mode = "auto"
         /\ ~Archivable /\ Finish("browser", seen'["browser"].reason)
  BY <1>5 DEF MobileTier, ToArchive
<1>9. CASE pc' = "wayback"
  <2>1. mode = "auto" /\ a.reason \in Blocks \union {"raised"}
    BY <1>8, <1>9 DEF Finish
  <2>2. PastBrowser("wayback")' /\ Fresh({"wayback"})' /\ Barren({"mobile"})'
    BY <1>3, <1>4, <1>5, <2>1 DEF PastBrowser, Fresh, Barren, HasContent, Blocks
  <2>3. Progress'
    BY <1>7, <1>9, <2>2
    DEF Progress, AtStart, AtHttp, AtHonest, AtBrowser, AtMobile, AtWayback
  <2> QED BY <1>9, <2>3 DEF Verdict, FirstContent, GivesUpLast, NamesItsTier,
                            LearnsWhatItShowed, Done
<1>10. CASE pc' = "done"
  <2>1. \/ /\ a.reason = "raised" /\ mode = "mobile"
           /\ out' = [mode |-> "none", reason |-> "error"]
        \/ /\ a.reason # "raised" /\ mode = "mobile"
           /\ out' = [mode |-> "mobile", reason |-> a.reason]
        \/ /\ a.reason \notin Blocks \union {"raised"} /\ mode = "auto"
           /\ out' = [mode |-> "browser+mobile", reason |-> a.reason]
        \/ /\ a.reason \in Blocks \union {"raised"} /\ mode = "auto" /\ ~Archivable
           /\ out' = [mode |-> "browser", reason |-> seen'["browser"].reason]
    BY <1>8, <1>10 DEF Finish, Escalate
  <2>2. FirstContent'
    <3>1. HasContent("mobile")' => out' = [mode |-> Label("mobile")', reason |-> "ok"]
      BY <1>4, <2>1 DEF HasContent, Label, Blocks
    <3>2. \A v \in Tiers : Rank[v] > Rank["mobile"] => seen'[v] = Untried
      BY <1>3 DEF Rank, Tiers
    <3> QED BY <1>6, <3>1, <3>2 DEF FirstContent
  <2>3. GivesUpLast'
    <3>1. ~Archivable => ~archive' \/ left' < WAYBACK_MIN_BUDGET
      BY <1>4 DEF Archivable, TypeOK, WAYBACK_MIN_BUDGET
    <3> QED BY <1>4, <1>7, <2>1, <3>1 DEF GivesUpLast, Blocks
  <2>4. NamesItsTier'
    <3>1. Label("mobile")' = (IF mode = "auto" THEN "browser+mobile" ELSE "mobile")
      BY <1>4 DEF Label
    <3>2. Label("browser")' = "browser"
      BY DEF Label
    <3> QED BY <1>2, <1>4, <1>5, <2>1, <3>1, <3>2
            DEF NamesItsTier, Tiers, Failures, Blocks
  <2>5. LearnsWhatItShowed'
    BY <1>2, <1>4, <1>5, <2>1
    DEF LearnsWhatItShowed, NoneRecorded, BlockRecorded, Failures, Blocks, Untried
  <2> QED BY <1>10, <2>2, <2>3, <2>4, <2>5
      DEF Verdict, Progress, AtStart, AtHttp, AtHonest, AtBrowser, AtMobile, AtWayback
<1> QED BY <1>8, <1>9, <1>10 DEF Escalate, Finish

(* The archive has the last word, or the browser's block stands. *)
LEMMA ArchiveStep ==
  ASSUME IInv, TimeAssumption, TypeOK', ArchiveTier
  PROVE  Progress' /\ Verdict'
<1> DEFINE a == seen'["wayback"]
<1>1. /\ pc = "wayback" /\ a \in ArchiveAnswers
      /\ \A u \in Tiers : u # "wayback" => seen'[u] = seen[u]
  BY AwaitTyped, AnswersTyped DEF ArchiveTier, IInv, Tiers
<1>2. a.reason \in {"ok", "miss"} /\ a # Untried
  BY <1>1, AnswersTyped DEF Untried
<1>3. /\ PastBrowser("wayback")
      /\ mode = "auto" => seen'["mobile"] # Untried /\ Barren({"mobile"})'
  BY <1>1 DEF IInv, Progress, AtWayback, Barren, HasContent, Tiers
<1>4. mode' = mode /\ raw' = raw /\ archive' = archive /\ record' = record
  BY DEF ArchiveTier, NoRecord, callVars
<1>5. /\ mode = "wayback" \/ mode = "auto"
      /\ mode = "wayback" =>
           /\ NoneRecorded' /\ seen'["browser"] = Untried /\ seen'["http"] = Untried
           /\ seen'["honest"] = Untried /\ seen'["mobile"] = Untried
      /\ mode = "auto" => /\ BlockRecorded' /\ seen'["browser"].reason \in Blocks
                          /\ Barren({"http", "honest"})'
                          /\ seen["browser"] = seen'["browser"]
  BY <1>1, <1>3, <1>4
  DEF PastBrowser, Fresh, Barren, HasContent, NoneRecorded, BlockRecorded, Tiers
<1>6. \A u \in Tiers : HasContent(u)' => u = "wayback"
  BY <1>3, <1>5 DEF Barren, HasContent, Untried, Tiers, Blocks
<1>7. /\ pc' = "done"
      /\ \/ a.reason = "ok" /\ out' = [mode |-> "wayback", reason |-> "ok"]
         \/ /\ a.reason = "miss" /\ mode = "wayback"
            /\ out' = [mode |-> "wayback", reason |-> "not_found"]
         \/ /\ a.reason = "miss" /\ mode = "auto"
            /\ out' = [mode |-> "browser", reason |-> seen'["browser"].reason]
  BY <1>5 DEF ArchiveTier, Finish
<1>8. FirstContent'
  <2>1. HasContent("wayback")' => out' = [mode |-> Label("wayback")', reason |-> "ok"]
    BY <1>7 DEF HasContent, Label
  <2>2. \A v \in Tiers : ~(Rank[v] > Rank["wayback"])
    BY DEF Rank, Tiers
  <2> QED BY <1>6, <2>1, <2>2 DEF FirstContent
<1>9. GivesUpLast'
  BY <1>2, <1>3, <1>4, <1>7 DEF GivesUpLast, Blocks
<1>10. NamesItsTier'
  <2>1. Label("browser")' = "browser"
    BY DEF Label
  <2> QED BY <1>2, <1>4, <1>5, <1>7, <2>1 DEF NamesItsTier, Tiers, Blocks
<1>11. LearnsWhatItShowed'
  BY <1>4, <1>5, <1>7
  DEF LearnsWhatItShowed, NoneRecorded, BlockRecorded, Failures, Blocks, Untried
<1> QED BY <1>7, <1>8, <1>9, <1>10, <1>11
    DEF Verdict, Progress, AtStart, AtHttp, AtHonest, AtBrowser, AtMobile, AtWayback

(* What other runs teach the route is nothing to this run's verdict. *)
LEMMA OtherStep ==
  ASSUME IInv, UNCHANGED <<callVars, pc, left, seen, record, out>>
  PROVE  Progress' /\ Verdict'
<1>1. Progress'
  BY DEF IInv, callVars, Progress, AtStart, AtHttp, AtHonest, AtBrowser, AtMobile,
         AtWayback, PastBrowser, Fresh, Barren, HasContent, NoneRecorded, BlockRecorded
<1>2. Verdict'
  BY DEF IInv, callVars, Verdict, FirstContent, GivesUpLast, NamesItsTier,
         LearnsWhatItShowed, Done, HasContent, Label
<1> QED BY <1>1, <1>2

-----------------------------------------------------------------------------
(* IInv holds at the start and is kept by every step. *)
THEOREM Invariance == Spec => []IInv
<1> USE ModesAssumption, TimeAssumption, SeedsAssumption
<1>1. Init => IInv
  <2> SUFFICES ASSUME Init PROVE IInv
    OBVIOUS
  <2>1. TypeOK
    <3>1. seen \in [Tiers -> Answers]
      BY DEF Init, Answers
    <3>2. record \in [Learnable -> {"none", "success", "failure"}]
      BY DEF Init
    <3>3. out \in Outcomes
      BY DEF Init, NoOutcome, Outcomes
    <3> QED BY <3>1, <3>2, <3>3 DEF Init, TypeOK
  <2>2. Progress
    BY DEF Init, Progress, AtStart, AtHttp, AtHonest, AtBrowser, AtMobile,
           AtWayback, Fresh, NoneRecorded, Learnable
  <2>3. Verdict
    BY DEF Init, Verdict, FirstContent, GivesUpLast, NamesItsTier,
           LearnsWhatItShowed, Done
  <2> QED BY <2>1, <2>2, <2>3 DEF IInv
<1>2. IInv /\ [Next]_vars => IInv'
  <2> SUFFICES ASSUME IInv, [Next]_vars PROVE IInv'
    OBVIOUS
  <2>1. TypeOK'
    BY TypeInvariance DEF IInv
  <2>2. CASE Begin
    BY <2>1, <2>2, BeginStep DEF IInv
  <2>3. CASE HttpTier
    BY <2>1, <2>3, HttpStep DEF IInv
  <2>4. CASE HonestTier
    BY <2>1, <2>4, HonestStep DEF IInv
  <2>5. CASE BrowserTier
    BY <2>1, <2>5, BrowserStep DEF IInv
  <2>6. CASE MobileTier
    BY <2>1, <2>6, MobileStep DEF IInv
  <2>7. CASE ArchiveTier
    BY <2>1, <2>7, ArchiveStep DEF IInv
  <2>8. CASE OthersLearn
    BY <2>1, <2>8, OtherStep DEF IInv, OthersLearn
  <2>9. CASE UNCHANGED vars
    BY <2>1, <2>9, OtherStep DEF IInv, vars
  <2> QED BY <2>2, <2>3, <2>4, <2>5, <2>6, <2>7, <2>8, <2>9 DEF Next
<1> QED BY <1>1, <1>2, PTL DEF Spec

(* Type correctness of the chain (core.py:370-703). *)
THEOREM TypeCorrect == Spec => []TypeOK
<1>1. IInv => TypeOK
  BY DEF IInv
<1> QED BY <1>1, Invariance, PTL

(* A run's outcome is the first content that a tier yielded, and no tier   *)
(* is tried after it.                                                      *)
THEOREM FirstContentHolds == Spec => []FirstContent
<1>1. IInv => FirstContent
  BY DEF IInv, Verdict
<1> QED BY <1>1, Invariance, PTL

(* Auto mode reports a block only after both recovery tiers, or for lack   *)
(* of time, wherever the strategy made the run start.                      *)
THEOREM GivesUpLastHolds == Spec => []GivesUpLast
<1>1. IInv => GivesUpLast
  BY DEF IInv, Verdict
<1> QED BY <1>1, Invariance, PTL

(* A reported failure was met by the tier it names. *)
THEOREM NamesItsTierHolds == Spec => []NamesItsTier
<1>1. IInv => NamesItsTier
  BY DEF IInv, Verdict
<1> QED BY <1>1, Invariance, PTL

(* A run teaches the route what it showed of each tier, and nothing else. *)
THEOREM LearnsWhatItShowedHolds == Spec => []LearnsWhatItShowed
<1>1. IInv => LearnsWhatItShowed
  BY DEF IInv, Verdict
<1> QED BY <1>1, Invariance, PTL
=============================================================================
