---------------------------- MODULE ServiceProofs ----------------------------
(***************************************************************************)
(* Proofs about Service, for any number of calls and daemons, started,     *)
(* stopped and killed in any order.                                        *)
(***************************************************************************)
EXTENDS Service, TLAPS

(* Without an overlap one daemon at most is there, and the path is its.    *)
OneDaemon ==
  ~overlap =>
    /\ \A d, e \in Daemons :
         phase[d] \in {"serving", "closing"} /\ phase[e] \in {"serving", "closing"} => d = e
    /\ \A d \in Daemons : phase[d] = "serving" => path = d /\ file

(* What may still start the operation of a call: the daemon, if it has not *)
(* read the current attempt, and the caller, unless it has an end.         *)
ByDaemon(c) == IF Current(c) \in {"none", "sent"} THEN 1 ELSE 0
ByCaller(c) == IF pc[c] \in Ends THEN 0 ELSE 1
Budget(c) ==
  /\ runs[c] \in Nat /\ runs[c] + ByDaemon(c) + ByCaller(c) <= attempt[c] + 1
  /\ attempt[c] = 1 => job[c][2] = "none"
  /\ attempt[c] = 2 => job[c][1] = "dropped"
  /\ pc[c] = "call" => Current(c) = "none"
  /\ pc[c] = "delay" => attempt[c] = 1 /\ Current(c) = "dropped"
  /\ Current(c) \in Answers \union {"running"} => runs[c] > 0

Types ==
  /\ phase \in [Daemons -> {"off", "serving", "closing", "gone"}]
  /\ pc \in [Calls -> {"call", "sending", "waiting", "closing", "delay", "local"} \union Ends]
  /\ attempt \in [Calls -> Attempts]
  /\ job \in [Calls -> [Attempts -> Jobs]]
  /\ runs = [c \in Calls |-> runs[c]]

ServiceInv == Types /\ OneDaemon /\ \A c \in Calls : Budget(c)

(* The calls that a step leaves alone. *)
SameCall(c) ==
  /\ pc'[c] = pc[c] /\ attempt'[c] = attempt[c] /\ job'[c] = job[c] /\ runs'[c] = runs[c]

LEMMA OneCall ==
  ASSUME ServiceInv, UNCHANGED daemon, NEW c \in Calls, Types', Budget(c)',
         \A b \in Calls \ {c} : SameCall(b)
  PROVE  ServiceInv'
<1>1. ASSUME NEW b \in Calls, SameCall(b) PROVE Budget(b)'
  BY <1>1 DEF ServiceInv, SameCall, Budget, ByDaemon, ByCaller, Current
<1>2. OneDaemon'
  BY DEF ServiceInv, OneDaemon, daemon
<1> QED BY <1>1, <1>2 DEF ServiceInv

(* The two attempts of a call, after a change of one of them. *)
LEMMA Attempt ==
  ASSUME Types, NEW c \in Calls, NEW a \in Attempts, NEW what \in Jobs, Becomes(c, a, what)
  PROVE  /\ job' \in [Calls -> [Attempts -> Jobs]]
         /\ job'[c][a] = what /\ \A b \in Attempts \ {a} : job'[c][b] = job[c][b]
         /\ \A b \in Calls \ {c} : job'[b] = job[b]
BY DEF Types, Becomes

LEMMA CallerStep ==
  ASSUME ServiceInv, NEW c \in Calls, Caller(c)
  PROVE  ServiceInv'
<1>1. Types /\ Budget(c) /\ attempt[c] \in {1, 2}
  BY DEF ServiceInv, Types, Attempts
<1>2. CASE Connect(c)
  <2>1. PICK next \in {"waiting", "sending"} :
          /\ pc[c] = "call" /\ pc' = [pc EXCEPT ![c] = next] /\ UNCHANGED <<daemon, attempt, runs>>
          /\ Becomes(c, attempt[c], "sent")
    BY <1>2 DEF Connect, Goes
  <2>2. attempt[c] \in Attempts /\ "sent" \in Jobs
    BY <1>1 DEF Attempts, Jobs
  <2>3. /\ job' \in [Calls -> [Attempts -> Jobs]] /\ job'[c][attempt[c]] = "sent"
        /\ (\A b \in Attempts \ {attempt[c]} : job'[c][b] = job[c][b])
        /\ \A b \in Calls \ {c} : job'[b] = job[b]
    BY <1>1, <2>1, <2>2, Attempt
  <2>4. Types' /\ (\A b \in Calls \ {c} : SameCall(b)) /\ pc'[c] = next
    BY <1>1, <2>1, <2>3 DEF daemon, Types, SameCall
  <2>5. Budget(c)'
    BY <1>1, <2>1, <2>3, <2>4 DEF Budget, ByDaemon, ByCaller, Current, Attempts, Answers, Ends
  <2> QED BY <2>1, <2>4, <2>5, OneCall
<1>3. CASE \/ NotListening(c) \/ CannotConnect(c) \/ Sent(c) \/ TakeAnswer(c)
           \/ Dropped(c) \/ TimesOut(c) \/ Closed(c)
  <2>1. UNCHANGED <<daemon, attempt, job, runs>>
    BY <1>3 DEF NotListening, CannotConnect, Sent, TakeAnswer, Dropped, TimesOut, Closed
  <2>2. PICK where \in {"waiting", "closing", "local", "delay"} \union Ends :
          /\ pc' = [pc EXCEPT ![c] = where] /\ pc[c] \in {"call", "sending", "waiting", "closing"}
          /\ where = "delay" => attempt[c] = 1 /\ Current(c) = "dropped"
    BY <1>3 DEF NotListening, CannotConnect, Sent, TakeAnswer, Dropped, TimesOut, Closed, Goes, Ends
  <2>3. Types' /\ (\A b \in Calls \ {c} : SameCall(b)) /\ pc'[c] = where
    BY <1>1, <2>1, <2>2 DEF daemon, Types, SameCall
  <2>4. Budget(c)'
    BY <1>1, <2>1, <2>2, <2>3 DEF Budget, ByDaemon, ByCaller, Current, Ends
  <2> QED BY <2>1, <2>3, <2>4, OneCall
<1>4. CASE Reconnect(c)
  <2>1. /\ pc[c] = "delay" /\ attempt' = [attempt EXCEPT ![c] = 2] /\ pc' = [pc EXCEPT ![c] = "call"]
        /\ UNCHANGED <<daemon, job, runs>>
    BY <1>4 DEF Reconnect, Goes
  <2>2. /\ Types' /\ (\A b \in Calls \ {c} : SameCall(b)) /\ pc'[c] = "call" /\ attempt'[c] = 2
    BY <1>1, <2>1 DEF daemon, Types, SameCall, Attempts
  <2>3. attempt[c] = 1 /\ job[c][1] = "dropped" /\ job[c][2] = "none"
    BY <1>1, <2>1 DEF Budget, Current
  <2>4. Budget(c)'
    BY <1>1, <2>1, <2>2, <2>3 DEF Budget, ByDaemon, ByCaller, Current, Answers, Ends
  <2> QED BY <2>1, <2>2, <2>4, OneCall
<1>5. CASE RunLocal(c)
  <2>1. PICK end \in {"answered", "error"} :
          /\ pc[c] = "local" /\ runs' = [runs EXCEPT ![c] = @ + 1] /\ pc' = [pc EXCEPT ![c] = end]
          /\ UNCHANGED <<daemon, attempt, job>>
    BY <1>5 DEF RunLocal, Goes
  <2>2. /\ Types' /\ (\A b \in Calls \ {c} : SameCall(b))
        /\ pc'[c] = end /\ runs'[c] = runs[c] + 1
    BY <1>1, <2>1 DEF daemon, Types, SameCall, Ends
  <2>3. Budget(c)'
    BY <1>1, <2>1, <2>2 DEF Budget, ByDaemon, ByCaller, Current, Ends
  <2> QED BY <2>1, <2>2, <2>3, OneCall
<1> QED BY <1>2, <1>3, <1>4, <1>5 DEF Caller

LEMMA HandlerStep ==
  ASSUME ServiceInv, NEW c \in Calls, NEW a \in Attempts, Read(c, a) \/ Answer(c, a)
  PROVE  ServiceInv'
<1>1. Types /\ Budget(c) /\ attempt[c] \in {1, 2}
  BY DEF ServiceInv, Types, Attempts
<1>2. PICK what \in Jobs :
        /\ Becomes(c, a, what) /\ UNCHANGED <<daemon, pc, attempt>>
        /\ \/ /\ job[c][a] = "sent" /\ what = "dropped" /\ runs' = runs
           \/ /\ job[c][a] = "sent" /\ what = "running" /\ runs' = [runs EXCEPT ![c] = @ + 1]
           \/ /\ job[c][a] = "running" /\ what \in Answers \union {"dropped"} /\ runs' = runs
  BY DEF Read, Answer, Jobs
<1>3. a = attempt[c]
  BY <1>1, <1>2 DEF Budget, Attempts
<1>4. /\ job' \in [Calls -> [Attempts -> Jobs]] /\ job'[c][a] = what
      /\ (\A b \in Attempts \ {a} : job'[c][b] = job[c][b])
      /\ \A b \in Calls \ {c} : job'[b] = job[b]
  BY <1>1, <1>2, Attempt
<1>5. /\ Types' /\ (\A b \in Calls \ {c} : SameCall(b))
      /\ runs'[c] = IF what = "running" THEN runs[c] + 1 ELSE runs[c]
  BY <1>1, <1>2, <1>4 DEF daemon, Types, SameCall, Answers
<1>6. Budget(c)'
  BY <1>1, <1>2, <1>3, <1>4, <1>5 DEF Budget, ByDaemon, ByCaller, Current, Answers, Attempts, Ends
<1> QED BY <1>2, <1>5, <1>6, OneCall

LEMMA DaemonStep ==
  ASSUME ServiceInv, NEW d \in Daemons, Start(d) \/ Stop(d) \/ Gone(d) \/ Killed(d)
  PROVE  ServiceInv'
<1>1. Types /\ OneDaemon
  BY DEF ServiceInv
<1>2. CASE Start(d) \/ Stop(d) \/ Gone(d)
  <2>1. UNCHANGED <<pc, attempt, job, runs>>
    BY <1>2 DEF Start, Stop, Gone
  <2>2. Types'
    BY <1>1, <1>2, <2>1 DEF Types, Start, Stop, Gone
  <2>3. ASSUME NEW c \in Calls PROVE Budget(c)'
    BY <2>1 DEF ServiceInv, Budget, ByDaemon, ByCaller, Current
  <2>4. OneDaemon'
    <3>1. CASE Start(d)
      BY <1>1, <3>1 DEF Start, OneDaemon, Types
    <3>2. CASE Stop(d)
      BY <1>1, <3>2 DEF Stop, OneDaemon, Types
    <3>3. CASE Gone(d)
      BY <1>1, <3>3 DEF Gone, OneDaemon, Types
    <3> QED BY <1>2, <3>1, <3>2, <3>3
  <2> QED BY <2>2, <2>3, <2>4 DEF ServiceInv
<1>3. CASE Killed(d)
  <2>1. /\ UNCHANGED <<file, overlap, pc, attempt, runs>>
        /\ phase' = [phase EXCEPT ![d] = "gone"] /\ path' = (IF path = d THEN Nobody ELSE path)
    BY <1>3 DEF Killed
  <2>2. \A c \in Calls, a \in Attempts :
          job'[c][a] = IF conn[c][a] = d /\ job[c][a] \in {"sent", "running"}
                       THEN "dropped" ELSE job[c][a]
    BY <1>3 DEF Killed
  <2>3. job' \in [Calls -> [Attempts -> Jobs]]
    <3>1. ASSUME NEW c \in Calls, NEW a \in Attempts PROVE job'[c][a] \in Jobs
      BY <1>1, <2>2 DEF Types, Jobs
    <3>2. job' = [c \in Calls |-> [a \in Attempts |-> job'[c][a]]]
      BY <1>3 DEF Killed
    <3> QED BY <3>1, <3>2
  <2>4. Types'
    BY <1>1, <2>1, <2>3 DEF Types
  <2>5. ASSUME NEW c \in Calls PROVE Budget(c)'
    <3>1. Budget(c) /\ attempt[c] \in Attempts /\ pc'[c] = pc[c] /\ attempt'[c] = attempt[c]
          /\ runs'[c] = runs[c]
      BY <1>1, <2>1 DEF ServiceInv, Types
    <3>2. \A a \in Attempts :
            job'[c][a] = job[c][a] \/ (job[c][a] \in {"sent", "running"} /\ job'[c][a] = "dropped")
      BY <2>2
    <3> QED BY <3>1, <3>2 DEF Budget, ByDaemon, ByCaller, Current, Attempts, Answers
  <2>6. OneDaemon'
    BY <1>1, <2>1 DEF OneDaemon, Types
  <2> QED BY <2>4, <2>5, <2>6 DEF ServiceInv
<1> QED BY <1>2, <1>3

LEMMA ServiceInvariance == Spec => []ServiceInv
<1>1. Init => ServiceInv
  <2> SUFFICES ASSUME Init PROVE ServiceInv
    OBVIOUS
  <2>1. Types
    BY DEF Init, Types, Attempts, Jobs
  <2>2. OneDaemon
    BY DEF Init, OneDaemon
  <2>3. ASSUME NEW c \in Calls PROVE Budget(c)
    BY DEF Init, Budget, ByDaemon, ByCaller, Current, Attempts, Answers, Ends
  <2> QED BY <2>1, <2>2, <2>3 DEF ServiceInv
<1>2. ServiceInv /\ [Next]_vars => ServiceInv'
  <2>1. ServiceInv /\ UNCHANGED vars => ServiceInv'
    <3> SUFFICES ASSUME ServiceInv, UNCHANGED vars PROVE ServiceInv'
      OBVIOUS
    <3>1. Types' /\ OneDaemon'
      BY DEF vars, ServiceInv, Types, OneDaemon
    <3>2. ASSUME NEW c \in Calls PROVE Budget(c)'
      BY DEF vars, ServiceInv, Budget, ByDaemon, ByCaller, Current
    <3> QED BY <3>1, <3>2 DEF ServiceInv
  <2>2. ServiceInv /\ Next => ServiceInv'
    BY CallerStep, HandlerStep, DaemonStep DEF Next
  <2> QED BY <2>1, <2>2
<1> QED BY <1>1, <1>2, PTL DEF Spec

(* An operation is started at most once for each attempt and once by the   *)
(* caller, and whoever has an answer in its connection has had it started  *)
(* (DaemonClient and request_or), whatever became of the daemons.          *)
THEOREM StartsCounted == Spec => []RunsOnce
<1>1. ServiceInv => RunsOnce
  <2> SUFFICES ASSUME ServiceInv, NEW c \in Calls
               PROVE  /\ runs[c] <= attempt[c] + 1
                      /\ pc[c] = "waiting" /\ Current(c) \in Answers => runs[c] \in 1..attempt[c]
    BY DEF RunsOnce
  <2>1. Budget(c) /\ attempt[c] \in {1, 2}
    BY DEF ServiceInv, Types, Attempts
  <2> QED BY <2>1 DEF Budget, ByDaemon, ByCaller, Answers, Ends
<1> QED BY <1>1, ServiceInvariance, PTL

(* A daemon that serves is reached, unless another was started while one   *)
(* was still there: neither a leftover file nor a killed predecessor keeps *)
(* the calls from it (run_daemon).                                         *)
THEOREM ReachedDaemon == Spec => []Reachable
<1>1. ServiceInv => Reachable
  BY DEF ServiceInv, OneDaemon, Reachable
<1> QED BY <1>1, ServiceInvariance, PTL

(* The other variables are of their types. *)
Links ==
  /\ path \in Daemons \union {Nobody} /\ file \in BOOLEAN /\ overlap \in BOOLEAN
  /\ conn \in [Calls -> [Attempts -> Daemons \union {Nobody}]]
  /\ open \in [Calls -> BOOLEAN]

LEMMA LinksKept ==
  ASSUME ServiceInv, Links, [Next]_vars
  PROVE  Links'
<1>1. attempt \in [Calls -> Attempts]
  BY DEF ServiceInv, Types
<1>2. CASE UNCHANGED vars
  BY <1>2 DEF vars, Links
<1>3. ASSUME NEW c \in Calls, Caller(c) PROVE Links'
  <2>1. CASE Connect(c)
    <3>1. path \in Daemons \union {Nobody} /\ attempt[c] \in Attempts
      BY <1>1 DEF Links
    <3>2. conn' = [conn EXCEPT ![c] = [conn[c] EXCEPT ![attempt[c]] = path]]
      BY <2>1 DEF Connect
    <3>3. [conn[c] EXCEPT ![attempt[c]] = path] \in [Attempts -> Daemons \union {Nobody}]
      BY <3>1 DEF Links
    <3>4. conn' \in [Calls -> [Attempts -> Daemons \union {Nobody}]]
      BY <3>2, <3>3 DEF Links
    <3> QED BY <2>1, <3>4 DEF Connect, daemon, Links
  <2>2. CASE \/ NotListening(c) \/ CannotConnect(c) \/ Sent(c) \/ TakeAnswer(c) \/ Dropped(c)
             \/ Reconnect(c) \/ TimesOut(c) \/ Closed(c) \/ RunLocal(c)
    BY <2>2 DEF NotListening, CannotConnect, Sent, TakeAnswer, Dropped, Reconnect, TimesOut, Closed,
                RunLocal, HangUp, daemon, Links
  <2> QED BY <1>3, <2>1, <2>2 DEF Caller
<1>4. ASSUME NEW c \in Calls, NEW a \in Attempts, Read(c, a) \/ Answer(c, a) PROVE Links'
  BY <1>4 DEF Read, Answer, daemon, Links
<1>5. ASSUME NEW d \in Daemons, Start(d) \/ Stop(d) \/ Gone(d) \/ Killed(d) PROVE Links'
  BY <1>5 DEF Start, Stop, Gone, Killed, Links
<1> QED BY <1>2, <1>3, <1>4, <1>5 DEF Next

(* Every variable keeps its type, and no operation is ever started more    *)
(* than three times, at both attempts and by the caller (request_or).      *)
THEOREM ServiceTypes == Spec => []TypeOK
<1>1. Init => Links
  <2> SUFFICES ASSUME Init PROVE Links
    OBVIOUS
  <2>1. conn \in [Calls -> [Attempts -> Daemons \union {Nobody}]] /\ open \in [Calls -> BOOLEAN]
    BY DEF Init
  <2>2. path \in Daemons \union {Nobody} /\ file \in BOOLEAN /\ overlap \in BOOLEAN
    BY DEF Init
  <2> QED BY <2>1, <2>2 DEF Links
<1>2. ServiceInv /\ Links => TypeOK
  <2> SUFFICES ASSUME ServiceInv, Links PROVE TypeOK
    OBVIOUS
  <2>1. ASSUME NEW c \in Calls PROVE runs[c] \in 0..3
    <3>1. Budget(c) /\ attempt[c] \in {1, 2}
      BY DEF ServiceInv, Types, Attempts
    <3>2. ByDaemon(c) \in {0, 1} /\ ByCaller(c) \in {0, 1}
      BY DEF ByDaemon, ByCaller
    <3> QED BY <3>1, <3>2 DEF Budget
  <2>2. runs \in [Calls -> 0..3]
    BY <2>1 DEF ServiceInv, Types
  <2> QED BY <2>2 DEF ServiceInv, Types, Links, TypeOK
<1>3. ServiceInv /\ Links /\ [Next]_vars => Links'
  BY LinksKept
<1> QED BY <1>1, <1>2, <1>3, ServiceInvariance, PTL DEF Spec
=============================================================================
