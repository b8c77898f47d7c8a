------------------------------ MODULE Service -------------------------------
(***************************************************************************)
(* vascod and the calls routed through it: DaemonClient and request_or     *)
(* (vasco/service/client.py), the connection handler and the life of the   *)
(* socket (vasco/service/daemon.py), the frames (protocol.py).             *)
(*                                                                         *)
(* A call makes one connection per attempt.  The daemon works on what it   *)
(* has read whether or not the caller still waits.  A daemon may be        *)
(* stopped, killed, and followed by another that is started before or      *)
(* after it has gone.  What the operation itself does is left to the       *)
(* modules of the fetch; how long it takes is anybody's guess.             *)
(***************************************************************************)
EXTENDS Naturals, FiniteSets

CONSTANTS
  Calls,      \* the calls of request_or
  Daemons,    \* the daemons that are started, each once
  Nobody,     \* none of them
  Large,      \* calls whose request does not fit in the socket's buffers
  Oversized   \* of these, those that do not fit in a frame

ASSUME DaemonsAssumption ==
  Nobody \notin Daemons /\ Oversized \subseteq Large /\ Large \subseteq Calls

Attempts == 1..2

VARIABLES
  phase,    \* what each daemon is doing
  path,     \* the daemon the socket path leads to
  file,     \* the socket file exists, whether or not somebody listens
  overlap,  \* history: a daemon was started before another had gone
  pc,       \* where a call is
  attempt,
  conn,     \* the daemon each attempt was made to
  open,     \* the caller's connection of the current attempt is open
  job,      \* what became of each attempt at the daemon
  runs      \* history: how often the operation of a call was started

vars == <<phase, path, file, overlap, pc, attempt, conn, open, job, runs>>
daemon == <<phase, path, file, overlap>>

Ends == {"answered", "error", "raised"}
Answers == {"ok", "refused", "oversized"}
Jobs == {"none", "sent", "running", "dropped"} \union Answers

TypeOK ==
  /\ phase \in [Daemons -> {"off", "serving", "closing", "gone"}]
  /\ path \in Daemons \union {Nobody}
  /\ file \in BOOLEAN /\ overlap \in BOOLEAN
  /\ pc \in [Calls -> {"call", "sending", "waiting", "closing", "delay", "local"} \union Ends]
  /\ attempt \in [Calls -> Attempts]
  /\ conn \in [Calls -> [Attempts -> Daemons \union {Nobody}]]
  /\ open \in [Calls -> BOOLEAN]
  /\ job \in [Calls -> [Attempts -> Jobs]]
  /\ runs \in [Calls -> 0..3]

Init ==
  /\ phase = [d \in Daemons |-> "off"]
  /\ path = Nobody /\ overlap = FALSE
  /\ file \in BOOLEAN      \* one may be left of a daemon that was killed
  /\ pc = [c \in Calls |-> "call"]
  /\ attempt = [c \in Calls |-> 1]
  /\ conn = [c \in Calls |-> [a \in Attempts |-> Nobody]]
  /\ open = [c \in Calls |-> FALSE]
  /\ job = [c \in Calls |-> [a \in Attempts |-> "none"]]
  /\ runs = [c \in Calls |-> 0]

Goes(c, where) == pc' = [pc EXCEPT ![c] = where]
Becomes(c, a, what) == job' = [job EXCEPT ![c][a] = what]
Current(c) == job[c][attempt[c]]

(***************************************************************************)
(* The caller.                                                             *)
(***************************************************************************)

(* A listening socket takes a request that fits, also of a daemon too busy *)
(* to read it yet.  Of a large one the rest stays with the caller: write's *)
(* drain waits, without a time-out, until so little is left that it may be *)
(* sent while the answer is awaited.                                       *)
Connect(c) ==
  /\ pc[c] = "call"
  /\ path # Nobody /\ phase[path] = "serving"
  /\ conn' = [conn EXCEPT ![c][attempt[c]] = path]
  /\ open' = [open EXCEPT ![c] = TRUE]
  /\ Becomes(c, attempt[c], "sent")
  /\ \E next \in {"waiting"} \union (IF c \in Large THEN {"sending"} ELSE {}) : Goes(c, next)
  /\ UNCHANGED <<daemon, attempt, runs>>

(* No file or nobody behind it is no reason to try again; neither is a     *)
(* connection that is not made in time.                                    *)
NotListening(c) ==
  /\ pc[c] = "call"
  /\ Goes(c, "local")
  /\ UNCHANGED <<daemon, attempt, conn, job, runs, open>>

(* Any other error before the request is sent, as of a path that may not   *)
(* be used or of a request that is no JSON, is nobody's to catch.          *)
CannotConnect(c) ==
  /\ pc[c] = "call"
  /\ Goes(c, "raised")
  /\ UNCHANGED <<daemon, attempt, conn, job, runs, open>>

(* The daemon has taken the request off the socket.                        *)
Sent(c) ==
  /\ pc[c] = "sending" /\ Current(c) \in {"running"} \union Answers
  /\ Goes(c, "waiting")
  /\ UNCHANGED <<daemon, attempt, conn, job, runs, open>>

HangUp(c) == open' = [open EXCEPT ![c] = FALSE]

(* An answer of this attempt's connection; ok=false is final, an answer    *)
(* that did not fit in a frame counts as no daemon at all.                 *)
TakeAnswer(c) ==
  /\ pc[c] = "waiting" /\ Current(c) \in Answers
  /\ HangUp(c)
  /\ \/ Current(c) = "ok" /\ Goes(c, "answered")
     \/ Current(c) = "refused" /\ Goes(c, "error")
     \/ Current(c) = "oversized" /\ Goes(c, "local")
  /\ UNCHANGED <<daemon, attempt, conn, job, runs>>

(* A dropped connection is made again once, after a short delay.  With     *)
(* some of a large request still to be sent, a drop may also show as a     *)
(* broken pipe, which is not among the errors that are caught.             *)
Dropped(c) ==
  /\ pc[c] \in {"sending", "waiting"} /\ Current(c) = "dropped"
  /\ HangUp(c)
  /\ \/ Goes(c, IF attempt[c] = 1 THEN "delay" ELSE "local")
     \/ c \in Large /\ Goes(c, "raised")
  /\ UNCHANGED <<daemon, attempt, conn, job, runs>>

Reconnect(c) ==
  /\ pc[c] = "delay"
  /\ attempt' = [attempt EXCEPT ![c] = 2]
  /\ Goes(c, "call")
  /\ UNCHANGED <<daemon, conn, job, runs, open>>

(* Slips in TimesOut: the request is sent again, and the clock starts    *)
(* when the daemon does.                                                   *)
TimesOutRetries(c) ==
  /\ pc[c] = "waiting" /\ Current(c) \in {"sent", "running"}
  /\ HangUp(c)
  /\ Goes(c, "delay")
  /\ UNCHANGED <<daemon, attempt, conn, job, runs>>

TimesOutRunning(c) ==
  /\ pc[c] = "waiting" /\ Current(c) = "running"
  /\ HangUp(c)
  /\ Goes(c, "local")
  /\ UNCHANGED <<daemon, attempt, conn, job, runs>>

(* The wait for the answer is bounded; the daemon is not told.  What is    *)
(* left of a request that was not read keeps the connection from closing,  *)
(* and that wait is not bounded.                                           *)
TimesOut(c) ==
  /\ pc[c] = "waiting" /\ Current(c) \in {"sent", "running"}
  /\ \/ HangUp(c) /\ Goes(c, "local")
     \/ c \in Large /\ Current(c) = "sent" /\ Goes(c, "closing") /\ UNCHANGED open
  /\ UNCHANGED <<daemon, attempt, conn, job, runs>>

Closed(c) ==
  /\ pc[c] = "closing" /\ Current(c) # "sent"
  /\ HangUp(c)
  /\ Goes(c, "local")
  /\ UNCHANGED <<daemon, attempt, conn, job, runs>>

(* request_or: without a daemon the operation runs in the caller.          *)
RunLocal(c) ==
  /\ pc[c] = "local"
  /\ runs' = [runs EXCEPT ![c] = @ + 1]
  /\ \E end \in {"answered", "error"} : Goes(c, end)
  /\ UNCHANGED <<daemon, attempt, conn, job, open>>

(***************************************************************************)
(* The daemon's handler of a connection (_handle_client).                  *)
(***************************************************************************)
Alive(d) == d # Nobody /\ phase[d] \in {"serving", "closing"}

(* The frame is read and the operation begins; one too large ends the      *)
(* connection.                                                             *)
Read(c, a) ==
  /\ job[c][a] = "sent" /\ Alive(conn[c][a])
  /\ IF c \in Oversized
     THEN Becomes(c, a, "dropped") /\ UNCHANGED runs
     ELSE Becomes(c, a, "running") /\ runs' = [runs EXCEPT ![c] = @ + 1]
  /\ UNCHANGED <<daemon, pc, attempt, conn, open>>

(* Whatever the operation raises is answered as ok=false, and so is, on    *)
(* the caller's side, an answer in another version of the protocol.  An    *)
(* answer that cannot be written as JSON ends the connection.              *)
Answer(c, a) ==
  /\ job[c][a] = "running"
  /\ \E what \in Answers \union {"dropped"} : Becomes(c, a, what)
  /\ UNCHANGED <<daemon, pc, attempt, conn, runs, open>>

(***************************************************************************)
(* The life of the daemon (run_daemon).                                    *)
(***************************************************************************)

(* Slip in Start: a file that is in the way stays there.                 *)
StartBehindFile(d) ==
  /\ phase[d] = "off"
  /\ phase' = [phase EXCEPT ![d] = "serving"]
  /\ path' = (IF file THEN path ELSE d) /\ file' = TRUE
  /\ overlap' = (overlap \/ \E e \in Daemons : phase[e] \in {"serving", "closing"})
  /\ UNCHANGED <<pc, attempt, conn, job, runs, open>>

(* Whatever is at the path is removed, a live daemon's socket as well.     *)
Start(d) ==
  /\ phase[d] = "off"
  /\ phase' = [phase EXCEPT ![d] = "serving"]
  /\ path' = d /\ file' = TRUE
  /\ overlap' = (overlap \/ \E e \in Daemons : phase[e] \in {"serving", "closing"})
  /\ UNCHANGED <<pc, attempt, conn, job, runs, open>>

Stop(d) ==
  /\ phase[d] = "serving"
  /\ phase' = [phase EXCEPT ![d] = "closing"]
  /\ UNCHANGED <<path, file, overlap, pc, attempt, conn, job, runs, open>>

(* A handler at work keeps its connection when the caller has hung up.     *)
Connected(d) ==
  \E c \in Calls, a \in Attempts :
    /\ conn[c][a] = d
    /\ (open[c] /\ a = attempt[c]) \/ job[c][a] \in {"sent", "running"}

(* The server closes when its connections have ended, and the file at the  *)
(* path goes, whosever it is.                                              *)
Gone(d) ==
  /\ phase[d] = "closing" /\ ~Connected(d)
  /\ phase' = [phase EXCEPT ![d] = "gone"]
  /\ path' = Nobody /\ file' = FALSE
  /\ UNCHANGED <<overlap, pc, attempt, conn, job, runs, open>>

(* A killed daemon leaves its file, and drops its connections with all it  *)
(* was working on.                                                         *)
Killed(d) ==
  /\ phase[d] \in {"serving", "closing"}
  /\ phase' = [phase EXCEPT ![d] = "gone"]
  /\ path' = IF path = d THEN Nobody ELSE path
  /\ job' = [c \in Calls |-> [a \in Attempts |->
              IF conn[c][a] = d /\ job[c][a] \in {"sent", "running"}
              THEN "dropped" ELSE job[c][a]]]
  /\ UNCHANGED <<file, overlap, pc, attempt, conn, runs, open>>

Caller(c) ==
  \/ Connect(c) \/ NotListening(c) \/ CannotConnect(c) \/ Sent(c) \/ TakeAnswer(c)
  \/ Dropped(c) \/ Reconnect(c) \/ TimesOut(c) \/ Closed(c) \/ RunLocal(c)

Next ==
  \/ \E c \in Calls : Caller(c)
  \/ \E c \in Calls, a \in Attempts : Read(c, a) \/ Answer(c, a)
  \/ \E d \in Daemons : Start(d) \/ Stop(d) \/ Gone(d) \/ Killed(d)

(* Only the callers are sure to go on, where their waits are bounded.      *)
Fairness == \A c \in Calls : WF_vars(Caller(c))
Spec == Init /\ [][Next]_vars /\ Fairness

(***************************************************************************)
(* Properties.                                                             *)
(***************************************************************************)

(* The call hangs on a daemon that neither reads nor drops its request.    *)
Stuck(c) == pc[c] \in {"sending", "closing"} /\ Current(c) = "sent"

(* Every call ends, whatever the daemons do, though none of them need ever *)
(* do anything; only a large request that is never read nor dropped keeps  *)
(* its call.                                                               *)
EveryCallEnds == \A c \in Calls : <>(pc[c] \in Ends) \/ (c \in Large /\ <>[]Stuck(c))

(* What the client's time-out is said to guard against: a wedged daemon    *)
(* never keeps a call.  A large request it does keep.                      *)
NeverKept == \A c \in Calls : <>(pc[c] \in Ends)

(* What the client's failure model says of a connection dropped in the     *)
(* middle: that the call goes on, with another or without the daemon, and  *)
(* never ends with the transport's error.  A broken pipe does.             *)
DropsAreCaught == \A c \in Calls : pc[c] = "raised" => Current(c) # "dropped"

(* An operation is started at most once for each attempt and once locally; *)
(* a call that is answered by the daemon has had it started once for each  *)
(* attempt at most, so once unless the first connection was lost.          *)
RunsOnce ==
  \A c \in Calls :
    /\ runs[c] <= attempt[c] + 1
    /\ pc[c] = "waiting" /\ Current(c) \in Answers => runs[c] \in 1..attempt[c]

(* The socket path leads to the daemon that serves, unless two of them     *)
(* overlapped: a leftover file never keeps a daemon from being reached.    *)
Reachable ==
  \A d \in Daemons : phase[d] = "serving" /\ ~overlap => path = d /\ file

(* A request the daemon is still working on is not run a second time.      *)
NotRunTwice ==
  \A c \in Calls :
    runs[c] > 1 => ~\E a \in Attempts : job[c][a] = "running"
=============================================================================
