---------------------------- MODULE SingleFlight ----------------------------
(***************************************************************************)
(* What the daemon's coordinator promises the callers of one operation:    *)
(* calls with the same key share one flight.  A call that finds no open    *)
(* flight for its key leads one; a call that finds one joins it; the       *)
(* flight is decided once, and everybody aboard gets that decision.  A     *)
(* call may leave, which has no effect on the flight or on anybody else.   *)
(*                                                                         *)
(* A flight is named by the call that led it.  Between its decision and    *)
(* its removal from the table of open flights it can still be joined (the  *)
(* removal is a done-callback of the task, run by a later pass of the      *)
(* event loop), and such a call is answered with the decision at once.     *)
(*                                                                         *)
(* The module knows nothing of gates, caches or networks: Coordinator      *)
(* implements it.                                                          *)
(***************************************************************************)
CONSTANTS
  Calls,    \* the calls ever made
  Keys,     \* what makes two calls identical
  NoCall    \* stands for "no flight"

VARIABLES
  key,      \* the key of each call, fixed when it is made
  phase,    \* where each call stands with its caller
  flight,   \* the flight a call is aboard
  open,     \* the flight a key's next call would join
  decided   \* the flights whose result is known

vars == <<key, phase, flight, open, decided>>

TypeOK ==
  /\ key \in [Calls -> Keys]
  /\ phase \in [Calls -> {"idle", "waiting", "answered", "gone"}]
  /\ flight \in [Calls -> Calls \union {NoCall}]
  /\ open \in [Keys -> Calls \union {NoCall}]
  /\ decided \in SUBSET Calls

Init ==
  /\ key \in [Calls -> Keys]
  /\ phase = [c \in Calls |-> "idle"]
  /\ flight = [c \in Calls |-> NoCall]
  /\ open = [k \in Keys |-> NoCall]
  /\ decided = {}

(* Call c is made: it leads a new flight, or joins the open one. *)
Lead(c) ==
  /\ phase[c] = "idle"
  /\ open[key[c]] = NoCall
  /\ phase' = [phase EXCEPT ![c] = "waiting"]
  /\ flight' = [flight EXCEPT ![c] = c]
  /\ open' = [open EXCEPT ![key[c]] = c]
  /\ UNCHANGED <<key, decided>>

Join(c) ==
  /\ phase[c] = "idle"
  /\ open[key[c]] # NoCall
  /\ phase' = [phase EXCEPT ![c] = "waiting"]
  /\ flight' = [flight EXCEPT ![c] = open[key[c]]]
  /\ UNCHANGED <<key, open, decided>>

(* The flight led by c gets its result, and leaves the table after that. *)
Decide(c) ==
  /\ flight[c] = c
  /\ c \notin decided
  /\ decided' = decided \union {c}
  /\ UNCHANGED <<key, phase, flight, open>>

Close(c) ==
  /\ c \in decided
  /\ open[key[c]] = c
  /\ open' = [open EXCEPT ![key[c]] = NoCall]
  /\ UNCHANGED <<key, phase, flight, decided>>

(* A caller takes the result of its flight, or stops waiting for it. *)
Answer(c) ==
  /\ phase[c] = "waiting"
  /\ flight[c] \in decided
  /\ phase' = [phase EXCEPT ![c] = "answered"]
  /\ UNCHANGED <<key, flight, open, decided>>

Leave(c) ==
  /\ phase[c] = "waiting"
  /\ phase' = [phase EXCEPT ![c] = "gone"]
  /\ UNCHANGED <<key, flight, open, decided>>

Next ==
  \E c \in Calls :
    Lead(c) \/ Join(c) \/ Decide(c) \/ Close(c) \/ Answer(c) \/ Leave(c)

(* Every flight is decided and everyone still aboard is answered. *)
Fairness == \A c \in Calls : WF_vars(Decide(c)) /\ WF_vars(Answer(c))

Spec == Init /\ [][Next]_vars /\ Fairness
=============================================================================
