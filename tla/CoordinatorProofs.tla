------------------------- MODULE CoordinatorProofs --------------------------
(***************************************************************************)
(* Proofs about Coordinator, for every set of calls, requests, pages and   *)
(* domains and every positive cap.                                         *)
(*                                                                         *)
(* The safety invariants are not inductive: that a waiter's task is        *)
(* running depends on who is registered, and the cap on which tasks hold   *)
(* slots.  IInv adds what the code maintains without saying so: a running  *)
(* task is the registered one of its key, a registered task was led by its *)
(* own call, slots belong to paced tasks, and no raw body is ever a row.   *)
(***************************************************************************)
EXTENDS Coordinator, FiniteSetTheorems, TLAPS

(* A task runs only while it is registered under its key. *)
RunningIsRegistered ==
  \A t \in Calls : task[t] \in Running => inflight[KeyOf(req[t])] = t

(* What is registered under a key is a task of that key. *)
RegisteredIsTask ==
  \A k \in Keys : inflight[k] # NoCall =>
    task[inflight[k]] # "none" /\ KeyOf(req[inflight[k]]) = k

(* A call that has been made is aboard a task of its own key, and is       *)
(* answered only once that task has finished.                              *)
MadeIsAboard ==
  \A c \in Calls : phase[c] # "idle" =>
    /\ flight[c] \in Calls
    /\ task[flight[c]] # "none"
    /\ KeyOf(req[flight[c]]) = KeyOf(req[c])
    /\ phase[c] = "answered" => task[flight[c]] = "finished"

(* A task was created by the call it is named by, for that call. *)
TaskIsLed ==
  \A t \in Calls : task[t] # "none" => phase[t] # "idle" /\ flight[t] = t

(* Slots are held between the semaphore and the end of the fetch, and only *)
(* a raw fetch is on the network without one.                              *)
SlotInv ==
  /\ IsFiniteSet(slots)
  /\ \A t \in slots : task[t] \in {"pacing", "fetching"}
  /\ \A t \in Calls : task[t] = "pacing" => t \in slots
  /\ \A t \in Calls : task[t] = "fetching" /\ ~req[t].raw => t \in slots
  /\ \A d \in Domains : Cardinality(SlotsOf(d)) <= MaxPerDomain

(* A result answers the request of the task's own call. *)
Honest(r, res) ==
  /\ res.from # "nowhere"
  /\ res.from = "cache" => r.useCache /\ ~r.refresh /\ ~r.raw
  /\ res.kind = "raw" => r.raw
  /\ res.kind = "markdown" => ~r.raw

ResultInv ==
  /\ \A t \in Calls : task[t] = "finished" => Honest(req[t], result[t])
  /\ \A p \in Pages : row[p] # "raw"

IInv ==
  /\ TypeOK
  /\ RunningIsRegistered
  /\ RegisteredIsTask
  /\ MadeIsAboard
  /\ TaskIsLed
  /\ SlotInv
  /\ ResultInv

-----------------------------------------------------------------------------
(* Facts about the operators.                                              *)

(* A call's key is a key, and a call's request has the shape of one. *)
LEMMA KeyIsKey ==
  ASSUME TypeOK, NEW c \in Calls
  PROVE  KeyOf(req[c]) \in Keys /\ req[c] \in RequestShape
BY RequestsAssumption DEF TypeOK, Keys

(* Requests with one key agree on what an answer depends on. *)
LEMMA SameKeySameAnswer ==
  ASSUME NEW r \in RequestShape, NEW s \in RequestShape, KeyOf(r) = KeyOf(s)
  PROVE  r.raw = s.raw /\ r.refresh = s.refresh /\ r.useCache = s.useCache
BY DEF KeyOf, RequestShape

(* How a step of a task moves it on: to a result that answers its request, *)
(* giving up its slot, or to the network, keeping it.                      *)
Ends(t) ==
  /\ task' = [task EXCEPT ![t] = "finished"]
  /\ slots' = slots \ {t}
  /\ \E res \in Results :
       result' = [result EXCEPT ![t] = res] /\ Honest(req[t], res)

(* Entering fetch_one either ends the task with the row, or takes it to    *)
(* the network.                                                            *)
LEMMA EnterFetchEffect ==
  ASSUME TypeOK, ResultInv, NEW t \in Calls, EnterFetch(t)
  PROVE  \/ Ends(t)
         \/ /\ ~ReadsRow(req[t])
            /\ task' = [task EXCEPT ![t] = "fetching"]
            /\ UNCHANGED <<slots, result>>
<1>1. CASE ReadsRow(req[t]) /\ Finish(t, [from |-> "cache", kind |-> row[req[t].page]])
  <2> DEFINE res == [from |-> "cache", kind |-> row[req[t].page]]
  <2>1. req[t] \in RequestShape
    BY KeyIsKey
  <2>2. row[req[t].page] \in {"markdown", "failure"}
    BY <1>1, <2>1 DEF ReadsRow, ResultInv, TypeOK, Bodies, RequestShape
  <2>3. res \in Results
    BY <2>1, <2>2 DEF Results, Bodies, RequestShape
  <2>4. Honest(req[t], res)
    BY <1>1, <2>2 DEF Honest, ReadsRow
  <2>5. QED
    BY <1>1, <2>3, <2>4 DEF Finish, Ends
<1>2. QED
  BY <1>1 DEF EnterFetch

(* What comes back from the network is honest, and no raw body is stored. *)
LEMMA FetchReturnsEffect ==
  ASSUME TypeOK, NEW t \in Calls, FetchReturns(t)
  PROVE  /\ Ends(t)
         /\ \/ row' = row
            \/ \E p \in Pages, body \in {"markdown", "failure"} :
                 row' = [row EXCEPT ![p] = body]
<1>1. req[t] \in RequestShape
  BY KeyIsKey
<1>2. PICK kind \in {"failure", IF req[t].raw THEN "raw" ELSE "markdown"} :
        /\ Finish(t, [from |-> "network", kind |-> kind])
        /\ Store(req[t], kind)
  BY DEF FetchReturns
<1> DEFINE res == [from |-> "network", kind |-> kind]
<1>3. kind = "failure" \/ kind = (IF req[t].raw THEN "raw" ELSE "markdown")
  BY <1>2
<1>4. res \in Results
  BY <1>1, <1>3 DEF Results, Bodies, RequestShape
<1>5. Honest(req[t], res)
  BY <1>1, <1>3 DEF Honest, RequestShape
<1>6. Ends(t)
  BY <1>2, <1>4, <1>5 DEF Finish, Ends
<1>7. ~req[t].raw => kind \in {"markdown", "failure"}
  BY <1>3
<1>8. QED
  BY <1>1, <1>2, <1>6, <1>7 DEF Store, RequestShape

(* An exception is an honest answer too. *)
LEMMA FetchRaisesEffect ==
  ASSUME TypeOK, NEW t \in Calls, FetchRaises(t)
  PROVE  Ends(t)
<1> DEFINE res == [from |-> "network", kind |-> "error"]
<1>1. res \in Results /\ Honest(req[t], res)
  BY KeyIsKey DEF Results, Honest, RequestShape
<1>2. QED
  BY <1>1 DEF FetchRaises, Finish, Ends

-----------------------------------------------------------------------------
(* The steps of a task, by what they do to the invariant: it waits, takes  *)
(* a slot, goes to the network, ends, or is unregistered.                  *)
Waits(t) ==
  /\ task[t] = "created"
  /\ task' = [task EXCEPT ![t] = "queued"]
  /\ UNCHANGED <<inflight, slots, result, row>>

TakesSlot(t) ==
  /\ task[t] = "queued"
  /\ Cardinality(SlotsOf(req[t].domain)) < MaxPerDomain
  /\ task' = [task EXCEPT ![t] = "pacing"]
  /\ slots' = slots \union {t}
  /\ UNCHANGED <<inflight, result, row>>

GoesToNetwork(t) ==
  /\ task[t] = "pacing" \/ (task[t] = "created" /\ req[t].raw)
  /\ task' = [task EXCEPT ![t] = "fetching"]
  /\ UNCHANGED <<inflight, slots, result, row>>

EndsRunning(t) ==
  /\ task[t] \in Running
  /\ Ends(t)
  /\ inflight' = inflight
  /\ \/ row' = row
     \/ \E p \in Pages, body \in {"markdown", "failure"} :
          row' = [row EXCEPT ![p] = body]

(* Every step of a task is one of these, and leaves the callers alone. *)
LEMMA TaskStepEffect ==
  ASSUME TypeOK, ResultInv, NEW t \in Calls, TaskStep(t)
  PROVE  /\ UNCHANGED <<req, phase, flight>>
         /\ \/ Waits(t) \/ TakesSlot(t) \/ GoesToNetwork(t) \/ EndsRunning(t)
            \/ Unregister(t)
<1> USE DEF callVars, Running
<1>1. CASE StartUnpaced(t)
  <2>1. ~ReadsRow(req[t]) => req[t].raw
    BY <1>1, KeyIsKey DEF StartUnpaced, LooksCached, ReadsRow, RequestShape
  <2>2. QED
    BY <1>1, <2>1, EnterFetchEffect DEF StartUnpaced, GoesToNetwork, EndsRunning
<1>2. CASE StartPaced(t)
  BY <1>2 DEF StartPaced, Waits
<1>3. CASE AcquireSlot(t)
  BY <1>3 DEF AcquireSlot, TakesSlot
<1>4. CASE LeaveLimiter(t)
  BY <1>4, EnterFetchEffect DEF LeaveLimiter, GoesToNetwork, EndsRunning
<1>5. CASE FetchReturns(t)
  BY <1>5, FetchReturnsEffect DEF FetchReturns, EndsRunning
<1>6. CASE FetchRaises(t)
  BY <1>6, FetchRaisesEffect DEF FetchRaises, EndsRunning
<1>7. CASE Unregister(t)
  BY <1>7 DEF Unregister
<1>8. QED
  BY <1>1, <1>2, <1>3, <1>4, <1>5, <1>6, <1>7 DEF TaskStep

-----------------------------------------------------------------------------
(* The invariant holds initially.                                          *)
LEMMA InitInv == Init => IInv
<1> SUFFICES ASSUME Init PROVE IInv
  OBVIOUS
<1>1. TypeOK
  BY DEF Init, TypeOK, Phases, Running, Results, NoResult, Bodies
<1>2. RunningIsRegistered /\ RegisteredIsTask /\ MadeIsAboard /\ TaskIsLed
  BY DEF Init, RunningIsRegistered, RegisteredIsTask, MadeIsAboard, TaskIsLed, Running
<1>3. SlotInv
  <2>1. \A d \in Domains : SlotsOf(d) = {}
    BY DEF Init, SlotsOf
  <2>2. IsFiniteSet({}) /\ Cardinality({}) = 0
    BY FS_EmptySet
  <2>3. QED
    BY <2>1, <2>2, LimitAssumption DEF Init, SlotInv
<1>4. ResultInv
  BY DEF Init, ResultInv
<1>5. QED
  BY <1>1, <1>2, <1>3, <1>4 DEF IInv

(* Types are preserved. *)
LEMMA TypeStep ==
  ASSUME TypeOK, ResultInv, [Next]_vars
  PROVE  TypeOK'
<1>1. CASE UNCHANGED vars
  BY <1>1 DEF vars, TypeOK
<1>2. ASSUME NEW c \in Calls, Lead(c) \/ Join(c)
      PROVE  TypeOK'
  BY <1>2, KeyIsKey DEF TypeOK, Lead, Join, Phases, Running
<1>3. ASSUME NEW c \in Calls, Answer(c) \/ Cancel(c)
      PROVE  TypeOK'
  BY <1>3 DEF TypeOK, Answer, Cancel, Phases
<1>4. ASSUME NEW t \in Calls, TaskStep(t)
      PROVE  TypeOK'
  <2> USE DEF TypeOK, Running, Bodies
  <2>1. CASE Waits(t) \/ TakesSlot(t) \/ GoesToNetwork(t)
    BY <1>4, <2>1, TaskStepEffect DEF Waits, TakesSlot, GoesToNetwork
  <2>2. CASE EndsRunning(t)
    BY <1>4, <2>2, TaskStepEffect DEF EndsRunning, Ends
  <2>3. CASE Unregister(t)
    BY <2>3 DEF Unregister, callVars
  <2>4. QED
    BY <1>4, <2>1, <2>2, <2>3, TaskStepEffect
<1>5. ASSUME NEW p \in Pages, RowWritten(p) \/ RowExpires(p)
      PROVE  TypeOK'
  BY <1>5 DEF TypeOK, RowWritten, RowExpires, callVars, Bodies
<1>6. QED
  BY <1>1, <1>2, <1>3, <1>4, <1>5 DEF Next, CallStep

(* Running tasks stay registered, and what is registered stays a task. *)
LEMMA RegistrationStep ==
  ASSUME TypeOK, RunningIsRegistered, RegisteredIsTask, TaskIsLed, ResultInv,
         [Next]_vars
  PROVE  RunningIsRegistered' /\ RegisteredIsTask'
<1> USE NoCallAssumption DEF RunningIsRegistered, RegisteredIsTask
<1>1. CASE UNCHANGED vars
  BY <1>1 DEF vars
<1>2. ASSUME NEW c \in Calls, Lead(c)
      PROVE  RunningIsRegistered' /\ RegisteredIsTask'
  <2>1. KeyOf(req[c]) \in Keys /\ \A t \in Calls : KeyOf(req[t]) \in Keys
    BY KeyIsKey
  <2>2. QED
    BY <1>2, <2>1 DEF Lead, TypeOK, Running
<1>3. ASSUME NEW c \in Calls, Join(c) \/ Answer(c) \/ Cancel(c)
      PROVE  RunningIsRegistered' /\ RegisteredIsTask'
  BY <1>3 DEF Join, Answer, Cancel
<1>4. ASSUME NEW t \in Calls, TaskStep(t)
      PROVE  RunningIsRegistered' /\ RegisteredIsTask'
  <2> USE DEF TypeOK, Running
  <2>1. CASE Waits(t) \/ TakesSlot(t) \/ GoesToNetwork(t) \/ EndsRunning(t)
    <3>1. /\ UNCHANGED <<req, inflight>> /\ task[t] \in Running
          /\ \E s \in Running \union {"finished"} : task' = [task EXCEPT ![t] = s]
      BY <1>4, <2>1, TaskStepEffect
      DEF Waits, TakesSlot, GoesToNetwork, EndsRunning, Ends, Unregister
    <3>2. QED
      BY <3>1
  <2>2. CASE Unregister(t)
    BY <2>2, KeyIsKey DEF Unregister, callVars
  <2>3. QED
    BY <1>4, <2>1, <2>2, TaskStepEffect
<1>5. ASSUME NEW p \in Pages, RowWritten(p) \/ RowExpires(p)
      PROVE  RunningIsRegistered' /\ RegisteredIsTask'
  BY <1>5 DEF RowWritten, RowExpires, callVars
<1>6. QED
  BY <1>1, <1>2, <1>3, <1>4, <1>5 DEF Next, CallStep

(* Calls stay aboard, whoever leaves, and tasks stay their own calls'. *)
LEMMA FlightStep ==
  ASSUME TypeOK, RegisteredIsTask, MadeIsAboard, TaskIsLed, ResultInv, [Next]_vars
  PROVE  MadeIsAboard' /\ TaskIsLed'
<1> USE NoCallAssumption DEF MadeIsAboard, TaskIsLed
<1>1. CASE UNCHANGED vars
  BY <1>1 DEF vars
<1>2. ASSUME NEW c \in Calls, Lead(c) \/ Join(c)
      PROVE  MadeIsAboard' /\ TaskIsLed'
  BY <1>2, KeyIsKey DEF Lead, Join, TypeOK, RegisteredIsTask, Running
<1>3. ASSUME NEW c \in Calls, Answer(c) \/ Cancel(c)
      PROVE  MadeIsAboard' /\ TaskIsLed'
  BY <1>3 DEF Answer, Cancel, TypeOK
<1>4. ASSUME NEW t \in Calls, TaskStep(t)
      PROVE  MadeIsAboard' /\ TaskIsLed'
  <2>1. /\ UNCHANGED <<req, phase, flight>>
        /\ \/ task' = task
           \/ task[t] \in Running /\ \E s \in Running \union {"finished"} :
                                   task' = [task EXCEPT ![t] = s]
    BY <1>4, TaskStepEffect
    DEF Waits, TakesSlot, GoesToNetwork, EndsRunning, Ends, Unregister, Running
  <2>2. QED
    BY <2>1 DEF TypeOK, Running
<1>5. ASSUME NEW p \in Pages, RowWritten(p) \/ RowExpires(p)
      PROVE  MadeIsAboard' /\ TaskIsLed'
  BY <1>5 DEF RowWritten, RowExpires, callVars
<1>6. QED
  BY <1>1, <1>2, <1>3, <1>4, <1>5 DEF Next, CallStep

(* Results stay honest, and no raw body becomes a row. *)
LEMMA ResultStep ==
  ASSUME TypeOK, ResultInv, TaskIsLed, [Next]_vars
  PROVE  ResultInv'
<1> USE DEF ResultInv
<1>1. CASE UNCHANGED vars
  BY <1>1 DEF vars
<1>2. ASSUME NEW c \in Calls, Lead(c) \/ Join(c) \/ Answer(c) \/ Cancel(c)
      PROVE  ResultInv'
  BY <1>2 DEF Lead, Join, Answer, Cancel, TypeOK, Running
<1>3. ASSUME NEW t \in Calls, TaskStep(t)
      PROVE  ResultInv'
  <2>1. CASE Waits(t) \/ TakesSlot(t) \/ GoesToNetwork(t)
    BY <1>3, <2>1, TaskStepEffect DEF Waits, TakesSlot, GoesToNetwork, TypeOK
  <2>2. CASE EndsRunning(t)
    <3>1. req' = req
      BY <1>3, TaskStepEffect
    <3>2. \A u \in Calls : task'[u] = "finished" => Honest(req[u], result'[u])
      BY <2>2 DEF EndsRunning, Ends, TypeOK
    <3>3. \A p \in Pages : row'[p] # "raw"
      BY <2>2 DEF EndsRunning, TypeOK
    <3>4. QED
      BY <3>1, <3>2, <3>3
  <2>3. CASE Unregister(t)
    BY <2>3 DEF Unregister, callVars
  <2>4. QED
    BY <1>3, <2>1, <2>2, <2>3, TaskStepEffect
<1>4. ASSUME NEW p \in Pages, RowWritten(p) \/ RowExpires(p)
      PROVE  ResultInv'
  BY <1>4 DEF RowWritten, RowExpires, callVars, TypeOK
<1>5. QED
  BY <1>1, <1>2, <1>3, <1>4 DEF Next, CallStep

(* Slots: only AcquireSlot adds one, below the cap; the end of a fetch     *)
(* gives up the task's own.                                                *)
LEMMA SlotStep ==
  ASSUME TypeOK, SlotInv, ResultInv, TaskIsLed, [Next]_vars
  PROVE  SlotInv'
<1>1. ASSUME UNCHANGED <<req, slots>>,
             \A t \in Calls : task'[t] = task[t]
                             \/ (task[t] \notin {"pacing", "fetching"}
                                 /\ task'[t] \notin {"pacing", "fetching"})
      PROVE  SlotInv'
  <2>1. \A t \in slots : t \in Calls
    BY DEF TypeOK
  <2>2. QED
    BY <1>1, <2>1 DEF SlotInv, SlotsOf
<1>2. CASE UNCHANGED vars
  BY <1>1, <1>2 DEF vars
<1>3. ASSUME NEW c \in Calls, CallStep(c)
      PROVE  SlotInv'
  BY <1>1, <1>3 DEF CallStep, Lead, Join, Answer, Cancel, TaskIsLed, TypeOK, Running
<1>4. ASSUME NEW t \in Calls, TaskStep(t)
      PROVE  SlotInv'
  <2>1. req' = req
    BY <1>4, TaskStepEffect
  <2>2. CASE Waits(t)
    BY <1>1, <2>1, <2>2 DEF Waits, TypeOK
  <2>3. CASE TakesSlot(t)
    <3> DEFINE mine == SlotsOf(req[t].domain)
    <3>1. IsFiniteSet(slots) /\ IsFiniteSet(slots')
      BY <2>3, FS_AddElement DEF TakesSlot, SlotInv
    <3>2. ASSUME NEW d \in Domains
          PROVE  Cardinality(SlotsOf(d)') <= MaxPerDomain
      <4>1. CASE d = req[t].domain
        <5>1. SlotsOf(d)' = mine \union {t} /\ t \notin mine
          BY <2>1, <2>3, <4>1 DEF TakesSlot, SlotsOf, SlotInv
        <5>2. IsFiniteSet(mine)
          BY <3>1, FS_Subset DEF SlotsOf
        <5>3. Cardinality(mine \union {t}) = Cardinality(mine) + 1
          BY <5>1, <5>2, FS_AddElement
        <5>4. Cardinality(mine) \in Nat /\ Cardinality(mine) < MaxPerDomain
          BY <2>3, <5>2, FS_CardinalityType DEF TakesSlot
        <5>5. QED
          BY <5>1, <5>3, <5>4, LimitAssumption
      <4>2. CASE d # req[t].domain
        <5>1. SlotsOf(d)' = SlotsOf(d)
          BY <2>1, <2>3, <4>2 DEF TakesSlot, SlotsOf
        <5>2. QED
          BY <5>1 DEF SlotInv
      <4>3. QED
        BY <4>1, <4>2
    <3>3. QED
      BY <2>1, <2>3, <3>1, <3>2 DEF TakesSlot, SlotInv, TypeOK
  <2>4. CASE GoesToNetwork(t)
    <3>1. SlotsOf(req[t].domain)' = SlotsOf(req[t].domain) /\ slots' = slots
      BY <2>1, <2>4 DEF GoesToNetwork, SlotsOf
    <3>2. \A d \in Domains : SlotsOf(d)' = SlotsOf(d)
      BY <2>1, <2>4 DEF GoesToNetwork, SlotsOf
    <3>3. QED
      BY <2>1, <2>4, <3>1, <3>2 DEF GoesToNetwork, SlotInv, TypeOK
  <2>5. CASE EndsRunning(t)
    <3>1. slots' = slots \ {t} /\ task' = [task EXCEPT ![t] = "finished"]
      BY <2>5 DEF EndsRunning, Ends
    <3>2. IsFiniteSet(slots) /\ IsFiniteSet(slots')
      BY <3>1, FS_RemoveElement DEF SlotInv
    <3>3. ASSUME NEW d \in Domains
          PROVE  Cardinality(SlotsOf(d)') <= MaxPerDomain
      <4>1. SlotsOf(d)' \subseteq SlotsOf(d) /\ IsFiniteSet(SlotsOf(d))
        BY <2>1, <3>1, <3>2, FS_Subset DEF SlotsOf
      <4>2. Cardinality(SlotsOf(d)') <= Cardinality(SlotsOf(d))
        BY <4>1, FS_Subset
      <4>3. Cardinality(SlotsOf(d)') \in Nat /\ Cardinality(SlotsOf(d)) \in Nat
        BY <4>1, FS_Subset, FS_CardinalityType
      <4>4. QED
        BY <4>2, <4>3, LimitAssumption DEF SlotInv
    <3>4. QED
      BY <2>1, <3>1, <3>2, <3>3 DEF SlotInv, TypeOK
  <2>6. CASE Unregister(t)
    BY <1>1, <2>6 DEF Unregister, callVars
  <2>7. QED
    BY <1>4, <2>2, <2>3, <2>4, <2>5, <2>6, TaskStepEffect
<1>5. ASSUME NEW p \in Pages, RowWritten(p) \/ RowExpires(p)
      PROVE  SlotInv'
  BY <1>1, <1>5 DEF RowWritten, RowExpires, callVars
<1>6. QED
  BY <1>2, <1>3, <1>4, <1>5 DEF Next

(* The strengthening is inductive. *)
LEMMA InvStep == IInv /\ [Next]_vars => IInv'
BY TypeStep, RegistrationStep, FlightStep, SlotStep, ResultStep DEF IInv

(* The strengthening is an invariant of the coordinator. *)
THEOREM Invariance == Spec => []IInv
BY InitInv, InvStep, PTL DEF Spec

(* Every variable keeps its type. *)
THEOREM TypeCorrect == Spec => []TypeOK
<1>1. IInv => TypeOK
  BY DEF IInv
<1>2. QED
  BY <1>1, Invariance, PTL

(* Single-flight: two running tasks of one key are the one registered.     *)
THEOREM SingleFlightHolds == Spec => []OneTaskPerKey
<1>1. IInv => OneTaskPerKey
  BY DEF IInv, RunningIsRegistered, OneTaskPerKey
<1>2. QED
  BY <1>1, Invariance, PTL

(* No waiter is left without a task, however many callers are cancelled. *)
THEOREM NoWaiterStranded == Spec => []WaiterAboard
<1>1. IInv => WaiterAboard
  <2> SUFFICES ASSUME IInv, NEW c \in Calls, phase[c] = "waiting"
               PROVE  /\ flight[c] \in Calls
                      /\ KeyOf(req[flight[c]]) = KeyOf(req[c])
                      /\ \/ task[flight[c]] = "finished"
                         \/ /\ task[flight[c]] \in Running
                            /\ inflight[KeyOf(req[c])] = flight[c]
    BY DEF WaiterAboard
  <2>1. /\ flight[c] \in Calls /\ task[flight[c]] # "none"
        /\ KeyOf(req[flight[c]]) = KeyOf(req[c])
    BY DEF IInv, MadeIsAboard
  <2>2. task[flight[c]] \in Running \union {"finished"}
    BY <2>1 DEF IInv, TypeOK
  <2>3. QED
    BY <2>1, <2>2 DEF IInv, RunningIsRegistered
<1>2. QED
  BY <1>1, Invariance, PTL

(* At most max_concurrent_per_domain Markdown fetches of a domain are on   *)
(* the network: each holds one of the domain's slots.                      *)
THEOREM DomainCapHolds == Spec => []DomainCap
<1>1. IInv => DomainCap
  <2> SUFFICES ASSUME IInv, NEW d \in Domains
               PROVE  Cardinality({t \in OnNetwork(d) : ~req[t].raw}) <= MaxPerDomain
    BY DEF DomainCap
  <2> DEFINE S == {t \in OnNetwork(d) : ~req[t].raw}
  <2>1. S \subseteq SlotsOf(d)
    BY DEF IInv, SlotInv, OnNetwork, SlotsOf
  <2>2. IsFiniteSet(SlotsOf(d)) /\ Cardinality(SlotsOf(d)) <= MaxPerDomain
    BY FS_Subset DEF IInv, SlotInv, SlotsOf
  <2>3. Cardinality(S) <= Cardinality(SlotsOf(d))
    BY <2>1, <2>2, FS_Subset
  <2>4. Cardinality(S) \in Nat /\ Cardinality(SlotsOf(d)) \in Nat
    BY <2>1, <2>2, FS_Subset, FS_CardinalityType
  <2>5. QED
    BY <2>2, <2>3, <2>4, LimitAssumption
<1>2. QED
  BY <1>1, Invariance, PTL

(* "A refresh request never joins a non-refresh one and gets stale data":  *)
(* a task's result answers its own call, and whoever is aboard has its key.*)
THEOREM AnswersMeetRequests == Spec => []AnswerMeetsRequest
<1>1. IInv => AnswerMeetsRequest
  <2> SUFFICES ASSUME IInv, NEW c \in Calls, phase[c] = "answered"
               PROVE  Honest(req[c], result[flight[c]])
    BY DEF AnswerMeetsRequest, Honest
  <2>1. /\ flight[c] \in Calls /\ task[flight[c]] = "finished"
        /\ KeyOf(req[flight[c]]) = KeyOf(req[c])
    BY DEF IInv, MadeIsAboard
  <2>2. Honest(req[flight[c]], result[flight[c]])
    BY <2>1 DEF IInv, ResultInv
  <2>3. /\ req[c] \in RequestShape /\ req[flight[c]] \in RequestShape
    BY <2>1, KeyIsKey DEF IInv
  <2>4. QED
    BY <2>1, <2>2, <2>3, SameKeySameAnswer DEF Honest
<1>2. QED
  BY <1>1, Invariance, PTL

-----------------------------------------------------------------------------
(* Refinement of SingleFlight.                                             *)

(* The coordinator starts where the abstract flights start. *)
LEMMA FlightsInit == Init => Flights!Init
<1> SUFFICES ASSUME Init PROVE Flights!Init
  OBVIOUS
<1>1. \A c \in Calls : KeyOf(req[c]) \in Keys
  BY DEF Init, Keys
<1>2. {t \in Calls : task[t] = "finished"} = {}
  BY DEF Init
<1>3. QED
  BY <1>1, <1>2 DEF Init, Flights!Init

(* A task's step decides its flight, closes it, or is invisible. *)
LEMMA FlightsTaskStep ==
  ASSUME IInv, NEW t \in Calls, TaskStep(t)
  PROVE  [Flights!Next]_Flights!vars
<1> USE DEF IInv, TypeOK
<1> DEFINE decided == {u \in Calls : task[u] = "finished"}
<1>1. UNCHANGED <<req, phase, flight>>
  BY TaskStepEffect
<1>2. CASE Waits(t) \/ TakesSlot(t) \/ GoesToNetwork(t)
  <2>1. inflight' = inflight /\ decided' = decided
    BY <1>2 DEF Waits, TakesSlot, GoesToNetwork
  <2>2. QED
    BY <1>1, <2>1 DEF Flights!vars
<1>3. CASE EndsRunning(t)
  <2>1. flight[t] = t /\ t \notin decided
    BY <1>3 DEF TaskIsLed, EndsRunning, Running
  <2>2. inflight' = inflight /\ decided' = decided \union {t}
    BY <1>3 DEF EndsRunning, Ends
  <2>3. Flights!Decide(t)
    BY <1>1, <2>1, <2>2 DEF Flights!Decide
  <2>4. QED
    BY <2>3 DEF Flights!Next
<1>4. CASE Unregister(t)
  <2>1. Flights!Close(t)
    BY <1>4 DEF Unregister, callVars, Flights!Close
  <2>2. QED
    BY <2>1 DEF Flights!Next
<1>5. QED
  BY <1>2, <1>3, <1>4, TaskStepEffect

(* A caller's step is the abstract step of the same name. *)
LEMMA FlightsCallStep ==
  ASSUME IInv, NEW c \in Calls, CallStep(c)
  PROVE  Flights!Next
<1> DEFINE decided == {u \in Calls : task[u] = "finished"}
<1>1. CASE Lead(c)
  <2>1. task[c] = "none"
    BY <1>1 DEF IInv, TypeOK, TaskIsLed, Lead, Running
  <2>2. decided' = decided
    BY <1>1, <2>1 DEF IInv, TypeOK, Lead
  <2>3. Flights!Lead(c)
    BY <1>1, <2>2 DEF Lead, Flights!Lead
  <2>4. QED
    BY <2>3 DEF Flights!Next
<1>2. CASE Join(c)
  <2>1. Flights!Join(c)
    BY <1>2 DEF Join, Flights!Join
  <2>2. QED
    BY <2>1 DEF Flights!Next
<1>3. CASE Answer(c)
  <2>1. flight[c] \in decided
    BY <1>3 DEF Answer, IInv, MadeIsAboard
  <2>2. Flights!Answer(c)
    BY <1>3, <2>1 DEF Answer, Flights!Answer
  <2>3. QED
    BY <2>2 DEF Flights!Next
<1>4. CASE Cancel(c)
  <2>1. Flights!Leave(c)
    BY <1>4 DEF Cancel, Flights!Leave
  <2>2. QED
    BY <2>1 DEF Flights!Next
<1>5. QED
  BY <1>1, <1>2, <1>3, <1>4 DEF CallStep

(* Every step of the coordinator is a step of the flights or a stutter. *)
LEMMA FlightsStep == IInv /\ [Next]_vars => [Flights!Next]_Flights!vars
<1> SUFFICES ASSUME IInv, [Next]_vars PROVE [Flights!Next]_Flights!vars
  OBVIOUS
<1>1. CASE UNCHANGED vars
  BY <1>1 DEF vars, Flights!vars
<1>2. ASSUME NEW c \in Calls, CallStep(c) \/ TaskStep(c)
      PROVE  [Flights!Next]_Flights!vars
  BY <1>2, FlightsCallStep, FlightsTaskStep
<1>3. ASSUME NEW p \in Pages, RowWritten(p) \/ RowExpires(p)
      PROVE  [Flights!Next]_Flights!vars
  BY <1>3 DEF RowWritten, RowExpires, callVars, Flights!vars
<1>4. QED
  BY <1>1, <1>2, <1>3 DEF Next

(* The coordinator implements SingleFlight, gates, cache and all. *)
THEOREM CoordinatorImplementsSingleFlight == Spec => ImplementsSingleFlight
BY FlightsInit, FlightsStep, Invariance, PTL DEF Spec, ImplementsSingleFlight
=============================================================================
