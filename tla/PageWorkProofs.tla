--------------------------- MODULE PageWorkProofs ---------------------------
(***************************************************************************)
(* Proofs about PageWork, for any pages and sites and every setting of the *)
(* switches.                                                               *)
(***************************************************************************)
EXTENDS PageWork, FiniteSetTheorems, TLAPS

AtWork == {"dressing", "loading", "judging", "solving", "unsolved", "content", "clearing",
           "retrying", "closing"}

(* Where the request is, where the hold is, and the page, together. *)
Owned(p) ==
  \/ pc[p] \in {"new", "creating"} /\ hold[p] = "none" /\ page[p] = "none"
  \/ pc[p] \in AtWork /\ hold[p] = "none" /\ page[p] = "open"
  \/ pc[p] = "failed" /\ hold[p] = "none" /\ page[p] \in {"none", "context", "open"}
  \/ pc[p] = "done" /\ hold[p] = "none" /\ page[p] = "closed"
  \/ pc[p] = "done" /\ hold[p] \in {"showing", "waiting", "closing"} /\ page[p] = "open"
  \/ pc[p] = "done" /\ hold[p] = "over" /\ page[p] = "closed"

HeldByOne ==
  /\ manual \in BOOLEAN
  /\ ~manual => Held = {}
  /\ manual => \E p \in Pages : Held = {p}

(* Cookies are being cleared for one page of a site, which the cooldown    *)
(* has seen, and have not been cleared in it before.                       *)
Clearing(s) == {p \in Pages : Site[p] = s /\ pc[p] = "clearing"}
ClearedOnce(s) ==
  /\ cooling[s] \in BOOLEAN /\ clears[s] \in {0, 1}
  /\ ~cooling[s] => clears[s] = 0
  /\ \A p \in Clearing(s) : cooling[s] /\ clears[s] = 0 /\ Clearing(s) = {p}

(* Each variable has an entry for every page or site. *)
Entries ==
  /\ pc = [p \in Pages |-> pc[p]] /\ page = [p \in Pages |-> page[p]]
  /\ hold = [p \in Pages |-> hold[p]]
  /\ cooling = [s \in Sites |-> cooling[s]] /\ clears = [s \in Sites |-> clears[s]]

PageInv == Entries /\ HeldByOne /\ (\A p \in Pages : Owned(p)) /\ (\A s \in Sites : ClearedOnce(s))

(* A step of one request that leaves the holds and the cookies alone. *)
LEMMA PlainStep ==
  ASSUME PageInv, NEW p \in Pages, NEW where \in AtWork \union {"creating", "done", "failed"},
         pc' = [pc EXCEPT ![p] = where], page' = [q \in Pages |-> page'[q]],
         \A q \in Pages \ {p} : page'[q] = page[q],
         hold' = hold, manual' = manual, cooling' = cooling, clears' = clears,
         where # "clearing", Owned(p)'
  PROVE  PageInv'
<1>1. pc'[p] = where /\ \A q \in Pages \ {p} : pc'[q] = pc[q]
  BY DEF PageInv, Entries
<1>2. Entries'
  BY <1>1 DEF PageInv, Entries
<1>3. HeldByOne'
  BY DEF PageInv, HeldByOne, Held
<1>4. ASSUME NEW q \in Pages PROVE Owned(q)'
  BY <1>1 DEF PageInv, Owned
<1>5. ASSUME NEW s \in Sites PROVE ClearedOnce(s)'
  <2>1. Clearing(s)' = Clearing(s) \ {p}
    BY <1>1 DEF Clearing
  <2> QED BY <2>1 DEF PageInv, ClearedOnce
<1> QED BY <1>2, <1>3, <1>4, <1>5 DEF PageInv

LEMMA LoadSteps ==
  ASSUME PageInv, NEW p \in Pages,
         Create(p) \/ Created(p) \/ Dressed(p) \/ Load(p) \/ Judge(p) \/ Solve(p)
           \/ LeaveChallenge(p) \/ NoWall(p) \/ Retry(p) \/ Close(p)
  PROVE  PageInv'
<1>1. Owned(p) /\ Entries
  BY DEF PageInv
<1>2. PICK where \in AtWork \union {"creating", "done", "failed"} :
             pc' = [pc EXCEPT ![p] = where] /\ where # "clearing"
  BY DEF Create, Created, Dressed, Load, Judge, Solve, LeaveChallenge, NoWall, Retry, Close, Goes, AtWork
<1>3. /\ page' = [q \in Pages |-> page'[q]] /\ \A q \in Pages \ {p} : page'[q] = page[q]
      /\ hold' = hold /\ manual' = manual /\ cooling' = cooling /\ clears' = clears
  BY <1>1 DEF Create, Created, Dressed, Load, Judge, Solve, LeaveChallenge, NoWall, Retry, Close, wall, Entries
<1>4. Owned(p)'
  BY <1>1 DEF Create, Created, Dressed, Load, Judge, Solve, LeaveChallenge, NoWall, Retry, Close, Goes,
              Owned, AtWork, Entries
<1> QED BY <1>2, <1>3, <1>4, PlainStep

LEMMA RecoverStep ==
  ASSUME PageInv, NEW p \in Pages, Recover(p)
  PROVE  PageInv'
<1> DEFINE t == Site[p]
<1>1. /\ pc[p] = "content" /\ ~cooling[t] /\ cooling' = [cooling EXCEPT ![t] = TRUE]
      /\ pc' = [pc EXCEPT ![p] = "clearing"]
      /\ UNCHANGED <<page, hold, manual, clears>>
  BY DEF Recover, Goes
<1>2. t \in Sites /\ Entries
  BY SitesAssumption DEF PageInv
<1>3. /\ pc'[p] = "clearing" /\ (\A q \in Pages \ {p} : pc'[q] = pc[q])
      /\ cooling'[t] = TRUE /\ (\A s \in Sites \ {t} : cooling'[s] = cooling[s]) /\ Entries'
  BY <1>1, <1>2 DEF Entries
<1>4. HeldByOne'
  BY <1>1 DEF PageInv, HeldByOne, Held
<1>5. ASSUME NEW q \in Pages PROVE Owned(q)'
  BY <1>1, <1>3 DEF PageInv, Owned, AtWork
<1>6. ASSUME NEW s \in Sites PROVE ClearedOnce(s)'
  <2>1. CASE s = t
    <3>1. Clearing(t) = {}
      BY <1>1, <1>2 DEF PageInv, ClearedOnce
    <3>2. Clearing(t)' = {p}
      BY <1>3, <3>1 DEF Clearing
    <3> QED BY <1>1, <1>2, <1>3, <2>1, <3>2 DEF PageInv, ClearedOnce
  <2>2. CASE s # t
    <3>1. Clearing(s)' = Clearing(s)
      BY <1>3, <2>2 DEF Clearing
    <3> QED BY <1>1, <1>3, <2>2, <3>1 DEF PageInv, ClearedOnce
  <2> QED BY <2>1, <2>2
<1> QED BY <1>3, <1>4, <1>5, <1>6 DEF PageInv

LEMMA ClearStep ==
  ASSUME PageInv, NEW p \in Pages, Clear(p)
  PROVE  PageInv'
<1> DEFINE t == Site[p]
<1>1. t \in Sites /\ Entries /\ pc[p] = "clearing"
  BY SitesAssumption DEF PageInv, Clear
<1>2. PICK next \in {"retrying", "closing"} : pc' = [pc EXCEPT ![p] = next]
  BY DEF Clear, Goes
<1>3. /\ clears' = [s \in Sites |-> clears'[s]] /\ (\A s \in Sites \ {t} : clears'[s] = clears[s])
      /\ clears'[t] = clears[t] \/ clears'[t] = clears[t] + 1
      /\ UNCHANGED <<page, hold, manual, cooling>>
  BY <1>1 DEF Clear, Entries
<1>4. pc'[p] = next /\ (\A q \in Pages \ {p} : pc'[q] = pc[q]) /\ Entries'
  BY <1>1, <1>2, <1>3 DEF Entries
<1>5. HeldByOne'
  BY <1>3 DEF PageInv, HeldByOne, Held
<1>6. ASSUME NEW q \in Pages PROVE Owned(q)'
  BY <1>1, <1>3, <1>4 DEF PageInv, Owned, AtWork
<1>7. ASSUME NEW s \in Sites PROVE ClearedOnce(s)'
  <2>1. CASE s = t
    <3>1. p \in Clearing(t)
      BY <1>1 DEF Clearing
    <3>2. Clearing(t) = {p} /\ cooling[t] /\ clears[t] = 0
      BY <1>1, <3>1 DEF PageInv, ClearedOnce
    <3>3. Clearing(t)' = {}
      BY <1>4, <3>2 DEF Clearing
    <3>4. cooling'[t] = cooling[t] /\ cooling[t] \in BOOLEAN /\ clears'[t] \in {0, 1}
      BY <1>1, <1>3, <3>2 DEF PageInv, ClearedOnce
    <3> QED BY <2>1, <3>2, <3>3, <3>4 DEF ClearedOnce
  <2>2. CASE s # t
    <3>1. Clearing(s)' = Clearing(s)
      BY <1>4, <2>2 DEF Clearing
    <3> QED BY <1>3, <2>2, <3>1 DEF PageInv, ClearedOnce
  <2> QED BY <2>1, <2>2
<1> QED BY <1>4, <1>5, <1>6, <1>7 DEF PageInv

(* The steps of a hold, and the one that begins it. *)
LEMMA HoldSteps ==
  ASSUME PageInv, NEW p \in Pages, HandOver(p) \/ Show(p) \/ HoldEnds(p) \/ HoldCloses(p)
  PROVE  PageInv'
<1>1. Owned(p) /\ Entries /\ HeldByOne
  BY DEF PageInv
<1>2. /\ cooling' = cooling /\ clears' = clears
      /\ pc' = [q \in Pages |-> pc'[q]] /\ page' = [q \in Pages |-> page'[q]]
      /\ hold' = [q \in Pages |-> hold'[q]]
      /\ \A q \in Pages \ {p} : pc'[q] = pc[q] /\ page'[q] = page[q] /\ hold'[q] = hold[q]
      /\ pc[p] # "clearing" /\ pc'[p] # "clearing"
  BY <1>1 DEF HandOver, Show, HoldEnds, HoldCloses, Goes, wall, Entries, Owned, AtWork
<1>3. Owned(p)'
  BY <1>1 DEF HandOver, Show, HoldEnds, HoldCloses, Goes, Entries, Owned, AtWork
<1>4. Entries' /\ \A q \in Pages : Owned(q)'
  BY <1>1, <1>2, <1>3 DEF PageInv, Entries, Owned
<1>5. ASSUME NEW s \in Sites PROVE ClearedOnce(s)'
  <2>1. Clearing(s)' = Clearing(s)
    BY <1>2 DEF Clearing
  <2> QED BY <1>2, <2>1 DEF PageInv, ClearedOnce
<1>6. HeldByOne'
  <2>1. CASE HandOver(p)
    <3>1. Held = {} /\ manual' = TRUE /\ hold'[p] = "showing"
      BY <1>1, <2>1 DEF HandOver, HeldByOne, Entries
    <3>2. Held' = {p}
      BY <1>2, <3>1 DEF Held
    <3> QED BY <3>1, <3>2 DEF HeldByOne
  <2>2. CASE Show(p)
    <3>1. manual' = manual /\ hold[p] = "showing" /\ hold'[p] = "waiting"
      BY <1>1, <2>2 DEF Show, Entries
    <3>2. Held' = Held
      BY <1>2, <3>1 DEF Held
    <3> QED BY <1>1, <3>1, <3>2 DEF HeldByOne
  <2>3. CASE HoldEnds(p)
    <3>1. p \in Held /\ manual' = FALSE /\ hold'[p] = "closing"
      BY <1>1, <2>3 DEF HoldEnds, Held, Entries
    <3>2. Held = {p}
      BY <1>1, <3>1 DEF HeldByOne
    <3>3. Held' = {}
      BY <1>2, <3>1, <3>2 DEF Held
    <3> QED BY <3>1, <3>3 DEF HeldByOne
  <2>4. CASE HoldCloses(p)
    <3>1. manual' = manual /\ hold[p] = "closing" /\ hold'[p] = "over"
      BY <1>1, <2>4 DEF HoldCloses, Entries
    <3>2. Held' = Held
      BY <1>2, <3>1 DEF Held
    <3> QED BY <1>1, <3>1, <3>2 DEF HeldByOne
  <2> QED BY <2>1, <2>2, <2>3, <2>4
<1> QED BY <1>4, <1>5, <1>6 DEF PageInv

LEMMA SiteSteps ==
  ASSUME PageInv, NEW t \in Sites, Sours(t) \/ Cools(t)
  PROVE  PageInv'
<1>1. UNCHANGED <<pc, page, hold, manual>> /\ Entries
  BY DEF Sours, Cools, PageInv
<1>2. HeldByOne' /\ \A p \in Pages : Owned(p)'
  BY <1>1 DEF PageInv, HeldByOne, Held, Owned
<1>3. CASE Sours(t)
  BY <1>1, <1>2, <1>3 DEF Sours, wall, PageInv, Entries, ClearedOnce, Clearing
<1>4. CASE Cools(t)
  <2>1. /\ cooling' = [cooling EXCEPT ![t] = FALSE] /\ clears' = [clears EXCEPT ![t] = 0]
        /\ Clearing(t) = {}
    BY <1>4 DEF Cools, Clearing
  <2>2. ASSUME NEW s \in Sites PROVE ClearedOnce(s)'
    <3>1. Clearing(s)' = Clearing(s)
      BY <1>1 DEF Clearing
    <3> QED BY <1>1, <2>1, <3>1 DEF PageInv, Entries, ClearedOnce
  <2>3. Entries'
    BY <1>1, <2>1 DEF Entries
  <2> QED BY <1>2, <2>2, <2>3 DEF PageInv
<1> QED BY <1>3, <1>4

LEMMA PageInvariance == Spec => []PageInv
<1>1. Init => PageInv
  <2> SUFFICES ASSUME Init PROVE PageInv
    OBVIOUS
  <2>1. Entries /\ HeldByOne /\ \A p \in Pages : Owned(p)
    BY DEF Init, Entries, HeldByOne, Held, Owned
  <2>2. ASSUME NEW s \in Sites PROVE ClearedOnce(s)
    BY DEF Init, ClearedOnce, Clearing
  <2> QED BY <2>1, <2>2 DEF PageInv
<1>2. PageInv /\ [Next]_vars => PageInv'
  <2>1. PageInv /\ UNCHANGED vars => PageInv'
    <3> SUFFICES ASSUME PageInv, UNCHANGED vars PROVE PageInv'
      OBVIOUS
    <3>1. UNCHANGED <<pc, page, hold, manual, cooling, clears>>
      BY DEF vars, wall
    <3>2. Entries' /\ HeldByOne' /\ \A p \in Pages : Owned(p)'
      BY <3>1 DEF PageInv, Entries, HeldByOne, Held, Owned
    <3>3. ASSUME NEW s \in Sites PROVE ClearedOnce(s)'
      <4>1. Clearing(s)' = Clearing(s)
        BY <3>1 DEF Clearing
      <4> QED BY <3>1, <4>1 DEF PageInv, ClearedOnce
    <3> QED BY <3>2, <3>3 DEF PageInv
  <2>2. PageInv /\ Next => PageInv'
    BY LoadSteps, RecoverStep, ClearStep, HoldSteps, SiteSteps DEF Next, Serve, Hold
  <2> QED BY <2>1, <2>2
<1> QED BY <1>1, <1>2, PTL DEF Spec

(* Of pages whose creation came to its end none leaks, none is closed      *)
(* under the human who holds it, and the flag says exactly whether a page  *)
(* is held (fetch_page and _start_manual_hold), however many there are.    *)
THEOREM OneOwner == Spec => []PageHasOneOwner
<1>1. PageInv => PageHasOneOwner
  <2> SUFFICES ASSUME PageInv PROVE PageHasOneOwner
    OBVIOUS
  <2>1. Cardinality(Held) = (IF manual THEN 1 ELSE 0)
    <3>1. CASE manual
      <4>1. PICK p \in Pages : Held = {p}
        BY <3>1 DEF PageInv, HeldByOne
      <4>2. Cardinality({p}) = 1
        BY FS_Singleton
      <4> QED BY <3>1, <4>1, <4>2
    <3>2. CASE ~manual
      <4>1. Held = {} /\ manual = FALSE
        BY <3>2 DEF PageInv, HeldByOne
      <4> QED BY <4>1, FS_EmptySet
    <3> QED BY <3>1, <3>2
  <2>2. ASSUME NEW p \in Pages
        PROVE  /\ pc[p] = "done" /\ hold[p] = "none" => page[p] = "closed"
               /\ p \in Held \/ hold[p] = "closing" => page[p] = "open"
    BY DEF PageInv, Owned, AtWork, Held
  <2> QED BY <2>1, <2>2 DEF PageHasOneOwner
<1> QED BY <1>1, PageInvariance, PTL

(* The cookies of a site are cleared once per cooldown, however many of    *)
(* its pages meet the wall together (_maybe_recover_login_wall).           *)
THEOREM OneClear == Spec => []ClearsOncePerCooldown
<1>1. PageInv => ClearsOncePerCooldown
  BY DEF PageInv, ClearedOnce, ClearsOncePerCooldown
<1> QED BY <1>1, PageInvariance, PTL

(* Who creates has the lock, and the other variables are of their types. *)
Creates == \A p \in Pages : pc[p] \in {"creating", "dressing"} <=> create = p
Kinds ==
  /\ seen \in [Pages -> {"nothing", "content", "challenge", "wall"}]
  /\ create \in Pages \union {Nobody}
  /\ walled \in [Sites -> BOOLEAN] /\ cleared \in [Sites -> BOOLEAN]
CreateInv == Creates /\ Kinds

LEMMA CreateStep ==
  ASSUME PageInv, CreateInv, [Next]_vars
  PROVE  CreateInv'
<1>1. Entries /\ Creates /\ Kinds /\ Nobody \notin Pages /\ Site \in [Pages -> Sites]
  BY SitesAssumption DEF PageInv, CreateInv
<1>2. CASE UNCHANGED vars
  BY <1>1, <1>2 DEF vars, profile, CreateInv, Creates, Kinds
<1>3. ASSUME NEW p \in Pages, Serve(p) PROVE CreateInv'
  <2>1. CASE Create(p)
    BY <1>1, <2>1 DEF Create, Goes, Entries, profile, CreateInv, Creates, Kinds
  <2>2. CASE Created(p) \/ Dressed(p)
    BY <1>1, <2>2 DEF Created, Dressed, Goes, Entries, profile, CreateInv, Creates, Kinds
  <2>3. CASE ~Create(p) /\ ~Created(p) /\ ~Dressed(p)
    <3>1. create' = create /\ pc[p] \notin {"creating", "dressing"}
      BY <1>3, <2>3 DEF Serve, Load, Judge, Solve, HandOver, LeaveChallenge, NoWall, Recover,
                        Clear, Retry, Close
    <3>2. PICK where \in (AtWork \ {"dressing"}) \union {"done"} : pc' = [pc EXCEPT ![p] = where]
      BY <1>3, <2>3 DEF Serve, Load, Judge, Solve, HandOver, LeaveChallenge, NoWall, Recover,
                        Clear, Retry, Close, Goes, AtWork
    <3>3. Creates'
      BY <1>1, <3>1, <3>2 DEF Entries, Creates, AtWork
    <3>4. Kinds'
      BY <1>1, <1>3, <2>3, <3>1
         DEF Serve, Load, Judge, Solve, HandOver, LeaveChallenge, NoWall, Recover, Clear, Retry,
             Close, Shows, profile, Kinds
    <3> QED BY <3>3, <3>4 DEF CreateInv
  <2> QED BY <2>1, <2>2, <2>3
<1>4. ASSUME NEW p \in Pages, Hold(p) PROVE CreateInv'
  BY <1>1, <1>4 DEF Hold, Show, HoldEnds, HoldCloses, profile, CreateInv, Creates, Kinds
<1>5. ASSUME NEW s \in Sites, Sours(s) \/ Cools(s) PROVE CreateInv'
  BY <1>1, <1>5 DEF Sours, Cools, profile, CreateInv, Creates, Kinds
<1> QED BY <1>2, <1>3, <1>4, <1>5 DEF Next

LEMMA CreateInvariance == Spec => []CreateInv
<1>1. Init => CreateInv
  BY SitesAssumption DEF Init, CreateInv, Creates, Kinds
<1>2. PageInv /\ CreateInv /\ [Next]_vars => CreateInv'
  BY CreateStep
<1> QED BY <1>1, <1>2, PageInvariance, PTL DEF Spec

(* Every variable keeps its type (fetch_page). *)
THEOREM PageTypes == Spec => []TypeOK
<1>1. PageInv /\ CreateInv => TypeOK
  <2> SUFFICES ASSUME PageInv, CreateInv PROVE TypeOK
    OBVIOUS
  <2>1. Entries /\ HeldByOne /\ Kinds
    BY DEF PageInv, CreateInv
  <2>2. ASSUME NEW p \in Pages
        PROVE  /\ pc[p] \in AtWork \union {"new", "creating", "done", "failed"}
               /\ page[p] \in {"none", "context", "open", "closed"}
               /\ hold[p] \in {"none", "showing", "waiting", "closing", "over"}
    BY DEF PageInv, Owned
  <2>3. ASSUME NEW s \in Sites PROVE cooling[s] \in BOOLEAN /\ clears[s] \in Nat
    BY DEF PageInv, ClearedOnce
  <2>4. /\ pc \in [Pages -> AtWork \union {"new", "creating", "done", "failed"}]
        /\ page \in [Pages -> {"none", "context", "open", "closed"}]
        /\ hold \in [Pages -> {"none", "showing", "waiting", "closing", "over"}]
    BY <2>1, <2>2 DEF Entries
  <2>5. cooling \in [Sites -> BOOLEAN] /\ clears \in [Sites -> Nat]
    BY <2>1, <2>3 DEF Entries
  <2> QED BY <2>1, <2>4, <2>5 DEF HeldByOne, Kinds, AtWork, TypeOK
<1> QED BY <1>1, PageInvariance, CreateInvariance, PTL

(* However many requests there are, one page at a time is created and set  *)
(* up, by the one who has the lock (_CREATE_LOCK): nobody keeps the lock   *)
(* for anything else, whether or not the page came.                        *)
THEOREM OneCreates == Spec => []Creates
<1>1. CreateInv => Creates
  BY DEF CreateInv
<1> QED BY <1>1, CreateInvariance, PTL
=============================================================================
