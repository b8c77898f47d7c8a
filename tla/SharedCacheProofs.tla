-------------------------- MODULE SharedCacheProofs --------------------------
(***************************************************************************)
(* Proofs about SharedCache, for every set of processes and however often  *)
(* the site changes and processes end.                                     *)
(***************************************************************************)
EXTENDS SharedCache, TLAPS

(* Whoever is about to bump has a verdict. *)
ToldInv == \A p \in Procs : pc[p] \in {"bump", "write"} => told[p] \in Verdicts

(* Only a transaction pins a snapshot, and one that is not stale shows the *)
(* committed row.                                                          *)
SnapInv ==
  \A p \in Procs :
    /\ snap[p].pinned => p \in txn
    /\ snap[p].stale => snap[p].pinned
    /\ snap[p].pinned /\ ~snap[p].stale => snap[p].row = row

(* Before any write gave up, a transaction left open holds the lock. *)
PatientInv == ~gaveUp => \A p \in txn : lock = p

(* A bump that nobody overlaps writes over the row that it read. *)
FoundInv ==
  ~raced /\ ~gaveUp => \A p \in Procs : pc[p] = "write" => found[p] = row

IInv ==
  /\ TypeOK /\ ToldInv /\ SnapInv /\ PatientInv /\ FoundInv
  /\ SharesWhilePatient /\ StrikesAddUp

-----------------------------------------------------------------------------
(* bump keeps the row a row. *)
LEMMA BumpedTyped ==
  ASSUME NEW r \in Rows, NEW t \in Learnable, NEW good \in BOOLEAN
  PROVE  Bumped(r, t, good) \in Rows
BY DEF Bumped, Rows, NoRow, Learnable, OtherTier

(* What a connection reads is a row, and the committed one until somebody  *)
(* gave up.                                                                *)
LEMMA VisibleRow ==
  ASSUME TypeOK, SnapInv, SharesWhilePatient, NEW p \in Procs
  PROVE  Visible(p) \in Rows /\ (~gaveUp => Visible(p) = row)
BY DEF TypeOK, Snapshots, SnapInv, SharesWhilePatient, SharesCache, Visible

(* A read keeps the facts about the database. *)
LEMMA ReadStep ==
  ASSUME IInv, NEW p \in Procs, Read(p), gaveUp' = gaveUp
  PROVE  /\ row' = row /\ lock' = lock /\ txn' = txn
         /\ snap' \in [Procs -> Snapshots]
         /\ SnapInv' /\ PatientInv' /\ SharesWhilePatient'
<1>1. row' = row /\ lock' = lock /\ txn' = txn
  BY DEF Read
<1>2. row \in Rows /\ snap \in [Procs -> Snapshots]
  BY DEF IInv, TypeOK
<1>3. Pinned(row) \in Snapshots
  BY <1>2 DEF Pinned, Snapshots
<1>4. snap' \in [Procs -> Snapshots]
  BY <1>2, <1>3 DEF Read
<1>5. \A q \in Procs : snap'[q] = snap[q] \/ (q \in txn /\ snap'[q] = Pinned(row))
  BY <1>2 DEF Read
<1>6. SnapInv'
  BY <1>1, <1>5 DEF IInv, SnapInv, Pinned
<1>7. PatientInv'
  BY <1>1 DEF IInv, PatientInv
<1>8. SharesWhilePatient'
  BY <1>5 DEF IInv, SharesWhilePatient, SharesCache, Pinned
<1> QED BY <1>1, <1>4, <1>6, <1>7, <1>8

(* A commit makes the snapshots of others stale, of whom there are none as *)
(* long as nobody gave up.                                                 *)
LEMMA CommitStep ==
  ASSUME IInv, ProcsAssumption, NEW p \in Procs, NEW r \in Rows, Commit(p, r),
         gaveUp' = gaveUp
  PROVE  /\ row' = r
         /\ lock' \in Procs \union {NoProc}
         /\ txn' \subseteq Procs
         /\ snap' \in [Procs -> Snapshots]
         /\ SnapInv' /\ PatientInv' /\ SharesWhilePatient'
<1>1. /\ lock \in {NoProc, p} /\ row' = r /\ lock' = NoProc /\ txn' = txn \ {p}
      /\ txn \subseteq Procs /\ snap \in [Procs -> Snapshots]
  BY DEF Commit, CanWrite, IInv, TypeOK
<1>2. /\ snap'[p] = Unpinned
      /\ \A q \in Procs \ {p} : snap'[q] = [snap[q] EXCEPT !.stale = snap[q].pinned]
  BY DEF Commit
<1>3. snap' \in [Procs -> Snapshots]
  <2>1. Unpinned \in Snapshots
    BY DEF Unpinned, Snapshots, Rows
  <2>2. \A q \in Procs : [snap[q] EXCEPT !.stale = snap[q].pinned] \in Snapshots
    BY <1>1 DEF Snapshots
  <2> QED BY <2>1, <2>2 DEF Commit
<1>4. \A q \in Procs \ {p} : /\ snap'[q].pinned = snap[q].pinned
                             /\ snap'[q].stale = snap[q].pinned
  BY <1>1, <1>2 DEF Snapshots
<1>5. SnapInv'
  BY <1>1, <1>2, <1>4 DEF IInv, SnapInv, Unpinned
<1>6. ~gaveUp => \A q \in Procs \ {p} : q \notin txn
  BY <1>1, ProcsAssumption DEF IInv, PatientInv
<1>7. PatientInv'
  BY <1>1, <1>6 DEF PatientInv
<1>8. SharesWhilePatient'
  BY <1>2, <1>4, <1>6 DEF IInv, SnapInv, SharesWhilePatient, SharesCache, Unpinned
<1> QED BY <1>1, <1>3, <1>5, <1>7, <1>8

(* A collision keeps the lock and a transaction that has it. *)
LEMMA CollideStep ==
  ASSUME IInv, ProcsAssumption, NEW p \in Procs, Collide(p), gaveUp' = gaveUp
  PROVE  /\ row' = row /\ lock' = p
         /\ txn' \subseteq Procs
         /\ snap' \in [Procs -> Snapshots]
         /\ SnapInv' /\ PatientInv' /\ SharesWhilePatient'
<1>1. /\ lock \in {NoProc, p} /\ row' = row /\ lock' = p
      /\ txn' = txn \union {p} /\ snap' = [snap EXCEPT ![p] = Pinned(row)]
      /\ txn \subseteq Procs /\ snap \in [Procs -> Snapshots] /\ row \in Rows
  BY DEF Collide, CanWrite, IInv, TypeOK
<1>2. snap' \in [Procs -> Snapshots]
  <2>1. Pinned(row) \in Snapshots
    BY <1>1 DEF Pinned, Snapshots
  <2> QED BY <1>1, <2>1
<1>3. snap'[p] = Pinned(row) /\ \A q \in Procs \ {p} : snap'[q] = snap[q]
  BY <1>1
<1>4. SnapInv'
  BY <1>1, <1>3 DEF IInv, SnapInv, Pinned
<1>5. PatientInv'
  BY <1>1, ProcsAssumption DEF IInv, PatientInv
<1>6. SharesWhilePatient'
  BY <1>3 DEF IInv, SharesWhilePatient, SharesCache, Pinned
<1> QED BY <1>1, <1>2, <1>4, <1>5, <1>6

(* A refused write opens a transaction, and ends the time of patience. *)
LEMMA RefusedStep ==
  ASSUME IInv, NEW p \in Procs, Refused(p), gaveUp' = TRUE
  PROVE  /\ row' = row /\ lock' = lock /\ snap' = snap
         /\ txn' \subseteq Procs
         /\ SnapInv' /\ PatientInv' /\ SharesWhilePatient'
BY DEF Refused, IInv, TypeOK, SnapInv, PatientInv, SharesWhilePatient

-----------------------------------------------------------------------------
LEMMA StartStep ==
  ASSUME IInv, NEW p \in Procs, Start(p), SeedAssumption
  PROVE  IInv'
<1>1. /\ Read(p) /\ gaveUp' = gaveUp
      /\ pc[p] = "idle" /\ pc' = [pc EXCEPT ![p] = "running"]
      /\ told' = told /\ found' = found /\ site' = site /\ upsets' = upsets
      /\ raced' = raced /\ tally' = tally
  BY DEF Start, Move, world, history
<1>2. /\ row' = row /\ lock' = lock /\ txn' = txn /\ snap' \in [Procs -> Snapshots]
      /\ SnapInv' /\ PatientInv' /\ SharesWhilePatient'
  BY <1>1, ReadStep
<1>3. Visible(p) = NoRow \/ Visible(p).pref \in Learnable
  BY VisibleRow DEF IInv, Rows
<1>4. TypeOK'
  BY <1>1, <1>2, <1>3, SeedAssumption DEF IInv, TypeOK, Start
<1>5. ToldInv' /\ FoundInv' /\ StrikesAddUp'
  BY <1>1, <1>2 DEF IInv, TypeOK, ToldInv, FoundInv, StrikesAddUp
<1> QED BY <1>2, <1>4, <1>5 DEF IInv

LEMMA EndsStep ==
  ASSUME IInv, NEW p \in Procs, Ends(p), SeedAssumption
  PROVE  IInv'
<1>1. /\ UNCHANGED <<row, lock, txn, snap, found, site, upsets, gaveUp, raced, tally>>
      /\ pc' = [pc EXCEPT ![p] = "bump"] /\ start' = [start EXCEPT ![p] = Seed]
  BY DEF Ends, Move, db, world, history
<1>2. PICK v \in Verdict(start[p]) : told' = [told EXCEPT ![p] = v]
  BY DEF Ends
<1>3. v \in Verdicts
  <2>1. ("browser" \in site) \in BOOLEAN
    OBVIOUS
  <2>2. ASSUME NEW good \in BOOLEAN
        PROVE  [tier |-> "browser", good |-> good] \in Verdicts
    BY DEF Verdicts, Learnable
  <2>3. [tier |-> "browser", good |-> "browser" \in site] \in Verdicts
    BY <2>1, <2>2, Zenon
  <2>4. \A good \in BOOLEAN : [tier |-> "http", good |-> good] \in Verdicts
    BY DEF Verdicts, Learnable
  <2>5. \/ v = [tier |-> "browser", good |-> "browser" \in site]
        \/ \E good \in BOOLEAN : v = [tier |-> "http", good |-> good]
    BY Zenon DEF Verdict
  <2> QED BY <2>3, <2>4, <2>5, Zenon
<1>4. TypeOK'
  BY <1>1, <1>2, <1>3, SeedAssumption DEF IInv, TypeOK
<1>5. ToldInv'
  BY <1>1, <1>2, <1>3 DEF IInv, TypeOK, ToldInv
<1>6. /\ SnapInv' /\ PatientInv' /\ FoundInv'
      /\ SharesWhilePatient' /\ StrikesAddUp'
  BY <1>1 DEF IInv, TypeOK, SnapInv, PatientInv, FoundInv, SharesWhilePatient,
              SharesCache, StrikesAddUp
<1> QED BY <1>4, <1>5, <1>6 DEF IInv

LEMMA BumpReadsStep ==
  ASSUME IInv, NEW p \in Procs, BumpReads(p)
  PROVE  IInv'
<1>1. /\ Read(p) /\ gaveUp' = gaveUp
      /\ pc[p] = "bump" /\ pc' = [pc EXCEPT ![p] = "write"]
      /\ found' = [found EXCEPT ![p] = Visible(p)]
      /\ start' = start /\ told' = told /\ site' = site /\ upsets' = upsets
      /\ raced' = raced /\ tally' = tally
  BY DEF BumpReads, Move, world, history
<1>2. /\ row' = row /\ lock' = lock /\ txn' = txn /\ snap' \in [Procs -> Snapshots]
      /\ SnapInv' /\ PatientInv' /\ SharesWhilePatient'
  BY <1>1, ReadStep
<1>3. Visible(p) \in Rows /\ (~gaveUp => Visible(p) = row)
  BY VisibleRow DEF IInv
<1>4. TypeOK'
  BY <1>1, <1>2, <1>3 DEF IInv, TypeOK
<1>5. ToldInv' /\ FoundInv' /\ StrikesAddUp'
  BY <1>1, <1>2, <1>3 DEF IInv, TypeOK, ToldInv, FoundInv, StrikesAddUp
<1> QED BY <1>2, <1>4, <1>5 DEF IInv

LEMMA BumpWritesStep ==
  ASSUME IInv, NEW p \in Procs, BumpWrites(p), ProcsAssumption
  PROVE  IInv'
<1> DEFINE r == Bumped(found[p], told[p].tier, told[p].good)
           overlap == \E q \in Procs \ {p} : pc[q] = "write"
<1>1. /\ pc[p] = "write" /\ pc' = [pc EXCEPT ![p] = "put"]
      /\ told' = [told EXCEPT ![p] = NoVerdict]
      /\ found' = [found EXCEPT ![p] = NoRow]
      /\ raced' = (raced \/ overlap)
      /\ tally' = IF raced' \/ gaveUp' THEN NoRow
                  ELSE Bumped(tally, told[p].tier, told[p].good)
      /\ start' = start /\ site' = site /\ upsets' = upsets
  BY DEF BumpWrites, Move, world
<1>2. /\ told[p].tier \in Learnable /\ told[p].good \in BOOLEAN /\ found[p] \in Rows
      /\ tally \in Rows /\ NoRow \in Rows
  BY <1>1 DEF IInv, TypeOK, ToldInv, Verdicts, Rows
<1>3. r \in Rows /\ tally' \in Rows
  BY <1>1, <1>2, BumpedTyped
<1>4. \/ /\ Commit(p, r) /\ gaveUp' = gaveUp
      \/ found[p] = NoRow /\ row # NoRow /\ Collide(p) /\ gaveUp' = gaveUp
      \/ Refused(p) /\ gaveUp' = TRUE
  BY DEF BumpWrites
<1>5. /\ row' \in Rows /\ lock' \in Procs \union {NoProc} /\ txn' \subseteq Procs
      /\ snap' \in [Procs -> Snapshots] /\ gaveUp' \in BOOLEAN
      /\ SnapInv' /\ PatientInv' /\ SharesWhilePatient'
  <2>1. CASE Commit(p, r) /\ gaveUp' = gaveUp
    <3>1. /\ row' = r /\ lock' \in Procs \union {NoProc} /\ txn' \subseteq Procs
          /\ snap' \in [Procs -> Snapshots]
          /\ SnapInv' /\ PatientInv' /\ SharesWhilePatient'
      BY <2>1, <1>3, CommitStep
    <3> QED BY <2>1, <3>1, <1>3 DEF IInv, TypeOK
  <2>2. CASE Collide(p) /\ gaveUp' = gaveUp
    BY <2>2, CollideStep DEF IInv, TypeOK
  <2>3. CASE Refused(p) /\ gaveUp' = TRUE
    BY <2>3, RefusedStep DEF IInv, TypeOK
  <2> QED BY <1>4, <2>1, <2>2, <2>3
<1>6. TypeOK'
  <2>1. raced' \in BOOLEAN
    BY <1>1 DEF IInv, TypeOK
  <2>2. /\ pc' \in [Procs -> {"idle", "running", "bump", "write", "put"}]
        /\ told' \in [Procs -> Verdicts \union {NoVerdict}]
        /\ found' \in [Procs -> Rows]
    BY <1>1, <1>2 DEF IInv, TypeOK
  <2> QED BY <1>1, <1>3, <1>5, <2>1, <2>2 DEF IInv, TypeOK
<1>7. ToldInv'
  BY <1>1 DEF IInv, TypeOK, ToldInv
<1>8. ASSUME ~raced', ~gaveUp'
      PROVE  /\ row' = tally'
             /\ \A q \in Procs : pc'[q] # "write"
  <2>1. ~raced /\ ~overlap /\ ~gaveUp
    BY <1>1, <1>4, <1>8 DEF IInv, TypeOK
  <2>2. row = tally /\ found[p] = row
    BY <1>1, <2>1 DEF IInv, StrikesAddUp, FoundInv
  <2>3. Commit(p, r)
    BY <1>4, <1>8, <2>2
  <2>4. row' = tally'
    BY <1>1, <1>8, <2>2, <2>3 DEF Commit
  <2>5. \A q \in Procs : pc'[q] # "write"
    BY <1>1, <2>1 DEF IInv, TypeOK
  <2> QED BY <2>4, <2>5
<1>9. FoundInv' /\ StrikesAddUp'
  BY <1>8 DEF FoundInv, StrikesAddUp
<1> QED BY <1>5, <1>6, <1>7, <1>9 DEF IInv

LEMMA PutStep ==
  ASSUME IInv, NEW p \in Procs, Put(p), ProcsAssumption
  PROVE  IInv'
<1>1. /\ pc' = [pc EXCEPT ![p] = "idle"]
      /\ UNCHANGED <<start, told, found, site, upsets, raced>>
  BY DEF Put, Move, world
<1>2. \/ Commit(p, row) /\ gaveUp' = gaveUp /\ tally' = tally
      \/ UNCHANGED db /\ gaveUp' = gaveUp /\ tally' = tally
      \/ Refused(p) /\ gaveUp' = TRUE /\ tally' = NoRow
  BY DEF Put
<1>3. row \in Rows /\ tally \in Rows /\ NoRow \in Rows
  BY DEF IInv, TypeOK, Rows
<1>4. /\ row' = row /\ lock' \in Procs \union {NoProc} /\ txn' \subseteq Procs
      /\ snap' \in [Procs -> Snapshots]
      /\ SnapInv' /\ PatientInv' /\ SharesWhilePatient'
  <2>1. CASE Commit(p, row) /\ gaveUp' = gaveUp
    BY <2>1, <1>3, CommitStep
  <2>2. CASE UNCHANGED db /\ gaveUp' = gaveUp
    BY <2>2 DEF db, IInv, TypeOK, SnapInv, PatientInv, SharesWhilePatient, SharesCache
  <2>3. CASE Refused(p) /\ gaveUp' = TRUE
    BY <2>3, RefusedStep DEF IInv, TypeOK
  <2> QED BY <1>2, <2>1, <2>2, <2>3
<1>5. TypeOK'
  BY <1>1, <1>2, <1>3, <1>4 DEF IInv, TypeOK
<1>6. ToldInv' /\ FoundInv' /\ StrikesAddUp'
  BY <1>1, <1>2, <1>4 DEF IInv, TypeOK, ToldInv, FoundInv, StrikesAddUp
<1> QED BY <1>4, <1>5, <1>6 DEF IInv

LEMMA RestartStep ==
  ASSUME IInv, NEW p \in Procs, Restart(p), SeedAssumption, ProcsAssumption
  PROVE  IInv'
<1>1. /\ lock' = IF lock = p THEN NoProc ELSE lock
      /\ txn' = txn \ {p}
      /\ snap' = [snap EXCEPT ![p] = Unpinned]
      /\ pc' = [pc EXCEPT ![p] = "idle"]
      /\ start' = [start EXCEPT ![p] = Seed]
      /\ told' = [told EXCEPT ![p] = NoVerdict]
      /\ found' = [found EXCEPT ![p] = NoRow]
      /\ upsets' = upsets + 1
      /\ UNCHANGED <<row, site, gaveUp, raced, tally>>
  BY DEF Restart, history
<1>2. Unpinned \in Snapshots /\ NoRow \in Rows
  BY DEF Unpinned, Snapshots, Rows
<1>3. TypeOK'
  BY <1>1, <1>2, SeedAssumption DEF IInv, TypeOK
<1>4. SnapInv' /\ PatientInv' /\ SharesWhilePatient'
  BY <1>1 DEF IInv, TypeOK, SnapInv, PatientInv, SharesWhilePatient, SharesCache, Unpinned
<1>5. ToldInv' /\ FoundInv' /\ StrikesAddUp'
  BY <1>1 DEF IInv, TypeOK, ToldInv, FoundInv, StrikesAddUp
<1> QED BY <1>3, <1>4, <1>5 DEF IInv

LEMMA StutterStep ==
  ASSUME IInv, UNCHANGED <<db, pc, start, told, found, history>>,
         site' \in SUBSET Learnable, upsets' \in Nat
  PROVE  IInv'
BY DEF db, history, IInv, TypeOK, ToldInv, SnapInv, PatientInv, FoundInv,
       SharesWhilePatient, SharesCache, StrikesAddUp

-----------------------------------------------------------------------------
(* IInv holds at the start and is kept by every step. *)
THEOREM Invariance == Spec => []IInv
<1> USE ProcsAssumption, SeedAssumption
<1>1. Init => IInv
  <2> SUFFICES ASSUME Init PROVE IInv
    OBVIOUS
  <2>1. Unpinned \in Snapshots /\ NoRow \in Rows
    BY DEF Unpinned, Snapshots, Rows
  <2>2. TypeOK
    BY <2>1 DEF Init, TypeOK
  <2>3. \A p \in Procs : snap[p] = Unpinned /\ pc[p] = "idle"
    BY DEF Init
  <2>4. ToldInv /\ FoundInv /\ StrikesAddUp /\ PatientInv
    BY <2>3 DEF Init, ToldInv, FoundInv, StrikesAddUp, PatientInv
  <2>5. SnapInv /\ SharesWhilePatient
    BY <2>3 DEF SnapInv, SharesWhilePatient, SharesCache, Unpinned
  <2> QED BY <2>2, <2>4, <2>5 DEF IInv
<1>2. IInv /\ [Next]_vars => IInv'
  <2> SUFFICES ASSUME IInv, [Next]_vars PROVE IInv'
    OBVIOUS
  <2>1. ASSUME NEW p \in Procs, Step(p) PROVE IInv'
    BY <2>1, StartStep, EndsStep, BumpReadsStep, BumpWritesStep, PutStep DEF Step
  <2>2. ASSUME NEW p \in Procs, Restart(p) PROVE IInv'
    BY <2>2, RestartStep
  <2>3. CASE SiteChanges
    BY <2>3, StutterStep DEF SiteChanges, IInv, TypeOK
  <2>4. CASE UNCHANGED vars
    BY <2>4, StutterStep DEF vars, world, IInv, TypeOK
  <2> QED BY <2>1, <2>2, <2>3, <2>4 DEF Next
<1> QED BY <1>1, <1>2, PTL DEF Spec

(* Type correctness of the shared cache (cache.py:165-277). *)
THEOREM TypeCorrect == Spec => []TypeOK
<1>1. IInv => TypeOK
  BY DEF IInv
<1> QED BY <1>1, Invariance, PTL

(* No process is cut off from what the others commit before a write has    *)
(* given up waiting, whatever collides, ends or changes until then.        *)
THEOREM SharesWhilePatientHolds == Spec => []SharesWhilePatient
<1>1. IInv => SharesWhilePatient
  BY DEF IInv
<1> QED BY <1>1, Invariance, PTL

(* The strikes of all processes are counted one after another as long as   *)
(* no two bumps overlap and no write gives up.                             *)
THEOREM StrikesAddUpHolds == Spec => []StrikesAddUp
<1>1. IInv => StrikesAddUp
  BY DEF IInv
<1> QED BY <1>1, Invariance, PTL
=============================================================================
