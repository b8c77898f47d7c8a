---------------------------- MODULE SharedCache -----------------------------
(***************************************************************************)
(* The cache database of vasco/cache.py as the processes that share it     *)
(* (vascod, the CLI, the MCP server) use it around a fetch: one route's    *)
(* learned row, and the locks and snapshots that a connection takes.       *)
(*                                                                         *)
(* Each process has one connection and makes one call at a time, so an     *)
(* action is one statement, with its commit if it has one.  sqlite3 opens  *)
(* a transaction before a statement that writes and closes it in commit(), *)
(* which the code calls after the statement only when nothing was raised,  *)
(* and nobody calls rollback(): what a failed write leaves behind stays.   *)
(*                                                                         *)
(* Left out: the pages' own rows (Put is any write of another table), runs *)
(* of a mode other than auto and runs that record nothing.                 *)
(***************************************************************************)
EXTENDS Learning

CONSTANTS
  Procs,      \* the processes
  NoProc,     \* no process
  Seed,       \* the tier that a route without a row starts at
  MaxUpsets   \* bound for TLC: changes of the site, ended processes

ASSUME ProcsAssumption == NoProc \notin Procs
ASSUME SeedAssumption == Seed \in Learnable
ASSUME UpsetsAssumption == MaxUpsets \in Nat

Verdicts == [tier : Learnable, good : BOOLEAN]
NoVerdict == [tier |-> "none", good |-> FALSE]

(* A transaction has no snapshot until its first read; the snapshot is    *)
(* stale once another connection has committed.                           *)
Unpinned == [pinned |-> FALSE, stale |-> FALSE, row |-> NoRow]
Pinned(r) == [pinned |-> TRUE, stale |-> FALSE, row |-> r]
Snapshots == [pinned : BOOLEAN, stale : BOOLEAN, row : Rows]

VARIABLES
  row,     \* the route's committed row
  lock,    \* the process whose connection holds the write lock
  txn,     \* the processes whose connection is in a transaction
  snap,    \* what each connection reads in its transaction
  pc,      \* where each process stands in its run
  start,   \* the tier its run started at
  told,    \* the verdict that bump was called with
  found,   \* the row that bump read
  site,    \* the tiers that get through to the site
  upsets,  \* how often the site changed or a process ended
  gaveUp,  \* TRUE: a write has given up waiting for the lock
  raced,   \* TRUE: a bump was written while another was under way
  tally    \* the row the verdicts make one after another, until either

db == <<row, lock, txn, snap>>
world == <<site, upsets>>
history == <<gaveUp, raced, tally>>
vars == <<db, pc, start, told, found, world, history>>

TypeOK ==
  /\ row \in Rows
  /\ lock \in Procs \union {NoProc}
  /\ txn \subseteq Procs
  /\ snap \in [Procs -> Snapshots]
  /\ pc \in [Procs -> {"idle", "running", "bump", "write", "put"}]
  /\ start \in [Procs -> Learnable]
  /\ told \in [Procs -> Verdicts \union {NoVerdict}]
  /\ found \in [Procs -> Rows]
  /\ site \subseteq Learnable
  /\ upsets \in Nat
  /\ gaveUp \in BOOLEAN
  /\ raced \in BOOLEAN
  /\ tally \in Rows

Init ==
  /\ row = NoRow
  /\ lock = NoProc
  /\ txn = {}
  /\ snap = [p \in Procs |-> Unpinned]
  /\ pc = [p \in Procs |-> "idle"]
  /\ start = [p \in Procs |-> Seed]
  /\ told = [p \in Procs |-> NoVerdict]
  /\ found = [p \in Procs |-> NoRow]
  /\ site \in SUBSET Learnable
  /\ upsets = 0
  /\ gaveUp = FALSE
  /\ raced = FALSE
  /\ tally = NoRow

-----------------------------------------------------------------------------
(* The connection.                                                         *)

Visible(p) == IF snap[p].pinned THEN snap[p].row ELSE row

(* Slip: sqlite3's autocommit=False, with which a SELECT, too, opens a     *)
(* transaction.                                                            *)
ReadInTransaction(p) ==
  /\ txn' = txn \union {p}
  /\ snap' = IF snap[p].pinned THEN snap ELSE [snap EXCEPT ![p] = Pinned(row)]
  /\ UNCHANGED <<row, lock>>

(* A SELECT: inside a transaction it pins the snapshot. *)
Read(p) ==
  /\ snap' = IF p \in txn /\ ~snap[p].pinned
             THEN [snap EXCEPT ![p] = Pinned(row)] ELSE snap
  /\ UNCHANGED <<row, lock, txn>>

CanWrite(p) == lock \in {NoProc, p} /\ ~snap[p].stale

(* A statement that leaves r as the route's row, and its commit. *)
Commit(p, r) ==
  /\ CanWrite(p)
  /\ row' = r
  /\ lock' = NoProc
  /\ txn' = txn \ {p}
  /\ snap' = [q \in Procs |->
               IF q = p THEN Unpinned
               ELSE [snap[q] EXCEPT !.stale = snap[q].pinned]]

(* An INSERT of a row that is there: the statement is undone, the          *)
(* transaction and its lock are not.                                       *)
Collide(p) ==
  /\ CanWrite(p)
  /\ lock' = p
  /\ txn' = txn \union {p}
  /\ snap' = [snap EXCEPT ![p] = Pinned(row)]
  /\ UNCHANGED row

(* "database is locked": after the timeout when another connection has the *)
(* lock, at once when the transaction's snapshot is out of date.           *)
Refused(p) ==
  /\ ~CanWrite(p)
  /\ txn' = txn \union {p}
  /\ UNCHANGED <<row, lock, snap>>

-----------------------------------------------------------------------------
(* A run of a process.  What it keeps in local variables is dropped as     *)
(* soon as it is used.                                                     *)

Move(p, from, to) == pc[p] = from /\ pc' = [pc EXCEPT ![p] = to]

(* get_strategy chooses the tier to start at. *)
Start(p) ==
  /\ Move(p, "idle", "running")
  /\ Read(p)
  /\ start' = [start EXCEPT ![p] =
                IF Visible(p) = NoRow THEN Seed ELSE Visible(p).pref]
  /\ UNCHANGED <<told, found, world, history>>

(* Slip: whatever the browser said, the http tier is what failed. *)
VerdictOfHttp(t) ==
  IF t \in site THEN {[tier |-> t, good |-> TRUE]}
  ELSE {[tier |-> "http", good |-> FALSE]}

(* What a run that started at tier t records (LearnsWhatItShowed of        *)
(* EscalationChain): an http failure only when no time was left for the    *)
(* browser, otherwise the browser's verdict.                               *)
Verdict(t) ==
  IF t = "http" /\ "http" \in site THEN {[tier |-> "http", good |-> TRUE]}
  ELSE {[tier |-> "browser", good |-> "browser" \in site]}
         \union IF t = "http" THEN {[tier |-> "http", good |-> FALSE]} ELSE {}

Ends(p) ==
  /\ Move(p, "running", "bump")
  /\ \E v \in Verdict(start[p]) : told' = [told EXCEPT ![p] = v]
  /\ start' = [start EXCEPT ![p] = Seed]
  /\ UNCHANGED <<db, found, world, history>>

(* Slip: the row is looked up under another key than it is stored under. *)
BumpReadsElsewhere(p) ==
  /\ Move(p, "bump", "write")
  /\ Read(p)
  /\ UNCHANGED <<start, told, found, world, history>>

(* bump's SELECT. *)
BumpReads(p) ==
  /\ Move(p, "bump", "write")
  /\ Read(p)
  /\ found' = [found EXCEPT ![p] = Visible(p)]
  /\ UNCHANGED <<start, told, world, history>>

(* bump's INSERT or UPDATE; whatever it raises is suppressed. *)
BumpWrites(p) ==
  /\ Move(p, "write", "put")
  /\ \/ /\ found[p] = NoRow => row = NoRow
        /\ Commit(p, Bumped(found[p], told[p].tier, told[p].good))
        /\ UNCHANGED gaveUp
     \/ found[p] = NoRow /\ row # NoRow /\ Collide(p) /\ UNCHANGED gaveUp
     \/ Refused(p) /\ gaveUp' = TRUE
  /\ told' = [told EXCEPT ![p] = NoVerdict]
  /\ found' = [found EXCEPT ![p] = NoRow]
  /\ raced' = (raced \/ \E q \in Procs \ {p} : pc[q] = "write")
  /\ tally' = IF raced' \/ gaveUp' THEN NoRow
              ELSE Bumped(tally, told[p].tier, told[p].good)
  /\ UNCHANGED <<start, world>>

(* The page is stored, unless the call or its body is not to be cached. *)
Put(p) ==
  /\ Move(p, "put", "idle")
  /\ \/ (Commit(p, row) \/ UNCHANGED db) /\ UNCHANGED <<gaveUp, tally>>
     \/ Refused(p) /\ gaveUp' = TRUE /\ tally' = NoRow
  /\ UNCHANGED <<start, told, found, world, raced>>

Step(p) == Start(p) \/ Ends(p) \/ BumpReads(p) \/ BumpWrites(p) \/ Put(p)

-----------------------------------------------------------------------------
(* The world.                                                              *)

(* A process ends, by itself or killed, and is started again: SQLite rolls *)
(* its transaction back.                                                   *)
Restart(p) ==
  /\ upsets < MaxUpsets
  /\ upsets' = upsets + 1
  /\ lock' = IF lock = p THEN NoProc ELSE lock
  /\ txn' = txn \ {p}
  /\ snap' = [snap EXCEPT ![p] = Unpinned]
  /\ pc' = [pc EXCEPT ![p] = "idle"]
  /\ start' = [start EXCEPT ![p] = Seed]
  /\ told' = [told EXCEPT ![p] = NoVerdict]
  /\ found' = [found EXCEPT ![p] = NoRow]
  /\ UNCHANGED <<row, site, history>>

SiteChanges ==
  /\ upsets < MaxUpsets
  /\ upsets' = upsets + 1
  /\ site' \in SUBSET Learnable
  /\ UNCHANGED <<db, pc, start, told, found, history>>

Next == (\E p \in Procs : Step(p) \/ Restart(p)) \/ SiteChanges

Spec == Init /\ [][Next]_vars

(* The route's pages keep being fetched, and a wait for the lock ends when *)
(* the lock is free for good or again and again.                           *)
FairSpec ==
  /\ Spec
  /\ \A p \in Procs : WF_vars(Start(p) \/ Ends(p) \/ BumpReads(p))
                        /\ SF_vars(BumpWrites(p)) /\ SF_vars(Put(p))

-----------------------------------------------------------------------------
(* "A resident daemon that lets every consumer on the machine share one   *)
(* cache" (README.md:7): no connection is left reading a state of the      *)
(* database that others have since replaced.  The code does not keep this  *)
(* once a write has given up.                                              *)
SharesCache == \A p \in Procs : ~snap[p].stale

(* As long as every wait for the lock ended in time, all processes share   *)
(* the cache, although a colliding first bump leaves its lock behind.      *)
SharesWhilePatient == ~gaveUp => SharesCache

(* "failure_count tracks consecutive failures of the preferred mode" (the  *)
(* docstring of bump, cache.py:233): as long as no two bumps overlap and   *)
(* no write gives up, the route's row is what the verdicts make of it one  *)
(* after another, whatever else the processes read, store and lose.        *)
StrikesAddUp == ~raced /\ ~gaveUp => row = tally

(* A route learned as browser flips to http once the browser is blocked    *)
(* there for good while http gets through (strategy.py:14-16).             *)
HealsFromBrowser ==
  (site = {"http"} /\ row.pref = "browser")
    ~> (row.pref = "http" \/ site # {"http"})

(* The same the other way: "the learned value wins and can still flip the  *)
(* tier via the normal 3-strike logic - so a site that changes its         *)
(* protection self-heals" (strategy.py:14-16).  The code does not keep     *)
(* this: a run that http fails and the browser saves records a success.    *)
HealsFromHttp ==
  (site = {"browser"} /\ row.pref = "http")
    ~> (row.pref = "browser" \/ site # {"browser"})
=============================================================================
