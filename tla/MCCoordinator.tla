--------------------------- MODULE MCCoordinator ----------------------------
(***************************************************************************)
(* Three calls for one page.  The four requests differ in each part of the *)
(* key that the coordinator or fetch_one looks at.                         *)
(*                                                                         *)
(* Calls are interchangeable, so the runs start from one assignment of     *)
(* requests to calls out of those that are permutations of each other:     *)
(* the one in which the requests' numbers do not decrease.  This keeps     *)
(* what a symmetry set would, and is sound for liveness too.               *)
(***************************************************************************)
EXTENDS Coordinator, Sequences

Plain ==
  [page |-> "a", domain |-> "x", mode |-> "auto", raw |-> FALSE,
   refresh |-> FALSE, useCache |-> TRUE]

Numbered ==
  <<Plain,
    [Plain EXCEPT !.raw = TRUE],
    [Plain EXCEPT !.refresh = TRUE],
    [Plain EXCEPT !.useCache = FALSE]>>

MCRequests == {Numbered[i] : i \in DOMAIN Numbered}

(* Two requests that always reach the network or usually do, for liveness. *)
ContendingRequests == {Numbered[1], Numbered[3]}

NumberOf(r) == CHOOSE i \in DOMAIN Numbered : Numbered[i] = r

MCInit ==
  /\ Init
  /\ \A c, d \in Calls : c < d => NumberOf(req[c]) <= NumberOf(req[d])

MCSpec == MCInit /\ [][Next]_vars /\ Fairness
=============================================================================
