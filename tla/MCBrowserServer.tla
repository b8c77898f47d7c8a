-------------------------- MODULE MCBrowserServer ---------------------------
(***************************************************************************)
(* Small servers.  Requests are interchangeable: the safety runs declare   *)
(* the symmetry; the liveness run, where a symmetry set is not sound, lets *)
(* them arrive in the order of their numbers instead.                      *)
(***************************************************************************)
EXTENDS BrowserServer, TLC

Symmetry == Permutations(Requests)

InOrder == \A q, r \in Requests : q < r /\ pc'[r] # "idle" => pc'[q] # "idle"

OrderedSpec == Init /\ [][Next /\ InOrder]_vars /\ Fairness
=============================================================================
