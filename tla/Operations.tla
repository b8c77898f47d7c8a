----------------------------- MODULE Operations -----------------------------
(***************************************************************************)
(* The operations of the daemon that are not fetches (Dispatcher.handle,   *)
(* vasco/service/daemon.py): maps, which run in threads, and answers,      *)
(* extracts and searches, side by side.  They share nothing but what       *)
(* SiteMap shares among maps.                                              *)
(***************************************************************************)
EXTENDS SiteMap, Answers

Init == MapInit /\ AskInit
Next ==
  \/ MapNext /\ UNCHANGED askVars
  \/ AskNext /\ UNCHANGED mapVars
vars == <<mapVars, askVars>>
Spec == Init /\ [][Next]_vars /\ MapFairness /\ AskFairness

(* Every operation ends: the map by its deadline, whatever its sources do, *)
(* the others because each provider and engine is asked once or twice.     *)
EveryOperationEnds ==
  /\ EveryMapEnds
  /\ \A a \in Asks : <>(where[a] = "done")
=============================================================================
