----------------------------- MODULE MCPageWork -----------------------------
(***************************************************************************)
(* Two pages of one site, with every recovery on.                          *)
(***************************************************************************)
EXTENDS PageWork

MCSite == [p \in Pages |-> "forum"]
=============================================================================
