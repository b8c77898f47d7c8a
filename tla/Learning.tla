------------------------------ MODULE Learning ------------------------------
(***************************************************************************)
(* What Cache.bump (vasco/cache.py) makes of a route's row of              *)
(* fetch_strategy: the tier a fetch of the route should start at, and how  *)
(* many failures of that tier were recorded in a row.  The success count   *)
(* and the time of the update are read by nobody and left out.             *)
(***************************************************************************)
EXTENDS Naturals

Learnable == {"http", "browser"}

NoRow == [pref |-> "none", fails |-> 0]
Rows == {NoRow} \union [pref : Learnable, fails : 0..2]

OtherTier(t) == IF t = "http" THEN "browser" ELSE "http"

(* Slip: the fourth failure flips the route. *)
BumpedLate(r, t, good) ==
  IF r = NoRow THEN [pref |-> t, fails |-> IF good THEN 0 ELSE 1]
  ELSE IF good THEN [r EXCEPT !.fails = 0]
  ELSE IF t # r.pref THEN r
  ELSE IF r.fails > 2 THEN [pref |-> OtherTier(t), fails |-> 0]
  ELSE [r EXCEPT !.fails = @ + 1]

(* The row after bump(mode = t, success = good). *)
Bumped(r, t, good) ==
  IF r = NoRow THEN [pref |-> t, fails |-> IF good THEN 0 ELSE 1]
  ELSE IF good THEN [r EXCEPT !.fails = 0]
  ELSE IF t # r.pref THEN r
  ELSE IF r.fails = 2 THEN [pref |-> OtherTier(t), fails |-> 0]
  ELSE [r EXCEPT !.fails = @ + 1]
=============================================================================
