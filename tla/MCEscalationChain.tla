------------------------- MODULE MCEscalationChain --------------------------
(***************************************************************************)
(* A run with little and with enough time, in every mode.                  *)
(***************************************************************************)
EXTENDS EscalationChain

AllModes == {"auto", "http", "browser", "mobile", "wayback"}
=============================================================================
