----------------------------- MODULE MCRunAlerts -----------------------------
(***************************************************************************)
(* Small instances of RunAlerts for TLC.                                   *)
(***************************************************************************)
EXTENDS RunAlerts

CONSTANTS r1, r2, t1

=============================================================================
