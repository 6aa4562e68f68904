--------------------------- MODULE MCWorkerOutbox ---------------------------
(***************************************************************************)
(* Small instances of WorkerOutbox for TLC.                                *)
(***************************************************************************)
EXTENDS WorkerOutbox, TLC

CONSTANTS j1, j2, j3, s1, s2

=============================================================================
