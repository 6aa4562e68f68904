-------------------------- MODULE MCWorkerDispatch --------------------------
(***************************************************************************)
(* Small instances of WorkerDispatch for TLC.                              *)
(***************************************************************************)
EXTENDS WorkerDispatch, TLC

CONSTANTS r1, r2, k1, k2, alice, bob, j1, j2, t1

(* Each key belongs to a user of its own, or both to one service account.  *)
TwoUsers == (k1 :> alice) @@ (k2 :> bob)
OneUser == [k \in Key |-> alice]

(* Two runners under one key are alike.                                    *)
TwoRunners == Permutations({r1, r2})

=============================================================================
