--------------------------- MODULE MCAlertRouting ---------------------------
(***************************************************************************)
(* A small instance for TLC of what decides about an alert: the runs that  *)
(* raise it, the windows that silence it and the groups that receive it.   *)
(* They share no state (RunAlerts knows of a window only whether it is     *)
(* open), so that a behaviour moves one of them and leaves the others as   *)
(* they start: part says which.                                            *)
(***************************************************************************)
EXTENDS RunAlerts, MaintenanceWindows, NotificationGroups, TLC

CONSTANTS r1, r2, t1, ops, Ops, dev

VARIABLE part

(* A week of four days with two slots each.                                *)
Instants == 0 .. 7
DaySets == {{}, {0}, {0, 1}}
Crons == {NoText, <<1, 1>>}

NoCase == (ops :> "ops") @@ (Ops :> "ops") @@ (dev :> "dev")

MCInit ==
    /\ part \in {"runs", "windows", "groups"}
    /\ Init /\ WindowsInit /\ GroupsInit

MCNext ==
    /\ part' = part
    /\ \/ part = "runs" /\ Next /\ UNCHANGED <<windows, groups>>
       \/ part = "windows" /\ WindowsNext /\ UNCHANGED <<vars, groups>>
       \/ part = "groups" /\ GroupsNext /\ UNCHANGED <<vars, windows>>

MCSpec == MCInit /\ [][MCNext]_<<vars, windows, groups, part>> /\ Fairness

=============================================================================
