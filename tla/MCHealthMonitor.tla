-------------------------- MODULE MCHealthMonitor --------------------------
(***************************************************************************)
(* An instance of HealthMonitor for TLC: a router and a server behind it.  *)
(* The bound: hand-made checks, cut-short checks and pauses are explored   *)
(* for the server alone, while the router is paused.                       *)
(***************************************************************************)
EXTENDS HealthMonitor

CONSTANTS router, server

MCParent == [m \in Monitor |-> IF m = server THEN router ELSE NoMonitor]

MCIntervene ==
    /\ router \notin enabled
    /\ \/ \E c \in Clicker : CheckNow(c, server)
       \/ \E c \in Checker : Abandon(c)
       \/ Pause(server)

MCNext == Work \/ MCIntervene
MCSpec == Init /\ [][MCNext]_vars /\ Fairness
=============================================================================
