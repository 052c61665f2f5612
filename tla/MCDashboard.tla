---------------------------- MODULE MCDashboard ----------------------------
(* Instances of Dashboard for TLC.  Its constants are numbers and booleans *)
(* given in the configurations; runs is bounded by jobs and attempts.      *)
EXTENDS Dashboard
=============================================================================
