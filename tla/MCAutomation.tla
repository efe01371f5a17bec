----------------------------- MODULE MCAutomation -----------------------------
(* The instance of Automation for TLC: the daily schedule is one row per task, *)
(* and the rows of two tasks have nothing in common.                           *)
EXTENDS Automation

CONSTANTS p1, daily
MCProcs == {p1}
MCSchedules == {daily}
==============================================================================
