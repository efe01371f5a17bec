------------------------------ MODULE MCDailyRun ------------------------------
(* Instances of DailyRun for TLC.                                              *)
EXTENDS DailyRun

\* Only the first run uses its budgets up; what comes after it resumes its scope
\* once, or starts anew.
MCNext == Next /\ \A r \in Runs \ {1} : ~worker'[r].budget

MCFairSpec == Init /\ [][MCNext]_vars /\ Fairness
===============================================================================
