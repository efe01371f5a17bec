--------------------------- MODULE MCDailyPipeline ---------------------------
(* Instances of DailyPipeline for TLC.                                     *)
EXTENDS DailyPipeline, TLC

CONSTANTS c1, c2, j1, j2
MCCompanies == {c1, c2}
MCJobs == {j1, j2}
MCOwners == (j1 :> c1) @@ (j2 :> c1)

\* The two jobs are alike: of the beginnings with one job known, one is enough.
MCInit == Init /\ (rows[j2] = Scored => rows[j1] = Scored)
MCFairSpec == MCInit /\ [][Next]_vars /\ WF_vars(Advance)
==============================================================================
