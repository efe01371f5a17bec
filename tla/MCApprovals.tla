---------------------------- MODULE MCApprovals ----------------------------
(***************************************************************************)
(* Instances of Approvals for TLC.                                         *)
(***************************************************************************)
EXTENDS Approvals, TLC

CONSTANTS p1, p2, t1, t2, t3, k1, k2, a1

MCPreview(k, op, from, to, exp, idem) ==
    [ key |-> k, op |-> op, app |-> a1, from |-> from, to |-> to, rev |-> 0,
      evidence |-> TRUE, gate |-> "confirmed", idem |-> idem, exp |-> exp ]

\* Two processes with one request thread each; then one of them with two.
MCProcOf2 == (t1 :> p1) @@ (t2 :> p2)
MCProcOf3 == (t1 :> p1) @@ (t2 :> p1) @@ (t3 :> p2)

\* One stage update, submitted by two callers with different expiry times.
MCRacingIssuers ==
    { MCPreview(k1, "stage_update", "applied", "written", e, TRUE) : e \in {1, 2} }

\* Two approvals for the same application, of every kind.  Among stage updates
\* the first moves it further than the second and does not state the present
\* stage, and the second does not carry its key; two bindings are previewed against
\* the same revision; a third fails the cohort gate.
MCKinds ==
    { MCPreview(k1, "stage_update", "unstated", "written", 1, TRUE),
      MCPreview(k2, "stage_update", "applied", "assessment", 1, FALSE),
      MCPreview(k1, "binding_update", "applied", "applied", 1, TRUE),
      MCPreview(k2, "binding_update", "applied", "applied", 1, TRUE),
      [ MCPreview(k2, "binding_update", "applied", "applied", 1, TRUE)
            EXCEPT !.gate = "unconfirmed" ],
      MCPreview(k2, "recipe_update", "applied", "applied", 1, TRUE),
      MCPreview(k2, "browser_action", "applied", "applied", 1, TRUE) }

\* One preview, for the questions that need only one token.
MCSingle == { MCPreview(k1, "stage_update", "applied", "written", 1, TRUE) }

\* The system when no process dies and the audit sink works.
FaultlessStep(t) == Request(t) \/ (Progress(t) /\ ~SinkRaises(t))
NoCrashSpec ==
    Init /\ [][\/ \E t \in Threads : FaultlessStep(t)
               \/ TimePasses]_vars
=============================================================================
