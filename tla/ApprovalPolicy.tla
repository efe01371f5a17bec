--------------------------- MODULE ApprovalPolicy ---------------------------
(***************************************************************************)
(* The pure part of packages/approval: the order of application stages,    *)
(* the checks a preview must pass, the transition each registry operation  *)
(* decides for a token, and the validation the write adapter makes under   *)
(* its row lock.  A decision is a record [ok, next]: whether the operation *)
(* is allowed and the status the token is to be given (the present one     *)
(* when the decision leaves the token alone).                              *)
(***************************************************************************)
EXTENDS Integers

\* packages/approval/models.py, ApprovalStatus; "none" is a key with no row.
Live     == {"pending", "approved", "executing"}
Closed   == {"rejected", "expired", "consumed"}
Statuses == Live \cup Closed \cup {"none"}

\* The registry's operations on one token.
Operations == {"approve", "reject", "consume", "begin", "complete", "release"}

\* What a preview asks for.  The Agent adapter executes stage updates, mail
\* and identity bindings and crawler recipes; it refuses company, application
\* and schedule writes; a browser action is consumed by its own endpoint and
\* never dispatched.
OpKinds == {"stage_update", "binding_update", "recipe_update", "unsupported",
            "browser_action"}

StageRank ==
    [ interested |-> 0, applied |-> 1, assessment |-> 2, written |-> 3,
      interview1 |-> 4, interview2 |-> 5, interview3 |-> 6, hr |-> 7,
      offer |-> 8, rejected |-> 9, withdrawn |-> 9 ]
Stages         == { "interested", "applied", "assessment", "written",
                    "interview1", "interview2", "interview3", "hr",
                    "offer", "rejected", "withdrawn" }
TerminalStages == {"rejected", "withdrawn"}

\* The rule both validate_preview and the adapter apply to a stage move.
ForwardMove(from, to) ==
    /\ from \in TerminalStages => to = from
    /\ StageRank[from] <= StageRank[to]

\* A payload need not state the present stage: then only the adapter applies the
\* rule, and it has nothing to compare the present stage with.
PreviewStages == Stages \cup {"unstated"}

PreviewMove(from, to) == from \in Stages => ForwardMove(from, to)

\* A preview without job context skips the cohort and JD gate; "confirmed"
\* passes it; the other two fail it.
JobGates == {"no_job", "confirmed", "unconfirmed", "no_jd"}

\* from and to are the stages of a stage update, rev the binding revision a
\* binding was previewed against, idem whether the payload repeats the
\* approval's idempotency key, exp the time at which it expires.
PreviewType(Keys, Apps) ==
    [ key : Keys, op : OpKinds, app : Apps, from : PreviewStages, to : Stages,
      rev : Nat, evidence : BOOLEAN, gate : JobGates, idem : BOOLEAN,
      exp : Nat ]

\* Mutant: the cohort and JD gate is skipped.
ValidPreview_NoGate(p, late) ==
    p.evidence /\ ~late /\ (p.op = "stage_update" => PreviewMove(p.from, p.to))

\* validate_preview, with the expiry comparison already made (late).
ValidPreview(p, late) ==
    /\ p.evidence
    /\ ~late
    /\ p.op = "stage_update" => PreviewMove(p.from, p.to)
    /\ p.gate \in {"no_job", "confirmed"}

Allow(next) == [ok |-> TRUE,  next |-> next]
Deny(next)  == [ok |-> FALSE, next |-> next]

\* Mutants: an operator's approval revives a rejected token; a rejection does
\* not look for a claim; complete writes a
\* status the schema does not know.
approve_token_Revives(st, late) ==
    IF st \in {"consumed", "executing"} THEN Deny(st)
    ELSE IF st = "expired" \/ late THEN Deny("expired") ELSE Allow("approved")
reject_token_Claimed(st, late) ==
    IF st = "consumed" THEN Deny(st)
    ELSE IF st = "expired" \/ late THEN Deny("expired") ELSE Deny("rejected")
complete_token_Unknown(st) ==
    IF st = "executing" THEN Allow("completed") ELSE Deny(st)

\* A late token is moved to "expired" by the three operations that look at
\* the clock before anything else but the closed states.
approve_token(st, late) ==
    CASE st \in {"consumed", "executing", "rejected"} -> Deny(st)
      [] st = "expired" \/ (st \in {"pending", "approved"} /\ late) -> Deny("expired")
      [] OTHER -> Allow("approved")

reject_token(st, late) ==
    CASE st \in {"consumed", "executing"} -> Deny(st)
      [] st = "expired" \/ (st \in {"pending", "approved", "rejected"} /\ late)
           -> Deny("expired")
      [] OTHER -> Deny("rejected")

consume_token(st, p, late, dup) ==
    CASE st \in {"consumed", "executing", "rejected"} -> Deny(st)
      [] st = "expired" \/ (st \in {"pending", "approved"} /\ late) -> Deny("expired")
      [] st = "approved" /\ ~late /\ ~dup /\ ValidPreview(p, late) -> Allow("consumed")
      [] OTHER -> Deny(st)

\* begin_token is consume_token with the claimed status in place of the
\* consumed one.
begin_token(st, p, late, dup) ==
    LET d == consume_token(st, p, late, dup)
    IN  IF d.ok THEN Allow("executing") ELSE d

complete_token(st) ==
    IF st = "executing" THEN Allow("consumed") ELSE Deny(st)

release_token(st, late) ==
    CASE st # "executing" -> Deny(st)
      [] st = "executing" /\ late -> Deny("expired")
      [] OTHER -> Allow("approved")

\* The decision an operation takes on a row it has just read.
Decide(o, st, p, late, dup) ==
    CASE o = "approve"  -> approve_token(st, late)
      [] o = "reject"   -> reject_token(st, late)
      [] o = "consume"  -> consume_token(st, p, late, dup)
      [] o = "begin"    -> begin_token(st, p, late, dup)
      [] o = "complete" -> complete_token(st)
      [] o = "release"  -> release_token(st, late)

\* _conflict_decision: what an operation answers when another worker changed
\* the row between its read and its compare-and-set.
ConflictAllowed(o, latest, late) ==
    o = "approve" /\ latest = "approved" /\ approve_token(latest, late).ok
=============================================================================
