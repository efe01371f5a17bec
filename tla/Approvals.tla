----------------------------- MODULE Approvals -----------------------------
(***************************************************************************)
(* The approval centre: ApprovalRegistry (service.py) over the approvals   *)
(* table (persistence.py), ApprovedWriteExecutor (executor.py), and the    *)
(* Agent write adapter on application rows (adapters.py).                  *)
(*                                                                         *)
(* Several processes share the database; each has one registry and one     *)
(* executor, both guarded by an in-process lock, and serves requests on    *)
(* several threads.  The registry reads a row, decides, and then writes    *)
(* with UPDATE ... WHERE status = <status read>: the read and the write    *)
(* are two steps here, and other processes act in between.                 *)
(*                                                                         *)
(* A process may crash between any two steps; a database call may raise,   *)
(* before or after its transaction is committed.                           *)
(***************************************************************************)
EXTENDS ApprovalPolicy, FiniteSets

CONSTANTS Procs,      \* processes that own a registry and an executor
          Threads,    \* request threads
          ProcOf,     \* the process each thread belongs to
          Keys,       \* idempotency keys of approvals
          Apps,       \* application rows
          Previews,   \* the write previews callers may submit
          NoPreview,  \* the binding of a key with no row
          NoKey,      \* the token of a request that has none
          StartStage, \* the stage every application starts with
          EditStages, \* stages the user or recruitment evidence may write
          MaxTime,    \* bound on the clock
          MaxEdits    \* bound on those other writes

ASSUME ConstantAssumption ==
    /\ ProcOf \in [Threads -> Procs]
    /\ Previews \subseteq PreviewType(Keys, Apps)
    /\ NoPreview \notin Previews
    /\ NoKey \notin Keys
    /\ StartStage \in Stages
    /\ EditStages \subseteq Stages
    /\ MaxTime \in Nat /\ MaxEdits \in Nat

VARIABLES
    bound,     \* bound[k]: the preview stored in the row of key k
    status,    \* status[k]: its status column, "none" without a row
    now,       \* the time: a preview is late from its expiry on
    stage,     \* stage[a]: application.stage
    log,       \* log[a]: <<key, stage>> pairs of stage_history entries
    revision,  \* revision[a]: of the confirmed binding of a mail or application
    boundBy,   \* boundBy[a]: the approval key that binding carries
    edits,     \* writes made by the user and by evidence updates
    task,      \* task[t]: the request a thread serves, and where it is
    used,      \* used[p]: the executor's in-memory _used_keys
    audits,    \* durable write_audits: <<key, success>>
    applied,   \* applied[k]: committed effects of the write of key k
    approvedBy \* keys an operator has approved

rows     == <<bound, status>>
business == <<stage, log, revision, boundBy, edits, applied>>
vars     == <<bound, status, now, stage, log, revision, boundBy, edits,
              task, used, audits, applied, approvedBy>>

\* Where a request is: about to insert, between the read and the write of a
\* registry operation, waiting for the executor, or inside execute.
Points == {"idle", "create", "cas", "wait", "claimed", "applied", "failed",
           "audit_ok", "audit_fail"}

\* The locals of a request: its token (by key), the registry operation it is
\* in, the status it read and the decision it took, whether the token was
\* late when an execute request arrived, the preview an issue inserts.
Tasks == [ at : Points, key : Keys \cup {NoKey}, op : Operations,
           seen : Statuses, ok : BOOLEAN, next : Statuses, late : BOOLEAN,
           want : Previews \cup {NoPreview} ]

Idle == [ at |-> "idle", key |-> NoKey, op |-> "approve", seen |-> "none",
          ok |-> FALSE, next |-> "none", late |-> FALSE, want |-> NoPreview ]

Init ==
    /\ bound = [k \in Keys |-> NoPreview]
    /\ status = [k \in Keys |-> "none"]
    /\ now = 0
    /\ stage = [a \in Apps |-> StartStage]
    /\ log = [a \in Apps |-> {}]
    /\ revision = [a \in Apps |-> 0]
    /\ boundBy = [a \in Apps |-> NoKey]
    /\ edits = 0
    /\ task = [t \in Threads |-> Idle]
    /\ used = [p \in Procs |-> {}]
    /\ audits = {}
    /\ applied = [k \in Keys |-> 0]
    /\ approvedBy = {}

-----------------------------------------------------------------------------
(* Locks.  A thread holds its process's registry lock from the read of a   *)
(* row to the write that follows, and the executor lock for all of execute.*)

Peers(t) == {u \in Threads \ {t} : ProcOf[u] = ProcOf[t]}

RegistryFree(t) == \A u \in Peers(t) : task[u].at \notin {"create", "cas"}

Executing(t) ==
    \/ task[t].at \in {"claimed", "applied", "failed", "audit_ok", "audit_fail"}
    \/ task[t].at = "cas" /\ task[t].op \in {"begin", "complete", "release"}

ExecutorFree(t) == \A u \in Peers(t) : ~Executing(u)

IsLate(k) == now >= bound[k].exp

\* Thread t goes on to point x, keeping its locals; a request that has ended
\* keeps nothing.
GoTo(t, x) ==
    task' = [task EXCEPT ![t] = IF x = "idle" THEN Idle ELSE [@ EXCEPT !.at = x]]

-----------------------------------------------------------------------------
(* ApprovalRegistry                                                        *)

\* issue, first half: refresh from the database, find no row for the key,
\* and validate the preview.  A row that exists, and a preview that fails,
\* end the request without any change of state.
IssueCheck(t, p) ==
    /\ task[t].at = "idle" /\ RegistryFree(t)
    /\ status[p.key] = "none"
    /\ ValidPreview(p, now >= p.exp)
    /\ task' = [task EXCEPT ![t] = [Idle EXCEPT !.at = "create", !.want = p]]
    /\ UNCHANGED <<rows, now, business, used, audits, approvedBy>>

\* Mutant: the insert replaces the row of a key that was taken meanwhile.
InsertRow_Overwrites(t) ==
    LET p == task[t].want IN
    /\ bound' = [bound EXCEPT ![p.key] = p]
    /\ status' = [status EXCEPT ![p.key] = "pending"]

\* create_or_get: INSERT ... ON CONFLICT DO NOTHING.  Another process that
\* inserted the key first keeps its row.
InsertRow(t) ==
    LET p == task[t].want IN
    IF status[p.key] = "none"
    THEN /\ bound' = [bound EXCEPT ![p.key] = p]
         /\ status' = [status EXCEPT ![p.key] = "pending"]
    ELSE UNCHANGED rows

IssueCreate(t) ==
    /\ task[t].at = "create"
    /\ InsertRow(t)
    /\ GoTo(t, "idle")
    /\ UNCHANGED <<now, business, used, audits, approvedBy>>

\* The first half of _transition: read the row and decide.
Read(t, k, o, late) ==
    LET d == Decide(o, status[k], bound[k], late, k \in used[ProcOf[t]]) IN
    /\ RegistryFree(t)
    /\ status[k] # "none"
    /\ task' = [task EXCEPT ![t] =
                   [Idle EXCEPT !.at = "cas", !.key = k, !.op = o,
                                !.seen = status[k], !.ok = d.ok,
                                !.next = d.next, !.late = late]]
    /\ UNCHANGED <<rows, now, business, used, audits, approvedBy>>

\* approve and reject, from the operator's screen.
OperatorDecides(t, k, o) ==
    /\ task[t].at = "idle"
    /\ o \in {"approve", "reject"}
    /\ Read(t, k, o, IsLate(k))

\* consume_browser_action: only for tokens bound to a browser action, after
\* the binding of the request has been compared with the preview.
ConsumeBrowserAction(t, k) ==
    /\ task[t].at = "idle"
    /\ status[k] # "none" /\ bound[k].op = "browser_action"
    /\ Read(t, k, "consume", IsLate(k))

\* Where a request goes when its registry operation has answered.
After(o, ok) ==
    CASE o = "begin"    -> IF ok THEN "claimed" ELSE "idle"
      [] o = "complete" -> IF ok THEN "audit_ok" ELSE "audit_fail"
      [] o = "release"  -> "audit_fail"
      [] OTHER          -> "idle"

\* Mutant: the update does not compare the status it read.
WriteIfUnchanged_Blind(t) ==
    /\ status' = [status EXCEPT ![task[t].key] = task[t].next]
    /\ approvedBy' = IF task[t].op = "approve" /\ task[t].next = "approved"
                     THEN approvedBy \cup {task[t].key} ELSE approvedBy

\* UPDATE approvals SET status = next WHERE id = ... AND status = seen.
WriteIfUnchanged(t) ==
    LET k == task[t].key IN
    IF status[k] = task[t].seen
    THEN /\ status' = [status EXCEPT ![k] = task[t].next]
         /\ approvedBy' = IF task[t].op = "approve" /\ task[t].next = "approved"
                          THEN approvedBy \cup {k} ELSE approvedBy
    ELSE UNCHANGED <<status, approvedBy>>

CompareAndSet(t) ==
    LET k  == task[t].key
        ok == IF status[k] = task[t].seen THEN task[t].ok
              ELSE ConflictAllowed(task[t].op, status[k], IsLate(k))
    IN  /\ task[t].at = "cas"
        /\ WriteIfUnchanged(t)
        /\ GoTo(t, After(task[t].op, ok))
        /\ used' = IF task[t].op = "complete" /\ ok
                   THEN [used EXCEPT ![ProcOf[t]] = @ \cup {k}] ELSE used
        /\ UNCHANGED <<bound, now, business, audits>>

-----------------------------------------------------------------------------
(* ApprovedWriteExecutor.execute                                           *)

\* The request notes its time before it waits for the executor lock.
ExecuteRequest(t, k) ==
    /\ task[t].at = "idle"
    /\ status[k] # "none" /\ bound[k].op # "browser_action"
    /\ task' = [task EXCEPT ![t] =
                   [Idle EXCEPT !.at = "wait", !.key = k, !.late = IsLate(k)]]
    /\ UNCHANGED <<rows, now, business, used, audits, approvedBy>>

\* registry.begin with the time noted on arrival.
Begin(t) ==
    /\ task[t].at = "wait" /\ ExecutorFree(t)
    /\ Read(t, task[t].key, "begin", task[t].late)

\* Mutants: the adapter trusts the stage written in the preview; a binding
\* write ignores the revision.
StageWriteAccepted_TrustsPreview(k, p) == PreviewMove(p.from, p.to)
CommitBinding_AnyRevision(k, p) ==
    /\ p.op = "binding_update"
    /\ revision' = [revision EXCEPT ![p.app] = @ + 1]
    /\ boundBy' = [boundBy EXCEPT ![p.app] = k]
    /\ applied' = [applied EXCEPT ![k] = @ + 1]
    /\ UNCHANGED <<stage, log, edits>>

\* update_application_stage, under the row lock of one transaction.  A
\* stage_history entry with the same idempotency key is a replay.
PriorEntries(k, p) == IF p.idem THEN {e \in log[p.app] : e[1] = k} ELSE {}

StageWriteAccepted(k, p) ==
    /\ PriorEntries(k, p) = {}
    /\ p.from \in {"unstated", stage[p.app]}
    /\ ForwardMove(stage[p.app], p.to)

ReplayAccepted(k, p) ==
    /\ PriorEntries(k, p) # {}
    /\ \A e \in PriorEntries(k, p) : e[2] = p.to
    /\ stage[p.app] = p.to

CommitStage(k, p) ==
    /\ p.op = "stage_update" /\ StageWriteAccepted(k, p)
    /\ stage' = [stage EXCEPT ![p.app] = p.to]
    /\ log' = [log EXCEPT ![p.app] = @ \cup {<<k, p.to>>}]
    /\ applied' = [applied EXCEPT ![k] = @ + 1]
    /\ UNCHANGED <<revision, boundBy, edits>>

\* bind_recruitment_mail and bind_application_identity: the revision the
\* preview was made against must still be the present one; a binding that
\* already carries this approval's key is a replay.
CommitBinding(k, p) ==
    /\ p.op = "binding_update"
    /\ boundBy[p.app] # k /\ revision[p.app] = p.rev
    /\ revision' = [revision EXCEPT ![p.app] = p.rev + 1]
    /\ boundBy' = [boundBy EXCEPT ![p.app] = k]
    /\ applied' = [applied EXCEPT ![k] = @ + 1]
    /\ UNCHANGED <<stage, log, edits>>

\* update_crawler_recipe replaces a file in one step.
CommitRecipe(k, p) ==
    /\ p.op = "recipe_update"
    /\ applied' = [applied EXCEPT ![k] = @ + 1]
    /\ UNCHANGED <<stage, log, revision, boundBy, edits>>

DispatchCommits(t) ==
    LET k == task[t].key IN
    /\ task[t].at = "claimed"
    /\ \/ CommitStage(k, bound[k])
       \/ CommitBinding(k, bound[k])
       \/ CommitRecipe(k, bound[k])
    /\ GoTo(t, "applied")
    /\ UNCHANGED <<rows, now, used, audits, approvedBy>>

DispatchReplays(t) ==
    LET k == task[t].key
        p == bound[k] IN
    /\ task[t].at = "claimed"
    /\ \/ p.op = "stage_update" /\ ReplayAccepted(k, p)
       \/ p.op = "binding_update" /\ boundBy[p.app] = k
    /\ GoTo(t, "applied")
    /\ UNCHANGED <<rows, now, business, used, audits, approvedBy>>

\* The backup hook or the adapter raises and nothing was written.
DispatchRaises(t) ==
    /\ task[t].at = "claimed"
    /\ GoTo(t, "failed")
    /\ UNCHANGED <<rows, now, business, used, audits, approvedBy>>

\* The database committed the transaction and the answer was lost: the
\* adapter raises although its write is in place.
DispatchLosesAnswer(t) ==
    LET k == task[t].key IN
    /\ task[t].at = "claimed"
    /\ CommitStage(k, bound[k]) \/ CommitBinding(k, bound[k])
    /\ GoTo(t, "failed")
    /\ UNCHANGED <<rows, now, used, audits, approvedBy>>

Complete(t) ==
    /\ task[t].at = "applied"
    /\ Read(t, task[t].key, "complete", task[t].late)

ReleaseClaim(t) ==
    /\ task[t].at = "failed"
    /\ Read(t, task[t].key, "release", task[t].late)

\* _store_record: the failure and the success record of one attempt; the
\* audit sink may raise, and then the request ends without a durable record.
StoreRecord(t) ==
    /\ task[t].at \in {"audit_ok", "audit_fail"}
    /\ audits' = audits \cup {<<task[t].key, task[t].at = "audit_ok">>}
    /\ GoTo(t, "idle")
    /\ UNCHANGED <<rows, now, business, used, approvedBy>>

SinkRaises(t) ==
    /\ task[t].at \in {"audit_ok", "audit_fail"}
    /\ GoTo(t, "idle")
    /\ UNCHANGED <<rows, now, business, used, audits, approvedBy>>

-----------------------------------------------------------------------------
(* Faults and the other actors                                             *)

\* Mutant: a release that raises is tried again for ever.
RegistryRaises_Retries(t) ==
    /\ task[t].at \in {"failed", "cas"} /\ UNCHANGED <<rows, approvedBy>>
    /\ GoTo(t, "failed")
    /\ UNCHANGED <<now, business, used, audits>>

\* A registry call raises: the read (before "cas"), or the write, whose
\* transaction may or may not have been committed.  _release_claim swallows
\* the exception; every other caller lets it end the request.
RegistryRaises(t) ==
    /\ task[t].at \in {"create", "wait", "cas", "applied", "failed"}
    /\ task[t].at \in {"wait", "applied", "failed"} => RegistryFree(t)
    /\ task[t].at = "wait" => ExecutorFree(t)
    /\ \/ UNCHANGED <<rows, approvedBy>>
       \/ task[t].at = "create" /\ InsertRow(t) /\ UNCHANGED approvedBy
       \/ task[t].at = "cas" /\ WriteIfUnchanged(t) /\ UNCHANGED bound
    /\ GoTo(t, IF \/ task[t].at = "failed"
                  \/ task[t].at = "cas" /\ task[t].op = "release"
               THEN "audit_fail" ELSE "idle")
    /\ UNCHANGED <<now, business, used, audits>>

\* A process dies and starts again: its requests and _used_keys are gone.
Crash(p) ==
    /\ \E t \in Threads : ProcOf[t] = p /\ task[t].at # "idle"
    /\ task' = [t \in Threads |-> IF ProcOf[t] = p THEN Idle ELSE task[t]]
    /\ used' = [used EXCEPT ![p] = {}]
    /\ UNCHANGED <<rows, now, business, audits, approvedBy>>

TimePasses ==
    /\ now < MaxTime
    /\ now' = now + 1
    /\ UNCHANGED <<rows, business, task, used, audits, approvedBy>>

\* The user corrects a stage by hand, in either direction (local_ui.py).
ManualEdit(a, s) ==
    /\ edits < MaxEdits
    /\ stage' = [stage EXCEPT ![a] = s]
    /\ edits' = edits + 1
    /\ UNCHANGED <<rows, now, log, revision, boundBy, applied, task, used,
                   audits, approvedBy>>

\* Mail and official-page evidence write through the same adapter, with
\* idempotency keys of their own.
EvidenceWrite(a, s) ==
    /\ edits < MaxEdits
    /\ ForwardMove(stage[a], s)
    /\ stage' = [stage EXCEPT ![a] = s]
    /\ edits' = edits + 1
    /\ UNCHANGED <<rows, now, log, revision, boundBy, applied, task, used,
                   audits, approvedBy>>

Request(t) ==
    \/ \E p \in Previews : IssueCheck(t, p)
    \/ \E k \in Keys :
          \/ OperatorDecides(t, k, "approve") \/ OperatorDecides(t, k, "reject")
          \/ ConsumeBrowserAction(t, k)
          \/ ExecuteRequest(t, k)

\* The steps of a request already under way.
Progress(t) ==
    \/ IssueCreate(t) \/ CompareAndSet(t)
    \/ Begin(t)
    \/ DispatchCommits(t) \/ DispatchReplays(t) \/ DispatchRaises(t)
    \/ DispatchLosesAnswer(t)
    \/ Complete(t) \/ ReleaseClaim(t)
    \/ StoreRecord(t) \/ SinkRaises(t)
    \/ RegistryRaises(t)

Environment ==
    \/ \E p \in Procs : Crash(p)
    \/ TimePasses
    \/ \E a \in Apps, s \in EditStages : ManualEdit(a, s) \/ EvidenceWrite(a, s)

Next == (\E t \in Threads : Request(t) \/ Progress(t)) \/ Environment

Spec == Init /\ [][Next]_vars

\* Threads of a live process keep running: a request under way is not
\* abandoned by the scheduler (it may still fail, or its process crash), and a
\* lock its peers take and free again and again is not withheld for ever.
FairSpec == Spec /\ \A t \in Threads : SF_vars(Progress(t))

-----------------------------------------------------------------------------
(* Properties                                                              *)

TypeOK ==
    /\ bound \in [Keys -> Previews \cup {NoPreview}]
    /\ status \in [Keys -> Statuses]
    /\ now \in 0..MaxTime
    /\ stage \in [Apps -> Stages]
    /\ log \in [Apps -> SUBSET (Keys \X Stages)]
    /\ revision \in [Apps -> Nat]
    /\ boundBy \in [Apps -> Keys \cup {NoKey}]
    /\ edits \in 0..MaxEdits
    /\ task \in [Threads -> Tasks]
    /\ used \in [Procs -> SUBSET Keys]
    /\ audits \in SUBSET (Keys \X BOOLEAN)
    /\ applied \in [Keys -> Nat]
    /\ approvedBy \in SUBSET Keys

\* Thread t holds the claim on token k: its begin won the compare-and-set
\* and neither complete nor release has answered yet.
Holds(t, k) ==
    /\ task[t].key = k
    /\ \/ task[t].at \in {"claimed", "applied", "failed"}
       \/ task[t].at = "cas" /\ task[t].op \in {"complete", "release"}

\* The tokens and their claims, as ApprovalLifecycle sees them: every step of
\* every request is one of its moves, or none.
Lifecycle == INSTANCE ApprovalLifecycle WITH
    owned     <- {k \in Keys : \E t \in Threads : Holds(t, k)},
    effective <- {k \in Keys : applied[k] > 0}

ImplementsLifecycle == Lifecycle!LifecycleSpec

\* One approval is never executed by two requests at once, whichever
\* processes they run in, and the row says "executing" all the while: so
\* complete and release always find the row they claimed.
ClaimIsExclusive ==
    \A t \in Threads, k \in Keys :
        Holds(t, k) => /\ status[k] = "executing"
                       /\ \A u \in Threads : Holds(u, k) => u = t

\* A write that was approved takes effect at most once, although a lost
\* answer makes the executor release it and run it again, and although the
\* user or another approval may write in between.  (Stage payloads without
\* their idempotency key have no such protection.)
AppliedAtMostOnce ==
    \A k \in Keys :
        (status[k] # "none" /\ (bound[k].op = "stage_update" => bound[k].idem))
            => applied[k] <= 1

\* No write takes effect that the operator did not approve or whose preview
\* fails the evidence and job gates; a token that execute consumed has had
\* its effect, and a successful audit record names such a token.
WritesAreApproved ==
    \A k \in Keys :
        /\ applied[k] > 0 => /\ k \in approvedBy
                             /\ bound[k].evidence
                             /\ bound[k].gate \in {"no_job", "confirmed"}
        /\ (status[k] = "consumed" /\ bound[k].op # "browser_action")
              => applied[k] > 0
        /\ <<k, TRUE>> \in audits => status[k] = "consumed" /\ applied[k] > 0

\* A claim whose owner died, or whose release failed, keeps blocking the
\* token: nobody claims it, releases it or decides on it again, and only a live
\* holder of a claim ever has an effect.
OrphanedClaimBlocks ==
    [][\A k \in Keys :
          LET owned == \E t \in Threads : Holds(t, k)
          IN  /\ status[k] = "executing" /\ ~owned => status'[k] = "executing"
              /\ applied'[k] # applied[k] => status[k] = "executing" /\ owned]_vars

\* The preview an approval was given for is the one that is executed: a key
\* keeps the preview it was first bound to, across races between issuers.
BindingIsImmutable ==
    [][\A k \in Keys : status[k] # "none" =>
          status'[k] # "none" /\ bound'[k] = bound[k]]_vars

\* Approvals and evidence only move an application forward, whichever of them
\* is executed first: a preview whose "from" stage is no longer the present
\* one changes nothing, and one that states none only moves it on.  Only the user's
\* own correction moves it back.
StageNeverRegresses ==
    [][\A a \in Apps : stage'[a] # stage[a] =>
          ForwardMove(stage[a], stage'[a]) \/ ManualEdit(a, stage'[a])]_vars

\* execute always comes to an end and frees the executor of its process.
ExecutionEnds == \A t \in Threads : Executing(t) ~> ~Executing(t)

\* ApprovedWriteExecutor: "Claim, execute, and consume one approved token
\* with an audited write."  Once no request works on the token any more, a
\* write that took effect has a durable audit record.
AppliedWriteIsAudited ==
    \A k \in Keys :
        (applied[k] > 0 /\ \A t \in Threads : task[t].key # k)
            => \E b \in BOOLEAN : <<k, b>> \in audits
=============================================================================
