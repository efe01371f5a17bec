------------------------------ MODULE Automation ------------------------------
(***************************************************************************)
(* The persistent daily automations: the AutomationStore tables, the       *)
(* LocalAutomationWorker that polls them, the executor that runs one       *)
(* claimed occurrence, and the lifecycle that starts and stops the worker  *)
(* when the configuration changes or the API process comes and goes.       *)
(*                                                                         *)
(* An element of Procs is an API process (with the worker its lifecycle    *)
(* owns); it may die and come back.  Each store method is one database     *)
(* transaction and one step, except the two that read rows without a lock  *)
(* and write them back later: upsert_daily and recover_interrupted.        *)
(***************************************************************************)
EXTENDS Naturals, FiniteSets

CONSTANTS
    Procs,       \* API processes sharing the database
    Schedules,   \* the schedule ids (task, target, time of day)
    Day,         \* clock units from one occurrence to the next
    MaxTime,     \* bound on the clock
    MaxExecs,    \* bound on the executions ever claimed
    MaxUpsets,   \* bound on crashes, shutdowns, failed writes and setting changes
    None

Ids == 1..MaxExecs
Terminal == {"succeeded", "failed", "blocked"}
Times == 0..(MaxTime + Day)

\* The rows of automation_schedules and automation_executions.  An execution's thread
\* and prepared: thread_id and result_summary are set.
Schedule == [active : BOOLEAN, next : Nat, last : Terminal \cup {"never", "running"}]
Execution == [schedule : Schedules, for : Times, status : Terminal \cup {"running"},
              thread : BOOLEAN, prepared : BOOLEAN]

ASSUME AutomationAssumption ==
    /\ Day \in Nat \ {0}
    /\ {MaxTime, MaxExecs, MaxUpsets} \subseteq Nat
    /\ None \notin Procs \cup Schedules \cup Nat \cup Schedule \cup Execution

VARIABLES
    direct,    \* the schedules whose task runs as a handler, not as a chat turn
    now,       \* the wall clock
    gates,     \* the settings every check reads afresh
    sched,     \* automation_schedules: schedule -> row or None
    exec,      \* automation_executions: execution id -> row or None
    issued,    \* execution ids handed out so far
    worker,    \* per process, the worker task
    threads,   \* per process, the execution whose handler thread runs on, or None
    draft,     \* the upsert_daily call in flight, or None
    begun,     \* history: how often an occurrence's business work was started
    savedAt,   \* history: when a schedule's last upsert committed
    upsets     \* spent part of MaxUpsets

vars == <<direct, now, gates, sched, exec, issued, worker, threads, draft, begun, savedAt, upsets>>

\* A worker's seen: the rows recover_interrupted has read; its since: when
\* skip_missed_occurrences ran.
Down == [pc |-> "down", id |-> None, result |-> None, seen |-> {}, since |-> 0, stop |-> FALSE]

Init ==
    /\ direct \in SUBSET Schedules
    /\ now = 0
    /\ gates = [automation |-> TRUE, write |-> TRUE]
    /\ sched = [s \in Schedules |-> None]
    /\ exec = [i \in Ids |-> None]
    /\ issued = 0
    /\ worker = [p \in Procs |-> Down]
    /\ threads = [p \in Procs |-> None]
    /\ draft = None
    /\ begun = [o \in Schedules \X Times |-> 0]
    /\ savedAt = [s \in Schedules |-> 0]
    /\ upsets = 0

-----------------------------------------------------------------------------
(* Time, settings and the store's helpers.                                 *)

NextDailyRun_Inclusive(t) == ((t + Day - 1) \div Day) * Day

\* next_daily_run: the first occurrence strictly after t.
NextDailyRun(t) == (t \div Day + 1) * Day

BlockedReason == ~gates.automation \/ ~gates.write

ExecsOf(s) == {i \in Ids : exec[i] # None /\ exec[i].schedule = s}
Recorded(s) == {exec[i].for : i \in ExecsOf(s)}
Running == {i \in Ids : exec[i] # None /\ exec[i].status = "running"}
Due(s) == sched[s] # None /\ sched[s].active /\ sched[s].next <= now

\* claim_due skips the occurrences that already have an execution.
Unrecorded_Ignored(s, t) == t = sched[s].next

Unrecorded(s, t) ==
    LET occurrences == {u \in sched[s].next..t : u % Day = sched[s].next % Day}
    IN  /\ t \in occurrences \ Recorded(s)
        /\ occurrences \ {t} \subseteq Recorded(s)

\* Closing a row closes its conversation, its task run and the schedule's last status.
LastAfter(s, ids, status) ==
    IF ids \cap ExecsOf(s) # {} THEN status ELSE sched[s].last

CloseRows(ids, status) ==
    /\ exec' = [i \in Ids |->
                  IF i \in ids THEN [exec[i] EXCEPT !.status = status, !.thread = TRUE]
                  ELSE exec[i]]
    /\ sched' = [s \in Schedules |->
                   IF sched[s] = None THEN None
                   ELSE [sched[s] EXCEPT !.last = LastAfter(s, ids, status)]]

-----------------------------------------------------------------------------
(* The environment: the clock, the settings file, and what goes wrong.     *)

Tick ==
    /\ now < MaxTime
    /\ now' = now + 1
    /\ UNCHANGED <<direct, gates, sched, exec, issued, worker, threads, draft, begun, savedAt, upsets>>

Upset == upsets < MaxUpsets /\ upsets' = upsets + 1

Reconfigure(g) ==
    /\ Upset
    /\ gates' = [gates EXCEPT ![g] = FALSE]
    /\ gates[g]
    /\ UNCHANGED <<direct, now, sched, exec, issued, worker, threads, draft, begun, savedAt>>

Reenable(g) ==
    /\ ~gates[g]
    /\ gates' = [gates EXCEPT ![g] = TRUE]
    /\ UNCHANGED <<direct, now, sched, exec, issued, worker, threads, draft, begun, savedAt, upsets>>

\* The API process dies; its worker and its threads go with it.
Crash(p) ==
    /\ Upset
    /\ worker[p].pc # "down" \/ threads[p] # None
    /\ worker' = [worker EXCEPT ![p] = Down]
    /\ threads' = [threads EXCEPT ![p] = None]
    /\ UNCHANGED <<direct, now, gates, sched, exec, issued, draft, begun, savedAt>>

-----------------------------------------------------------------------------
(* The schedule tools: upsert_daily reads its timestamp and the row, and   *)
(* commits later; SQLAlchemy only writes the columns that differ from what *)
(* it read.  disable and delete are single steps.                          *)

BeginUpsert(s) ==
    /\ draft = None
    /\ ~BlockedReason
    /\ draft' = [schedule |-> s, at |-> now, row |-> sched[s]]
    /\ UNCHANGED <<direct, now, gates, sched, exec, issued, worker, threads, begun, savedAt, upsets>>

Written(loaded, value, current) == IF loaded = value THEN current ELSE value

\* The row it inserts may exist by now, the row it read may be gone: both roll back.
CommitUpsert ==
    /\ draft # None
    /\ LET s == draft.schedule
           next == NextDailyRun(draft.at)
       IN  \/ /\ draft.row = None /\ sched[s] = None
              /\ sched' = [sched EXCEPT ![s] = [active |-> TRUE, next |-> next, last |-> "never"]]
              /\ savedAt' = [savedAt EXCEPT ![s] = now]
           \/ /\ draft.row # None /\ sched[s] # None
              /\ sched' = [sched EXCEPT
                             ![s].active = Written(draft.row.active, TRUE, @),
                             ![s].next = Written(draft.row.next, next, @)]
              /\ savedAt' = [savedAt EXCEPT ![s] = now]
           \/ /\ (draft.row = None) # (sched[s] = None)
              /\ UNCHANGED <<sched, savedAt>>
    /\ draft' = None
    /\ UNCHANGED <<direct, now, gates, exec, issued, worker, threads, begun, upsets>>

Disable(s) ==
    /\ sched[s] # None
    /\ sched[s].active
    /\ sched' = [sched EXCEPT ![s].active = FALSE]
    /\ UNCHANGED <<direct, now, gates, exec, issued, worker, threads, draft, begun, savedAt, upsets>>

MayDelete_Any(s) == sched[s] # None

MayDelete(s) == sched[s] # None /\ Running \cap ExecsOf(s) = {}

Delete(s) ==
    /\ MayDelete(s)
    /\ gates.write
    /\ sched' = [sched EXCEPT ![s] = None]
    /\ exec' = [i \in Ids |-> IF i \in ExecsOf(s) THEN None ELSE exec[i]]
    /\ UNCHANGED <<direct, now, gates, issued, worker, threads, draft, begun, savedAt, upsets>>

-----------------------------------------------------------------------------
(* The lifecycle: reconcile starts a worker, after recover_interrupted and *)
(* skip_missed_occurrences, and stops it when automation is turned off.    *)

\* recover_interrupted reads the running rows without locking them.
StartWorker(p) ==
    /\ worker[p].pc = "down"
    /\ threads[p] = None
    /\ gates.automation
    /\ worker' = [worker EXCEPT ![p] = [Down EXCEPT !.pc = "recovering", !.seen = Running]]
    /\ UNCHANGED <<direct, now, gates, sched, exec, issued, threads, draft, begun, savedAt, upsets>>

\* ... and writes "failed" to every row it read that still exists; a row deleted
\* in between fails the transaction, and reconcile tries again.
Interrupted_None(p) == {}

Interrupted(p) == worker[p].seen

Recover(p) ==
    /\ worker[p].pc = "recovering"
    /\ IF \E i \in Interrupted(p) : exec[i] = None
         THEN /\ worker' = [worker EXCEPT ![p] = Down]
              /\ UNCHANGED <<exec, sched>>
         ELSE /\ CloseRows(Interrupted(p), "failed")
              /\ worker' = [worker EXCEPT ![p].pc = "skipping", ![p].seen = {}]
    /\ UNCHANGED <<direct, now, gates, issued, threads, draft, begun, savedAt, upsets>>

SkippedTo_Kept(s) == sched[s].next

SkippedTo(s) == NextDailyRun(now)

SkipMissed(p) ==
    /\ worker[p].pc = "skipping"
    /\ sched' = [s \in Schedules |->
                   IF Due(s) THEN [sched[s] EXCEPT !.next = SkippedTo(s)] ELSE sched[s]]
    /\ worker' = [worker EXCEPT ![p].pc = "polling", ![p].since = now]
    /\ UNCHANGED <<direct, now, gates, exec, issued, threads, draft, begun, savedAt, upsets>>

\* reconcile, automation turned off: the worker leaves its loop after this round.
StopWorker(p) ==
    /\ ~gates.automation
    /\ worker[p].pc \notin {"down", "recovering", "skipping"}
    /\ ~worker[p].stop
    /\ worker' = [worker EXCEPT ![p].stop = TRUE]
    /\ UNCHANGED <<direct, now, gates, sched, exec, issued, threads, draft, begun, savedAt, upsets>>

LeaveLoop_WhileOff(p) ==
    /\ worker[p].pc = "polling"
    /\ worker[p].stop
    /\ ~gates.automation
    /\ worker' = [worker EXCEPT ![p] = Down]
    /\ UNCHANGED <<direct, now, gates, sched, exec, issued, threads, draft, begun, savedAt, upsets>>

\* The stop flag is never taken back: turned on again too early, automation gets a
\* new worker only when the old one has left.
LeaveLoop(p) ==
    /\ worker[p].pc = "polling"
    /\ worker[p].stop
    /\ worker' = [worker EXCEPT ![p] = Down]
    /\ UNCHANGED <<direct, now, gates, sched, exec, issued, threads, draft, begun, savedAt, upsets>>

-----------------------------------------------------------------------------
(* run_once: claim_due, then the executor, then complete.                  *)

\* claim_due on the earliest due schedule.  The history may already hold every
\* occurrence up to now: then only next_run_at moves on.
ClaimDue(p, after) ==
    \E s \in Schedules :
      /\ Due(s)
      /\ \A u \in Schedules : Due(u) => sched[s].next <= sched[u].next
      /\ \E for \in Times :
            /\ Unrecorded(s, for)
            /\ \/ /\ for > now
                  /\ sched' = [sched EXCEPT ![s].next = for]
                  /\ UNCHANGED <<exec, issued, worker>>
               \/ /\ for <= now
                  /\ issued < MaxExecs
                  /\ issued' = issued + 1
                  /\ exec' = [exec EXCEPT ![issued + 1] =
                                [schedule |-> s, for |-> for, status |-> "running",
                                 thread |-> FALSE, prepared |-> FALSE]]
                  /\ sched' = [sched EXCEPT ![s].next = NextDailyRun(now), ![s].last = "running"]
                  /\ worker' = [worker EXCEPT ![p] = after]
      /\ UNCHANGED <<direct, now, gates, threads, draft, begun, savedAt>>

Claim(p) ==
    /\ worker[p].pc = "polling"
    /\ ~worker[p].stop
    /\ ClaimDue(p, [worker[p] EXCEPT !.pc = "claimed", !.id = issued + 1])
    /\ UNCHANGED upsets

\* Shutdown cancels the worker while claim_due runs in its thread: the claim
\* commits and nobody is left to run it.
ShutdownInClaim(p) ==
    /\ worker[p].pc = "polling"
    /\ Upset
    /\ ClaimDue(p, Down)

Goto(p, pc) == worker' = [worker EXCEPT ![p].pc = pc]
Finish(p, result) == worker' = [worker EXCEPT ![p].pc = "finishing", ![p].result = result]
Quit(p) == worker' = [worker EXCEPT ![p].pc = "polling", ![p].id = None, ![p].result = None]

Id(p) == worker[p].id
Row(p) == exec[Id(p)]

\* _execute_automation_if_authorized: the settings may have changed since the claim.
Authorize(p) ==
    /\ worker[p].pc = "claimed"
    /\ IF BlockedReason THEN Finish(p, "blocked") ELSE Goto(p, "authorized")
    /\ UNCHANGED <<direct, now, gates, sched, exec, issued, threads, draft, begun, savedAt, upsets>>

\* The executor looks at the row first; one that has a conversation or is closed
\* belongs to somebody else and is left alone (skip_completion).
Look(p) ==
    /\ worker[p].pc = "authorized"
    /\ IF Row(p) # None /\ (Row(p).thread \/ Row(p).status # "running")
         THEN Quit(p) ELSE Goto(p, "looked")
    /\ UNCHANGED <<direct, now, gates, sched, exec, issued, threads, draft, begun, savedAt, upsets>>

\* claim_execution_start: one conditional UPDATE.
MayStart(p) ==
    /\ Row(p) # None
    /\ Row(p).status = "running"
    /\ ~Row(p).thread
    /\ ~Row(p).prepared

ClaimStart(p) ==
    /\ worker[p].pc = "looked"
    /\ IF MayStart(p)
         THEN /\ exec' = [exec EXCEPT ![Id(p)].prepared = TRUE]
              /\ Goto(p, "owned")
         ELSE /\ Quit(p)
              /\ UNCHANGED exec
    /\ UNCHANGED <<direct, now, gates, sched, issued, threads, draft, begun, savedAt, upsets>>

\* A direct task gets its conversation; a chat task starts a runtime thread, which
\* may fail for good, and records it if the row is still running.  A row that is
\* gone raises KeyError, which run_once turns into a failed result.
Prepare(p, starts) ==
    /\ worker[p].pc = "owned"
    /\ IF Row(p) = None
         THEN Finish(p, "failed") /\ UNCHANGED exec
         ELSE /\ exec' = [exec EXCEPT ![Id(p)].thread =
                            @ \/ ~starts \/ Row(p).schedule \in direct
                              \/ Row(p).status = "running"]
              /\ IF starts \/ Row(p).schedule \in direct
                   THEN Goto(p, "ready") ELSE Finish(p, "failed")
    /\ UNCHANGED <<direct, now, gates, sched, issued, threads, draft, begun, savedAt, upsets>>

\* The business work itself: the handler in its own thread, or a chat turn.
Begin(p) ==
    /\ worker[p].pc = "ready"
    /\ IF Row(p) # None /\ Row(p).schedule \in direct /\ ~gates.write
         THEN /\ Finish(p, "blocked")
              /\ UNCHANGED <<threads, begun>>
         ELSE /\ Goto(p, "working")
              /\ threads' = [threads EXCEPT ![p] = Id(p)]
              /\ IF Row(p) = None THEN UNCHANGED begun
                 ELSE begun' = [begun EXCEPT ![<<Row(p).schedule, Row(p).for>>] = @ + 1]
    /\ UNCHANGED <<direct, now, gates, sched, exec, issued, draft, savedAt, upsets>>

WorkEnds(p, result) ==
    /\ worker[p].pc = "working"
    /\ Finish(p, result)
    /\ threads' = [threads EXCEPT ![p] = None]
    /\ UNCHANGED <<direct, now, gates, sched, exec, issued, draft, begun, savedAt, upsets>>

\* complete writes only a row that is still running.
Completes(p) == {Id(p)} \cap Running

Complete(p) ==
    /\ worker[p].pc = "finishing"
    /\ IF Row(p) = None
         THEN /\ worker' = [worker EXCEPT ![p] = Down]     \* KeyError ends run_forever
              /\ UNCHANGED <<exec, sched>>
         ELSE /\ CloseRows(Completes(p), worker[p].result)
              /\ Quit(p)
    /\ UNCHANGED <<direct, now, gates, issued, threads, draft, begun, savedAt, upsets>>

\* The write fails; the exception ends run_forever and reconcile starts anew.
CompleteFails(p) ==
    /\ worker[p].pc = "finishing"
    /\ Upset
    /\ worker' = [worker EXCEPT ![p] = Down]
    /\ UNCHANGED <<direct, now, gates, sched, exec, issued, threads, draft, begun, savedAt>>

\* Shutdown cancels the executor: run_once records the failure and re-raises, while
\* a handler already in its thread runs on.
Shutdown(p) ==
    /\ worker[p].pc \in {"claimed", "authorized", "looked", "owned", "ready", "working"}
    /\ Upset
    /\ Goto(p, "cancelled")
    /\ UNCHANGED <<direct, now, gates, sched, exec, issued, threads, draft, begun, savedAt>>

CompleteCancelled(p) ==
    /\ worker[p].pc = "cancelled"
    /\ IF Row(p) = None
         THEN UNCHANGED <<exec, sched>>
         ELSE CloseRows(Completes(p), "failed")
    /\ worker' = [worker EXCEPT ![p] = Down]
    /\ UNCHANGED <<direct, now, gates, issued, threads, draft, begun, savedAt, upsets>>

\* The interpreter waits for the abandoned handler thread before the process ends.
ThreadEnds(p) ==
    /\ threads[p] # None
    /\ worker[p].pc = "down"
    /\ threads' = [threads EXCEPT ![p] = None]
    /\ UNCHANGED <<direct, now, gates, sched, exec, issued, worker, draft, begun, savedAt, upsets>>

-----------------------------------------------------------------------------
WorkerStep(p) ==
    \/ StartWorker(p) \/ Recover(p) \/ SkipMissed(p)
    \/ StopWorker(p) \/ LeaveLoop(p)
    \/ Claim(p) \/ Authorize(p) \/ Look(p) \/ ClaimStart(p)
    \/ \E starts \in BOOLEAN : Prepare(p, starts)
    \/ Begin(p)
    \/ \E result \in Terminal : WorkEnds(p, result)
    \/ Complete(p) \/ CompleteCancelled(p) \/ ThreadEnds(p)

Trouble(p) == Crash(p) \/ ShutdownInClaim(p) \/ Shutdown(p) \/ CompleteFails(p)

Next ==
    \/ Tick
    \/ \E g \in {"automation", "write"} : Reconfigure(g) \/ Reenable(g)
    \/ \E s \in Schedules : BeginUpsert(s) \/ Disable(s) \/ Delete(s)
    \/ CommitUpsert
    \/ \E p \in Procs : WorkerStep(p) \/ Trouble(p)

Spec == Init /\ [][Next]_vars

\* Workers and threads run on, the handlers return (a chat turn has a timeout, the
\* pipelines bound their own requests), and automation is turned on again.
FairSpec ==
    /\ Spec
    /\ \A p \in Procs : WF_vars(WorkerStep(p))
    /\ WF_vars(Reenable("automation"))

-----------------------------------------------------------------------------
(* Properties                                                              *)

(* An occurrence's business work is started at most once, whatever crashes,
   restarts, second processes, deletions and re-creations of its schedule
   come between. *)
StartsOnce == \A o \in Schedules \X Times : begun[o] <= 1

(* The unique key holds without ever being hit: two executions of a
   schedule are of different occurrences, none of them in the future. *)
OneRowPerOccurrence ==
    \A i, j \in Ids :
      exec[i] # None /\ exec[j] # None =>
        /\ exec[i].for <= now
        /\ i # j /\ exec[i].schedule = exec[j].schedule => exec[i].for # exec[j].for

(* skip_missed_occurrences: a worker never runs an occurrence that fell due
   before it started, unless the schedule was saved since the start (a save
   whose timestamp was read before the occurrence fell due). *)
OverdueIsNotReplayed ==
    [][\A p \in Procs : worker[p].pc = "polling" /\ worker'[p].pc = "claimed" =>
         LET e == exec'[worker'[p].id]
         IN  e.for > worker[p].since \/ savedAt[e.schedule] >= worker[p].since]_vars

(* With one process (runtime.lock of the packaged desktop), the execution a worker is busy with stays
   recorded and running until the worker itself closes it: neither delete
   nor a recovery takes it away. *)
InFlightIsRunning ==
    \A p \in Procs : worker[p].id # None => worker[p].id \in Running

(* Every execution that was claimed is closed in the end, also when its
   worker was lost in between. *)
ExecutionsClose == \A i \in Ids : (i \in Running) ~> (i \notin Running)

(* A due schedule does not stay due: it is claimed, skipped or switched off. *)
NothingStaysDue == \A s \in Schedules : Due(s) ~> (~Due(s) \/ issued = MaxExecs)
==============================================================================
