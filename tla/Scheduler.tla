------------------------------ MODULE Scheduler ------------------------------
(***************************************************************************)
(* LocalTaskScheduler.run and the file lock it takes: the fixed local      *)
(* tasks (daily intelligence, crawler health, application progress,        *)
(* mailbox) started by the desktop app, the MCP server and the command     *)
(* line, all sharing one lock file.                                        *)
(*                                                                         *)
(* One element of Runs is one call of run(): its main thread (pc), the     *)
(* daemon thread that runs the handler (worker) and the TaskContext events *)
(* they share.  What the handler computes is abstracted to the kind of     *)
(* receipt it returns and to the checkpoint it leaves on disk.             *)
(***************************************************************************)
EXTENDS Naturals

CONSTANTS
    Runs,           \* calls of run(), each with its own LocalInstanceLock object
    Cooperative,    \* the runs whose task has cooperative_timeout
    AutoContinue,   \* ... and auto_continue_on_timeout
    Controlled,     \* the runs whose caller passed a stop_requested event
    MaxRetries,     \* max_retries of the tasks
    MaxCheckpoint,  \* bound: companies a checkpoint can count
    None

\* TaskDefinition.__post_init__: continuation requires a cooperative timeout.
ASSUME CatalogAssumption ==
    /\ AutoContinue \subseteq Cooperative
    /\ Cooperative \subseteq Runs
    /\ MaxRetries \in Nat
    /\ MaxCheckpoint \in Nat
    /\ None \notin Runs
    /\ None \notin Nat

VARIABLES
    lock,        \* the run whose handle holds the lock file, or None
    run,         \* per run, the state of the call
    extStop,     \* the caller's stop event
    checkpoint   \* companies recorded in the run's checkpoint file

vars == <<lock, run, extStop, checkpoint>>

Progress == 0..MaxCheckpoint \cup {None}
Kinds == {"none", "success", "failed", "paused", "error"}
RunStatus == {"none", "success", "failed", "paused", "timed_out", "skipped_locked", "crashed"}

RunType == [pc : {"idle", "invoke", "waiting", "boundary", "draining", "decide", "returned"},
            attempt : 1..(MaxRetries + 1),
            segment : Nat \ {0},
            lastProgress : Progress,
            stop : BOOLEAN,             \* context.stop_requested set by the run itself
            budget : BOOLEAN,           \* context.budget_expired
            worker : {"none", "running", "releasing", "gone"},
            kind : Kinds,               \* state.value / state.error of the last handler
            continuation : Progress,    \* value["continuation"]["progress"]
            releaseOnFinish : BOOLEAN,
            status : RunStatus]

Idle == [pc |-> "idle", attempt |-> 1, segment |-> 1, lastProgress |-> None, stop |-> FALSE,
         budget |-> FALSE, worker |-> "none", kind |-> "none", continuation |-> None,
         releaseOnFinish |-> FALSE, status |-> "none"]

Init == /\ lock = None
        /\ run = [r \in Runs |-> Idle]
        /\ extStop = [r \in Runs |-> FALSE]
        /\ checkpoint = [r \in Runs |-> 0]

-----------------------------------------------------------------------------
(* The lock file.  A released LocalInstanceLock has no handle, so a second *)
(* release is a no-op even when another run holds the file by then.        *)

LockAfterRelease(r) == IF lock = r THEN None ELSE lock

(* What a thread sees on context.stop_requested: the caller's own event,   *)
(* unless the task continues automatically and gets a fresh one.           *)
SharesEvent(r) == r \in Controlled \ AutoContinue
StopSeen(r) == run[r].stop \/ (SharesEvent(r) /\ extStop[r])
ExternalStop(r) == r \in Controlled \cap AutoContinue /\ extStop[r]
Done(r) == run[r].worker \notin {"none", "running"}

Return(r, status) ==
    /\ run' = [run EXCEPT ![r].pc = "returned", ![r].status = status]
    /\ lock' = LockAfterRelease(r)

\* Taking the lock: the run goes on, or is skipped because another instance holds it.
Acquire(r) ==
    /\ run[r].pc = "idle"
    /\ IF lock = None
         THEN /\ lock' = r
              /\ run' = [run EXCEPT ![r].pc = "invoke"]
         ELSE Return(r, "skipped_locked")
    /\ UNCHANGED <<extStop, checkpoint>>

\* A fresh _AttemptState and a new daemon thread for the handler.
StartWorker(r) ==
    /\ run[r].pc = "invoke"
    /\ run' = [run EXCEPT ![r].pc = "waiting", ![r].worker = "running", ![r].kind = "none",
                          ![r].continuation = None, ![r].releaseOnFinish = FALSE,
                          ![r].stop = @ \/ ExternalStop(r)]
    /\ UNCHANGED <<lock, extStop, checkpoint>>

\* The handler ends.  The daily handler keeps a checkpoint that only grows; its
\* receipt offers a continuation only when the budget has run out and it paused
\* at a checkpoint it could read back.
HandlerEnds(r, kind, saved, offers) ==
    /\ run[r].worker = "running"
    /\ saved \in checkpoint[r]..MaxCheckpoint
    /\ saved > checkpoint[r] => r \in AutoContinue
    /\ offers => kind = "paused" /\ run[r].budget /\ r \in AutoContinue
    /\ checkpoint' = [checkpoint EXCEPT ![r] = saved]
    /\ run' = [run EXCEPT ![r].kind = kind,
                          ![r].continuation = IF offers THEN saved ELSE None,
                          ![r].worker = IF run[r].releaseOnFinish THEN "releasing" ELSE "gone"]
    /\ UNCHANGED <<lock, extStop>>

\* The worker thread gives the lock back after a timeout handed it over.
WorkerReleases(r) ==
    /\ run[r].worker = "releasing"
    /\ lock' = LockAfterRelease(r)
    /\ run' = [run EXCEPT ![r].worker = "gone"]
    /\ UNCHANGED <<extStop, checkpoint>>

\* The main thread stops waiting because the caller asked it to stop ...
SeeExternalStop(r) ==
    /\ run[r].pc = "waiting"
    /\ ExternalStop(r)
    /\ run' = [run EXCEPT ![r].pc = "draining", ![r].stop = TRUE]
    /\ UNCHANGED <<lock, extStop, checkpoint>>

\* ... because the handler has ended ...
SeeDone(r) ==
    /\ run[r].pc = "waiting"
    /\ Done(r)
    /\ run' = [run EXCEPT ![r].pc = "decide"]
    /\ UNCHANGED <<lock, extStop, checkpoint>>

\* The deadline makes every task drain, the ones that cannot be asked to stop too.
Expire_Drains(r) ==
    /\ run[r].pc = "waiting"
    /\ ~Done(r)
    /\ run' = [run EXCEPT ![r].pc = "draining", ![r].budget = TRUE, ![r].stop = TRUE]
    /\ UNCHANGED <<lock, extStop, checkpoint>>

\* ... or because the deadline passed.
Expire(r) ==
    /\ run[r].pc = "waiting"
    /\ ~Done(r)
    /\ run' = [run EXCEPT ![r].pc = IF r \in Cooperative THEN "draining" ELSE "boundary",
                          ![r].budget = TRUE, ![r].stop = TRUE]
    /\ UNCHANGED <<lock, extStop, checkpoint>>

\* A terminal result reported while the handler still drains.
Drained_Early(r) ==
    /\ run[r].pc = "draining"
    /\ run' = [run EXCEPT ![r].pc = "decide"]
    /\ UNCHANGED <<lock, extStop, checkpoint>>

\* A cooperative run waits until its handler has drained and saved its work.
Drained(r) ==
    /\ run[r].pc = "draining"
    /\ Done(r)
    /\ run' = [run EXCEPT ![r].pc = "decide"]
    /\ UNCHANGED <<lock, extStop, checkpoint>>

\* The flag is set after the handler was seen alive, and outside state_lock.
Boundary_NoHandOver(r) ==
    /\ run[r].pc = "boundary"
    /\ IF Done(r)
         THEN /\ run' = [run EXCEPT ![r].pc = "decide"]
              /\ lock' = LockAfterRelease(r)
         ELSE /\ run' = [run EXCEPT ![r].pc = "returned", ![r].status = "timed_out"]
              /\ UNCHANGED lock
    /\ UNCHANGED <<extStop, checkpoint>>

\* A timeout treated as one more failed attempt.
Boundary_Retries(r) ==
    /\ run[r].pc = "boundary"
    /\ run' = [run EXCEPT ![r].pc = "decide", ![r].kind = "error", ![r].stop = FALSE]
    /\ UNCHANGED <<lock, extStop, checkpoint>>

\* Under state_lock: either the handler finished just now and this thread
\* releases, or the handler inherits the lock and the run reports a timeout.
Boundary(r) ==
    /\ run[r].pc = "boundary"
    /\ IF Done(r)
         THEN /\ run' = [run EXCEPT ![r].pc = "decide", ![r].releaseOnFinish = TRUE]
              /\ lock' = LockAfterRelease(r)
         ELSE /\ run' = [run EXCEPT ![r].pc = "returned", ![r].status = "timed_out",
                                    ![r].releaseOnFinish = TRUE]
              /\ UNCHANGED lock
    /\ UNCHANGED <<extStop, checkpoint>>

\* A stalled checkpoint is continued like any other.
Continues_Stalled(r) ==
    /\ r \in AutoContinue
    /\ run[r].budget
    /\ run[r].kind = "paused"
    /\ run[r].continuation # None
    /\ ~ExternalStop(r)

\* The loop over segments goes on only when the checkpoint moved.
Continues(r) ==
    /\ r \in AutoContinue
    /\ run[r].budget
    /\ run[r].kind = "paused"
    /\ run[r].continuation \notin {None, run[r].lastProgress}
    /\ ~ExternalStop(r)

NextSegment(r) ==
    /\ run[r].pc = "decide"
    /\ Continues(r)
    /\ run' = [run EXCEPT ![r].pc = "invoke", ![r].segment = @ + 1,
                          ![r].lastProgress = run[r].continuation,
                          ![r].stop = FALSE, ![r].budget = FALSE]
    /\ UNCHANGED <<lock, extStop, checkpoint>>

Raised(r) == run[r].kind = "error"

\* A receipt is final, whatever it says.
ReceiptStatus(r) ==
    CASE run[r].kind = "failed" -> "failed"
      [] run[r].kind = "paused" \/ StopSeen(r) -> "paused"
      [] OTHER -> "success"

ReturnReceipt(r) ==
    /\ run[r].pc = "decide"
    /\ ~Continues(r)
    /\ ~Raised(r)
    /\ Return(r, ReceiptStatus(r))
    /\ UNCHANGED <<extStop, checkpoint>>

\* A retry that does not look at the stop event the deadline has set.
MayRetry_AfterStop(r) == run[r].attempt < MaxRetries + 1

\* An exception is retried with a fresh context unless a stop was requested
\* or the attempts are used up.
MayRetry(r) == ~StopSeen(r) /\ run[r].attempt < MaxRetries + 1

Retry(r) ==
    /\ run[r].pc = "decide"
    /\ Raised(r)
    /\ MayRetry(r)
    /\ run' = [run EXCEPT ![r].pc = "invoke", ![r].attempt = @ + 1, ![r].segment = 1,
                          ![r].lastProgress = None, ![r].stop = FALSE, ![r].budget = FALSE]
    /\ UNCHANGED <<lock, extStop, checkpoint>>

ReturnError(r) ==
    /\ run[r].pc = "decide"
    /\ Raised(r)
    /\ ~MayRetry(r)
    /\ Return(r, IF StopSeen(r) THEN "paused" ELSE "failed")
    /\ UNCHANGED <<extStop, checkpoint>>

-----------------------------------------------------------------------------
(* The caller and the operating system.                                    *)

\* The heartbeat thread of OperationalTaskService.start sets the stop event
\* once a pause or a cancel of the task is recorded.
RequestStop(r) ==
    /\ r \in Controlled
    /\ ~extStop[r]
    /\ extStop' = [extStop EXCEPT ![r] = TRUE]
    /\ UNCHANGED <<lock, run, checkpoint>>

\* The process of the run dies, or exits after it printed the result: its
\* threads end and the operating system closes the lock file.
ProcessEnds(r) ==
    /\ run[r].pc # "idle"
    /\ run[r].pc # "returned" \/ run[r].worker \in {"running", "releasing"}
    /\ lock' = LockAfterRelease(r)
    /\ run' = [run EXCEPT ![r].pc = "returned", ![r].worker = "gone",
                          ![r].status = IF run[r].pc = "returned" THEN @ ELSE "crashed"]
    /\ UNCHANGED <<extStop, checkpoint>>

MainStep(r) == \/ Acquire(r) \/ StartWorker(r) \/ SeeExternalStop(r) \/ SeeDone(r)
               \/ Drained(r) \/ Boundary(r) \/ NextSegment(r) \/ ReturnReceipt(r)
               \/ Retry(r) \/ ReturnError(r)

AnyHandlerEnds(r) ==
    \E kind \in Kinds \ {"none"}, saved \in 0..MaxCheckpoint, offers \in BOOLEAN :
        HandlerEnds(r, kind, saved, offers)

Next == \E r \in Runs :
            \/ MainStep(r) \/ Expire(r) \/ AnyHandlerEnds(r) \/ WorkerReleases(r)
            \/ RequestStop(r) \/ ProcessEnds(r)

Spec == Init /\ [][Next]_vars

(* Threads that can move do, deadlines pass, and a cooperative handler ends *)
(* once it is asked to stop.  Other handlers may hang.                      *)
Fairness == \A r \in Runs :
                /\ WF_vars(MainStep(r) /\ run[r].pc # "idle")
                /\ WF_vars(Expire(r))
                /\ WF_vars(WorkerReleases(r))
                /\ WF_vars(r \in Cooperative /\ StopSeen(r) /\ AnyHandlerEnds(r))

FairSpec == Spec /\ Fairness

-----------------------------------------------------------------------------
(* Properties.                                                             *)

\* Every variable keeps its type.
TypeOK == /\ lock \in Runs \cup {None}
          /\ run \in [Runs -> RunType]
          /\ extStop \in [Runs -> BOOLEAN]
          /\ checkpoint \in [Runs -> 0..MaxCheckpoint]

\* A handler runs only while its own run holds the lock file, so handlers of
\* two processes never overlap: not after a timeout was reported, not when it
\* finishes exactly at the deadline, not when a released run releases again.
HandlerHoldsLock == \A r \in Runs : run[r].worker = "running" => lock = r

\* A result other than a timeout is reported only after the handler has
\* ended: callers read the checkpoint and the receipt as final.
ReportedAfterHandler ==
    \A r \in Runs : run[r].status \in {"success", "failed", "paused"}
                        => run[r].worker \notin {"none", "running"}

\* A handler is started only when no earlier one, of this run or any other,
\* is still running: a timed-out attempt is never retried.
StartsAlone ==
    [][\A r \in Runs : StartWorker(r) => \A q \in Runs : run[q].worker # "running"]_vars

\* Every segment after the second recorded at least one more company: a
\* stalled checkpoint is not continued for ever.
SegmentsMakeProgress == \A r \in Runs : run[r].segment <= checkpoint[r] + 2

\* A run that took the lock returns, even when its handler hangs or its
\* checkpoint stalls.
RunReturns == \A r \in Runs : run[r].pc = "invoke" ~> run[r].pc = "returned"

\* The lock is free again and again unless some handler hangs for good.
LockComesFree == \A r \in Runs : []<>(lock # r) \/ <>[](run[r].worker = "running")
=============================================================================
