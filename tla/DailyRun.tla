------------------------------- MODULE DailyRun -------------------------------
(***************************************************************************)
(* The control plane of the daily task: a run registered for the           *)
(* background, the worker thread that takes it through the segments of the *)
(* scheduler, the heartbeat that looks for a pause or a cancellation, the  *)
(* task row that several of them write, resumption of a frozen scope by    *)
(* the run itself or by a later one, and the restart of the application.   *)
(*                                                                         *)
(* What a segment does to the scope (DailyPipeline) is one counter here,   *)
(* and the rules of the scheduler (Scheduler) appear as far as the control *)
(* requests meet them.  Each transaction on the task and control rows is a *)
(* step.                                                                   *)
(***************************************************************************)
EXTENDS Naturals

CONSTANTS
    MaxRuns,      \* bound on the runs registered; their ids are numbered as they come
    CrawlUnits,   \* bound: portions of work of a scope in its crawl ...
    ScoreUnits,   \* ... and in its matching stage
    MaxBoots,     \* bound on starts of the application
    Desktop,      \* is RECRUITOPS_DESKTOP_RUN_ID set, to another value at every start?
    None

Runs == 1..MaxRuns

ASSUME DailyRunAssumption ==
    /\ {MaxRuns, CrawlUnits, ScoreUnits, MaxBoots} \subseteq Nat \ {0}
    /\ Desktop \in BOOLEAN
    /\ None \notin Runs

VARIABLES
    task,      \* task_runs.status, "none" before the run is registered
    control,   \* the control row: request, drained, and the boot that registered it
    saved,     \* the frozen scope persisted with a run: its owner, modes and stage; or None
    done,      \* portions done of the scope each run froze
    worker,    \* the background thread of each run
    lock,      \* the run that holds the scheduler's lock, or None
    boot       \* the start of the application that is running

vars == <<task, control, saved, done, worker, lock, boot>>

Active == {"accepted", "running", "pausing", "cancelling"}
Recoverable == {"stopped", "paused", "failed"}

NoControl == [request |-> None, drained |-> FALSE, boot |-> 0]
NoWorker == [pc |-> "none", target |-> None, again |-> FALSE, stop |-> FALSE, budget |-> FALSE,
             frozen |-> None, original |-> "full", outcome |-> "none", offer |-> FALSE, gained |-> TRUE]

Returned(outcome) == [NoWorker EXCEPT !.pc = "returned", !.outcome = outcome]

Init == /\ task = [r \in Runs |-> "none"]
        /\ control = [r \in Runs |-> NoControl]
        /\ saved = [r \in Runs |-> None]
        /\ done = [r \in Runs |-> 0]
        /\ worker = [r \in Runs |-> NoWorker]
        /\ lock = None
        /\ boot = 1

Alive(r) == worker[r].pc # "none"
At(r, pc) == worker[r].pc = pc

\* Only the budget is looked at where work is started and ended.
StopSeen_Budget(r) == worker[r].budget

\* The context's stop event: the caller's, handed on, or the time budget.
StopSeen(r) == worker[r].stop \/ worker[r].budget

-----------------------------------------------------------------------------
(* Registration and the scheduler's lock.                                  *)

\* register_daily_task commits the receipts before the worker can run.
Register(r, target) ==
    /\ task[r] = "none" /\ \A q \in 1..(r - 1) : task[q] # "none"
    /\ target \in {None} \cup {t \in Runs : task[t] # "none"}
    /\ task' = [task EXCEPT ![r] = "accepted"]
    /\ control' = [control EXCEPT ![r].boot = boot]
    /\ worker' = [worker EXCEPT ![r] = [NoWorker EXCEPT !.pc = "accepted", !.target = target]]
    /\ UNCHANGED <<saved, done, lock, boot>>

\* A lock file of its own for every run.
LockFree_PerRun(r) == lock # r

LockFree(r) == lock = None

Acquire(r) ==
    /\ At(r, "accepted")
    /\ IF LockFree(r)
         THEN lock' = r /\ worker' = [worker EXCEPT ![r].pc = "segment"]
         ELSE lock' = lock /\ worker' = [worker EXCEPT ![r] = Returned("skipped_locked")]
    /\ UNCHANGED <<task, control, saved, done, boot>>

-----------------------------------------------------------------------------
(* One segment of the handler.                                             *)

Unhindered(r) == control[r].request = None /\ ~StopSeen(r)

\* From the second segment on the handler asks for the user's intent itself.
Recheck(r) ==
    /\ At(r, "segment")
    /\ worker' = [worker EXCEPT ![r] =
                    IF ~@.again \/ Unhindered(r) THEN [@ EXCEPT !.pc = "checked"]
                    ELSE [@ EXCEPT !.pc = "decide", !.outcome = "paused"]]
    /\ UNCHANGED <<task, control, saved, done, lock, boot>>

\* _load_frozen_resume: a scope was frozen, and the run is not shown as cancelled.
Resumable(t) == saved[t] # None /\ task[t] \notin {"cancelled", "cancelling"}

\* The mode in effect last time is taken for the mode that was asked for.
LoadedFrom(t) ==
    LET requested == saved[t].effective
    IN  [owner |-> saved[t].owner, original |-> requested, stage |-> saved[t].stage,
         effective |-> IF saved[t].stage = "matching" THEN "score_only" ELSE requested]

BeginSegment(r) ==
    /\ At(r, "checked")
    /\ LET t == worker[r].target
       IN  worker' = [worker EXCEPT ![r] =
               IF t = None THEN [@ EXCEPT !.pc = "loaded"]
               ELSE IF Resumable(t)
                 THEN [@ EXCEPT !.pc = "loaded", !.target = None, !.frozen = LoadedFrom(t),
                                !.original = LoadedFrom(t).original]
               ELSE [@ EXCEPT !.pc = "decide", !.outcome = "raised"]]
    /\ UNCHANGED <<task, control, saved, done, lock, boot>>

\* build_daily_sync persists the scope it was given; the sync then reports that
\* it runs, as does every stage after it.
StartSync(r) ==
    /\ At(r, "loaded")
    /\ saved' = [saved EXCEPT ![r] = IF worker[r].frozen = None THEN @ ELSE worker[r].frozen]
    /\ task' = [task EXCEPT ![r] = "running"]
    /\ worker' = [worker EXCEPT ![r].pc = "open", ![r].frozen = None]
    /\ UNCHANGED <<control, done, lock, boot>>

\* The crawl stage begins.  A first run freezes its scope in it unless it has to
\* stop, or in the discovery before it whatever it has been asked.
EnterCrawl(r) ==
    /\ At(r, "open")
    /\ task' = [task EXCEPT ![r] = "running"]
    /\ \/ /\ saved[r] = None
          /\ saved' = [saved EXCEPT ![r] =
                [owner |-> r, original |-> "full", effective |-> "full", stage |-> "crawl"]]
       \/ /\ saved[r] # None \/ StopSeen(r)
          /\ UNCHANGED saved
    /\ worker' = [worker EXCEPT ![r].pc = "work"]
    /\ UNCHANGED <<control, done, lock, boot>>

\* A portion of the crawl or of the scoring is started unless a stop has been seen ...
StartPortion(r) ==
    /\ At(r, "work") /\ ~StopSeen(r)
    /\ saved[r] # None
    /\ LET s == saved[r]
       IN  done[s.owner] < IF s.stage = "crawl" THEN CrawlUnits ELSE CrawlUnits + ScoreUnits
    /\ worker' = [worker EXCEPT ![r].pc = "busy"]
    /\ UNCHANGED <<task, control, saved, done, lock, boot>>

\* ... and waited for, whatever is asked meanwhile; it may have to be tried again,
\* any number of times.
CollectPortion(r) ==
    /\ At(r, "busy")
    /\ \/ /\ done' = [done EXCEPT ![saved[r].owner] = @ + 1]
          /\ worker' = [worker EXCEPT ![r].pc = "work", ![r].gained = TRUE]
       \/ /\ worker' = [worker EXCEPT ![r].pc = "work"]
          /\ UNCHANGED done
    /\ UNCHANGED <<task, control, saved, lock, boot>>

\* score_existing persists its stage before it reads the plan.
EnterMatching(r) ==
    /\ At(r, "work")
    /\ saved[r] # None /\ saved[r].stage = "crawl" /\ done[saved[r].owner] = CrawlUnits
    /\ saved' = [saved EXCEPT ![r].stage = "matching"]
    /\ UNCHANGED <<task, control, done, worker, lock, boot>>

\* The stage ends and says so, whatever the row said before.
EndStage(r, outcome) ==
    /\ At(r, "work")
    /\ outcome = "success" =>
          /\ saved[r] # None /\ saved[r].stage = "matching"
          /\ done[saved[r].owner] = CrawlUnits + ScoreUnits
    /\ task' = [task EXCEPT ![r] = "running"]
    /\ worker' = [worker EXCEPT ![r].pc = "closing", ![r].outcome = outcome]
    /\ UNCHANGED <<control, saved, done, lock, boot>>

\* A stop that has been seen is obeyed when no portion is at hand.
Stop(r) == StopSeen(r) /\ EndStage(r, "paused")

\* The last write of DailyRecruitmentSync.run.
EndSync(r) ==
    /\ At(r, "closing")
    /\ task' = [task EXCEPT ![r] = CASE worker[r].outcome = "paused" -> "stopped"
                                     [] worker[r].outcome = "failed" -> "failed"
                                     [] worker[r].outcome = "success" -> "succeeded"]
    /\ worker' = [worker EXCEPT ![r].pc = "ended"]
    /\ UNCHANGED <<control, saved, done, lock, boot>>

\* A paused full run whose budget ran out offers to continue, and the offer is
\* good if its progress is not that of the segment before: what it has saved, or
\* only what it showed last.  (Its own row is checked as any other resumption would.)
Offer(r) ==
    /\ At(r, "ended")
    /\ LET w == worker[r]
           paused == w.budget /\ w.outcome = "paused" /\ w.original = "full"
       IN  \E shown \in BOOLEAN :
             worker' = [worker EXCEPT ![r].pc = "decide",
                ![r].offer = paused /\ Resumable(r) /\ (w.gained \/ shown)]
    /\ UNCHANGED <<task, control, saved, done, lock, boot>>

Goes(r) == worker[r].offer /\ ~worker[r].stop

\* The scheduler: another segment, with events of its own ...
Continue(r) ==
    /\ At(r, "decide") /\ Goes(r)
    /\ worker' = [worker EXCEPT ![r] =
          [@ EXCEPT !.pc = "segment", !.again = TRUE, !.target = r, !.budget = FALSE,
                    !.offer = FALSE, !.gained = FALSE, !.outcome = "none"]]
    /\ UNCHANGED <<task, control, saved, done, lock, boot>>

\* ... or the result, once the lock is back.  A stop makes a success or an
\* exception a pause.
Result(r) ==
    LET w == worker[r]
    IN  CASE w.outcome = "failed" -> "failed"
          [] w.outcome # "failed" /\ StopSeen(r) -> "paused"
          [] OTHER -> IF w.outcome = "raised" THEN "failed" ELSE w.outcome

Return(r) ==
    /\ At(r, "decide") /\ ~Goes(r)
    /\ worker' = [worker EXCEPT ![r] = Returned(Result(r))]
    /\ lock' = None
    /\ UNCHANGED <<task, control, saved, done, boot>>

\* finish_daily_task confirms what was requested, or the result.
Final(r) == CASE control[r].request = "cancel" -> "cancelled"
              [] control[r].request = "pause" -> "paused"
              [] OTHER -> worker[r].outcome

Finish(r) ==
    /\ At(r, "returned")
    /\ task' = [task EXCEPT ![r] = Final(r)]
    /\ control' = [control EXCEPT ![r].drained = TRUE]
    /\ worker' = [worker EXCEPT ![r] = NoWorker]
    /\ UNCHANGED <<saved, done, lock, boot>>

-----------------------------------------------------------------------------
(* What goes on beside the worker.                                         *)

\* The heartbeat lasts as long as the handler, whatever the row says.
HeartbeatLooks(r) == worker[r].pc \notin {"none", "returned"}

Heartbeat(r) ==
    /\ HeartbeatLooks(r)
    /\ control[r].request # None /\ ~worker[r].stop
    /\ worker' = [worker EXCEPT ![r].stop = TRUE]
    /\ UNCHANGED <<task, control, saved, done, lock, boot>>

\* The segment's six hours are over while its handler still runs; a caller's stop
\* is seen first.
Expire(r) ==
    /\ worker[r].pc \in {"segment", "checked", "loaded", "open", "work", "busy", "closing", "ended"}
    /\ ~StopSeen(r)
    /\ worker' = [worker EXCEPT ![r].budget = TRUE]
    /\ UNCHANGED <<task, control, saved, done, lock, boot>>

\* Without a desktop no run is taken for an interrupted one.
Interrupted(r) == Desktop /\ control[r].boot # boot

CanCancel(r) == task[r] \in Recoverable \/ (Interrupted(r) /\ task[r] \in Active)

\* Whatever stands still can be cancelled at once.
CancelsAtOnce_Stopped(r) == CanCancel(r)

\* No live owner remains: the continuation is cancelled at once.
CancelsAtOnce(r) == CanCancel(r) /\ (Interrupted(r) \/ control[r].drained)

\* A worker of this start that may still be draining confirms the cancellation.
CancelsLater(r) == CanCancel(r) /\ ~CancelsAtOnce(r)

\* The request is taken as it comes.
Granted_Latest(r, action) == action

\* Cancellation cannot be weakened back to pause.
Granted(r, action) == IF control[r].request = "cancel" THEN "cancel" ELSE action

\* A finished run may be asked to stop, too.
Running_Drained(r) == task[r] \in Active \cup {"success", "succeeded"} /\ ~Interrupted(r)

Running(r) == task[r] \in Active /\ ~control[r].drained /\ ~Interrupted(r)

\* request_daily_control.  Other cases are refused and change nothing.
Request(r, action) ==
    /\ task[r] # "none"
    /\ ~(task[r] = "cancelled" /\ action = "cancel")
    /\ \/ /\ action = "cancel" /\ CancelsAtOnce(r)
          /\ control' = [control EXCEPT ![r].request = "cancel", ![r].drained = TRUE]
          /\ task' = [task EXCEPT ![r] = "cancelled"]
       \/ /\ action = "cancel" /\ CancelsLater(r)
          /\ control' = [control EXCEPT ![r].request = "cancel"]
          /\ task' = [task EXCEPT ![r] = "cancelling"]
       \/ /\ ~(action = "cancel" /\ CanCancel(r))
          /\ Running(r)
          /\ LET granted == Granted(r, action)
             IN  /\ control' = [control EXCEPT ![r].request = granted]
                 /\ task' = [task EXCEPT ![r] = IF granted = "pause" THEN "pausing" ELSE "cancelling"]
    /\ UNCHANGED <<saved, done, worker, lock, boot>>

\* The application starts anew: its threads and its lock are gone, and what was
\* running is marked as stopped (recover_interrupted_task_runs).
Restart ==
    /\ boot < MaxBoots
    /\ boot' = boot + 1
    /\ worker' = [r \in Runs |-> NoWorker]
    /\ lock' = None
    /\ task' = [r \in Runs |-> IF task[r] = "running" THEN "stopped" ELSE task[r]]
    /\ UNCHANGED <<control, saved, done>>

Step(r) ==
    \/ Acquire(r)
    \/ Recheck(r) \/ BeginSegment(r) \/ StartSync(r) \/ EnterCrawl(r)
    \/ StartPortion(r) \/ CollectPortion(r) \/ EnterMatching(r) \/ Stop(r) \/ EndStage(r, "success")
    \/ EndSync(r) \/ Offer(r)
    \/ Continue(r) \/ Return(r) \/ Finish(r)

Next ==
    \/ \E r \in Runs :
          \/ \E target \in Runs \cup {None} : Register(r, target)
          \/ Step(r)
          \/ EndStage(r, "paused") \/ EndStage(r, "failed")
          \/ Heartbeat(r) \/ Expire(r)
          \/ \E action \in {"pause", "cancel"} : Request(r, action)
    \/ Restart

Spec == Init /\ [][Next]_vars

\* The worker thread and its heartbeat run on; nobody need ask for anything.
Fairness == \A r \in Runs : WF_vars(Step(r)) /\ WF_vars(Heartbeat(r))

FairSpec == Spec /\ Fairness

-----------------------------------------------------------------------------
(* Properties.                                                             *)

\* What is shown as cancelled has nobody working for it any more, and no request
\* made later is answered with a promise nobody keeps: a drained run is never
\* left pausing or cancelling.
CancelledIsQuiet ==
    \A r \in Runs :
       /\ task[r] = "cancelled" => ~Alive(r)
       /\ control[r].drained => ~Alive(r) /\ task[r] \notin {"pausing", "cancelling"}

\* A granted cancellation is not withdrawn, and what has been settled - cancelled,
\* or finished with success - is not reopened by requests, restarts or other runs.
SettledStaysSettled ==
    [][\A r \in Runs :
          /\ control[r].request = "cancel" => control'[r].request = "cancel"
          /\ control[r].drained /\ task[r] \in {"cancelled", "success"} => task'[r] = task[r]]_vars

\* A frozen scope and its checkpoint have one worker at a time, whichever runs
\* resume it and however they are stopped.
OneWorkerPerScope ==
    \A q, r \in Runs :
       /\ q # r /\ {worker[q].pc, worker[r].pc} \subseteq {"open", "work", "busy"}
       => saved[q] = None \/ saved[r] = None \/ saved[q].owner # saved[r].owner

\* A pause or a cancellation granted to a live run ends it, whatever segment it
\* is in and whatever else is written to its row.  Nothing else need end it: its
\* portions may be tried again and its segments follow each other for ever.
RequestsEndTheRun ==
    \A r \in Runs : (control[r].request # None /\ Alive(r)) ~> ~Alive(r)

\* "A cancellation must not become a resume": no scope is taken up again from a
\* run whose cancellation was granted.
CancelIsNoResume ==
    [][\A r \in Runs :
          At(r, "checked") /\ worker'[r].pc = "loaded" /\ worker[r].target # None
             => control[worker[r].target].request # "cancel"]_vars
===============================================================================
