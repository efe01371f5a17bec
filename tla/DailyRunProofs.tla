---------------------------- MODULE DailyRunProofs ----------------------------
(***************************************************************************)
(* The control plane of the daily task, for any number of runs, segments,  *)
(* portions of work and starts of the application: a cancelled or drained  *)
(* run has no worker, a settled run stays settled, and a frozen scope has  *)
(* one worker at a time.                                                   *)
(***************************************************************************)
EXTENDS DailyRun, TLAPS

-----------------------------------------------------------------------------
(* The inductive invariant.                                                *)

\* Where a worker may stand while it holds the scheduler's lock.
Holding == {"segment", "checked", "loaded", "open", "work", "busy", "closing", "ended", "decide"}

Endings == {"paused", "failed", "success"}
Modes == {"full", "score_only"}
Scope == [owner: Runs, original: Modes, effective: Modes, stage: {"crawl", "matching"}]
Control == [request: {None, "pause", "cancel"}, drained: BOOLEAN, boot: Nat]
Worker == [pc: Holding \cup {"none", "accepted", "returned"}, target: Runs \cup {None},
           again: BOOLEAN, stop: BOOLEAN, budget: BOOLEAN, frozen: Scope \cup {None},
           original: Modes, outcome: Endings \cup {"none", "raised", "skipped_locked"},
           offer: BOOLEAN, gained: BOOLEAN]
Status == Active \cup Recoverable
            \cup {"none", "cancelled", "succeeded", "success", "skipped_locked"}

TypeOK ==
    /\ task \in [Runs -> Status]
    /\ control \in [Runs -> Control]
    /\ saved \in [Runs -> Scope \cup {None}]
    /\ done \in [Runs -> Nat]
    /\ worker \in [Runs -> Worker]
    /\ boot \in Nat

\* What a run has to report at each point, and that it works under the lock.
ProgressAt(r) ==
    /\ worker[r].pc \in Holding => lock = r
    /\ worker[r].pc \in {"closing", "ended"} => worker[r].outcome \in Endings
    /\ At(r, "decide") => worker[r].outcome \in Endings \cup {"raised"}
    /\ At(r, "returned") => worker[r].outcome \in Endings \cup {"skipped_locked"}

\* A worker belongs to a run that was registered by this start of the application
\* and has not been drained.  What is cancelled or drained has none.
QuietAt(r) ==
    /\ task[r] = "none" => ~Alive(r) /\ ~control[r].drained
    /\ Alive(r) => control[r].boot = boot /\ ~control[r].drained
    /\ task[r] = "cancelled" => ~Alive(r)
    /\ control[r].drained => task[r] \notin {"pausing", "cancelling"}

RunInv == \A r \in Runs : ProgressAt(r) /\ QuietAt(r)

IInv == TypeOK /\ RunInv

-----------------------------------------------------------------------------
(* The invariant holds at first and is kept by every step.                 *)

\* The first state satisfies the inductive invariant.
LEMMA InitIInv == Init => IInv
  BY DailyRunAssumption
  DEF Init, IInv, TypeOK, RunInv, ProgressAt, QuietAt, NoControl, NoWorker, Control, Worker, Modes,
      Status, Holding, At, Alive

\* What a segment leaves of a run is a worker again, with what the run reported.
LEMMA ReturnedIsTyped ==
  ASSUME NEW outcome \in Endings \cup {"raised", "skipped_locked"}
  PROVE  /\ Returned(outcome) \in Worker
         /\ Returned(outcome).pc = "returned"
         /\ Returned(outcome).outcome = outcome
  BY DEF Returned, NoWorker, Worker, Modes

\* A step that only the worker of run r takes, within the lock it holds: what it
\* must establish for the invariant.
LEMMA WorkerStep ==
  ASSUME IInv, NEW r \in Runs, Alive(r), NEW w \in Worker, NEW status \in Status,
         w.pc \in Holding => lock = r,
         w.pc \in {"closing", "ended"} => w.outcome \in Endings,
         w.pc = "decide" => w.outcome \in Endings \cup {"raised"},
         w.pc = "returned" => w.outcome \in Endings \cup {"skipped_locked"},
         status \notin {"none", "cancelled"} \/ status = task[r],
         task' = [task EXCEPT ![r] = status],
         worker' = [worker EXCEPT ![r] = w],
         UNCHANGED <<control, lock, boot>>
  PROVE  worker' \in [Runs -> Worker] /\ task' \in [Runs -> Status] /\ RunInv'
<1>1. worker' \in [Runs -> Worker] /\ task' \in [Runs -> Status]
  BY DEF IInv, TypeOK
<1>2. ASSUME NEW q \in Runs, q # r  PROVE  (ProgressAt(q) /\ QuietAt(q))'
  BY <1>2 DEF IInv, TypeOK, RunInv, ProgressAt, QuietAt, At, Alive
<1>3. ProgressAt(r)'
  BY DEF IInv, TypeOK, ProgressAt, At
<1>4. QuietAt(r)'
  BY DEF IInv, TypeOK, RunInv, QuietAt, Alive
<1> QED  BY <1>1, <1>2, <1>3, <1>4 DEF RunInv

\* The steps of a worker that are only moves within a segment.
LEMMA MovesKeepIInv ==
  ASSUME IInv, NEW r \in Runs,
         \/ Recheck(r) \/ BeginSegment(r) \/ Offer(r) \/ Continue(r) \/ Heartbeat(r) \/ Expire(r)
  PROVE  IInv'
<1> DEFINE w == worker'[r]
<1>0. /\ worker[r] \in Worker /\ lock' = lock /\ boot' = boot /\ control' = control
      /\ saved' = saved /\ done' = done /\ task' = task
      /\ task[r] \in Status /\ task' = [task EXCEPT ![r] = task[r]]
  BY DEF IInv, TypeOK, Recheck, BeginSegment, Offer, Continue, Heartbeat, Expire
<1>1. ProgressAt(r)
  BY DEF IInv, RunInv
<1> DEFINE Moved ==
      /\ Alive(r) /\ w \in Worker
      /\ worker' = [worker EXCEPT ![r] = w]
      /\ w.pc \in Holding => lock = r
      /\ w.pc \in {"closing", "ended"} => w.outcome \in Endings
      /\ w.pc = "decide" => w.outcome \in Endings \cup {"raised"}
      /\ w.pc = "returned" => w.outcome \in Endings \cup {"skipped_locked"}
<1>2. CASE Recheck(r)
  <2>1. Moved
    BY <1>0, <1>1, <1>2 DEF IInv, TypeOK, Recheck, ProgressAt, At, Alive, Worker, Holding, Endings
  <2> QED  BY <1>0, <2>1, WorkerStep DEF IInv, TypeOK
<1>3. CASE BeginSegment(r)
  <2>1. ASSUME NEW t \in Runs, saved[t] # None
        PROVE  LoadedFrom(t) \in Scope /\ LoadedFrom(t).original \in Modes
    BY <2>1 DEF IInv, TypeOK, LoadedFrom, Scope, Modes
  <2>2. Moved
    BY <1>0, <1>1, <1>3, <2>1
    DEF IInv, TypeOK, BeginSegment, Resumable, ProgressAt, At, Alive, Worker, Holding, Endings
  <2> QED  BY <1>0, <2>2, WorkerStep DEF IInv, TypeOK
<1>4. CASE Offer(r)
  <2>1. PICK offer \in BOOLEAN :
             worker' = [worker EXCEPT ![r].pc = "decide", ![r].offer = offer]
    BY <1>4, Zenon DEF Offer
  <2>2. Moved
    BY <1>0, <1>1, <1>4, <2>1
    DEF IInv, TypeOK, Offer, ProgressAt, At, Alive, Worker, Holding, Endings
  <2> QED  BY <1>0, <2>2, WorkerStep DEF IInv, TypeOK
<1>5. CASE Continue(r)
  <2>1. Moved
    BY <1>0, <1>1, <1>5 DEF IInv, TypeOK, Continue, ProgressAt, At, Alive, Worker, Holding, Endings
  <2> QED  BY <1>0, <2>1, WorkerStep DEF IInv, TypeOK
<1>6. CASE Heartbeat(r)
  <2>1. Moved
    BY <1>0, <1>1, <1>6
    DEF IInv, TypeOK, Heartbeat, HeartbeatLooks, ProgressAt, At, Alive, Worker, Holding, Endings
  <2> QED  BY <1>0, <2>1, WorkerStep DEF IInv, TypeOK
<1>7. CASE Expire(r)
  <2>1. Moved
    BY <1>0, <1>1, <1>7 DEF IInv, TypeOK, Expire, ProgressAt, At, Alive, Worker, Holding, Endings
  <2> QED  BY <1>0, <2>1, WorkerStep DEF IInv, TypeOK
<1> QED  BY <1>2, <1>3, <1>4, <1>5, <1>6, <1>7

\* The steps of a segment that write to the row of the run or to its scope.
LEMMA StagesKeepIInv ==
  ASSUME IInv, NEW r \in Runs,
         \/ StartSync(r) \/ EnterCrawl(r) \/ StartPortion(r) \/ CollectPortion(r)
         \/ EnterMatching(r) \/ EndSync(r) \/ \E outcome \in Endings : EndStage(r, outcome)
  PROVE  IInv'
<1> DEFINE w == worker'[r]
           status == task'[r]
<1>0. /\ worker[r] \in Worker /\ lock' = lock /\ boot' = boot /\ control' = control
      /\ task[r] \in Status /\ {"running", "stopped", "failed", "succeeded"} \subseteq Status
  BY DEF IInv, TypeOK, StartSync, EnterCrawl, StartPortion, CollectPortion, EnterMatching, EndSync,
         EndStage, Status, Active, Recoverable
<1>1. ProgressAt(r)
  BY DEF IInv, RunInv
<1> DEFINE Moved ==
      /\ Alive(r) /\ w \in Worker /\ worker' = [worker EXCEPT ![r] = w]
      /\ status \in Status /\ task' = [task EXCEPT ![r] = status]
      /\ status \notin {"none", "cancelled"} \/ status = task[r]
      /\ w.pc \in Holding => lock = r
      /\ w.pc \in {"closing", "ended"} => w.outcome \in Endings
      /\ w.pc = "decide" => w.outcome \in Endings \cup {"raised"}
      /\ w.pc = "returned" => w.outcome \in Endings \cup {"skipped_locked"}
           Kept == saved' \in [Runs -> Scope \cup {None}] /\ done' \in [Runs -> Nat]
<1>2. Moved /\ Kept => IInv'
  BY <1>0, WorkerStep DEF IInv, TypeOK
<1>3. CASE StartSync(r)
  <2>1. Moved
    BY <1>0, <1>1, <1>3 DEF IInv, TypeOK, StartSync, ProgressAt, At, Alive, Worker, Holding
  <2>2. Kept
    BY <1>0, <1>3 DEF IInv, TypeOK, StartSync, Worker
  <2> QED  BY <1>2, <2>1, <2>2
<1>4. CASE EnterCrawl(r)
  <2>1. Moved
    BY <1>0, <1>1, <1>4 DEF IInv, TypeOK, EnterCrawl, ProgressAt, At, Alive, Worker, Holding
  <2>2. Kept
    BY <1>4 DEF IInv, TypeOK, EnterCrawl, Scope, Modes
  <2> QED  BY <1>2, <2>1, <2>2
<1>5. CASE StartPortion(r)
  <2>1. Moved
    BY <1>0, <1>1, <1>5 DEF IInv, TypeOK, StartPortion, ProgressAt, At, Alive, Worker, Holding
  <2>2. Kept
    BY <1>5 DEF IInv, TypeOK, StartPortion
  <2> QED  BY <1>2, <2>1, <2>2
<1>6. CASE CollectPortion(r)
  <2>1. Moved
    BY <1>0, <1>1, <1>6 DEF IInv, TypeOK, CollectPortion, ProgressAt, At, Alive, Worker, Holding
  <2>2. Kept
    BY <1>6 DEF IInv, TypeOK, CollectPortion
  <2> QED  BY <1>2, <2>1, <2>2
<1>7. CASE EnterMatching(r)
  <2>1. Moved
    BY <1>0, <1>1, <1>7 DEF IInv, TypeOK, EnterMatching, ProgressAt, At, Alive, Worker, Holding
  <2>2. Kept
    BY <1>7 DEF IInv, TypeOK, EnterMatching, Scope
  <2> QED  BY <1>2, <2>1, <2>2
<1>8. CASE EndSync(r)
  <2>1. Moved
    BY <1>0, <1>1, <1>8 DEF IInv, TypeOK, EndSync, ProgressAt, At, Alive, Worker, Holding, Endings
  <2>2. Kept
    BY <1>8 DEF IInv, TypeOK, EndSync
  <2> QED  BY <1>2, <2>1, <2>2
<1>9. ASSUME NEW outcome \in Endings, EndStage(r, outcome)  PROVE IInv'
  <2>1. Moved
    BY <1>0, <1>1, <1>9 DEF IInv, TypeOK, EndStage, ProgressAt, At, Alive, Worker, Holding
  <2>2. Kept
    BY <1>9 DEF IInv, TypeOK, EndStage
  <2> QED  BY <1>2, <2>1, <2>2
<1> QED  BY <1>3, <1>4, <1>5, <1>6, <1>7, <1>8, <1>9

\* Registration, and the steps in which a worker takes or returns the lock or ends.
LEMMA EndsKeepIInv ==
  ASSUME IInv, NEW r \in Runs,
         \/ \E target \in Runs \cup {None} : Register(r, target)
         \/ Acquire(r) \/ Return(r) \/ Finish(r)
  PROVE  IInv'
<1>0. worker[r] \in Worker /\ control[r] \in Control
  BY DEF IInv, TypeOK
<1>1. ASSUME NEW target \in Runs \cup {None}, Register(r, target)  PROVE IInv'
  <2>1. TypeOK'
    BY <1>0, <1>1 DEF IInv, TypeOK, Register, NoWorker, Worker, Modes, Control, Status, Active, Holding
  <2>2. ASSUME NEW q \in Runs  PROVE (ProgressAt(q) /\ QuietAt(q))'
    BY <1>0, <1>1, <2>2
    DEF IInv, TypeOK, RunInv, Register, NoWorker, ProgressAt, QuietAt, At, Alive, Holding, Control
  <2> QED  BY <2>1, <2>2 DEF IInv, RunInv
<1>2. CASE Acquire(r)
  <2>1. TypeOK'
    BY <1>0, <1>2, ReturnedIsTyped DEF IInv, TypeOK, Acquire, Worker, Holding
  <2>2. lock' = lock \/ (lock = None /\ lock' = r)
    BY <1>2 DEF Acquire, LockFree
  <2>3. ASSUME NEW q \in Runs, q # r  PROVE (ProgressAt(q) /\ QuietAt(q))'
    BY <1>2, <2>2, <2>3, DailyRunAssumption
    DEF IInv, TypeOK, RunInv, Acquire, ProgressAt, QuietAt, At, Alive
  <2>4. (ProgressAt(r) /\ QuietAt(r))'
    <3>1. CASE LockFree(r)
      BY <1>0, <1>2, <3>1
      DEF IInv, TypeOK, RunInv, Acquire, ProgressAt, QuietAt, At, Alive, Worker, Holding
    <3>2. CASE ~LockFree(r)
      BY <1>0, <1>2, <3>2, ReturnedIsTyped
      DEF IInv, TypeOK, RunInv, Acquire, ProgressAt, QuietAt, At, Alive, Holding
    <3> QED  BY <3>1, <3>2
  <2> QED  BY <2>1, <2>3, <2>4 DEF IInv, RunInv
<1>3. CASE Return(r)
  <2>0. Result(r) \in Endings
    BY <1>0, <1>3 DEF IInv, RunInv, Return, ProgressAt, At, Result, Endings
  <2>1. TypeOK'
    BY <1>3, <2>0, ReturnedIsTyped DEF IInv, TypeOK, Return
  <2>2. ASSUME NEW q \in Runs, q # r  PROVE (ProgressAt(q) /\ QuietAt(q))'
    BY <1>3, <2>2 DEF IInv, TypeOK, RunInv, Return, ProgressAt, QuietAt, At, Alive, Holding
  <2>3. (ProgressAt(r) /\ QuietAt(r))'
    BY <1>3, <2>0, ReturnedIsTyped
    DEF IInv, TypeOK, RunInv, Return, ProgressAt, QuietAt, At, Alive, Holding
  <2> QED  BY <2>1, <2>2, <2>3 DEF IInv, RunInv
<1>4. CASE Finish(r)
  <2>0. Final(r) \in Endings \cup {"cancelled", "skipped_locked"}
    BY <1>4 DEF IInv, RunInv, Finish, ProgressAt, At, Final, Endings
  <2>1. TypeOK'
    BY <1>0, <1>4, <2>0
    DEF IInv, TypeOK, Finish, NoWorker, Worker, Modes, Control, Status, Recoverable, Endings
  <2>2. ASSUME NEW q \in Runs, q # r  PROVE (ProgressAt(q) /\ QuietAt(q))'
    BY <1>4, <2>2 DEF IInv, TypeOK, RunInv, Finish, ProgressAt, QuietAt, At, Alive
  <2>3. (ProgressAt(r) /\ QuietAt(r))'
    BY <1>0, <1>4, <2>0
    DEF IInv, TypeOK, RunInv, Finish, NoWorker, ProgressAt, QuietAt, At, Alive, Holding, Control,
        Endings
  <2> QED  BY <2>1, <2>2, <2>3 DEF IInv, RunInv
<1> QED  BY <1>1, <1>2, <1>3, <1>4

\* A request for a pause or a cancellation.  A drained run is cancelled at once or
\* not at all, and a run of this start that works is never cancelled at once.
LEMMA RequestKeepsIInv ==
  ASSUME IInv, NEW r \in Runs, NEW action \in {"pause", "cancel"}, Request(r, action)
  PROVE  IInv'
<1>0. control[r] \in Control /\ Granted(r, action) \in {"pause", "cancel"}
  BY DEF IInv, TypeOK, Granted
<1>1. PICK request \in {"pause", "cancel"}, drained \in BOOLEAN,
           status \in {"cancelled", "cancelling", "pausing"} :
         /\ control' = [control EXCEPT ![r].request = request, ![r].drained = drained]
         /\ task' = [task EXCEPT ![r] = status]
         /\ \/ status = "cancelled" /\ drained /\ (Interrupted(r) \/ control[r].drained)
            \/ status # "cancelled" /\ drained = control[r].drained /\ ~control[r].drained
  BY <1>0 DEF IInv, TypeOK, Request, CancelsAtOnce, CancelsLater, Running, Control
<1>2. TypeOK'
  BY <1>0, <1>1 DEF IInv, TypeOK, Request, Control, Status, Active
<1>3. ASSUME NEW q \in Runs, q # r  PROVE (ProgressAt(q) /\ QuietAt(q))'
  BY <1>1, <1>3 DEF IInv, TypeOK, RunInv, Request, ProgressAt, QuietAt, At, Alive
<1>4. (ProgressAt(r) /\ QuietAt(r))'
  BY <1>0, <1>1
  DEF IInv, TypeOK, RunInv, Request, ProgressAt, QuietAt, At, Alive, Interrupted, Control
<1> QED  BY <1>2, <1>3, <1>4 DEF IInv, RunInv

\* The application starts anew.
LEMMA RestartKeepsIInv ==
  ASSUME IInv, Restart
  PROVE  IInv'
<1>1. NoWorker \in Worker /\ NoWorker.pc = "none"
  BY DEF NoWorker, Worker, Modes
<1>2. TypeOK'
  BY <1>1 DEF IInv, TypeOK, Restart, Status, Recoverable
<1>3. ASSUME NEW q \in Runs  PROVE (ProgressAt(q) /\ QuietAt(q))'
  BY <1>1 DEF IInv, TypeOK, RunInv, Restart, ProgressAt, QuietAt, At, Alive, Holding
<1> QED  BY <1>2, <1>3 DEF IInv, RunInv

\* Every step keeps the inductive invariant.
LEMMA NextIInv == IInv /\ [Next]_vars => IInv'
<1> SUFFICES ASSUME IInv, [Next]_vars PROVE IInv'
  OBVIOUS
<1>1. ASSUME NEW r \in Runs, Step(r)  PROVE IInv'
  BY <1>1, MovesKeepIInv, StagesKeepIInv, EndsKeepIInv DEF Step, Stop, Endings
<1>2. ASSUME NEW r \in Runs, EndStage(r, "paused") \/ EndStage(r, "failed")  PROVE IInv'
  BY <1>2, StagesKeepIInv DEF Endings
<1>3. CASE UNCHANGED vars
  BY <1>3 DEF vars, IInv, TypeOK, RunInv, ProgressAt, QuietAt, At, Alive
<1> QED
  BY <1>1, <1>2, <1>3, MovesKeepIInv, EndsKeepIInv, RequestKeepsIInv, RestartKeepsIInv DEF Next

-----------------------------------------------------------------------------
(* The theorems.                                                           *)

\* The control plane keeps its inductive invariant, whatever the bounds.
THEOREM ControlInvariant == Spec => []IInv
<1> QED  BY InitIInv, NextIInv, PTL DEF Spec

\* What is shown as cancelled, and what has been drained, has no worker: a
\* cancellation given at once never meets a thread that goes on with the scope,
\* and no drained run is promised a pause or a cancellation.
THEOREM CancelledRunsAreQuiet == Spec => []CancelledIsQuiet
<1>1. IInv => CancelledIsQuiet
  BY DEF IInv, RunInv, QuietAt, CancelledIsQuiet
<1> QED  BY <1>1, ControlInvariant, PTL

\* Two workers are never inside the crawl or the matching of the same frozen scope:
\* both would hold the scheduler's lock.
THEOREM ScopesHaveOneWorker == Spec => []OneWorkerPerScope
<1>1. IInv => OneWorkerPerScope
  BY DEF IInv, RunInv, ProgressAt, OneWorkerPerScope, Holding
<1> QED  BY <1>1, ControlInvariant, PTL

\* One step of the control rows, read off the actions: a cancellation stays
\* requested, and only a live worker or a request to a run that may still be
\* stopped writes to a drained row.
LEMMA StepKeepsSettled ==
  ASSUME IInv, Next, NEW r \in Runs
  PROVE  /\ control[r].request = "cancel" => control'[r].request = "cancel"
         /\ control[r].drained /\ task[r] \in {"cancelled", "success"} => task'[r] = task[r]
<1>0. control \in [Runs -> Control] /\ task \in [Runs -> Status]
  BY DEF IInv, TypeOK
<1>1. control[r].drained => ~Alive(r) /\ task[r] # "none"
  BY DEF IInv, RunInv, QuietAt
<1>2. ASSUME NEW q \in Runs, NEW target \in Runs \cup {None}, Register(q, target)
      PROVE  control'[r].request = control[r].request /\ (control[r].drained => task'[r] = task[r])
  BY <1>0, <1>1, <1>2 DEF Register, Control
<1>3. ASSUME NEW q \in Runs, Alive(q), task' = [task EXCEPT ![q] = task'[q]],
             control' = control \/ control' = [control EXCEPT ![q].drained = TRUE]
      PROVE  control'[r].request = control[r].request /\ (control[r].drained => task'[r] = task[r])
  BY <1>0, <1>1, <1>3 DEF Control
<1>4. ASSUME NEW q \in Runs,
             \/ Step(q) \/ Heartbeat(q) \/ Expire(q)
             \/ EndStage(q, "paused") \/ EndStage(q, "failed")
      PROVE  /\ Alive(q) /\ task' = [task EXCEPT ![q] = task'[q]]
             /\ control' = control \/ control' = [control EXCEPT ![q].drained = TRUE]
  BY <1>0, <1>4
  DEF Step, Acquire, Recheck, BeginSegment, StartSync, EnterCrawl, StartPortion, CollectPortion,
      EnterMatching, Stop, EndStage, EndSync, Offer, Continue, Return, Finish, Heartbeat, HeartbeatLooks, Expire,
      At, Alive
<1>5. ASSUME NEW q \in Runs, NEW action \in {"pause", "cancel"}, Request(q, action)
      PROVE  /\ control[r].request = "cancel" => control'[r].request = "cancel"
             /\ control[r].drained /\ task[r] \in {"cancelled", "success"} => task'[r] = task[r]
  BY <1>0, <1>5
  DEF Request, CancelsAtOnce, CancelsLater, CanCancel, Running, Granted, Control, Active, Recoverable
<1>6. CASE Restart
  BY <1>0, <1>6 DEF Restart
<1> QED  BY <1>2, <1>3, <1>4, <1>5, <1>6 DEF Next

\* A granted cancellation is never withdrawn, and no request, restart or other run
\* reopens what has been cancelled or has succeeded.
THEOREM SettledRunsStaySettled == Spec => SettledStaysSettled
<1>1. IInv /\ [Next]_vars =>
        [\A r \in Runs :
          /\ control[r].request = "cancel" => control'[r].request = "cancel"
          /\ control[r].drained /\ task[r] \in {"cancelled", "success"} => task'[r] = task[r]]_vars
  BY StepKeepsSettled
<1> QED  BY <1>1, ControlInvariant, PTL DEF Spec, SettledStaysSettled
=============================================================================
