--------------------------- MODULE SchedulerProofs ---------------------------
(***************************************************************************)
(* Handlers of the local scheduler never overlap, for any number of runs,  *)
(* retries and checkpoints.                                                *)
(***************************************************************************)
EXTENDS Scheduler, TLAPS

\* Where each run stands with the lock.  After a timeout the handler owns the
\* lock (releaseOnFinish); after a handler that finished at the deadline the
\* run goes on without it, but has stop set, so it cannot start another.
LockInvAt(r) ==
    /\ run[r].pc = "idle" => run[r].worker = "none" /\ run[r].status = "none"
    /\ run[r].pc \in {"invoke", "waiting", "boundary", "draining"} => lock = r
    /\ run[r].pc = "invoke" => run[r].worker \in {"none", "gone"} /\ run[r].status = "none"
    /\ run[r].pc \in {"waiting", "boundary", "draining"}
         => run[r].worker \in {"running", "gone"} /\ ~run[r].releaseOnFinish /\ run[r].status = "none"
    /\ run[r].pc = "boundary" => run[r].stop /\ r \notin Cooperative
    /\ run[r].pc = "decide"
         => /\ run[r].worker = "gone" /\ run[r].status = "none"
            /\ r \in Cooperative \/ ~run[r].stop => lock = r
    /\ run[r].pc = "returned" /\ run[r].worker = "running"
         => lock = r /\ run[r].releaseOnFinish /\ run[r].status = "timed_out"
    /\ run[r].worker = "releasing" => run[r].pc = "returned" /\ run[r].status = "timed_out"
    /\ run[r].status \in {"success", "failed", "paused"} => run[r].worker = "gone"

LockInv == \A r \in Runs : LockInvAt(r)

IInv == TypeOK /\ LockInv

\* The first state satisfies the inductive invariant.
LEMMA InitIInv == Init => IInv
  BY CatalogAssumption DEF Init, Idle, IInv, TypeOK, RunType, Progress, Kinds, RunStatus, LockInv, LockInvAt

\* The updates of a run record that the steps make stay within
\* RunType: the start of a handler.
LEMMA StartIsTyped ==
  ASSUME NEW x \in RunType, NEW stop \in BOOLEAN, None \in Progress
  PROVE  [x EXCEPT !.pc = "waiting", !.worker = "running", !.kind = "none",
                   !.continuation = None, !.releaseOnFinish = FALSE, !.stop = stop] \in RunType
<1>1. "none" \in Kinds
  BY DEF Kinds
<1> QED  BY <1>1 DEF RunType

\* A stop request on the context.
LEMMA DrainIsTyped ==
  ASSUME NEW x \in RunType
  PROVE  [x EXCEPT !.pc = "draining", !.stop = TRUE] \in RunType
  BY DEF RunType

\* The deadline.
LEMMA ExpireIsTyped ==
  ASSUME NEW x \in RunType, NEW pc \in {"draining", "boundary"}
  PROVE  [x EXCEPT !.pc = pc, !.budget = TRUE, !.stop = TRUE] \in RunType
  BY DEF RunType

\* A result, or the end of the process.
LEMMA ReturnIsTyped ==
  ASSUME NEW x \in RunType, NEW status \in RunStatus
  PROVE  /\ [x EXCEPT !.pc = "returned", !.status = status] \in RunType
         /\ [x EXCEPT !.pc = "returned", !.worker = "gone", !.status = status] \in RunType
<1>1. [x EXCEPT !.pc = "returned", !.status = status] \in RunType
  BY DEF RunType
<1>2. [x EXCEPT !.pc = "returned", !.worker = "gone", !.status = status] \in RunType
  BY DEF RunType
<1> QED  BY <1>1, <1>2

\* The handler seen done, with or without the hand-over flag.
LEMMA DecideIsTyped ==
  ASSUME NEW x \in RunType
  PROVE  /\ [x EXCEPT !.pc = "decide"] \in RunType
         /\ [x EXCEPT !.pc = "decide", !.releaseOnFinish = TRUE] \in RunType
<1>1. [x EXCEPT !.pc = "decide"] \in RunType
  BY DEF RunType
<1>2. [x EXCEPT !.pc = "decide", !.releaseOnFinish = TRUE] \in RunType
  BY DEF RunType
<1> QED  BY <1>1, <1>2

\* The lock handed over to the handler.
LEMMA HandOverIsTyped ==
  ASSUME NEW x \in RunType
  PROVE  [x EXCEPT !.pc = "returned", !.status = "timed_out", !.releaseOnFinish = TRUE] \in RunType
<1>1. "timed_out" \in RunStatus
  BY DEF RunStatus
<1> QED  BY <1>1 DEF RunType

\* The next segment, and the next attempt.
LEMMA InvokeIsTyped ==
  ASSUME NEW x \in RunType, NEW segment \in Nat \ {0}, NEW progress \in Progress,
         NEW attempt \in 1..(MaxRetries + 1)
  PROVE  /\ [x EXCEPT !.pc = "invoke"] \in RunType
         /\ [x EXCEPT !.pc = "invoke", !.segment = segment, !.lastProgress = progress,
                      !.stop = FALSE, !.budget = FALSE] \in RunType
         /\ [x EXCEPT !.pc = "invoke", !.attempt = attempt, !.segment = segment,
                      !.lastProgress = progress, !.stop = FALSE, !.budget = FALSE] \in RunType
<1>1. [x EXCEPT !.pc = "invoke"] \in RunType
  BY DEF RunType
<1>2. [x EXCEPT !.pc = "invoke", !.segment = segment, !.lastProgress = progress,
                !.stop = FALSE, !.budget = FALSE] \in RunType
  BY DEF RunType
<1>3. [x EXCEPT !.pc = "invoke", !.attempt = attempt, !.segment = segment,
                !.lastProgress = progress, !.stop = FALSE, !.budget = FALSE] \in RunType
  BY DEF RunType
<1> QED  BY <1>1, <1>2, <1>3

\* The end of a handler, and of its thread.
LEMMA EndIsTyped ==
  ASSUME NEW x \in RunType, NEW kind \in Kinds, NEW progress \in Progress,
         NEW worker \in {"releasing", "gone"}
  PROVE  /\ [x EXCEPT !.kind = kind, !.continuation = progress, !.worker = worker] \in RunType
         /\ [x EXCEPT !.worker = "gone"] \in RunType
<1>1. [x EXCEPT !.kind = kind, !.continuation = progress, !.worker = worker] \in RunType
  BY DEF RunType
<1>2. [x EXCEPT !.worker = "gone"] \in RunType
  BY DEF RunType
<1> QED  BY <1>1, <1>2

\* A step that replaces one run record by a typed one keeps the types.
LEMMA ReplaceIsTyped ==
  ASSUME TypeOK, NEW r \in Runs, NEW x \in RunType, run' = [run EXCEPT ![r] = x],
         lock' \in Runs \cup {None}, UNCHANGED extStop,
         checkpoint' \in [Runs -> 0..MaxCheckpoint]
  PROVE  TypeOK'
  BY DEF TypeOK

\* Every step keeps the types.
LEMMA NextTypeOK == TypeOK /\ [Next]_vars => TypeOK'
<1> SUFFICES ASSUME TypeOK, [Next]_vars PROVE TypeOK'
  OBVIOUS
<1>0. /\ None \in Progress
      /\ \A r \in Runs : run[r] \in RunType
      /\ checkpoint \in [Runs -> 0..MaxCheckpoint]
      /\ lock \in Runs \cup {None}
  BY DEF TypeOK, Progress
<1>1. CASE UNCHANGED vars
  BY <1>1 DEF vars, TypeOK
<1>2. ASSUME NEW r \in Runs, NEW status \in RunStatus, Return(r, status),
             UNCHANGED <<extStop, checkpoint>>
      PROVE  TypeOK'
  <2>1. run' = [run EXCEPT ![r] = [run[r] EXCEPT !.pc = "returned", !.status = status]]
    BY <1>2 DEF Return
  <2>2. lock' \in Runs \cup {None}
    BY <1>2 DEF Return, LockAfterRelease, TypeOK
  <2>3. [run[r] EXCEPT !.pc = "returned", !.status = status] \in RunType
    BY <1>0, ReturnIsTyped, Zenon
  <2> QED  BY <1>0, <1>2, <2>1, <2>2, <2>3, ReplaceIsTyped
<1>3. ASSUME NEW r \in Runs, MainStep(r) PROVE TypeOK'
  <2>1. CASE Acquire(r)
    <3>1. CASE lock = None
      <4>1. run' = [run EXCEPT ![r] = [run[r] EXCEPT !.pc = "invoke"]] /\ lock' = r
        BY <2>1, <3>1 DEF Acquire
      <4>2. [run[r] EXCEPT !.pc = "invoke"] \in RunType
        BY <1>0 DEF RunType
      <4> QED  BY <1>0, <2>1, <4>1, <4>2, ReplaceIsTyped DEF Acquire
    <3>2. CASE lock # None
      <4>1. Return(r, "skipped_locked") /\ "skipped_locked" \in RunStatus
        BY <2>1, <3>2 DEF Acquire, RunStatus
      <4> QED  BY <1>2, <2>1, <4>1 DEF Acquire
    <3> QED  BY <3>1, <3>2
  <2>2. CASE StartWorker(r)
    <3> DEFINE stop == run[r].stop \/ ExternalStop(r)
               next == [run[r] EXCEPT !.pc = "waiting", !.worker = "running", !.kind = "none",
                           !.continuation = None, !.releaseOnFinish = FALSE, !.stop = stop]
    <3>1. stop \in BOOLEAN
      BY Zenon
    <3>2. run' = [run EXCEPT ![r] = next] /\ UNCHANGED <<lock, extStop, checkpoint>>
      BY <2>2, Zenon DEF StartWorker
    <3> HIDE DEF stop
    <3>3. next \in RunType
      BY <1>0, <3>1, StartIsTyped, Zenon
    <3> HIDE DEF next
    <3> QED  BY <1>0, <3>2, <3>3, ReplaceIsTyped
  <2>3. CASE SeeExternalStop(r)
    <3>1. run' = [run EXCEPT ![r] = [run[r] EXCEPT !.pc = "draining", !.stop = TRUE]]
      BY <2>3 DEF SeeExternalStop
    <3>2. [run[r] EXCEPT !.pc = "draining", !.stop = TRUE] \in RunType
      BY <1>0, DrainIsTyped, Zenon
    <3> QED  BY <1>0, <2>3, <3>1, <3>2, ReplaceIsTyped DEF SeeExternalStop
  <2>4. CASE SeeDone(r) \/ Drained(r)
    <3>1. /\ run' = [run EXCEPT ![r] = [run[r] EXCEPT !.pc = "decide"]]
          /\ UNCHANGED <<lock, extStop, checkpoint>>
      BY <2>4 DEF SeeDone, Drained
    <3>2. [run[r] EXCEPT !.pc = "decide"] \in RunType
      BY <1>0, DecideIsTyped, Zenon
    <3> QED  BY <1>0, <3>1, <3>2, ReplaceIsTyped
  <2>5. CASE Boundary(r)
    <3>1. lock' \in Runs \cup {None} /\ UNCHANGED <<extStop, checkpoint>>
      BY <1>0, <2>5 DEF Boundary, LockAfterRelease
    <3>2. CASE Done(r)
      <4>1. run' = [run EXCEPT ![r] = [run[r] EXCEPT !.pc = "decide", !.releaseOnFinish = TRUE]]
        BY <2>5, <3>2 DEF Boundary
      <4>2. [run[r] EXCEPT !.pc = "decide", !.releaseOnFinish = TRUE] \in RunType
        BY <1>0, DecideIsTyped, Zenon
      <4> QED  BY <1>0, <3>1, <4>1, <4>2, ReplaceIsTyped
    <3>3. CASE ~Done(r)
      <4>1. run' = [run EXCEPT ![r] = [run[r] EXCEPT !.pc = "returned", !.status = "timed_out",
                                                     !.releaseOnFinish = TRUE]]
        BY <2>5, <3>3 DEF Boundary
      <4>2. [run[r] EXCEPT !.pc = "returned", !.status = "timed_out",
                           !.releaseOnFinish = TRUE] \in RunType
        BY <1>0, HandOverIsTyped, Zenon
      <4> QED  BY <1>0, <3>1, <4>1, <4>2, ReplaceIsTyped
    <3> QED  BY <3>2, <3>3
  <2>6. CASE NextSegment(r)
    <3> DEFINE next == [run[r] EXCEPT !.pc = "invoke", !.segment = run[r].segment + 1,
                           !.lastProgress = run[r].continuation, !.stop = FALSE, !.budget = FALSE]
    <3>1. run[r].segment + 1 \in Nat \ {0} /\ run[r].continuation \in Progress /\ 1 \in 1..(MaxRetries + 1)
      BY <1>0, CatalogAssumption DEF RunType
    <3>2. run' = [run EXCEPT ![r] = next] /\ UNCHANGED <<lock, extStop, checkpoint>>
      BY <2>6 DEF NextSegment
    <3>3. next \in RunType
      BY <1>0, <3>1, InvokeIsTyped, Zenon
    <3> HIDE DEF next
    <3> QED  BY <1>0, <3>2, <3>3, ReplaceIsTyped
  <2>7. CASE ReturnReceipt(r)
    <3>1. ReceiptStatus(r) \in RunStatus
      BY DEF ReceiptStatus, RunStatus
    <3> QED  BY <1>2, <2>7, <3>1 DEF ReturnReceipt
  <2>8. CASE Retry(r)
    <3> DEFINE next == [run[r] EXCEPT !.pc = "invoke", !.attempt = run[r].attempt + 1, !.segment = 1,
                           !.lastProgress = None, !.stop = FALSE, !.budget = FALSE]
    <3>1. run[r].attempt + 1 \in 1..(MaxRetries + 1) /\ 1 \in Nat \ {0}
      BY <1>0, <2>8, CatalogAssumption DEF Retry, MayRetry, RunType
    <3>2. run' = [run EXCEPT ![r] = next] /\ UNCHANGED <<lock, extStop, checkpoint>>
      BY <2>8 DEF Retry
    <3>3. next \in RunType
      BY <1>0, <3>1, InvokeIsTyped, Zenon
    <3> HIDE DEF next
    <3> QED  BY <1>0, <3>2, <3>3, ReplaceIsTyped
  <2>9. CASE ReturnError(r)
    <3>1. (IF StopSeen(r) THEN "paused" ELSE "failed") \in RunStatus
      BY DEF RunStatus
    <3> QED  BY <1>2, <2>9, <3>1 DEF ReturnError
  <2> QED  BY <1>3, <2>1, <2>2, <2>3, <2>4, <2>5, <2>6, <2>7, <2>8, <2>9 DEF MainStep
<1>4. ASSUME NEW r \in Runs, Expire(r) PROVE TypeOK'
  <2> DEFINE pc == IF r \in Cooperative THEN "draining" ELSE "boundary"
             next == [run[r] EXCEPT !.pc = pc, !.budget = TRUE, !.stop = TRUE]
  <2>1. pc \in {"draining", "boundary"}
    OBVIOUS
  <2>2. run' = [run EXCEPT ![r] = next] /\ UNCHANGED <<lock, extStop, checkpoint>>
    BY <1>4 DEF Expire
  <2> HIDE DEF pc
  <2>3. next \in RunType
    BY <1>0, <2>1, ExpireIsTyped, Zenon
  <2> HIDE DEF next
  <2> QED  BY <1>0, <2>2, <2>3, ReplaceIsTyped
<1>5. ASSUME NEW r \in Runs, AnyHandlerEnds(r) PROVE TypeOK'
  <2>1. PICK kind \in Kinds \ {"none"}, saved \in 0..MaxCheckpoint, offers \in BOOLEAN :
            HandlerEnds(r, kind, saved, offers)
    BY <1>5 DEF AnyHandlerEnds
  <2> DEFINE worker == IF run[r].releaseOnFinish THEN "releasing" ELSE "gone"
             progress == IF offers THEN saved ELSE None
             next == [run[r] EXCEPT !.kind = kind, !.continuation = progress, !.worker = worker]
  <2>2. worker \in {"releasing", "gone"} /\ progress \in Progress /\ kind \in Kinds
    BY DEF Progress
  <2>3. run' = [run EXCEPT ![r] = next] /\ UNCHANGED <<lock, extStop>>
    BY <2>1 DEF HandlerEnds
  <2>4. checkpoint' \in [Runs -> 0..MaxCheckpoint]
    BY <1>0, <2>1 DEF HandlerEnds
  <2> HIDE DEF worker, progress
  <2>5. next \in RunType
    BY <1>0, <2>2, EndIsTyped, Zenon
  <2> HIDE DEF next
  <2> QED  BY <1>0, <2>3, <2>4, <2>5, ReplaceIsTyped
<1>6. ASSUME NEW r \in Runs, WorkerReleases(r) PROVE TypeOK'
  <2>1. run' = [run EXCEPT ![r] = [run[r] EXCEPT !.worker = "gone"]] /\ UNCHANGED <<extStop, checkpoint>>
    BY <1>6 DEF WorkerReleases
  <2>2. lock' \in Runs \cup {None}
    BY <1>0, <1>6 DEF WorkerReleases, LockAfterRelease
  <2>3. [run[r] EXCEPT !.worker = "gone"] \in RunType
    BY <1>0 DEF RunType
  <2> QED  BY <1>0, <2>1, <2>2, <2>3, ReplaceIsTyped
<1>7. ASSUME NEW r \in Runs, RequestStop(r) PROVE TypeOK'
  BY <1>7 DEF RequestStop, TypeOK
<1>8. ASSUME NEW r \in Runs, ProcessEnds(r) PROVE TypeOK'
  <2> DEFINE status == IF run[r].pc = "returned" THEN run[r].status ELSE "crashed"
             next == [run[r] EXCEPT !.pc = "returned", !.worker = "gone", !.status = status]
  <2>1. status \in RunStatus
    BY <1>0 DEF RunType, RunStatus
  <2>2. run' = [run EXCEPT ![r] = next] /\ UNCHANGED <<extStop, checkpoint>>
    BY <1>8 DEF ProcessEnds
  <2>3. lock' \in Runs \cup {None}
    BY <1>8 DEF ProcessEnds, LockAfterRelease, TypeOK
  <2> HIDE DEF status
  <2>4. next \in RunType
    BY <1>0, <2>1, ReturnIsTyped, Zenon
  <2> HIDE DEF next
  <2> QED  BY <1>0, <2>2, <2>3, <2>4, ReplaceIsTyped
<1> QED  BY <1>1, <1>3, <1>4, <1>5, <1>6, <1>7, <1>8 DEF Next

\* A step of one run keeps the run's own relation to the lock and leaves the
\* lock of every other run alone.
LEMMA NextLockInv == IInv /\ [Next]_vars => LockInv'
<1> SUFFICES ASSUME IInv, [Next]_vars, NEW q \in Runs PROVE LockInvAt(q)'
  BY DEF LockInv
<1> USE CatalogAssumption DEF IInv, TypeOK, RunType, LockInv, LockInvAt
<1>1. CASE UNCHANGED vars
  BY <1>1 DEF vars
<1>2. ASSUME NEW r \in Runs, MainStep(r) PROVE LockInvAt(q)'
  <2>1. CASE Acquire(r)
    BY <2>1 DEF Acquire, Return, LockAfterRelease
  <2>2. CASE StartWorker(r)
    BY <2>2 DEF StartWorker
  <2>3. CASE SeeExternalStop(r)
    BY <2>3 DEF SeeExternalStop, ExternalStop
  <2>4. CASE SeeDone(r) \/ Drained(r)
    BY <2>4 DEF SeeDone, Drained, Done
  <2>5. CASE Boundary(r)
    BY <2>5 DEF Boundary, Done, LockAfterRelease
  <2>6. CASE NextSegment(r)
    BY <2>6 DEF NextSegment, Continues
  <2>7. CASE ReturnReceipt(r)
    BY <2>7 DEF ReturnReceipt, Return, LockAfterRelease
  <2>8. CASE Retry(r)
    BY <2>8 DEF Retry, MayRetry, StopSeen
  <2>9. CASE ReturnError(r)
    BY <2>9 DEF ReturnError, Return, LockAfterRelease
  <2> QED  BY <1>2, <2>1, <2>2, <2>3, <2>4, <2>5, <2>6, <2>7, <2>8, <2>9 DEF MainStep
<1>3. ASSUME NEW r \in Runs, Expire(r) PROVE LockInvAt(q)'
  BY <1>3 DEF Expire, Done
<1>4. ASSUME NEW r \in Runs, AnyHandlerEnds(r) PROVE LockInvAt(q)'
  BY <1>4 DEF AnyHandlerEnds, HandlerEnds
<1>5. ASSUME NEW r \in Runs, WorkerReleases(r) PROVE LockInvAt(q)'
  BY <1>5 DEF WorkerReleases, LockAfterRelease
<1>6. ASSUME NEW r \in Runs, RequestStop(r) PROVE LockInvAt(q)'
  BY <1>6 DEF RequestStop
<1>7. ASSUME NEW r \in Runs, ProcessEnds(r) PROVE LockInvAt(q)'
  BY <1>7 DEF ProcessEnds, LockAfterRelease
<1> QED  BY <1>1, <1>2, <1>3, <1>4, <1>5, <1>6, <1>7 DEF Next

\* The inductive invariant holds in every reachable state.
THEOREM SchedulerInvariant == Spec => []IInv
<1>1. IInv /\ [Next]_vars => IInv'
  BY NextTypeOK, NextLockInv DEF IInv
<1> QED  BY <1>1, InitIInv, PTL DEF Spec

\* A handler runs only while its own run holds the lock file.
THEOREM HandlersHoldTheLock == Spec => []HandlerHoldsLock
<1>1. IInv => HandlerHoldsLock
  BY DEF IInv, TypeOK, RunType, LockInv, LockInvAt, HandlerHoldsLock
<1> QED  BY <1>1, SchedulerInvariant, PTL

\* No final result is reported while the handler still runs.
THEOREM ResultsFollowHandlers == Spec => []ReportedAfterHandler
<1>1. IInv => ReportedAfterHandler
  BY DEF IInv, LockInv, LockInvAt, ReportedAfterHandler
<1> QED  BY <1>1, SchedulerInvariant, PTL

\* No handler is started while another one, of any run, is still running.
THEOREM HandlersStartAlone == Spec => StartsAlone
<1>1. IInv /\ [Next]_vars
        => [\A r \in Runs : StartWorker(r) => \A q \in Runs : run[q].worker # "running"]_vars
  BY DEF IInv, TypeOK, RunType, LockInv, LockInvAt, StartWorker
<1> QED  BY <1>1, SchedulerInvariant, PTL DEF Spec, StartsAlone

-----------------------------------------------------------------------------
(* Segments and the checkpoint.                                            *)

\* The checkpoint at which a run last went on is never ahead of the file, an offer
\* to go on names the file as it stands, and the segments so far are paid for by
\* the companies recorded.
ProgressInvAt(r) ==
    /\ run[r].continuation # None => run[r].continuation = checkpoint[r]
    /\ run[r].lastProgress = None => run[r].segment = 1
    /\ run[r].lastProgress # None
         => run[r].lastProgress <= checkpoint[r] /\ run[r].segment <= run[r].lastProgress + 2

ProgressInv == \A r \in Runs : ProgressInvAt(r)

\* The only steps that touch the fields of a run that ProgressInv is about.
LEMMA NextProgressInv == TypeOK /\ ProgressInv /\ [Next]_vars => ProgressInv'
<1> SUFFICES ASSUME TypeOK, ProgressInv, [Next]_vars, NEW q \in Runs PROVE ProgressInvAt(q)'
  BY DEF ProgressInv
<1>0. /\ ProgressInvAt(q) /\ run[q] \in RunType /\ checkpoint[q] \in 0..MaxCheckpoint
      /\ run \in [Runs -> RunType] /\ checkpoint \in [Runs -> 0..MaxCheckpoint]
  BY DEF ProgressInv, TypeOK
<1>1. ASSUME run'[q].continuation \in {run[q].continuation, None},
             run'[q].lastProgress = run[q].lastProgress, run'[q].segment = run[q].segment,
             checkpoint' = checkpoint
      PROVE  ProgressInvAt(q)'
  BY <1>0, <1>1 DEF ProgressInvAt
<1>2. CASE UNCHANGED vars
  BY <1>1, <1>2 DEF vars
<1>3. ASSUME NEW r \in Runs, NextSegment(r)  PROVE ProgressInvAt(q)'
  <2>1. CASE q # r
    BY <1>0, <1>1, <1>3, <2>1 DEF NextSegment
  <2>2. CASE q = r
    <3>1. /\ run[q].continuation = checkpoint[q] /\ run[q].continuation # run[q].lastProgress
          /\ run[q].segment \in Nat /\ checkpoint[q] \in Nat
          /\ run[q].lastProgress # None => run[q].lastProgress \in Nat
      BY <1>0, <1>3, <2>2, CatalogAssumption
      DEF NextSegment, Continues, ProgressInvAt, RunType, Progress
    <3>2. run[q].segment <= checkpoint[q] + 1
      BY <1>0, <3>1 DEF ProgressInvAt
    <3>3. /\ run'[q].continuation = checkpoint[q] /\ run'[q].lastProgress = checkpoint[q]
          /\ run'[q].segment = run[q].segment + 1 /\ checkpoint' = checkpoint
      BY <1>0, <1>3, <2>2, <3>1 DEF NextSegment, RunType
    <3>4. checkpoint[q] # None
      BY <3>1, CatalogAssumption
    <3> QED  BY <3>1, <3>2, <3>3, <3>4 DEF ProgressInvAt
  <2> QED  BY <2>1, <2>2
<1>4. ASSUME NEW r \in Runs, Retry(r)  PROVE ProgressInvAt(q)'
  BY <1>0, <1>4 DEF Retry, ProgressInvAt, RunType
<1>5. ASSUME NEW r \in Runs, MainStep(r), ~NextSegment(r), ~Retry(r)  PROVE ProgressInvAt(q)'
  BY <1>0, <1>1, <1>5
  DEF MainStep, Acquire, Return, StartWorker, SeeExternalStop, SeeDone, Drained, Boundary,
      ReturnReceipt, ReturnError, RunType
<1>6. ASSUME NEW r \in Runs, AnyHandlerEnds(r)  PROVE ProgressInvAt(q)'
  <2>1. PICK saved \in checkpoint[r]..MaxCheckpoint, offers \in BOOLEAN :
            /\ checkpoint' = [checkpoint EXCEPT ![r] = saved]
            /\ run'[r].continuation = (IF offers THEN saved ELSE None)
            /\ run'[r].lastProgress = run[r].lastProgress /\ run'[r].segment = run[r].segment
            /\ q # r => run'[q] = run[q]
    BY <1>0, <1>6 DEF AnyHandlerEnds, HandlerEnds, RunType
  <2>2. saved \in Nat /\ checkpoint[r] \in Nat /\ checkpoint[r] <= saved
    BY <1>0, CatalogAssumption
  <2>3. CASE q # r
    BY <1>0, <2>1, <2>3 DEF ProgressInvAt
  <2>4. CASE q = r
    <3>1. run[q].lastProgress # None => run[q].lastProgress \in Nat
      BY <1>0 DEF RunType, Progress
    <3>2. checkpoint'[q] = saved
      BY <1>0, <2>1, <2>4
    <3> QED  BY <1>0, <2>1, <2>2, <2>4, <3>1, <3>2 DEF ProgressInvAt
  <2> QED  BY <2>3, <2>4
<1>7. ASSUME NEW r \in Runs, Expire(r) \/ WorkerReleases(r) \/ RequestStop(r) \/ ProcessEnds(r)
      PROVE  ProgressInvAt(q)'
  <2>1. /\ run'[q].continuation = run[q].continuation
        /\ run'[q].lastProgress = run[q].lastProgress /\ run'[q].segment = run[q].segment
        /\ checkpoint' = checkpoint
    <3>1. CASE Expire(r)
      BY <1>0, <3>1 DEF Expire, RunType
    <3>2. CASE WorkerReleases(r)
      BY <1>0, <3>2 DEF WorkerReleases, RunType
    <3>3. CASE RequestStop(r)
      BY <3>3 DEF RequestStop
    <3>4. CASE ProcessEnds(r)
      BY <1>0, <3>4 DEF ProcessEnds, RunType
    <3> QED  BY <1>7, <3>1, <3>2, <3>3, <3>4
  <2> QED  BY <1>1, <2>1
<1>8. ASSUME NEW r \in Runs, MainStep(r)  PROVE ProgressInvAt(q)'
  BY <1>3, <1>4, <1>5, <1>8
<1> QED  BY <1>2, <1>6, <1>7, <1>8 DEF Next

\* A run never goes on more often than its checkpoint moved, so a stalled daily
\* run cannot continue for ever whatever its handler reports.
THEOREM SegmentsRecordProgress == Spec => []SegmentsMakeProgress
<1>1. Init => ProgressInv
  <2>1. /\ Idle.continuation = None /\ Idle.lastProgress = None /\ Idle.segment = 1
    BY DEF Idle
  <2>2. ASSUME Init, NEW r \in Runs  PROVE ProgressInvAt(r)
    <3>1. run[r] = Idle
      BY <2>2 DEF Init
    <3> QED  BY <2>1, <3>1, Zenon DEF ProgressInvAt
  <2> QED  BY <2>2 DEF ProgressInv
<1>2. Spec => []ProgressInv
  <2>1. IInv => TypeOK
    BY DEF IInv
  <2> QED  BY <1>1, <2>1, NextProgressInv, SchedulerInvariant, PTL DEF Spec
<1>3. TypeOK /\ ProgressInv => SegmentsMakeProgress
  <2> SUFFICES ASSUME TypeOK, ProgressInv, NEW r \in Runs
               PROVE  run[r].segment <= checkpoint[r] + 2
    BY DEF SegmentsMakeProgress
  <2>1. run[r].segment \in Nat /\ checkpoint[r] \in Nat /\ run[r].lastProgress \in Progress
    BY CatalogAssumption DEF TypeOK, RunType
  <2>2. run[r].lastProgress # None => run[r].lastProgress \in Nat
    BY <2>1 DEF Progress
  <2> QED  BY <2>1, <2>2 DEF ProgressInv, ProgressInvAt
<1>4. IInv => TypeOK
  BY DEF IInv
<1> QED  BY <1>2, <1>3, <1>4, SchedulerInvariant, PTL
=============================================================================
