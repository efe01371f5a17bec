--------------------------- MODULE AutomationProofs ---------------------------
(***************************************************************************)
(* The daily automations, for any processes, schedules, interval and number *)
(* of crashes: the work of an occurrence starts at most once, an occurrence *)
(* has one execution, a missed one is not made up for, and with one process *)
(* the execution at work stays running.                                     *)
(***************************************************************************)
EXTENDS Automation, TLAPS

-----------------------------------------------------------------------------
(* The inductive invariant.                                                *)

Idle == {"down", "recovering", "skipping", "polling"}
Before == {"claimed", "authorized", "looked", "owned", "ready"}
After == {"working", "finishing", "cancelled"}

Worker == [pc : Idle \cup Before \cup After, id : Ids \cup {None}, result : Terminal \cup {None},
           seen : SUBSET Ids, since : Nat, stop : BOOLEAN]
Draft == [schedule : Schedules, at : Nat, row : Schedule \cup {None}]

TypeOK ==
    /\ direct \subseteq Schedules
    /\ now \in 0..MaxTime
    /\ gates \in [automation : BOOLEAN, write : BOOLEAN]
    /\ sched \in [Schedules -> Schedule \cup {None}]
    /\ exec \in [Ids -> Execution \cup {None}]
    /\ issued \in 0..MaxExecs
    /\ worker \in [Procs -> Worker]
    /\ threads \in [Procs -> Ids \cup {None}]
    /\ draft \in Draft \cup {None}
    /\ begun \in [Schedules \X Times -> Nat]
    /\ savedAt \in [Schedules -> Nat]
    /\ upsets \in Nat

\* A worker has an execution, one that was issued, when it is busy with one; two
\* workers never have the same.
WorkerInv ==
    /\ \A p \in Procs :
          /\ worker[p].id # None => worker[p].pc \notin Idle /\ worker[p].id <= issued
          /\ worker[p].pc \notin Idle => worker[p].id # None
          /\ worker[p].pc = "finishing" => worker[p].result \in Terminal
    /\ \A p, q \in Procs : p # q /\ worker[p].id # None => worker[p].id # worker[q].id

\* Executions are of different occurrences, none in the future.
RowsInv ==
    /\ \A i \in Ids : exec[i] # None => i <= issued /\ exec[i].for <= now
    /\ \A i, j \in Ids : i # j /\ exec[i] # None /\ exec[j] # None /\ exec[i].schedule = exec[j].schedule
                         => exec[i].for # exec[j].for

\* An upsert that found no row will find none, or somebody else's.
DraftInv ==
    draft # None =>
       /\ draft.at <= now
       /\ draft.row = None => sched[draft.schedule] = None

\* An occurrence that was begun, but whose execution is gone with its schedule, lies
\* behind the next run of the schedule as it is and as the upsert in flight will
\* leave it.
Behind(s, t) ==
    /\ sched[s] # None => t < sched[s].next
    /\ draft # None /\ draft.schedule = s /\ (draft.row = None \/ sched[s] # None) => t <= draft.at

BegunInv ==
    \A s \in Schedules, t \in Times :
       /\ begun[<<s, t>>] <= 1
       /\ begun[<<s, t>>] # 0 => t <= now
       /\ begun[<<s, t>>] # 0 /\ t \notin Recorded(s) => Behind(s, t)

\* The occurrence that a worker is about to begin was not begun before.
PendingInv ==
    \A p \in Procs : worker[p].pc \in Before /\ exec[worker[p].id] # None =>
        begun[<<exec[worker[p].id].schedule, exec[worker[p].id].for>>] = 0

\* What is due was not due when a worker started, or was saved since.
SinceInv ==
    \A p \in Procs :
       /\ worker[p].since <= now
       /\ \A s \in Schedules : sched[s] # None /\ sched[s].active =>
             sched[s].next > worker[p].since \/ savedAt[s] >= worker[p].since

IInv == TypeOK /\ WorkerInv /\ RowsInv /\ DraftInv /\ BegunInv /\ PendingInv /\ SinceInv

-----------------------------------------------------------------------------
(* Time.                                                                   *)

\* The next occurrence is after the time it is asked for.
LEMMA NextRunIsLater ==
  ASSUME NEW t \in Nat
  PROVE  NextDailyRun(t) \in Nat /\ NextDailyRun(t) > t
  BY AutomationAssumption DEF NextDailyRun

-----------------------------------------------------------------------------
(* Types.                                                                  *)

\* The first state satisfies the invariant.
LEMMA InitIInv == Init => IInv
<1> SUFFICES ASSUME Init PROVE IInv
  OBVIOUS
<1>1. TypeOK
  BY AutomationAssumption DEF Init, TypeOK, Down, Worker, Idle, Ids, Times
<1>2. WorkerInv /\ RowsInv /\ DraftInv /\ SinceInv
  BY DEF Init, WorkerInv, RowsInv, DraftInv, SinceInv, Down, Idle
<1>3. BegunInv /\ PendingInv
  BY DEF Init, BegunInv, PendingInv, Down, Before
<1> QED  BY <1>1, <1>2, <1>3 DEF IInv

\* What closing rows leaves of the two tables.
LEMMA ClosedRows ==
  ASSUME TypeOK, NEW ids \in SUBSET Ids, NEW status \in Terminal, CloseRows(ids, status),
         \A i \in ids : exec[i] # None
  PROVE  /\ exec' \in [Ids -> Execution \cup {None}]
         /\ sched' \in [Schedules -> Schedule \cup {None}]
         /\ \A i \in Ids : /\ exec'[i] = None <=> exec[i] = None
                           /\ exec[i] # None => exec'[i].schedule = exec[i].schedule /\ exec'[i].for = exec[i].for
                           /\ i \notin ids => exec'[i] = exec[i]
         /\ \A s \in Schedules : /\ sched'[s] = None <=> sched[s] = None
                                 /\ sched[s] # None => sched'[s].next = sched[s].next /\ sched'[s].active = sched[s].active
<1>0. exec \in [Ids -> Execution \cup {None}] /\ sched \in [Schedules -> Schedule \cup {None}]
  BY DEF TypeOK
<1>1. ASSUME NEW i \in Ids
      PROVE  /\ exec'[i] \in Execution \cup {None}
             /\ exec'[i] = None <=> exec[i] = None
             /\ exec[i] # None => exec'[i].schedule = exec[i].schedule /\ exec'[i].for = exec[i].for
             /\ i \notin ids => exec'[i] = exec[i]
  <2>1. CASE i \in ids
    <3>1. exec[i] \in Execution /\ exec'[i] = [exec[i] EXCEPT !.status = status, !.thread = TRUE]
      BY <1>0, <2>1 DEF CloseRows
    <3>2. exec'[i] \in Execution /\ exec'[i].schedule = exec[i].schedule /\ exec'[i].for = exec[i].for
      BY <3>1 DEF Execution
    <3> QED  BY <2>1, <3>2, AutomationAssumption
  <2>2. CASE i \notin ids
    BY <1>0, <2>2 DEF CloseRows
  <2> QED  BY <2>1, <2>2
<1>2. ASSUME NEW s \in Schedules
      PROVE  /\ sched'[s] \in Schedule \cup {None}
             /\ sched'[s] = None <=> sched[s] = None
             /\ sched[s] # None => sched'[s].next = sched[s].next /\ sched'[s].active = sched[s].active
  <2>1. CASE sched[s] = None
    BY <2>1 DEF CloseRows
  <2>2. CASE sched[s] # None
    <3>1. sched[s] \in Schedule /\ sched'[s] = [sched[s] EXCEPT !.last = LastAfter(s, ids, status)]
      BY <1>0, <2>2 DEF CloseRows
    <3>2. LastAfter(s, ids, status) \in Terminal \cup {"never", "running"}
      BY <3>1 DEF LastAfter, Schedule
    <3>3. sched'[s] \in Schedule /\ sched'[s].next = sched[s].next /\ sched'[s].active = sched[s].active
      BY <3>1, <3>2 DEF Schedule
    <3> QED  BY <2>2, <3>3, AutomationAssumption
  <2> QED  BY <2>1, <2>2
<1>3. exec' \in [Ids -> Execution \cup {None}] /\ sched' \in [Schedules -> Schedule \cup {None}]
  BY <1>0, <1>1, <1>2 DEF CloseRows
<1> QED  BY <1>1, <1>2, <1>3

\* The occurrence that a claim comes to.
Chosen(s, t) == sched[s] # None /\ sched[s].active /\ t >= sched[s].next /\ t \notin Recorded(s)

\* A schedule's next run has moved to n.
Advanced(s, n) ==
    /\ sched' \in [Schedules -> Schedule \cup {None}]
    /\ sched'[s] \in Schedule /\ sched'[s].next = n /\ sched'[s].active = sched[s].active
    /\ \A u \in Schedules \ {s} : sched'[u] = sched[u]

\* The execution that a claim records.
Claimed(s, t) == [schedule |-> s, for |-> t, status |-> "running", thread |-> FALSE, prepared |-> FALSE]

\* A claim moves a schedule on, and if the occurrence is due it records an execution.
LEMMA ClaimEffect ==
  ASSUME TypeOK, NEW p \in Procs, NEW after, ClaimDue(p, after)
  PROVE  /\ UNCHANGED <<direct, now, gates, threads, draft, begun, savedAt>>
         /\ \E s \in Schedules, t \in Times :
               /\ Chosen(s, t)
               /\ \/ t > now /\ Advanced(s, t) /\ UNCHANGED <<exec, issued, worker>>
                  \/ /\ t <= now /\ Advanced(s, NextDailyRun(now))
                     /\ issued < MaxExecs /\ issued' = issued + 1
                     /\ exec' = [exec EXCEPT ![issued + 1] = Claimed(s, t)]
                     /\ worker' = [worker EXCEPT ![p] = after]
<1>0. now \in Nat /\ MaxTime \in Nat /\ Day \in Nat /\ sched \in [Schedules -> Schedule \cup {None}]
  BY AutomationAssumption DEF TypeOK
<1>1. UNCHANGED <<direct, now, gates, threads, draft, begun, savedAt>>
  BY DEF ClaimDue
<1>2. PICK s \in Schedules, t \in Times :
        /\ Due(s) /\ Unrecorded(s, t)
        /\ \/ /\ t > now
              /\ sched' = [sched EXCEPT ![s].next = t]
              /\ UNCHANGED <<exec, issued, worker>>
           \/ /\ t <= now
              /\ issued < MaxExecs
              /\ issued' = issued + 1
              /\ exec' = [exec EXCEPT ![issued + 1] = Claimed(s, t)]
              /\ sched' = [sched EXCEPT ![s].next = NextDailyRun(now), ![s].last = "running"]
              /\ worker' = [worker EXCEPT ![p] = after]
  BY DEF ClaimDue, Claimed
<1>3. sched[s] \in Schedule
  BY <1>0, <1>2 DEF Due
<1>4. t \in Nat
  BY <1>0 DEF Times
<1>5. Chosen(s, t)
  BY <1>2, <1>3, <1>4 DEF Due, Unrecorded, Chosen, Schedule
<1>6. CASE t > now /\ sched' = [sched EXCEPT ![s].next = t] /\ UNCHANGED <<exec, issued, worker>>
  <2>1. Advanced(s, t)
    BY <1>0, <1>3, <1>4, <1>6 DEF Advanced, Schedule
  <2> QED  BY <1>1, <1>5, <1>6, <2>1
<1>7. CASE /\ t <= now
           /\ issued < MaxExecs
           /\ issued' = issued + 1
           /\ exec' = [exec EXCEPT ![issued + 1] = Claimed(s, t)]
           /\ sched' = [sched EXCEPT ![s].next = NextDailyRun(now), ![s].last = "running"]
           /\ worker' = [worker EXCEPT ![p] = after]
  <2>1. NextDailyRun(now) \in Nat
    BY <1>0, NextRunIsLater
  <2>2. Advanced(s, NextDailyRun(now))
    BY <1>0, <1>3, <1>7, <2>1 DEF Advanced, Schedule
  <2> QED  BY <1>1, <1>5, <1>7, <2>2
<1> QED  BY <1>2, <1>6, <1>7

\* What a claim records is an execution.
LEMMA ClaimedIsExecution ==
  ASSUME NEW s \in Schedules, NEW t \in Times
  PROVE  Claimed(s, t) \in Execution /\ Claimed(s, t) # None
<1>1. Claimed(s, t) \in Execution
  BY DEF Claimed, Execution
<1> QED  BY <1>1, AutomationAssumption

\* What the commit of an upsert leaves of the schedules.
LEMMA CommitEffect ==
  ASSUME TypeOK, CommitUpsert
  PROVE  /\ sched' \in [Schedules -> Schedule \cup {None}]
         /\ savedAt' \in [Schedules -> Nat]
         /\ \A s \in Schedules :
               \/ sched'[s] = sched[s] /\ savedAt'[s] = savedAt[s]
               \/ /\ s = draft.schedule /\ savedAt'[s] = now
                  /\ draft.row = None \/ sched[s] # None
                  /\ \/ sched'[s].next = NextDailyRun(draft.at)
                     \/ sched[s] # None /\ sched'[s].next = sched[s].next
<1> DEFINE d == draft.schedule
           next == NextDailyRun(draft.at)
<1>0. /\ draft \in Draft /\ d \in Schedules /\ next \in Nat /\ now \in Nat
      /\ sched \in [Schedules -> Schedule \cup {None}] /\ savedAt \in [Schedules -> Nat]
  BY AutomationAssumption, NextRunIsLater DEF CommitUpsert, TypeOK, Draft
<1>1. CASE /\ draft.row = None /\ sched[d] = None
           /\ sched' = [sched EXCEPT ![d] = [active |-> TRUE, next |-> next, last |-> "never"]]
           /\ savedAt' = [savedAt EXCEPT ![d] = now]
  <2>1. [active |-> TRUE, next |-> next, last |-> "never"] \in Schedule
    BY <1>0 DEF Schedule
  <2> HIDE DEF d, next
  <2>2. \A s \in Schedules : s # d => sched'[s] = sched[s] /\ savedAt'[s] = savedAt[s]
    BY <1>0, <1>1
  <2>3. sched'[d].next = next /\ savedAt'[d] = now
    BY <1>0, <1>1
  <2> QED  BY <1>0, <1>1, <2>1, <2>2, <2>3 DEF d, next
<1>2. CASE /\ draft.row # None /\ sched[d] # None
           /\ sched' = [sched EXCEPT ![d].active = Written(draft.row.active, TRUE, @),
                                     ![d].next = Written(draft.row.next, next, @)]
           /\ savedAt' = [savedAt EXCEPT ![d] = now]
  <2> DEFINE row == [sched[d] EXCEPT !.active = Written(draft.row.active, TRUE, sched[d].active),
                                     !.next = Written(draft.row.next, next, sched[d].next)]
  <2>1. row \in Schedule /\ row.next \in {next, sched[d].next}
    <3>1. Written(draft.row.active, TRUE, sched[d].active) \in BOOLEAN
      BY <1>0, <1>2 DEF Written, Schedule
    <3>2. /\ Written(draft.row.next, next, sched[d].next) \in Nat
          /\ Written(draft.row.next, next, sched[d].next) \in {next, sched[d].next}
      BY <1>0, <1>2 DEF Written, Schedule
    <3>3. sched[d] \in Schedule
      BY <1>0, <1>2
    <3> HIDE DEF d, next
    <3> QED  BY <3>1, <3>2, <3>3 DEF Schedule
  <2>2. sched' = [sched EXCEPT ![d] = row]
    BY <1>0, <1>2
  <2> HIDE DEF row, d, next
  <2>3. \A s \in Schedules : s # d => sched'[s] = sched[s] /\ savedAt'[s] = savedAt[s]
    BY <1>0, <1>2, <2>2
  <2>4. sched'[d].next \in {next, sched[d].next} /\ savedAt'[d] = now
    BY <1>0, <1>2, <2>1, <2>2
  <2> QED  BY <1>0, <1>2, <2>1, <2>2, <2>3, <2>4 DEF d, next
<1>3. CASE UNCHANGED <<sched, savedAt>>
  BY <1>0, <1>3
<1> QED  BY <1>1, <1>2, <1>3 DEF CommitUpsert

\* Worker p has moved: where it is, what it is busy with, when it started.
Moves(p, pc, id, since) ==
    /\ worker' \in [Procs -> Worker]
    /\ \A q \in Procs \ {p} : worker'[q] = worker[q]
    /\ worker'[p].pc = pc /\ worker'[p].id = id /\ worker'[p].since = since

\* A worker replaced by a typed one.
LEMMA Replaced ==
  ASSUME worker \in [Procs -> Worker], NEW p \in Procs, NEW w \in Worker, worker' = [worker EXCEPT ![p] = w]
  PROVE  Moves(p, w.pc, w.id, w.since) /\ worker'[p] = w
  BY DEF Moves

\* The moves of a worker.
LEMMA Moved ==
  ASSUME worker \in [Procs -> Worker], now \in Nat, NEW p \in Procs
  PROVE  /\ \A pc \in Idle \cup Before \cup After : Goto(p, pc) => Moves(p, pc, worker[p].id, worker[p].since)
         /\ \A result \in Terminal :
               Finish(p, result) => Moves(p, "finishing", worker[p].id, worker[p].since) /\ worker'[p].result = result
         /\ Quit(p) => Moves(p, "polling", None, worker[p].since)
         /\ worker' = [worker EXCEPT ![p] = Down] => Moves(p, "down", None, 0)
         /\ worker' = [worker EXCEPT ![p].stop = TRUE] => Moves(p, worker[p].pc, worker[p].id, worker[p].since)
                                                         /\ worker'[p].result = worker[p].result
         /\ worker' = [worker EXCEPT ![p].pc = "skipping", ![p].seen = {}]
               => Moves(p, "skipping", worker[p].id, worker[p].since)
         /\ worker' = [worker EXCEPT ![p].pc = "polling", ![p].since = now] => Moves(p, "polling", worker[p].id, now)
         /\ worker' = [worker EXCEPT ![p] = [Down EXCEPT !.pc = "recovering", !.seen = Running]]
               => Moves(p, "recovering", None, 0)
<1> DEFINE w == worker[p]
<1>0. w \in Worker
  OBVIOUS
<1>1. ASSUME NEW pc \in Idle \cup Before \cup After, Goto(p, pc) PROVE Moves(p, pc, w.id, w.since)
  <2> DEFINE v == [w EXCEPT !.pc = pc]
  <2>1. v \in Worker /\ v.pc = pc /\ v.id = w.id /\ v.since = w.since
    BY <1>0 DEF Worker
  <2>2. worker' = [worker EXCEPT ![p] = v]
    BY <1>1 DEF Goto
  <2> HIDE DEF v, w
  <2> QED  BY <2>1, <2>2, Replaced
<1>2. ASSUME NEW result \in Terminal, Finish(p, result)
      PROVE  Moves(p, "finishing", w.id, w.since) /\ worker'[p].result = result
  <2> DEFINE v == [w EXCEPT !.pc = "finishing", !.result = result]
  <2>1. v \in Worker /\ v.pc = "finishing" /\ v.id = w.id /\ v.since = w.since /\ v.result = result
    BY <1>0 DEF Worker, After
  <2>2. worker' = [worker EXCEPT ![p] = v]
    BY <1>2 DEF Finish
  <2> HIDE DEF v, w
  <2> QED  BY <2>1, <2>2, Replaced
<1>3. ASSUME Quit(p) PROVE Moves(p, "polling", None, w.since)
  <2> DEFINE v == [w EXCEPT !.pc = "polling", !.id = None, !.result = None]
  <2>1. v \in Worker /\ v.pc = "polling" /\ v.id = None /\ v.since = w.since
    BY <1>0 DEF Worker, Idle
  <2>2. worker' = [worker EXCEPT ![p] = v]
    BY <1>3 DEF Quit
  <2> HIDE DEF v, w
  <2> QED  BY <2>1, <2>2, Replaced
<1>4. ASSUME worker' = [worker EXCEPT ![p] = Down] PROVE Moves(p, "down", None, 0)
  <2>1. Down \in Worker /\ Down.pc = "down" /\ Down.id = None /\ Down.since = 0
    BY DEF Down, Worker, Idle
  <2> QED  BY <1>4, <2>1, Replaced
<1>5. ASSUME worker' = [worker EXCEPT ![p].stop = TRUE]
      PROVE  Moves(p, w.pc, w.id, w.since) /\ worker'[p].result = w.result
  <2> DEFINE v == [w EXCEPT !.stop = TRUE]
  <2>1. v \in Worker /\ v.pc = w.pc /\ v.id = w.id /\ v.since = w.since /\ v.result = w.result
    BY <1>0 DEF Worker
  <2>2. worker' = [worker EXCEPT ![p] = v]
    BY <1>5
  <2> HIDE DEF v, w
  <2> QED  BY <2>1, <2>2, Replaced
<1>6. ASSUME worker' = [worker EXCEPT ![p].pc = "skipping", ![p].seen = {}]
      PROVE  Moves(p, "skipping", w.id, w.since)
  <2> DEFINE v == [w EXCEPT !.pc = "skipping", !.seen = {}]
  <2>1. v \in Worker /\ v.pc = "skipping" /\ v.id = w.id /\ v.since = w.since
    BY <1>0 DEF Worker, Idle
  <2>2. worker' = [worker EXCEPT ![p] = v]
    BY <1>6
  <2> HIDE DEF v, w
  <2> QED  BY <2>1, <2>2, Replaced
<1>7. ASSUME worker' = [worker EXCEPT ![p].pc = "polling", ![p].since = now] PROVE Moves(p, "polling", w.id, now)
  <2> DEFINE v == [w EXCEPT !.pc = "polling", !.since = now]
  <2>1. v \in Worker /\ v.pc = "polling" /\ v.id = w.id /\ v.since = now
    BY <1>0 DEF Worker, Idle
  <2>2. worker' = [worker EXCEPT ![p] = v]
    BY <1>7
  <2> HIDE DEF v, w
  <2> QED  BY <2>1, <2>2, Replaced
<1>8. ASSUME worker' = [worker EXCEPT ![p] = [Down EXCEPT !.pc = "recovering", !.seen = Running]]
      PROVE  Moves(p, "recovering", None, 0)
  <2> DEFINE v == [Down EXCEPT !.pc = "recovering", !.seen = Running]
  <2>1. v \in Worker /\ v.pc = "recovering" /\ v.id = None /\ v.since = 0
    BY DEF Down, Worker, Idle, Running
  <2> HIDE DEF v
  <2> QED  BY <1>8, <2>1, Replaced DEF v
<1> QED  BY <1>1, <1>2, <1>3, <1>4, <1>5, <1>6, <1>7, <1>8

\* The steps of a worker other than a claim.
OtherStep(p) ==
    \/ StartWorker(p) \/ Recover(p) \/ SkipMissed(p) \/ StopWorker(p) \/ LeaveLoop(p) \/ Authorize(p) \/ Look(p)
    \/ ClaimStart(p) \/ (\E starts \in BOOLEAN : Prepare(p, starts)) \/ Begin(p)
    \/ (\E result \in Terminal : WorkEnds(p, result)) \/ Complete(p) \/ CompleteCancelled(p) \/ ThreadEnds(p)
    \/ Crash(p) \/ Shutdown(p) \/ CompleteFails(p)

\* Worker p, and no other, has gone on with what it is busy with, or has let go of it.
GoesOn(p) ==
    /\ worker' \in [Procs -> Worker]
    /\ \A q \in Procs \ {p} : worker'[q] = worker[q]
    /\ \/ worker'[p].id = None /\ worker'[p].pc \in Idle
       \/ worker'[p].id = worker[p].id /\ (worker'[p].pc \in Idle <=> worker[p].pc \in Idle)
    /\ worker'[p].pc = "finishing" => worker'[p].result \in Terminal
    /\ worker'[p].pc \in Before => worker[p].pc \in Before

\* Such a step goes on, and only a skip of missed occurrences sets the time.
LEMMA WorkerGoesOn ==
  ASSUME TypeOK, WorkerInv, NEW p \in Procs, OtherStep(p)
  PROVE  GoesOn(p) /\ (worker'[p].since \in {worker[p].since, 0} \/ (SkipMissed(p) /\ worker'[p].since = now))
<1>0. worker \in [Procs -> Worker] /\ now \in Nat /\ worker[p].pc \in Idle \cup Before \cup After
      /\ (worker[p].pc = "finishing" => worker[p].result \in Terminal)
  BY AutomationAssumption DEF TypeOK, Worker, WorkerInv
<1> DEFINE Goal == GoesOn(p) /\ (worker'[p].since \in {worker[p].since, 0} \/ (SkipMissed(p) /\ worker'[p].since = now))
<1> SUFFICES Goal
  OBVIOUS
<1>1. ASSUME NEW pc \in Before \cup {"working", "cancelled"}, worker[p].pc \notin Idle,
             pc \in Before => worker[p].pc \in Before, Goto(p, pc)
      PROVE  Goal
  <2>1. Moves(p, pc, worker[p].id, worker[p].since)
    BY <1>0, <1>1, Moved DEF After
  <2> QED  BY <1>1, <2>1 DEF Moves, GoesOn, Idle, Before
<1>2. ASSUME NEW result \in Terminal, worker[p].pc \notin Idle, Finish(p, result) PROVE Goal
  <2>1. Moves(p, "finishing", worker[p].id, worker[p].since) /\ worker'[p].result = result
    BY <1>0, <1>2, Moved
  <2> QED  BY <1>2, <2>1 DEF Moves, GoesOn, Idle, Before
<1>3. ASSUME Quit(p) PROVE Goal
  BY <1>0, <1>3, Moved DEF Moves, GoesOn, Idle, Before
<1>4. CASE LeaveLoop(p) \/ Crash(p) \/ CompleteFails(p) \/ CompleteCancelled(p) \/ StartWorker(p)
  BY <1>0, <1>4, Moved DEF Moves, GoesOn, LeaveLoop, Crash, CompleteFails, CompleteCancelled, StartWorker, Idle, Before
<1>5. CASE Recover(p)
  BY <1>0, <1>5, Moved DEF Moves, GoesOn, Recover, Idle, Before
<1>6. CASE SkipMissed(p)
  BY <1>0, <1>6, Moved DEF Moves, GoesOn, SkipMissed, Idle, Before
<1>7. CASE StopWorker(p)
  BY <1>0, <1>7, Moved DEF Moves, GoesOn, StopWorker
<1>8. CASE Authorize(p) \/ Look(p) \/ ClaimStart(p) \/ (\E starts \in BOOLEAN : Prepare(p, starts)) \/ Begin(p)
  <2>1. worker[p].pc \in Before /\ worker[p].pc \notin Idle
    BY <1>8 DEF Authorize, Look, ClaimStart, Prepare, Begin, Idle, Before
  <2>2. \/ \E pc \in Before \cup {"working"} : Goto(p, pc)
        \/ Finish(p, "blocked") \/ Finish(p, "failed") \/ Quit(p)
    BY <1>8 DEF Authorize, Look, ClaimStart, Prepare, Begin, Before
  <2>3. "blocked" \in Terminal /\ "failed" \in Terminal
    BY DEF Terminal
  <2> HIDE DEF Goal
  <2> QED  BY <1>1, <1>2, <1>3, <2>1, <2>2, <2>3
<1>9. CASE \E result \in Terminal : WorkEnds(p, result)
  <2> HIDE DEF Goal
  <2> QED  BY <1>2, <1>9 DEF WorkEnds, Idle
<1>10. CASE Complete(p)
  <2>1. CASE worker' = [worker EXCEPT ![p] = Down]
    BY <1>0, <2>1, Moved DEF Moves, GoesOn, Idle, Before
  <2> HIDE DEF Goal
  <2> QED  BY <1>3, <1>10, <2>1 DEF Complete
<1>11. CASE Shutdown(p)
  <2>1. worker[p].pc \notin Idle /\ Goto(p, "cancelled") /\ "cancelled" \notin Before
    BY <1>11 DEF Shutdown, Idle, Before
  <2> HIDE DEF Goal
  <2> QED  BY <1>1, <2>1
<1>12. CASE ThreadEnds(p)
  BY <1>0, <1>12 DEF ThreadEnds, GoesOn
<1> HIDE DEF Goal
<1> QED  BY <1>4, <1>5, <1>6, <1>7, <1>8, <1>9, <1>10, <1>11, <1>12 DEF OtherStep

\* Every step keeps the types.
LEMMA NextTypeOK ==
  ASSUME IInv, [Next]_vars
  PROVE  TypeOK'
<1>0. TypeOK /\ WorkerInv /\ {MaxTime, MaxExecs, Day} \subseteq Nat
  BY AutomationAssumption DEF IInv
<1>1. CASE Tick
  BY <1>0, <1>1 DEF Tick, TypeOK
<1>2. ASSUME NEW g \in {"automation", "write"}, Reconfigure(g) \/ Reenable(g) PROVE TypeOK'
  <2>1. gates' = [gates EXCEPT !.automation = TRUE] \/ gates' = [gates EXCEPT !.automation = FALSE]
        \/ gates' = [gates EXCEPT !.write = TRUE] \/ gates' = [gates EXCEPT !.write = FALSE]
    BY <1>2 DEF Reconfigure, Reenable
  <2>2. gates' \in [automation : BOOLEAN, write : BOOLEAN]
    BY <1>0, <2>1 DEF TypeOK
  <2>3. upsets' \in Nat
    BY <1>0, <1>2 DEF Reconfigure, Reenable, Upset, TypeOK
  <2> QED  BY <1>0, <1>2, <2>2, <2>3 DEF Reconfigure, Reenable, TypeOK
<1>3. ASSUME NEW s \in Schedules, BeginUpsert(s) \/ Disable(s) \/ Delete(s) PROVE TypeOK'
  <2>1. CASE BeginUpsert(s)
    BY <1>0, <2>1 DEF BeginUpsert, TypeOK, Draft
  <2>2. CASE Disable(s)
    BY <1>0, <2>2 DEF Disable, TypeOK, Schedule
  <2>3. CASE Delete(s)
    BY <1>0, <2>3 DEF Delete, TypeOK
  <2> QED  BY <1>3, <2>1, <2>2, <2>3
<1>4. CASE CommitUpsert
  BY <1>0, <1>4, CommitEffect DEF CommitUpsert, TypeOK
<1>5. ASSUME NEW p \in Procs, NEW after \in Worker, ClaimDue(p, after), upsets' \in Nat PROVE TypeOK'
  <2>1. PICK s \in Schedules, t \in Times :
               /\ Chosen(s, t)
               /\ \/ t > now /\ Advanced(s, t) /\ UNCHANGED <<exec, issued, worker>>
                  \/ /\ t <= now /\ Advanced(s, NextDailyRun(now))
                     /\ issued < MaxExecs /\ issued' = issued + 1
                     /\ exec' = [exec EXCEPT ![issued + 1] = Claimed(s, t)]
                     /\ worker' = [worker EXCEPT ![p] = after]
    BY <1>0, <1>5, ClaimEffect
  <2>2. sched' \in [Schedules -> Schedule \cup {None}] /\ issued' \in 0..MaxExecs
        /\ UNCHANGED <<direct, now, gates, threads, draft, begun, savedAt>>
    BY <1>0, <1>5, <2>1, ClaimEffect DEF Advanced, TypeOK
  <2>3. exec' \in [Ids -> Execution \cup {None}] /\ worker' \in [Procs -> Worker]
    BY <1>0, <1>5, <2>1, ClaimedIsExecution DEF TypeOK
  <2> QED  BY <1>0, <1>5, <2>2, <2>3 DEF TypeOK
<1>6. ASSUME NEW p \in Procs, Claim(p) \/ ShutdownInClaim(p) PROVE TypeOK'
  <2>1. Down \in Worker
    BY DEF Down, Worker, Idle
  <2>2. CASE Claim(p)
    <3> DEFINE after == [worker[p] EXCEPT !.pc = "claimed", !.id = issued + 1]
    <3>1. CASE issued < MaxExecs
      <4>1. issued + 1 \in Ids /\ worker[p] \in Worker
        BY <1>0, <3>1 DEF TypeOK, Ids
      <4>2. after \in Worker
        BY <4>1 DEF Worker, Before
      <4>3. upsets' \in Nat
        BY <1>0, <2>2 DEF Claim, TypeOK
      <4> QED  BY <1>5, <2>2, <4>2, <4>3 DEF Claim
    <3>2. CASE ~(issued < MaxExecs)
      <4> HIDE DEF after
      <4>1. /\ ClaimDue(p, after) /\ upsets' = upsets
        BY <2>2 DEF Claim, after
      <4>2. /\ UNCHANGED <<direct, now, gates, threads, draft, begun, savedAt, exec, issued, worker>>
            /\ sched' \in [Schedules -> Schedule \cup {None}]
        BY <1>0, <3>2, <4>1, ClaimEffect DEF Advanced
      <4> QED  BY <1>0, <4>1, <4>2 DEF TypeOK
    <3> QED  BY <3>1, <3>2
  <2>3. CASE ShutdownInClaim(p)
    <3>1. upsets' \in Nat
      BY <1>0, <2>3 DEF ShutdownInClaim, Upset, TypeOK
    <3> QED  BY <1>5, <2>1, <2>3, <3>1 DEF ShutdownInClaim
  <2> QED  BY <1>6, <2>2, <2>3
<1>7. ASSUME NEW p \in Procs, NEW ids \in SUBSET Ids, NEW status \in Terminal, CloseRows(ids, status),
             \A i \in ids : exec[i] # None
      PROVE  exec' \in [Ids -> Execution \cup {None}] /\ sched' \in [Schedules -> Schedule \cup {None}]
  BY <1>0, <1>7, ClosedRows
<1>8. ASSUME NEW p \in Procs, Recover(p) \/ Complete(p) \/ CompleteCancelled(p) PROVE TypeOK'
  <2>1. /\ Interrupted(p) \subseteq Ids /\ Completes(p) \subseteq Ids /\ \A i \in Completes(p) : exec[i] # None
        /\ "failed" \in Terminal
    BY <1>0 DEF Interrupted, Completes, Running, TypeOK, Worker, Terminal
  <2>2. exec' \in [Ids -> Execution \cup {None}] /\ sched' \in [Schedules -> Schedule \cup {None}]
    <3>1. CASE Recover(p)
      BY <1>0, <1>7, <2>1, <3>1 DEF Recover, TypeOK
    <3>2. CASE Complete(p)
      <4>1. worker[p].result \in Terminal
        BY <1>0, <3>2 DEF WorkerInv, Complete
      <4> QED  BY <1>0, <1>7, <2>1, <3>2, <4>1 DEF Complete, TypeOK
    <3>3. CASE CompleteCancelled(p)
      BY <1>0, <1>7, <2>1, <3>3 DEF CompleteCancelled, TypeOK
    <3> QED  BY <1>8, <3>1, <3>2, <3>3
  <2>3. worker' \in [Procs -> Worker]
    BY <1>0, <1>8, WorkerGoesOn DEF OtherStep, GoesOn
  <2> QED  BY <1>0, <1>8, <2>2, <2>3 DEF Recover, Complete, CompleteCancelled, TypeOK
<1>9. ASSUME NEW p \in Procs, SkipMissed(p) PROVE TypeOK'
  <2>1. sched' \in [Schedules -> Schedule \cup {None}]
    <3>1. ASSUME NEW s \in Schedules PROVE sched'[s] \in Schedule \cup {None}
      <4>1. CASE Due(s)
        <5>1. sched[s] \in Schedule /\ SkippedTo(s) \in Nat /\ sched'[s] = [sched[s] EXCEPT !.next = SkippedTo(s)]
          BY <1>0, <1>9, <4>1, NextRunIsLater DEF SkipMissed, SkippedTo, Due, TypeOK
        <5> QED  BY <5>1 DEF Schedule
      <4>2. CASE ~Due(s)
        BY <1>0, <1>9, <4>2 DEF SkipMissed, TypeOK
      <4> QED  BY <4>1, <4>2
    <3> QED  BY <1>9, <3>1 DEF SkipMissed
  <2>2. worker' \in [Procs -> Worker]
    BY <1>0, <1>9, WorkerGoesOn DEF OtherStep, GoesOn
  <2> QED  BY <1>0, <1>9, <2>1, <2>2 DEF SkipMissed, TypeOK
<1>10. ASSUME NEW p \in Procs, \E starts \in BOOLEAN : Prepare(p, starts) PROVE TypeOK'
  <2>1. exec' \in [Ids -> Execution \cup {None}]
    <3>1. exec \in [Ids -> Execution \cup {None}]
      BY <1>0 DEF TypeOK
    <3>2. CASE exec' = exec
      BY <3>1, <3>2
    <3>3. CASE \E b \in BOOLEAN : Row(p) # None /\ exec' = [exec EXCEPT ![Id(p)].thread = @ \/ b]
      <4>1. PICK b \in BOOLEAN : Row(p) # None /\ exec' = [exec EXCEPT ![Id(p)].thread = @ \/ b]
        BY <3>3
      <4>2. ASSUME Id(p) \in Ids PROVE [exec[Id(p)] EXCEPT !.thread = @ \/ b] \in Execution
        BY <3>1, <4>1, <4>2 DEF Row, Execution
      <4> QED  BY <3>1, <4>1, <4>2
    <3> QED  BY <1>10, <3>2, <3>3 DEF Prepare
  <2>2. worker' \in [Procs -> Worker]
    BY <1>0, <1>10, WorkerGoesOn DEF OtherStep, GoesOn
  <2> QED  BY <1>0, <1>10, <2>1, <2>2 DEF Prepare, TypeOK
<1>11. ASSUME NEW p \in Procs, ClaimStart(p) PROVE TypeOK'
  <2>1. exec' \in [Ids -> Execution \cup {None}]
    <3>1. exec \in [Ids -> Execution \cup {None}]
      BY <1>0 DEF TypeOK
    <3>2. CASE exec' = exec
      BY <3>1, <3>2
    <3>3. CASE Row(p) # None /\ exec' = [exec EXCEPT ![Id(p)].prepared = TRUE]
      <4>1. ASSUME Id(p) \in Ids PROVE [exec[Id(p)] EXCEPT !.prepared = TRUE] \in Execution
        BY <3>1, <3>3, <4>1 DEF Row, Execution
      <4> QED  BY <3>1, <3>3, <4>1
    <3> QED  BY <1>11, <3>2, <3>3 DEF ClaimStart, MayStart
  <2>2. worker' \in [Procs -> Worker]
    BY <1>0, <1>11, WorkerGoesOn DEF OtherStep, GoesOn
  <2> QED  BY <1>0, <1>11, <2>1, <2>2 DEF ClaimStart, TypeOK
<1>12. ASSUME NEW p \in Procs, Begin(p) PROVE TypeOK'
  <2>1. worker' \in [Procs -> Worker]
    BY <1>0, <1>12, WorkerGoesOn DEF OtherStep, GoesOn
  <2>2. threads' \in [Procs -> Ids \cup {None}]
    BY <1>0, <1>12 DEF Begin, Id, TypeOK, Worker
  <2>3. begun' \in [Schedules \X Times -> Nat]
    <3>1. CASE begun' = begun
      BY <1>0, <3>1 DEF TypeOK
    <3>2. CASE Row(p) # None /\ begun' = [begun EXCEPT ![<<Row(p).schedule, Row(p).for>>] = @ + 1]
      <4>1. begun \in [Schedules \X Times -> Nat]
        BY <1>0 DEF TypeOK
      <4> DEFINE occurrences == Schedules \X Times
      <4> HIDE DEF occurrences
      <4>2. ASSUME NEW k, begun \in [occurrences -> Nat]
            PROVE  [begun EXCEPT ![k] = @ + 1] \in [occurrences -> Nat]
        <5>1. CASE k \in occurrences
          BY <4>2, <5>1
        <5>2. CASE k \notin occurrences
          BY <4>2, <5>2
        <5> QED  BY <5>1, <5>2
      <4> QED  BY <3>2, <4>1, <4>2 DEF occurrences
    <3> QED  BY <1>12, <3>1, <3>2 DEF Begin
  <2> QED  BY <1>0, <1>12, <2>1, <2>2, <2>3 DEF Begin, TypeOK
<1>13. ASSUME NEW p \in Procs,
              \/ StartWorker(p) \/ StopWorker(p) \/ LeaveLoop(p) \/ Authorize(p) \/ Look(p)
              \/ (\E result \in Terminal : WorkEnds(p, result)) \/ ThreadEnds(p)
              \/ Crash(p) \/ Shutdown(p) \/ CompleteFails(p)
       PROVE  TypeOK'
  <2>1. worker' \in [Procs -> Worker]
    BY <1>0, <1>13, WorkerGoesOn DEF OtherStep, GoesOn
  <2>2. threads' \in [Procs -> Ids \cup {None}] /\ upsets' \in Nat
    BY <1>0, <1>13 DEF StartWorker, StopWorker, LeaveLoop, Authorize, Look, WorkEnds, ThreadEnds, Crash, Shutdown,
                       CompleteFails, Upset, TypeOK
  <2>3. UNCHANGED <<direct, now, gates, sched, exec, issued, draft, begun, savedAt>>
    BY <1>13 DEF StartWorker, StopWorker, LeaveLoop, Authorize, Look, WorkEnds, ThreadEnds, Crash, Shutdown,
                 CompleteFails
  <2> QED  BY <1>0, <2>1, <2>2, <2>3 DEF TypeOK
<1>14. CASE UNCHANGED vars
  BY <1>0, <1>14 DEF vars, TypeOK
<1> QED
  BY <1>1, <1>2, <1>3, <1>4, <1>6, <1>8, <1>9, <1>10, <1>11, <1>12, <1>13, <1>14
  DEF Next, WorkerStep, Trouble

-----------------------------------------------------------------------------
(* The steps, by what they leave alone.                                    *)

Claims == \E p \in Procs : Claim(p) \/ ShutdownInClaim(p)
Deletes == \E s \in Schedules : Delete(s)

\* A claim that finds the history complete up to now, and one that takes an occurrence.
Postpones(s, t) == t > now /\ Advanced(s, t) /\ UNCHANGED <<exec, issued, worker>>

Takes(p, s, t) ==
    /\ t <= now /\ Advanced(s, NextDailyRun(now))
    /\ issued + 1 \in Ids /\ issued' = issued + 1
    /\ exec' = [exec EXCEPT ![issued + 1] = Claimed(s, t)]
    /\ Moves(p, "claimed", issued + 1, worker[p].since) \/ Moves(p, "down", None, 0)

\* What a claim does, to the worker as well.
LEMMA ClaimSteps ==
  ASSUME IInv, NEW p \in Procs, Claim(p) \/ ShutdownInClaim(p)
  PROVE  /\ UNCHANGED <<direct, now, gates, threads, draft, begun, savedAt>> /\ worker[p].pc = "polling"
         /\ \E s \in Schedules, t \in Times : Chosen(s, t) /\ (Postpones(s, t) \/ Takes(p, s, t))
<1>0. TypeOK /\ worker \in [Procs -> Worker] /\ issued \in 0..MaxExecs /\ MaxExecs \in Nat /\ now \in Nat
  BY AutomationAssumption DEF IInv, TypeOK
<1>1. PICK after : /\ ClaimDue(p, after) /\ worker[p].pc = "polling"
                   /\ after = [worker[p] EXCEPT !.pc = "claimed", !.id = issued + 1] \/ after = Down
  BY DEF Claim, ShutdownInClaim
<1>2. PICK s \in Schedules, t \in Times :
        /\ Chosen(s, t)
        /\ \/ t > now /\ Advanced(s, t) /\ UNCHANGED <<exec, issued, worker>>
           \/ /\ t <= now /\ Advanced(s, NextDailyRun(now))
              /\ issued < MaxExecs /\ issued' = issued + 1
              /\ exec' = [exec EXCEPT ![issued + 1] = Claimed(s, t)]
              /\ worker' = [worker EXCEPT ![p] = after]
  BY <1>0, <1>1, ClaimEffect
<1>3. CASE t > now /\ Advanced(s, t) /\ UNCHANGED <<exec, issued, worker>>
  BY <1>0, <1>1, <1>2, <1>3, ClaimEffect DEF Postpones
<1>4. CASE /\ t <= now /\ Advanced(s, NextDailyRun(now))
           /\ issued < MaxExecs /\ issued' = issued + 1
           /\ exec' = [exec EXCEPT ![issued + 1] = Claimed(s, t)]
           /\ worker' = [worker EXCEPT ![p] = after]
  <2>1. issued + 1 \in Ids
    BY <1>0, <1>4 DEF Ids
  <2>2. CASE after = [worker[p] EXCEPT !.pc = "claimed", !.id = issued + 1]
    <3>1. worker[p] \in Worker
      BY <1>0
    <3>2. after \in Worker /\ after.pc = "claimed" /\ after.id = issued + 1 /\ after.since = worker[p].since
      BY <2>1, <2>2, <3>1 DEF Worker, Before
    <3>3. Moves(p, "claimed", issued + 1, worker[p].since)
      BY <1>0, <1>4, <3>2, Replaced
    <3> QED  BY <1>0, <1>1, <1>2, <1>4, <2>1, <3>3, ClaimEffect DEF Takes
  <2>3. CASE after = Down
    <3>1. Moves(p, "down", None, 0)
      BY <1>0, <1>4, <2>3, Moved
    <3> QED  BY <1>0, <1>1, <1>2, <1>4, <2>1, <3>1, ClaimEffect DEF Takes
  <2> QED  BY <1>1, <2>2, <2>3
<1> QED  BY <1>2, <1>3, <1>4

\* Executions keep their schedule and their occurrence.
RowsStay ==
    /\ issued' = issued
    /\ \A i \in Ids : /\ exec'[i] = None <=> exec[i] = None
                      /\ exec[i] # None => exec'[i].schedule = exec[i].schedule /\ exec'[i].for = exec[i].for

\* Every step but a claim or a deletion keeps the executions.
LEMMA RowsSteps ==
  ASSUME IInv, [Next]_vars, ~Claims, ~Deletes
  PROVE  RowsStay
<1>0. TypeOK /\ WorkerInv /\ exec \in [Ids -> Execution \cup {None}]
  BY DEF IInv, TypeOK
<1>1. CASE UNCHANGED <<exec, issued>>
  BY <1>1 DEF RowsStay
<1>2. ASSUME NEW p \in Procs, Recover(p) \/ Complete(p) \/ CompleteCancelled(p) PROVE RowsStay
  <2>1. /\ Interrupted(p) \subseteq Ids /\ Completes(p) \subseteq Ids /\ \A i \in Completes(p) : exec[i] # None
        /\ "failed" \in Terminal
    BY <1>0 DEF Interrupted, Completes, Running, TypeOK, Worker, Terminal
  <2>2. CASE exec' = exec
    BY <1>2, <2>2 DEF Recover, Complete, CompleteCancelled, RowsStay
  <2>3. ASSUME NEW ids \in SUBSET Ids, NEW status \in Terminal, CloseRows(ids, status), \A i \in ids : exec[i] # None
        PROVE  RowsStay
    BY <1>0, <1>2, <2>3, ClosedRows DEF Recover, Complete, CompleteCancelled, RowsStay
  <2>4. CASE Recover(p)
    BY <2>1, <2>2, <2>3, <2>4 DEF Recover
  <2>5. CASE Complete(p)
    <3>1. worker[p].result \in Terminal
      BY <1>0, <2>5 DEF Complete, WorkerInv
    <3> QED  BY <2>1, <2>2, <2>3, <2>5, <3>1 DEF Complete
  <2>6. CASE CompleteCancelled(p)
    BY <2>1, <2>2, <2>3, <2>6 DEF CompleteCancelled
  <2> QED  BY <1>2, <2>4, <2>5, <2>6
<1>3. ASSUME NEW p \in Procs, ClaimStart(p) \/ (\E starts \in BOOLEAN : Prepare(p, starts)) PROVE RowsStay
  <2>1. CASE exec' = exec
    BY <1>3, <2>1 DEF ClaimStart, Prepare, RowsStay
  <2>2. CASE exec[Id(p)] # None
             /\ \/ exec' = [exec EXCEPT ![Id(p)].prepared = TRUE]
                \/ \E b \in BOOLEAN : exec' = [exec EXCEPT ![Id(p)].thread = @ \/ b]
    <3>1. PICK e : exec' = [exec EXCEPT ![Id(p)] = e] /\ (Id(p) \in Ids =>
                     e # None /\ e.schedule = exec[Id(p)].schedule /\ e.for = exec[Id(p)].for)
      <4>1. CASE exec' = [exec EXCEPT ![Id(p)].prepared = TRUE]
        <5> DEFINE e == [exec[Id(p)] EXCEPT !.prepared = TRUE]
        <5>1. Id(p) \in Ids => e \in Execution /\ e.schedule = exec[Id(p)].schedule /\ e.for = exec[Id(p)].for
          BY <1>0, <2>2 DEF Execution
        <5>2. exec' = [exec EXCEPT ![Id(p)] = e]
          BY <4>1
        <5> HIDE DEF e
        <5> QED  BY <5>1, <5>2, AutomationAssumption
      <4>2. ASSUME NEW b \in BOOLEAN, exec' = [exec EXCEPT ![Id(p)].thread = @ \/ b]
            PROVE  \E e : exec' = [exec EXCEPT ![Id(p)] = e] /\ (Id(p) \in Ids =>
                     e # None /\ e.schedule = exec[Id(p)].schedule /\ e.for = exec[Id(p)].for)
        <5> DEFINE e == [exec[Id(p)] EXCEPT !.thread = @ \/ b]
        <5>1. Id(p) \in Ids => e \in Execution /\ e.schedule = exec[Id(p)].schedule /\ e.for = exec[Id(p)].for
          BY <1>0, <2>2 DEF Execution
        <5>2. exec' = [exec EXCEPT ![Id(p)] = e]
          BY <4>2
        <5> HIDE DEF e
        <5> QED  BY <5>1, <5>2, AutomationAssumption
      <4> QED  BY <2>2, <4>1, <4>2
    <3>2. issued' = issued
      BY <1>3 DEF ClaimStart, Prepare
    <3> QED  BY <1>0, <2>2, <3>1, <3>2 DEF RowsStay
  <2> QED  BY <1>3, <2>1, <2>2 DEF ClaimStart, Prepare, MayStart, Row
<1> QED
  BY <1>1, <1>2, <1>3
  DEF Next, WorkerStep, Trouble, Claims, Deletes, vars, Tick, Reconfigure, Reenable, BeginUpsert, Disable, CommitUpsert,
      StartWorker, SkipMissed, StopWorker, LeaveLoop, Authorize, Look, Begin, WorkEnds, ThreadEnds, Crash, Shutdown,
      CompleteFails

\* Schedules are there or not as before, due when they were, and not switched on.
SchedulesStay ==
    /\ savedAt' = savedAt
    /\ \A s \in Schedules : /\ sched'[s] = None <=> sched[s] = None
                            /\ sched[s] # None => sched'[s].next = sched[s].next /\ (sched'[s].active => sched[s].active)

Skips == \E p \in Procs : SkipMissed(p)

\* Every step keeps the schedules, but for a claim, a deletion, an upsert and a skip.
LEMMA SchedulesSteps ==
  ASSUME IInv, [Next]_vars, ~Claims, ~Deletes, ~CommitUpsert, ~Skips
  PROVE  SchedulesStay
<1>0. TypeOK /\ WorkerInv /\ sched \in [Schedules -> Schedule \cup {None}]
  BY DEF IInv, TypeOK
<1>1. CASE UNCHANGED <<sched, savedAt>>
  BY <1>1 DEF SchedulesStay
<1>2. ASSUME NEW p \in Procs, Recover(p) \/ Complete(p) \/ CompleteCancelled(p) PROVE SchedulesStay
  <2>1. /\ Interrupted(p) \subseteq Ids /\ Completes(p) \subseteq Ids /\ \A i \in Completes(p) : exec[i] # None
        /\ "failed" \in Terminal
    BY <1>0 DEF Interrupted, Completes, Running, TypeOK, Worker, Terminal
  <2>2. CASE sched' = sched
    BY <1>2, <2>2 DEF Recover, Complete, CompleteCancelled, SchedulesStay
  <2>3. ASSUME NEW ids \in SUBSET Ids, NEW status \in Terminal, CloseRows(ids, status), \A i \in ids : exec[i] # None
        PROVE  SchedulesStay
    BY <1>0, <1>2, <2>3, ClosedRows DEF Recover, Complete, CompleteCancelled, SchedulesStay
  <2>4. CASE Recover(p)
    BY <2>1, <2>2, <2>3, <2>4 DEF Recover
  <2>5. CASE Complete(p)
    <3>1. worker[p].result \in Terminal
      BY <1>0, <2>5 DEF Complete, WorkerInv
    <3> QED  BY <2>1, <2>2, <2>3, <2>5, <3>1 DEF Complete
  <2>6. CASE CompleteCancelled(p)
    BY <2>1, <2>2, <2>3, <2>6 DEF CompleteCancelled
  <2> QED  BY <1>2, <2>4, <2>5, <2>6
<1>3. ASSUME NEW s \in Schedules, Disable(s) PROVE SchedulesStay
  <2>1. sched[s] \in Schedule /\ sched' = [sched EXCEPT ![s] = [sched[s] EXCEPT !.active = FALSE]] /\ savedAt' = savedAt
    BY <1>0, <1>3 DEF Disable
  <2>2. [sched[s] EXCEPT !.active = FALSE] \in Schedule /\ [sched[s] EXCEPT !.active = FALSE].next = sched[s].next
        /\ [sched[s] EXCEPT !.active = FALSE].active = FALSE
    BY <2>1 DEF Schedule
  <2> QED  BY <1>0, <2>1, <2>2, AutomationAssumption DEF SchedulesStay
<1> QED
  BY <1>1, <1>2, <1>3
  DEF Next, WorkerStep, Trouble, Claims, Deletes, Skips, vars, Tick, Reconfigure, Reenable, BeginUpsert,
      StartWorker, StopWorker, LeaveLoop, Authorize, Look, ClaimStart, Prepare, Begin, WorkEnds, ThreadEnds, Crash,
      Shutdown, CompleteFails

\* Time does not go back.
LEMMA TimeSteps ==
  ASSUME IInv, [Next]_vars
  PROVE  now \in Nat /\ now' \in Nat /\ now' >= now
<1>1. now \in Nat
  BY AutomationAssumption DEF IInv, TypeOK
<1>2. now' = now \/ now' = now + 1
  BY DEF Next, WorkerStep, Trouble, vars, Tick, Reconfigure, Reenable, BeginUpsert, CommitUpsert, Disable, Delete,
         Recover, SkipMissed, Complete, CompleteCancelled, Claim, ShutdownInClaim, ClaimDue,
         StartWorker, StopWorker, LeaveLoop, Authorize, Look, ClaimStart, Prepare, Begin, WorkEnds, ThreadEnds, Crash,
         Shutdown, CompleteFails
<1> QED  BY <1>1, <1>2

\* A worker takes a step, or none does.
LEMMA WorkerSteps ==
  ASSUME IInv, [Next]_vars, ~Claims
  PROVE  (\E p \in Procs : OtherStep(p) /\ GoesOn(p)) \/ UNCHANGED worker
<1>1. TypeOK /\ WorkerInv
  BY DEF IInv
<1> QED
  BY <1>1, WorkerGoesOn
  DEF Next, WorkerStep, Trouble, OtherStep, Claims, vars, Tick, Reconfigure, Reenable, BeginUpsert, CommitUpsert,
      Disable, Delete

-----------------------------------------------------------------------------
(* Workers, executions, upserts, and the time of the start.                *)

\* Every step keeps the workers' executions apart.
LEMMA NextWorkerInv ==
  ASSUME IInv, [Next]_vars
  PROVE  WorkerInv'
<1>0. WorkerInv /\ worker \in [Procs -> Worker] /\ issued \in Nat
  BY AutomationAssumption DEF IInv, TypeOK
<1>1. \A p \in Procs : worker[p].id \in Ids \cup {None} /\ Ids \subseteq Nat /\ None \notin Nat
  BY <1>0, AutomationAssumption DEF Worker, Ids
<1>2. CASE Claims
  <2>1. PICK p \in Procs, s \in Schedules, t \in Times : Postpones(s, t) \/ Takes(p, s, t)
    BY <1>2, ClaimSteps DEF Claims
  <2>2. CASE Postpones(s, t)
    BY <1>0, <2>2 DEF Postpones, WorkerInv
  <2>3. CASE Takes(p, s, t)
    <3>1. /\ issued' = issued + 1 /\ \A q \in Procs \ {p} : worker'[q] = worker[q]
          /\ \/ worker'[p].id = issued + 1 /\ worker'[p].pc = "claimed"
             \/ worker'[p].id = None /\ worker'[p].pc = "down"
      BY <2>3 DEF Takes, Moves
    <3>2. ASSUME NEW q \in Procs
          PROVE  /\ worker'[q].id # None => worker'[q].pc \notin Idle /\ worker'[q].id <= issued'
                 /\ worker'[q].pc \notin Idle => worker'[q].id # None
                 /\ worker'[q].pc = "finishing" => worker'[q].result \in Terminal
      <4>1. CASE q = p
        BY <1>0, <1>1, <3>1, <4>1 DEF Idle
      <4>2. CASE q # p
        BY <1>0, <1>1, <3>1, <4>2 DEF WorkerInv
      <4> QED  BY <4>1, <4>2
    <3>3. ASSUME NEW q \in Procs, NEW r \in Procs, q # r, worker'[q].id # None PROVE worker'[q].id # worker'[r].id
      <4>1. CASE q = p
        BY <1>0, <1>1, <3>1, <3>3, <4>1 DEF WorkerInv
      <4>2. CASE r = p
        BY <1>0, <1>1, <3>1, <3>3, <4>2 DEF WorkerInv
      <4>3. CASE q # p /\ r # p
        BY <1>0, <3>1, <3>3, <4>3 DEF WorkerInv
      <4> QED  BY <4>1, <4>2, <4>3
    <3> QED  BY <3>2, <3>3 DEF WorkerInv
  <2> QED  BY <2>1, <2>2, <2>3
<1>3. CASE ~Claims
  <2>1. issued' = issued
    <3>1. CASE Deletes
      BY <3>1 DEF Deletes, Delete
    <3>2. CASE ~Deletes
      BY <1>3, <3>2, RowsSteps DEF RowsStay
    <3> QED  BY <3>1, <3>2
  <2>2. ASSUME NEW p \in Procs, GoesOn(p) PROVE WorkerInv'
    BY <1>0, <2>1, <2>2 DEF GoesOn, WorkerInv
  <2>3. CASE UNCHANGED worker
    BY <1>0, <2>1, <2>3 DEF WorkerInv
  <2> QED  BY <1>3, <2>2, <2>3, WorkerSteps
<1> QED  BY <1>2, <1>3

\* The occurrences recorded stay, but for a claim and a deletion.
LEMMA RecordedStays ==
  ASSUME RowsStay, NEW s \in Schedules
  PROVE  Recorded(s)' = Recorded(s)
  BY DEF RowsStay, Recorded, ExecsOf

\* Every step keeps the executions of a schedule apart.
LEMMA NextRowsInv ==
  ASSUME IInv, [Next]_vars
  PROVE  RowsInv'
<1>0. RowsInv /\ exec \in [Ids -> Execution \cup {None}] /\ issued \in Nat /\ Times \subseteq Nat /\ Ids \subseteq Nat
      /\ now' >= now /\ now \in Nat /\ now' \in Nat
  BY AutomationAssumption, TimeSteps DEF IInv, TypeOK, Times, Ids
<1>1. CASE Claims
  <2>1. PICK p \in Procs, s \in Schedules, t \in Times : Chosen(s, t) /\ (Postpones(s, t) \/ Takes(p, s, t))
    BY <1>1, ClaimSteps DEF Claims
  <2>2. now' = now
    BY <1>1, ClaimSteps DEF Claims
  <2>3. CASE Postpones(s, t)
    BY <1>0, <2>2, <2>3 DEF Postpones, RowsInv
  <2>4. CASE Takes(p, s, t)
    <3>1. /\ t <= now /\ issued' = issued + 1 /\ issued + 1 \in Ids
          /\ exec'[issued + 1].schedule = s /\ exec'[issued + 1].for = t
          /\ \A i \in Ids : i # issued + 1 => exec'[i] = exec[i]
      BY <1>0, <2>4 DEF Takes, Claimed
    <3>2. \A i \in Ids : exec[i] # None /\ exec[i].schedule = s => exec[i].for # t
      BY <2>1 DEF Chosen, Recorded, ExecsOf
    <3>3. \A i \in Ids : exec'[i] # None => i <= issued' /\ exec'[i].for <= now
      BY <1>0, <3>1 DEF RowsInv
    <3>4. ASSUME NEW i \in Ids, NEW j \in Ids, i # j, exec'[i] # None, exec'[j] # None,
                 exec'[i].schedule = exec'[j].schedule
          PROVE  exec'[i].for # exec'[j].for
      <4>1. CASE i # issued + 1 /\ j # issued + 1
        BY <1>0, <3>1, <3>4, <4>1 DEF RowsInv
      <4>2. CASE i = issued + 1
        BY <3>1, <3>2, <3>4, <4>2
      <4>3. CASE j = issued + 1
        BY <3>1, <3>2, <3>4, <4>3
      <4> QED  BY <4>1, <4>2, <4>3
    <3> QED  BY <2>2, <3>3, <3>4 DEF RowsInv
  <2> QED  BY <2>1, <2>3, <2>4
<1>2. CASE Deletes
  <2>1. issued' = issued /\ now' = now /\ \A i \in Ids : exec'[i] = None \/ exec'[i] = exec[i]
    BY <1>2 DEF Deletes, Delete
  <2> QED  BY <1>0, <2>1 DEF RowsInv
<1>3. CASE RowsStay
  <2>1. \A i \in Ids : exec[i] # None => exec[i].for \in Nat
    BY <1>0 DEF Execution
  <2>2. \A i \in Ids : exec'[i] # None => i <= issued' /\ exec'[i].for <= now'
    BY <1>0, <1>3, <2>1 DEF RowsInv, RowsStay
  <2>3. ASSUME NEW i \in Ids, NEW j \in Ids, i # j, exec'[i] # None, exec'[j] # None,
               exec'[i].schedule = exec'[j].schedule
        PROVE  exec'[i].for # exec'[j].for
    BY <1>0, <1>3, <2>3 DEF RowsInv, RowsStay
  <2> QED  BY <2>2, <2>3 DEF RowsInv
<1> QED  BY <1>1, <1>2, <1>3, RowsSteps

\* A schedule that is not there appears only by the commit of an upsert.
LEMMA NoneStays ==
  ASSUME IInv, [Next]_vars, ~CommitUpsert, NEW s \in Schedules, sched[s] = None
  PROVE  sched'[s] = None
<1>1. CASE Claims
  <2>1. PICK u \in Schedules : sched[u] # None /\ \A v \in Schedules \ {u} : sched'[v] = sched[v]
    BY <1>1, ClaimSteps DEF Claims, Chosen, Postpones, Takes, Advanced
  <2> QED  BY <2>1
<1>2. CASE Deletes
  BY <1>2 DEF Deletes, Delete, IInv, TypeOK
<1>3. CASE Skips
  BY <1>3 DEF Skips, SkipMissed, Due
<1>4. CASE SchedulesStay
  BY <1>4 DEF SchedulesStay
<1> QED  BY <1>1, <1>2, <1>3, <1>4, SchedulesSteps

\* The upsert in flight begins or commits, or waits.
LEMMA DraftSteps ==
  ASSUME [Next]_vars
  PROVE  UNCHANGED draft \/ CommitUpsert \/ \E s \in Schedules : BeginUpsert(s)
  BY DEF Next, WorkerStep, Trouble, vars, Tick, Reconfigure, Reenable, Disable, Delete,
         Recover, SkipMissed, Complete, CompleteCancelled, Claim, ShutdownInClaim, ClaimDue,
         StartWorker, StopWorker, LeaveLoop, Authorize, Look, ClaimStart, Prepare, Begin, WorkEnds, ThreadEnds, Crash,
         Shutdown, CompleteFails

\* Every step keeps the upsert in flight in line with the schedules.
LEMMA NextDraftInv ==
  ASSUME IInv, [Next]_vars
  PROVE  DraftInv'
<1>0. DraftInv /\ TypeOK /\ now' >= now /\ now \in Nat /\ now' \in Nat
  BY TimeSteps DEF IInv
<1>1. ASSUME NEW s \in Schedules, BeginUpsert(s) PROVE DraftInv'
  BY <1>0, <1>1 DEF BeginUpsert, DraftInv
<1>2. CASE CommitUpsert
  BY <1>2 DEF CommitUpsert, DraftInv
<1>3. CASE draft' = draft /\ ~CommitUpsert
  <2>1. ASSUME draft # None PROVE draft.at \in Nat /\ draft.schedule \in Schedules
    BY <1>0, <2>1 DEF TypeOK, Draft
  <2> QED  BY <1>0, <1>3, <2>1, NoneStays DEF DraftInv
<1> QED  BY <1>1, <1>2, <1>3, DraftSteps

\* The next run of a schedule moves forward, or past the present, or to where the upsert
\* in flight puts it; and after a skip nothing that is active is due.
LEMMA NextRunSteps ==
  ASSUME IInv, [Next]_vars, NEW s \in Schedules, sched'[s] # None
  PROVE  /\ \/ /\ sched[s] # None /\ sched'[s].next >= sched[s].next
               /\ savedAt'[s] = now \/ (savedAt'[s] = savedAt[s] /\ (sched'[s].active => sched[s].active))
            \/ sched'[s].next > now
            \/ /\ draft # None /\ draft.schedule = s /\ (draft.row = None \/ sched[s] # None)
               /\ sched'[s].next > draft.at /\ savedAt'[s] = now
         /\ Skips /\ sched'[s].active => sched'[s].next > now
<1>0. TypeOK /\ sched \in [Schedules -> Schedule \cup {None}] /\ now \in Nat /\ Times \subseteq Nat
  BY AutomationAssumption, TimeSteps DEF IInv, TypeOK, Times
<1>1. sched[s] # None => sched[s].next \in Nat
  BY <1>0 DEF Schedule
<1>2. CASE Skips
  <2>1. PICK p \in Procs : SkipMissed(p)
    BY <1>2 DEF Skips
  <2>2. CASE Due(s)
    <3>1. sched[s] \in Schedule /\ sched'[s] = [sched[s] EXCEPT !.next = NextDailyRun(now)]
      BY <1>0, <2>1, <2>2 DEF SkipMissed, SkippedTo, Due
    <3>2. sched'[s].next > now
      BY <1>0, <3>1, NextRunIsLater DEF Schedule
    <3> QED  BY <3>2
  <2>3. CASE ~Due(s)
    <3>1. sched'[s] = sched[s] /\ savedAt' = savedAt
      BY <2>1, <2>3 DEF SkipMissed
    <3>2. sched'[s].active => sched'[s].next > now
      BY <1>0, <1>1, <2>3, <3>1 DEF Due
    <3> QED  BY <1>1, <3>1, <3>2
  <2> QED  BY <2>2, <2>3
<1>3. CASE Claims /\ ~Skips
  <2>1. PICK p \in Procs, u \in Schedules, t \in Times : Chosen(u, t) /\ (Postpones(u, t) \/ Takes(p, u, t))
    BY <1>3, ClaimSteps DEF Claims
  <2>2. savedAt' = savedAt
    BY <1>3, ClaimSteps DEF Claims
  <2>3. CASE s = u
    <3>1. sched'[s].next > now
      BY <1>0, <2>1, <2>3, NextRunIsLater DEF Postpones, Takes, Advanced
    <3> QED  BY <3>1
  <2>4. CASE s # u
    <3>1. sched'[s] = sched[s]
      BY <2>1, <2>4 DEF Postpones, Takes, Advanced
    <3> QED  BY <1>1, <1>3, <2>2, <3>1
  <2> QED  BY <2>3, <2>4
<1>4. CASE Deletes /\ ~Skips
  <2>1. sched'[s] = sched[s] /\ savedAt' = savedAt
    BY <1>0, <1>4 DEF Deletes, Delete
  <2> QED  BY <1>1, <1>4, <2>1
<1>5. CASE CommitUpsert /\ ~Skips
  <2>1. draft # None /\ draft.at \in Nat
    BY <1>0, <1>5 DEF CommitUpsert, TypeOK, Draft
  <2>2. NextDailyRun(draft.at) > draft.at
    BY <2>1, NextRunIsLater
  <2>3. \/ sched'[s] = sched[s] /\ savedAt'[s] = savedAt[s]
        \/ /\ s = draft.schedule /\ savedAt'[s] = now
           /\ draft.row = None \/ sched[s] # None
           /\ \/ sched'[s].next = NextDailyRun(draft.at)
              \/ sched[s] # None /\ sched'[s].next = sched[s].next
    BY <1>0, <1>5, CommitEffect
  <2> QED  BY <1>1, <1>5, <2>1, <2>2, <2>3
<1>6. CASE SchedulesStay /\ ~Skips
  BY <1>1, <1>6 DEF SchedulesStay
<1> QED  BY <1>2, <1>3, <1>4, <1>5, <1>6, SchedulesSteps

\* The time a worker started is set by its skip of missed occurrences only.
LEMMA SinceSteps ==
  ASSUME IInv, [Next]_vars, NEW p \in Procs
  PROVE  worker'[p].since \in {worker[p].since, 0} \/ (Skips /\ worker'[p].since = now)
<1>0. TypeOK /\ WorkerInv
  BY DEF IInv
<1>1. CASE Claims
  <2>1. PICK q \in Procs, s \in Schedules, t \in Times : Postpones(s, t) \/ Takes(q, s, t)
    BY <1>1, ClaimSteps DEF Claims
  <2> QED  BY <2>1 DEF Postpones, Takes, Moves
<1>2. ASSUME NEW q \in Procs, OtherStep(q)
      PROVE  worker'[p].since \in {worker[p].since, 0} \/ (Skips /\ worker'[p].since = now)
  BY <1>0, <1>2, WorkerGoesOn DEF GoesOn, Skips
<1> QED  BY <1>1, <1>2, WorkerSteps

\* Every step keeps what is missed from falling due.
LEMMA NextSinceInv ==
  ASSUME IInv, [Next]_vars
  PROVE  SinceInv'
<1>0. SinceInv /\ TypeOK /\ TypeOK' /\ now' >= now /\ now \in Nat /\ now' \in Nat
  BY TimeSteps, NextTypeOK DEF IInv
<1> SUFFICES ASSUME NEW p \in Procs
             PROVE  /\ worker'[p].since <= now'
                    /\ \A s \in Schedules : sched'[s] # None /\ sched'[s].active =>
                          sched'[s].next > worker'[p].since \/ savedAt'[s] >= worker'[p].since
  BY DEF SinceInv
<1>1. worker[p].since \in Nat /\ worker'[p].since \in Nat /\ worker[p].since <= now
  BY <1>0 DEF TypeOK, Worker, SinceInv
<1>2. worker'[p].since \in {worker[p].since, 0} \/ (Skips /\ worker'[p].since = now)
  BY SinceSteps
<1>3. ASSUME NEW s \in Schedules, sched'[s] # None, sched'[s].active
      PROVE  sched'[s].next > worker'[p].since \/ savedAt'[s] >= worker'[p].since
  <2>1. /\ sched'[s].next \in Nat /\ savedAt'[s] \in Nat /\ savedAt[s] \in Nat
        /\ sched[s] # None => sched[s].next \in Nat
    BY <1>0, <1>3 DEF TypeOK, Schedule
  <2>2. CASE Skips /\ worker'[p].since = now
    BY <1>3, <2>2, NextRunSteps
  <2>3. CASE worker'[p].since = 0
    BY <2>1, <2>3
  <2>4. CASE worker'[p].since = worker[p].since
    <3>1. sched[s] # None /\ sched[s].active => sched[s].next > worker[p].since \/ savedAt[s] >= worker[p].since
      BY <1>0 DEF SinceInv
    <3>2. \/ /\ sched[s] # None /\ sched'[s].next >= sched[s].next
             /\ savedAt'[s] = now \/ (savedAt'[s] = savedAt[s] /\ (sched'[s].active => sched[s].active))
          \/ sched'[s].next > now
          \/ savedAt'[s] = now
      BY <1>3, NextRunSteps
    <3> QED  BY <1>0, <1>1, <1>3, <2>1, <2>4, <3>1, <3>2
  <2> QED  BY <1>2, <2>2, <2>3, <2>4
<1> QED  BY <1>0, <1>1, <1>2, <1>3

-----------------------------------------------------------------------------
(* The work.                                                               *)

\* What a worker begins is the occurrence of its execution, which stays recorded.
Begins(p) ==
    /\ Begin(p) /\ worker[p].pc = "ready" /\ exec[worker[p].id] # None
    /\ begun' = [begun EXCEPT ![<<exec[worker[p].id].schedule, exec[worker[p].id].for>>] = @ + 1]
    /\ UNCHANGED <<now, sched, exec, issued, draft>>

LEMMA BegunSteps ==
  ASSUME [Next]_vars
  PROVE  begun' = begun \/ \E p \in Procs : Begins(p)
<1>1. ASSUME NEW p \in Procs, Begin(p) PROVE begun' = begun \/ Begins(p)
  BY <1>1 DEF Begin, Begins, Row, Id
<1> QED
  BY <1>1
  DEF Next, WorkerStep, Trouble, vars, Tick, Reconfigure, Reenable, Disable, Delete, BeginUpsert, CommitUpsert,
      Recover, SkipMissed, Complete, CompleteCancelled, Claim, ShutdownInClaim, ClaimDue,
      StartWorker, StopWorker, LeaveLoop, Authorize, Look, ClaimStart, Prepare, WorkEnds, ThreadEnds, Crash,
      Shutdown, CompleteFails

\* What lies behind a schedule and the upsert in flight still does after a step.
LEMMA BehindStays ==
  ASSUME IInv, [Next]_vars, NEW s \in Schedules, NEW t \in Times, t <= now, Behind(s, t)
  PROVE  Behind(s, t)'
<1>0. TypeOK /\ TypeOK' /\ now \in Nat /\ now' \in Nat /\ t \in Nat
  BY AutomationAssumption, TimeSteps, NextTypeOK DEF IInv, Times
<1>1. ASSUME sched'[s] # None PROVE t < sched'[s].next
  <2>1. sched'[s].next \in Nat /\ (sched[s] # None => sched[s].next \in Nat) /\ (draft # None => draft.at \in Nat)
    BY <1>0, <1>1 DEF TypeOK, Schedule, Draft
  <2>2. \/ sched[s] # None /\ sched'[s].next >= sched[s].next
        \/ sched'[s].next > now
        \/ draft # None /\ draft.schedule = s /\ (draft.row = None \/ sched[s] # None) /\ sched'[s].next > draft.at
    BY <1>1, NextRunSteps
  <2> QED  BY <1>0, <2>1, <2>2 DEF Behind
<1>2. ASSUME draft' # None, draft'.schedule = s, draft'.row = None \/ sched'[s] # None PROVE t <= draft'.at
  <2>1. CASE CommitUpsert
    BY <1>2, <2>1 DEF CommitUpsert
  <2>2. ASSUME NEW u \in Schedules, BeginUpsert(u) PROVE t <= draft'.at
    BY <1>0, <2>2 DEF BeginUpsert
  <2>3. CASE UNCHANGED draft /\ ~CommitUpsert
    BY <1>2, <2>3, NoneStays DEF Behind
  <2> QED  BY <2>1, <2>2, <2>3, DraftSteps
<1> QED  BY <1>1, <1>2 DEF Behind

\* Every step keeps what was begun behind the schedules, or recorded.
LEMMA NextBegunInv ==
  ASSUME IInv, [Next]_vars
  PROVE  BegunInv'
<1>0. /\ BegunInv /\ RowsInv /\ PendingInv /\ DraftInv /\ TypeOK /\ now' >= now /\ now \in Nat /\ now' \in Nat
      /\ Times \subseteq Nat /\ begun \in [Schedules \X Times -> Nat]
  BY AutomationAssumption, TimeSteps DEF IInv, TypeOK, Times
<1> SUFFICES ASSUME NEW s \in Schedules, NEW t \in Times
             PROVE  /\ begun'[<<s, t>>] <= 1
                    /\ begun'[<<s, t>>] # 0 => t <= now'
                    /\ begun'[<<s, t>>] # 0 /\ t \notin Recorded(s)' => Behind(s, t)'
  BY DEF BegunInv
<1>1. ASSUME NEW p \in Procs, Begins(p)
      PROVE  /\ begun'[<<s, t>>] <= 1
             /\ begun'[<<s, t>>] # 0 => t <= now'
             /\ begun'[<<s, t>>] # 0 /\ t \notin Recorded(s)' => Behind(s, t)'
  <2> DEFINE e == exec[worker[p].id]
  <2>1. /\ worker[p].id \in Ids /\ e # None /\ e \in Execution /\ begun[<<e.schedule, e.for>>] = 0 /\ e.for <= now
    <3>1. worker[p].id \in Ids
      BY <1>0, <1>1 DEF Begins, TypeOK, Worker, IInv, WorkerInv, Idle
    <3> QED  BY <1>0, <1>1, <3>1 DEF Begins, TypeOK, PendingInv, Before, RowsInv
  <2>2. Recorded(s)' = Recorded(s) /\ now' = now /\ Behind(s, t)' = Behind(s, t)
    BY <1>1 DEF Begins, Recorded, ExecsOf, Behind
  <2>3. CASE s = e.schedule /\ t = e.for
    <3>1. begun'[<<s, t>>] = 1
      BY <1>0, <1>1, <2>1, <2>3 DEF Begins
    <3>2. t \in Recorded(s)
      BY <2>1, <2>3 DEF Recorded, ExecsOf
    <3> QED  BY <2>1, <2>2, <2>3, <3>1, <3>2
  <2>4. CASE ~(s = e.schedule /\ t = e.for)
    <3>1. begun'[<<s, t>>] = begun[<<s, t>>]
      BY <1>0, <1>1, <2>1, <2>4 DEF Begins
    <3> QED  BY <1>0, <2>2, <3>1 DEF BegunInv
  <2> QED  BY <2>3, <2>4
<1>2. ASSUME begun' = begun
      PROVE  /\ begun'[<<s, t>>] <= 1
             /\ begun'[<<s, t>>] # 0 => t <= now'
             /\ begun'[<<s, t>>] # 0 /\ t \notin Recorded(s)' => Behind(s, t)'
  <2>1. begun'[<<s, t>>] <= 1 /\ (begun'[<<s, t>>] # 0 => t <= now /\ t <= now')
    BY <1>0, <1>2 DEF BegunInv
  <2>2. ASSUME begun[<<s, t>>] # 0, t \notin Recorded(s)' PROVE Behind(s, t)'
    <3>1. CASE t \notin Recorded(s)
      <4>1. t <= now /\ Behind(s, t)
        BY <1>0, <2>2, <3>1 DEF BegunInv
      <4> QED  BY <4>1, BehindStays
    <3>2. CASE t \in Recorded(s)
      <4>1. PICK i \in Ids : exec[i] # None /\ exec[i].schedule = s /\ exec[i].for = t
        BY <3>2 DEF Recorded, ExecsOf
      <4>2. ~RowsStay
        BY <2>2, <3>2, RecordedStays
      <4>3. ~Claims
        <5>1. ASSUME Claims PROVE exec'[i] = exec[i]
          <6>1. PICK p \in Procs, u \in Schedules, v \in Times : Postpones(u, v) \/ Takes(p, u, v)
            BY <5>1, ClaimSteps DEF Claims
          <6>2. i # issued + 1
            BY <1>0, <4>1, AutomationAssumption DEF RowsInv, TypeOK, Ids
          <6> QED  BY <1>0, <6>1, <6>2 DEF Postpones, Takes, TypeOK
        <5> QED  BY <2>2, <4>1, <5>1 DEF Recorded, ExecsOf
      <4>4. PICK u \in Schedules : Delete(u)
        BY <4>2, <4>3, RowsSteps DEF Deletes
      <4>5. u = s
        <5>1. ASSUME u # s PROVE exec'[i] = exec[i]
          BY <4>1, <4>4, <5>1 DEF Delete, ExecsOf
        <5> QED  BY <2>2, <4>1, <5>1 DEF Recorded, ExecsOf
      <4>6. sched[s] # None /\ sched'[s] = None /\ draft' = draft
        BY <1>0, <4>4, <4>5 DEF Delete, MayDelete, TypeOK
      <4> QED  BY <1>0, <4>6 DEF Behind, DraftInv
    <3> QED  BY <3>1, <3>2
  <2> QED  BY <1>2, <2>1, <2>2
<1> QED  BY <1>1, <1>2, BegunSteps

\* Every step keeps what is about to begin from having begun.
LEMMA NextPendingInv ==
  ASSUME IInv, [Next]_vars
  PROVE  PendingInv'
<1>0. /\ BegunInv /\ RowsInv /\ PendingInv /\ WorkerInv /\ TypeOK /\ TypeOK' /\ WorkerInv'
      /\ issued \in Nat /\ Times \subseteq Nat /\ Ids \subseteq Nat
      /\ exec \in [Ids -> Execution \cup {None}] /\ begun \in [Schedules \X Times -> Nat]
  BY AutomationAssumption, NextTypeOK, NextWorkerInv DEF IInv, TypeOK, Times, Ids
<1> SUFFICES ASSUME NEW p \in Procs, worker'[p].pc \in Before, exec'[worker'[p].id] # None
             PROVE  begun'[<<exec'[worker'[p].id].schedule, exec'[worker'[p].id].for>>] = 0
  BY DEF PendingInv
<1>1. worker'[p].id \in Ids
  BY <1>0 DEF TypeOK, Worker, WorkerInv, Before, Idle
<1>2. CASE Claims
  <2>1. PICK q \in Procs, s \in Schedules, t \in Times : Chosen(s, t) /\ (Postpones(s, t) \/ Takes(q, s, t))
    BY <1>2, ClaimSteps DEF Claims
  <2>2. begun' = begun
    BY <1>2, ClaimSteps DEF Claims
  <2>3. CASE Postpones(s, t)
    BY <1>0, <2>2, <2>3 DEF Postpones, PendingInv
  <2>4. CASE Takes(q, s, t)
    <3>1. begun[<<s, t>>] = 0
      <4>1. ~Behind(s, t)
        <5>1. sched[s] # None /\ sched[s].next \in Nat /\ t \in Nat /\ t >= sched[s].next
          BY <1>0, <2>1 DEF Chosen, TypeOK, Schedule
        <5> QED  BY <5>1 DEF Behind
      <4> QED  BY <1>0, <2>1, <4>1 DEF BegunInv, Chosen
    <3>2. CASE worker'[p].id = issued + 1
      <4>1. exec'[worker'[p].id].schedule = s /\ exec'[worker'[p].id].for = t
        BY <1>0, <2>4, <3>2 DEF Takes, Claimed
      <4> QED  BY <2>2, <3>1, <4>1
    <3>3. CASE worker'[p].id # issued + 1
      <4>1. exec'[worker'[p].id] = exec[worker'[p].id]
        BY <1>0, <1>1, <2>4, <3>3 DEF Takes
      <4>2. p # q
        BY <1>1, <2>4, <3>3, AutomationAssumption DEF Takes, Moves, Before
      <4>3. worker'[p] = worker[p]
        BY <2>4, <4>2 DEF Takes, Moves
      <4> QED  BY <1>0, <2>2, <4>1, <4>3 DEF PendingInv
    <3> QED  BY <3>2, <3>3
  <2> QED  BY <2>1, <2>3, <2>4
<1>3. CASE ~Claims
  <2>1. worker[p].pc \in Before /\ worker'[p].id = worker[p].id
    <3>1. ASSUME NEW q \in Procs, GoesOn(q) PROVE worker[p].pc \in Before /\ worker'[p].id = worker[p].id
      BY <3>1 DEF GoesOn, Before, Idle
    <3> QED  BY <1>3, <3>1, WorkerSteps
  <2> DEFINE i == worker[p].id
  <2>2. /\ i \in Ids /\ exec[i] # None /\ exec'[i].schedule = exec[i].schedule /\ exec'[i].for = exec[i].for
    <3>1. CASE Deletes
      BY <1>1, <2>1, <3>1 DEF Deletes, Delete
    <3>2. CASE ~Deletes
      BY <1>1, <1>3, <2>1, <3>2, RowsSteps DEF RowsStay
    <3> QED  BY <3>1, <3>2
  <2>3. begun[<<exec[i].schedule, exec[i].for>>] = 0
    BY <1>0, <2>1, <2>2 DEF PendingInv
  <2>4. ASSUME NEW q \in Procs, Begins(q)
        PROVE  begun'[<<exec[i].schedule, exec[i].for>>] = begun[<<exec[i].schedule, exec[i].for>>]
    <3> DEFINE e == exec[worker[q].id]
    <3>1. p # q
      <4>1. ASSUME p = q PROVE FALSE
        <5>1. worker'[p].pc \in {"working", "finishing"}
          <6>1. Goto(q, "working") \/ Finish(q, "blocked")
            BY <2>4 DEF Begins, Begin
          <6>2. worker \in [Procs -> Worker] /\ now \in Nat
            BY <1>0, TimeSteps DEF TypeOK
          <6>3. Moves(q, "working", worker[q].id, worker[q].since) \/ Moves(q, "finishing", worker[q].id, worker[q].since)
            BY <6>1, <6>2, Moved DEF After, Terminal
          <6> QED  BY <4>1, <6>3 DEF Moves
        <5> QED  BY <5>1 DEF Before
      <4> QED  BY <4>1
    <3>2. worker[q].id \in Ids /\ e # None /\ worker[q].id # i
      BY <1>0, <2>2, <2>4, <3>1, AutomationAssumption DEF Begins, WorkerInv, TypeOK, Worker, Idle
    <3>3. <<e.schedule, e.for>> # <<exec[i].schedule, exec[i].for>>
      BY <1>0, <2>2, <3>2 DEF RowsInv
    <3>4. begun' = [begun EXCEPT ![<<e.schedule, e.for>>] = @ + 1]
      BY <2>4 DEF Begins
    <3>5. <<exec[i].schedule, exec[i].for>> \in Schedules \X Times
      BY <1>0, <2>2 DEF Execution
    <3> HIDE DEF e, i
    <3> QED  BY <1>0, <3>3, <3>4, <3>5
  <2> QED  BY <2>1, <2>2, <2>3, <2>4, BegunSteps
<1> QED  BY <1>2, <1>3

-----------------------------------------------------------------------------
(* The invariant and what it says.                                         *)

\* Every step keeps the invariant.
LEMMA NextIInv == IInv /\ [Next]_vars => IInv'
  BY NextTypeOK, NextWorkerInv, NextRowsInv, NextDraftInv, NextBegunInv, NextPendingInv, NextSinceInv DEF IInv

\* The invariant holds at all times: types, who is busy with what, executions of
\* different occurrences, and what was begun behind every schedule.
THEOREM AutomationInvariant == Spec => []IInv
  BY InitIInv, NextIInv, PTL DEF Spec

\* The work of an occurrence is started at most once, whatever crashes, processes,
\* deletions, re-creations and stale upserts come between (claim_due, upsert_daily,
\* claim_execution_start).
THEOREM WorkStartsOnce == Spec => []StartsOnce
<1>1. IInv => StartsOnce
  <2> SUFFICES ASSUME IInv, NEW o \in Schedules \X Times PROVE begun[o] <= 1
    BY DEF StartsOnce
  <2>1. PICK s \in Schedules, t \in Times : o = <<s, t>>
    OBVIOUS
  <2> QED  BY <2>1 DEF IInv, BegunInv
<1> QED  BY <1>1, AutomationInvariant, PTL

\* Two executions of a schedule are of different occurrences, none in the future
\* (claim_due and the unique key of automation_executions).
THEOREM OccurrencesHaveOneRow == Spec => []OneRowPerOccurrence
<1>1. IInv => OneRowPerOccurrence
  BY DEF IInv, RowsInv, OneRowPerOccurrence
<1> QED  BY <1>1, AutomationInvariant, PTL

\* A worker runs no occurrence that fell due before it started, unless the schedule was
\* saved since (skip_missed_occurrences).
THEOREM MissedStaysMissed == Spec => OverdueIsNotReplayed
<1> DEFINE Fresh == \A p \in Procs : worker[p].pc = "polling" /\ worker'[p].pc = "claimed" =>
         LET e == exec'[worker'[p].id]
         IN  e.for > worker[p].since \/ savedAt[e.schedule] >= worker[p].since
<1>1. ASSUME IInv, [Next]_vars PROVE Fresh
  <2> SUFFICES ASSUME NEW p \in Procs, worker[p].pc = "polling", worker'[p].pc = "claimed"
               PROVE  \/ exec'[worker'[p].id].for > worker[p].since
                      \/ savedAt[exec'[worker'[p].id].schedule] >= worker[p].since
    OBVIOUS
  <2>1. TypeOK /\ SinceInv /\ exec \in [Ids -> Execution \cup {None}] /\ worker[p].since \in Nat /\ Times \subseteq Nat
    BY <1>1, AutomationAssumption DEF IInv, TypeOK, Worker, Times
  <2>2. Claims
    <3>1. ASSUME NEW q \in Procs, GoesOn(q) PROVE FALSE
      BY <3>1 DEF GoesOn, Before
    <3> QED  BY <1>1, <3>1, WorkerSteps
  <2>3. PICK q \in Procs, s \in Schedules, t \in Times : Chosen(s, t) /\ (Postpones(s, t) \/ Takes(q, s, t))
    BY <1>1, <2>2, ClaimSteps DEF Claims
  <2>4. Takes(q, s, t) /\ q = p
    BY <2>3 DEF Postpones, Takes, Moves
  <2>5. exec'[worker'[p].id].schedule = s /\ exec'[worker'[p].id].for = t
    BY <2>1, <2>4 DEF Takes, Moves, Claimed
  <2>6. sched[s] # None /\ sched[s].active /\ sched[s].next \in Nat /\ t \in Nat /\ t >= sched[s].next
    BY <2>1, <2>3 DEF Chosen, TypeOK, Schedule
  <2>7. sched[s].next > worker[p].since \/ savedAt[s] >= worker[p].since
    BY <2>1, <2>6 DEF SinceInv
  <2> QED  BY <2>1, <2>5, <2>6, <2>7
<1>2. IInv /\ [Next]_vars => [Fresh]_vars
  BY <1>1
<1> QED  BY <1>2, AutomationInvariant, PTL DEF Spec, OverdueIsNotReplayed

-----------------------------------------------------------------------------
(* One process.                                                            *)

\* With one process every step leaves the execution at work running.
LEMMA AloneStaysRunning ==
  ASSUME \A p, q \in Procs : p = q, IInv, InFlightIsRunning, [Next]_vars
  PROVE  InFlightIsRunning'
<1>0. /\ TypeOK /\ TypeOK' /\ WorkerInv /\ exec \in [Ids -> Execution \cup {None}] /\ now \in Nat
      /\ worker \in [Procs -> Worker]
  BY NextTypeOK, TimeSteps DEF IInv, TypeOK
<1> SUFFICES ASSUME NEW p \in Procs, worker'[p].id # None PROVE worker'[p].id \in Running'
  BY DEF InFlightIsRunning
<1>1. CASE Claims
  <2>1. PICK s \in Schedules, t \in Times : Postpones(s, t) \/ Takes(p, s, t)
    BY <1>1, ClaimSteps DEF Claims
  <2>2. CASE Postpones(s, t)
    BY <2>2 DEF Postpones, Running, InFlightIsRunning
  <2>3. CASE Takes(p, s, t)
    <3>1. worker'[p].id = issued + 1 /\ issued + 1 \in Ids /\ exec'[issued + 1] = Claimed(s, t)
      BY <1>0, <2>3 DEF Takes, Moves
    <3>2. Claimed(s, t) # None /\ Claimed(s, t).status = "running"
      BY ClaimedIsExecution DEF Claimed
    <3> QED  BY <3>1, <3>2 DEF Running
  <2> QED  BY <2>1, <2>2, <2>3
<1>2. CASE ~Claims
  <2> DEFINE i == worker[p].id
  <2>1. worker'[p].id = i /\ i \in Running /\ i \in Ids /\ exec[i] # None /\ exec[i].status = "running"
        /\ exec[i] \in Execution /\ worker[p].pc \notin Idle
    <3>1. worker'[p].id = i
      <4>1. ASSUME NEW q \in Procs, GoesOn(q) PROVE worker'[p].id = i
        BY <4>1 DEF GoesOn
      <4> QED  BY <1>2, <4>1, WorkerSteps
    <3> QED  BY <1>0, <3>1 DEF InFlightIsRunning, Running, WorkerInv
  <2>2. CASE exec' = exec
    BY <2>1, <2>2 DEF Running
  <2>3. ASSUME NEW s \in Schedules, Delete(s) PROVE worker'[p].id \in Running'
    <3>1. i \notin ExecsOf(s)
      BY <2>1, <2>3 DEF Delete, MayDelete
    <3> QED  BY <2>1, <2>3, <3>1 DEF Delete, Running
  <2>4. ASSUME Recover(p) \/ Complete(p) \/ CompleteCancelled(p) PROVE exec' = exec
    <3>1. ~Recover(p)
      BY <2>1 DEF Recover, Idle
    <3>2. CASE Complete(p)
      <4>1. ~Quit(p)
        BY <1>0, Moved DEF Moves
      <4> QED  BY <3>2, <4>1 DEF Complete
    <3>3. CASE CompleteCancelled(p)
      <4>1. worker' # [worker EXCEPT ![p] = Down]
        BY <1>0, Moved DEF Moves
      <4> QED  BY <3>3, <4>1 DEF CompleteCancelled
    <3> QED  BY <2>4, <3>1, <3>2, <3>3
  <2>5. ASSUME ClaimStart(p) \/ (\E starts \in BOOLEAN : Prepare(p, starts)) PROVE worker'[p].id \in Running'
    <3>1. \/ exec' = exec
          \/ exec' = [exec EXCEPT ![i].prepared = TRUE]
          \/ \E b \in BOOLEAN : exec' = [exec EXCEPT ![i].thread = @ \/ b]
      BY <2>5 DEF ClaimStart, Prepare, Id
    <3>2. ASSUME NEW e \in Execution, e.status = "running", exec' = [exec EXCEPT ![i] = e]
          PROVE  worker'[p].id \in Running'
      <4>1. exec'[i] = e /\ e # None
        BY <1>0, <2>1, <3>2, AutomationAssumption
      <4> QED  BY <2>1, <3>2, <4>1 DEF Running
    <3>3. CASE exec' = [exec EXCEPT ![i].prepared = TRUE]
      <4> DEFINE e == [exec[i] EXCEPT !.prepared = TRUE]
      <4>1. e \in Execution /\ e.status = "running"
        BY <2>1 DEF Execution
      <4>2. exec' = [exec EXCEPT ![i] = e]
        BY <3>3
      <4> HIDE DEF e, i
      <4> QED  BY <3>2, <4>1, <4>2
    <3>4. ASSUME NEW b \in BOOLEAN, exec' = [exec EXCEPT ![i].thread = @ \/ b] PROVE worker'[p].id \in Running'
      <4> DEFINE e == [exec[i] EXCEPT !.thread = @ \/ b]
      <4>1. e \in Execution /\ e.status = "running"
        BY <2>1 DEF Execution
      <4>2. exec' = [exec EXCEPT ![i] = e]
        BY <3>4
      <4> HIDE DEF e, i
      <4> QED  BY <3>2, <4>1, <4>2
    <3> QED  BY <2>2, <3>1, <3>3, <3>4
  <2>6. CASE ~Deletes
    <3>1. \A q \in Procs : q = p
      OBVIOUS
    <3>2. \/ exec' = exec
          \/ Recover(p) \/ Complete(p) \/ CompleteCancelled(p)
          \/ ClaimStart(p) \/ \E starts \in BOOLEAN : Prepare(p, starts)
      BY <1>2, <2>6, <3>1
      DEF Next, WorkerStep, Trouble, Claims, Deletes, vars, Tick, Reconfigure, Reenable, BeginUpsert, Disable,
          CommitUpsert, StartWorker, SkipMissed, StopWorker, LeaveLoop, Authorize, Look, Begin, WorkEnds, ThreadEnds,
          Crash, Shutdown, CompleteFails
    <3> QED  BY <2>2, <2>4, <2>5, <3>2
  <2> QED  BY <2>3, <2>6 DEF Deletes
<1> QED  BY <1>1, <1>2

\* With one process on the database (runtime.lock of the desktop), the execution a worker
\* is busy with stays recorded and running until the worker itself closes it
\* (delete, recover_interrupted).
THEOREM AtWorkIsRunning == (\A p, q \in Procs : p = q) => (Spec => []InFlightIsRunning)
<1> SUFFICES ASSUME \A p, q \in Procs : p = q PROVE Spec => []InFlightIsRunning
  OBVIOUS
<1>1. Init => InFlightIsRunning
  BY DEF Init, InFlightIsRunning, Down
<1>2. IInv /\ InFlightIsRunning /\ [Next]_vars => InFlightIsRunning'
  BY AloneStaysRunning
<1> QED  BY <1>1, <1>2, AutomationInvariant, PTL DEF Spec
==============================================================================
