-------------------------- MODULE ApprovalsProofs --------------------------
(***************************************************************************)
(* Proofs about Approvals for any number of processes, threads, tokens and *)
(* previews.                                                               *)
(***************************************************************************)
EXTENDS Approvals, TLAPS

-----------------------------------------------------------------------------
(* What the decisions of packages/approval/policy.py have in common.       *)

\* The moves a registry operation may decide on for a token read as st.
SoundDecision(o, st, late, ok, next) ==
    \/ ~ok /\ next = st
    \/ ~ok /\ next = "expired" /\ st \in {"pending", "approved", "rejected"}
    \/ ~ok /\ next = "expired" /\ st = "executing" /\ o = "release" /\ late
    \/ ~ok /\ next = "rejected" /\ st \in {"pending", "approved", "rejected"}
           /\ o = "reject"
    \/ ok /\ next = "approved" /\ st \in {"pending", "approved"} /\ o = "approve"
    \/ ok /\ next = "consumed" /\ st = "approved" /\ o = "consume"
    \/ ok /\ next = "executing" /\ st = "approved" /\ o = "begin" /\ ~late
    \/ ok /\ next = "consumed" /\ st = "executing" /\ o = "complete"
    \/ ok /\ next = "approved" /\ st = "executing" /\ o = "release"

\* Every decision is one of those moves, keeps its type, and is favourable
\* to complete and to a timely release of a claimed token.
LEMMA DecisionIsSound ==
    ASSUME NEW o \in Operations, NEW st \in Statuses \ {"none"}, NEW p,
           NEW late, NEW dup
    PROVE  LET d == Decide(o, st, p, late, dup) IN
           /\ d.ok \in BOOLEAN /\ d.next \in Statuses \ {"none"}
           /\ SoundDecision(o, st, late, d.ok, d.next)
           /\ (o = "complete" /\ st = "executing") => d.ok
           /\ (o = "release" /\ st = "executing" /\ ~late) => d.ok
           /\ (o = "begin" /\ d.ok) => p.evidence /\ p.gate \in {"no_job", "confirmed"}
<1> USE DEF SoundDecision, Statuses, Live, Closed, Allow, Deny
<1>1. CASE o = "approve"
  BY <1>1 DEF Decide, approve_token
<1>2. CASE o = "reject"
  BY <1>2 DEF Decide, reject_token
<1>3. CASE o = "consume"
  BY <1>3 DEF Decide, consume_token
<1>4. CASE o = "begin"
  BY <1>4 DEF Decide, begin_token, consume_token, ValidPreview
<1>5. CASE o = "complete"
  BY <1>5 DEF Decide, complete_token
<1>6. CASE o = "release"
  BY <1>6 DEF Decide, release_token
<1> QED
  BY <1>1, <1>2, <1>3, <1>4, <1>5, <1>6 DEF Operations

-----------------------------------------------------------------------------
(* The inductive invariant.                                                *)

\* A row holds a preview, an issuer carries one, and every other request
\* works on a key that has a row.
RowsInv ==
    /\ \A k \in Keys : status[k] # "none" => bound[k] \in Previews
    /\ \A t \in Threads : task[t].at = "create" => task[t].want \in Previews
    /\ \A t \in Threads : task[t].at \notin {"idle", "create"} =>
          task[t].key \in Keys /\ status[task[t].key] # "none"

\* A request between its read and its write carries a sound decision, and
\* complete and release were decided on a claimed row.
DecisionInv ==
    \A t \in Threads : task[t].at = "cas" =>
        /\ task[t].seen # "none" /\ task[t].next # "none"
        /\ SoundDecision(task[t].op, task[t].seen, task[t].late, task[t].ok,
                         task[t].next)
        /\ task[t].op \in {"complete", "release"} =>
              task[t].seen = "executing" /\ task[t].ok

\* A claim was taken in time, so its release never finds it late.
ClaimInv == \A t \in Threads, k \in Keys : Holds(t, k) => ~task[t].late

\* A token that may be written, is being written or was written has been
\* approved by the operator.
ApprovedInv ==
    /\ \A k \in Keys : status[k] \in {"approved", "executing", "consumed"} =>
          k \in approvedBy
    /\ \A k \in Keys : applied[k] > 0 => k \in approvedBy
    /\ \A t \in Threads : task[t].at = "cas" /\ task[t].seen \in {"approved", "executing", "consumed"}
          => task[t].key \in approvedBy

IInv ==
    /\ TypeOK /\ RowsInv /\ DecisionInv /\ ClaimInv /\ ClaimIsExclusive
    /\ ApprovedInv

\* Going on to another point, or ending, changes one thread's record only.
LEMMA GoToFacts ==
    ASSUME TypeOK, NEW t \in Threads, NEW x \in Points, GoTo(t, x)
    PROVE  /\ task' \in [Threads -> Tasks]
           /\ \A u \in Threads \ {t} : task'[u] = task[u]
           /\ task'[t].at = x
           /\ x = "idle" => task'[t] = Idle
           /\ x # "idle" => /\ task'[t].key = task[t].key
                            /\ task'[t].op = task[t].op
                            /\ task'[t].seen = task[t].seen
                            /\ task'[t].ok = task[t].ok
                            /\ task'[t].next = task[t].next
                            /\ task'[t].late = task[t].late
<1>1. Idle \in Tasks
  BY DEF Idle, Tasks, Points, Operations, Statuses
<1>2. CASE x = "idle"
  BY <1>1, <1>2 DEF GoTo, TypeOK, Idle
<1>3. CASE x # "idle"
  <2>1. task' = [task EXCEPT ![t] = [task[t] EXCEPT !.at = x]]
    BY <1>3 DEF GoTo
  <2>2. task[t] \in Tasks
    BY DEF TypeOK
  <2>3. [task[t] EXCEPT !.at = x] \in Tasks
    BY <2>2 DEF Tasks
  <2> QED
    BY <1>3, <2>1, <2>2, <2>3 DEF TypeOK, Tasks
<1> QED
  BY <1>2, <1>3

\* A registry read records the status it saw and a sound decision on it.
LEMMA ReadFacts ==
    ASSUME TypeOK, NEW t \in Threads, NEW k \in Keys, NEW o \in Operations,
           NEW late \in BOOLEAN, Read(t, k, o, late)
    PROVE  /\ task' \in [Threads -> Tasks]
           /\ \A u \in Threads \ {t} : task'[u] = task[u]
           /\ task'[t].at = "cas" /\ task'[t].key = k /\ task'[t].op = o
           /\ task'[t].late = late
           /\ task'[t].seen = status[k] /\ status[k] # "none"
           /\ task'[t].next # "none"
           /\ SoundDecision(o, status[k], late, task'[t].ok, task'[t].next)
           /\ (o = "complete" /\ status[k] = "executing") => task'[t].ok
           /\ (o = "release" /\ status[k] = "executing" /\ ~late) => task'[t].ok
           /\ (o = "begin" /\ task'[t].ok) =>
                 bound[k].evidence /\ bound[k].gate \in {"no_job", "confirmed"}
           /\ UNCHANGED <<rows, now, business, used, audits, approvedBy>>
<1> DEFINE dup == k \in used[ProcOf[t]]
           d   == Decide(o, status[k], bound[k], late, dup)
           r   == [Idle EXCEPT !.at = "cas", !.key = k, !.op = o,
                               !.seen = status[k], !.ok = d.ok,
                               !.next = d.next, !.late = late]
<1>1. status[k] \in Statuses \ {"none"} /\ dup \in BOOLEAN
  BY DEF Read, TypeOK
<1>3. task' = [task EXCEPT ![t] = r]
  BY DEF Read
<1> HIDE DEF dup
<1>2. /\ d.ok \in BOOLEAN /\ d.next \in Statuses \ {"none"}
      /\ SoundDecision(o, status[k], late, d.ok, d.next)
      /\ (o = "complete" /\ status[k] = "executing") => d.ok
      /\ (o = "release" /\ status[k] = "executing" /\ ~late) => d.ok
      /\ (o = "begin" /\ d.ok) =>
            bound[k].evidence /\ bound[k].gate \in {"no_job", "confirmed"}
  BY <1>1, DecisionIsSound, Zenon
<1> HIDE DEF d
<1>4. /\ r \in Tasks
      /\ r.at = "cas" /\ r.key = k /\ r.op = o /\ r.late = late
      /\ r.seen = status[k] /\ r.ok = d.ok /\ r.next = d.next
  BY <1>1, <1>2 DEF Idle, Tasks, Points
<1> HIDE DEF r
<1>5. task'[t] = r /\ task' \in [Threads -> Tasks]
  BY <1>3, <1>4 DEF TypeOK
<1>6. \A u \in Threads \ {t} : task'[u] = task[u]
  BY <1>3 DEF TypeOK
<1> QED
  BY <1>1, <1>2, <1>4, <1>5, <1>6 DEF Read
\* Initially nothing is issued and every thread is idle.
LEMMA InitIInv == Init => IInv
<1> SUFFICES ASSUME Init PROVE IInv
  OBVIOUS
<1>1. Idle \in Tasks /\ Idle.at = "idle"
  BY DEF Idle, Tasks, Points, Operations, Statuses
<1>2. TypeOK
  BY <1>1, ConstantAssumption DEF Init, TypeOK, Statuses
<1>3. \A t \in Threads : task[t].at = "idle"
  BY <1>1 DEF Init
<1> QED
  BY <1>2, <1>3 DEF Init, IInv, RowsInv, DecisionInv, ClaimInv, ClaimIsExclusive,
     ApprovedInv, Holds

\* A read leaves the shared state alone; the new decision is sound.
LEMMA ReadPreserves ==
    ASSUME IInv, NEW t \in Threads, NEW k \in Keys, NEW o \in Operations,
           NEW late \in BOOLEAN, Read(t, k, o, late),
           o \in {"complete", "release"} => Holds(t, k) /\ late = task[t].late
    PROVE  IInv'
<1> USE ReadFacts DEF IInv, rows, business
<1>1. TypeOK'
  BY DEF TypeOK
<1>2. RowsInv'
  BY DEF RowsInv
<1>3. DecisionInv'
  BY DEF DecisionInv, ClaimIsExclusive, ClaimInv
<1>4. ClaimInv'
  BY DEF ClaimInv, Holds
<1>5. ClaimIsExclusive'
  BY DEF ClaimIsExclusive, Holds
<1>6. ApprovedInv'
  BY DEF ApprovedInv
<1> QED
  BY <1>1, <1>2, <1>3, <1>4, <1>5, <1>6
\* The write of a registry operation, whether its caller hears of it or not.
\* A thread goes on with the claim only when its own begin won.
LEMMA WritePreserves ==
    ASSUME IInv, NEW t \in Threads, task[t].at = "cas",
           WriteIfUnchanged(t), NEW x \in {"idle", "claimed", "audit_ok", "audit_fail"},
           GoTo(t, x), used' \in [Procs -> SUBSET Keys],
           UNCHANGED <<bound, now, business, audits>>,
           x = "claimed" => /\ task[t].op = "begin" /\ task[t].ok
                            /\ status[task[t].key] = task[t].seen
    PROVE  IInv'
<1> DEFINE k == task[t].key
<1>1. k \in Keys /\ status[k] # "none" /\ task[t] \in Tasks
  BY DEF IInv, RowsInv, TypeOK
<1>2. /\ task' \in [Threads -> Tasks] /\ \A u \in Threads \ {t} : task'[u] = task[u]
      /\ task'[t].at = x /\ (x # "idle" => /\ task'[t].key = k
                                           /\ task'[t].late = task[t].late)
  BY GoToFacts DEF IInv, Points
<1>3. /\ task[t].seen # "none" /\ task[t].next # "none"
      /\ SoundDecision(task[t].op, task[t].seen, task[t].late, task[t].ok, task[t].next)
      /\ task[t].op \in {"complete", "release"} => task[t].seen = "executing" /\ task[t].ok
  BY DEF IInv, DecisionInv
<1>4. \/ UNCHANGED <<status, approvedBy>>
      \/ /\ status[k] = task[t].seen
         /\ status' = [status EXCEPT ![k] = task[t].next]
         /\ approvedBy' = IF task[t].op = "approve" /\ task[t].next = "approved"
                          THEN approvedBy \cup {k} ELSE approvedBy
  BY DEF WriteIfUnchanged
<1>5. TypeOK'
  BY <1>1, <1>2, <1>4 DEF IInv, TypeOK, Tasks, business
<1>6. RowsInv'
  BY <1>1, <1>2, <1>3, <1>4 DEF IInv, TypeOK, RowsInv
<1>7. DecisionInv'
  BY <1>2 DEF IInv, DecisionInv
<1>8. ClaimInv'
  BY <1>1, <1>2, <1>3 DEF IInv, ClaimInv, Holds, SoundDecision
<1>9. ClaimIsExclusive'
  <2>1. \A u \in Threads \ {t}, j \in Keys : Holds(u, j)' <=> Holds(u, j)
    BY <1>2 DEF Holds
  <2>2. \A j \in Keys : Holds(t, j)' => j = k /\ x = "claimed"
    BY <1>2 DEF Holds
  <2>3. CASE UNCHANGED <<status, approvedBy>> /\ x # "claimed"
    BY <2>1, <2>2, <2>3 DEF IInv, ClaimIsExclusive
  <2>4. ASSUME x = "claimed" PROVE ClaimIsExclusive'
    <3>1. status[k] = "approved" /\ task[t].next = "executing"
      BY <1>3, <2>4 DEF SoundDecision
    <3>2. \A u \in Threads : ~Holds(u, k)
      BY <1>1, <3>1 DEF IInv, ClaimIsExclusive
    <3>3. status' = [status EXCEPT ![k] = "executing"]
      BY <3>1, <2>4 DEF WriteIfUnchanged
    <3> QED
      BY <1>1, <2>1, <2>2, <3>2, <3>3 DEF IInv, TypeOK, ClaimIsExclusive
  <2>5. ASSUME x # "claimed", status[k] = task[t].seen,
               status' = [status EXCEPT ![k] = task[t].next]
        PROVE  ClaimIsExclusive'
    <3>1. CASE status[k] # "executing" \/ task[t].next = "executing"
      BY <1>1, <2>1, <2>2, <2>5, <3>1 DEF IInv, TypeOK, ClaimIsExclusive
    <3>2. CASE status[k] = "executing" /\ task[t].next # "executing"
      <4>1. Holds(t, k)
        BY <1>3, <2>5, <3>2 DEF SoundDecision, Holds
      <4>2. \A u \in Threads \ {t} : ~Holds(u, k)
        BY <1>1, <4>1 DEF IInv, ClaimIsExclusive
      <4> QED
        BY <1>1, <2>1, <2>2, <2>5, <4>2 DEF IInv, TypeOK, ClaimIsExclusive
    <3> QED
      BY <3>1, <3>2
  <2> QED
    BY <1>4, <2>3, <2>4, <2>5
<1>10. ApprovedInv'
  BY <1>1, <1>2, <1>3, <1>4 DEF IInv, TypeOK, ApprovedInv, SoundDecision, business
<1> QED
  BY <1>5, <1>6, <1>7, <1>8, <1>9, <1>10 DEF IInv
\* A request that moves on inside execute, or ends, without touching the
\* approvals table.
LEMMA MovePreserves ==
    ASSUME IInv, NEW t \in Threads, NEW x \in Points \ {"cas", "create", "wait"},
           GoTo(t, x), TypeOK', UNCHANGED <<rows, approvedBy>>,
           x # "idle" => task[t].at \notin {"idle", "create"},
           x \in {"claimed", "applied", "failed"} => Holds(t, task[t].key),
           \A k \in Keys : applied'[k] > 0 => k \in approvedBy
    PROVE  IInv'
<1>1. /\ task' \in [Threads -> Tasks] /\ \A u \in Threads \ {t} : task'[u] = task[u]
      /\ task'[t].at = x /\ (x # "idle" => /\ task'[t].key = task[t].key
                                           /\ task'[t].late = task[t].late)
  BY GoToFacts DEF IInv
<1>2. RowsInv'
  BY <1>1 DEF IInv, RowsInv, rows
<1>3. DecisionInv'
  BY <1>1 DEF IInv, DecisionInv
<1>4. \A u \in Threads, j \in Keys : Holds(u, j)' => Holds(u, j)
  BY <1>1 DEF Holds
<1>5. ClaimInv'
  BY <1>1, <1>4 DEF IInv, ClaimInv, Holds
<1>6. ClaimIsExclusive'
  BY <1>4 DEF IInv, ClaimIsExclusive, rows
<1>7. ApprovedInv'
  BY <1>1 DEF IInv, ApprovedInv, rows
<1> QED
  BY <1>2, <1>3, <1>5, <1>6, <1>7 DEF IInv

\* create_or_get, whether its caller hears of it or not: a row that exists
\* is not touched, so no decision or claim is disturbed.
LEMMA InsertPreserves ==
    ASSUME IInv, NEW t \in Threads, task[t].at = "create", InsertRow(t),
           GoTo(t, "idle"), UNCHANGED <<now, business, used, audits, approvedBy>>
    PROVE  IInv'
<1> DEFINE p == task[t].want
<1>1. p \in Previews /\ p.key \in Keys
  BY ConstantAssumption DEF IInv, RowsInv, PreviewType
<1>2. /\ task' \in [Threads -> Tasks] /\ \A u \in Threads \ {t} : task'[u] = task[u]
      /\ task'[t].at = "idle"
  BY GoToFacts DEF IInv, Points
<1>3. /\ \A k \in Keys : status[k] # "none" => status'[k] = status[k] /\ bound'[k] = bound[k]
      /\ \A k \in Keys : status'[k] = status[k] \/ status'[k] = "pending"
      /\ \A k \in Keys : status'[k] # "none" => bound'[k] \in Previews
      /\ bound' \in [Keys -> Previews \cup {NoPreview}] /\ status' \in [Keys -> Statuses]
  <2>1. CASE status[p.key] = "none"
    <3>1. /\ bound' = [bound EXCEPT ![p.key] = p]
          /\ status' = [status EXCEPT ![p.key] = "pending"]
      BY <2>1 DEF InsertRow
    <3>2. "pending" \in Statuses
      BY DEF Statuses, Live
    <3> QED
      BY <1>1, <2>1, <3>1, <3>2 DEF IInv, TypeOK, RowsInv
  <2>2. CASE status[p.key] # "none"
    <3>1. UNCHANGED <<bound, status>>
      BY <2>2 DEF InsertRow, rows
    <3> QED
      BY <3>1 DEF IInv, TypeOK, RowsInv
  <2> QED
    BY <2>1, <2>2
<1>4. TypeOK'
  BY <1>2, <1>3 DEF IInv, TypeOK, business
<1>5. RowsInv'
  BY <1>2, <1>3 DEF IInv, RowsInv
<1>6. DecisionInv'
  BY <1>2 DEF IInv, DecisionInv
<1>7. \A u \in Threads, j \in Keys : Holds(u, j)' => u # t /\ Holds(u, j)
  BY <1>2 DEF Holds
<1>8. ClaimInv'
  BY <1>2, <1>7 DEF IInv, ClaimInv
<1>9. ClaimIsExclusive'
  BY <1>3, <1>7 DEF IInv, ClaimIsExclusive
<1>10. ApprovedInv'
  BY <1>2, <1>3 DEF IInv, ApprovedInv, business
<1> QED
  BY <1>4, <1>5, <1>6, <1>8, <1>9, <1>10 DEF IInv

\* A step that changes neither the approvals table nor any request.
LEMMA OutsidePreserves ==
    ASSUME IInv, TypeOK', UNCHANGED <<rows, task, applied, approvedBy>>
    PROVE  IInv'
BY DEF IInv, RowsInv, DecisionInv, ClaimInv, ClaimIsExclusive, ApprovedInv, Holds, rows
\* Every action preserves the invariant.
LEMMA NextIInv == IInv /\ [Next]_vars => IInv'
<1> SUFFICES ASSUME IInv, [Next]_vars PROVE IInv'
  OBVIOUS
<1> USE ConstantAssumption
<1>0. \A t \in Threads : task[t] \in Tasks
  BY DEF IInv, TypeOK
<1>1. ASSUME NEW t \in Threads, NEW p \in Previews, IssueCheck(t, p) PROVE IInv'
  <2> DEFINE r == [Idle EXCEPT !.at = "create", !.want = p]
  <2>1. r \in Tasks /\ r.at = "create" /\ r.want = p
    BY DEF Idle, Tasks, Points, Operations, Statuses
  <2>2. task' = [task EXCEPT ![t] = r] /\ UNCHANGED <<rows, now, business, used, audits, approvedBy>>
    BY <1>1 DEF IssueCheck
  <2> HIDE DEF r
  <2>3. /\ task' \in [Threads -> Tasks] /\ \A u \in Threads \ {t} : task'[u] = task[u]
        /\ task'[t] = r
    BY <2>1, <2>2 DEF IInv, TypeOK
  <2> QED
    BY <2>1, <2>2, <2>3 DEF IInv, TypeOK, RowsInv, DecisionInv, ClaimInv, ClaimIsExclusive,
       ApprovedInv, Holds, rows, business
<1>2. ASSUME NEW t \in Threads, IssueCreate(t) PROVE IInv'
  BY <1>2, InsertPreserves DEF IssueCreate
<1>3. ASSUME NEW t \in Threads, NEW k \in Keys, NEW o \in {"approve", "reject"},
             OperatorDecides(t, k, o)
      PROVE IInv'
  <2>1. IsLate(k) \in BOOLEAN /\ o \in Operations
    BY DEF IsLate, Operations
  <2> QED
    BY <1>3, <2>1, ReadPreserves DEF OperatorDecides
<1>4. ASSUME NEW t \in Threads, NEW k \in Keys, ConsumeBrowserAction(t, k) PROVE IInv'
  <2>1. IsLate(k) \in BOOLEAN /\ "consume" \in Operations
    BY DEF IsLate, Operations
  <2> QED
    BY <1>4, <2>1, ReadPreserves DEF ConsumeBrowserAction
<1>5. ASSUME NEW t \in Threads, CompareAndSet(t) PROVE IInv'
  <2> DEFINE k  == task[t].key
             ok == IF status[k] = task[t].seen THEN task[t].ok
                   ELSE ConflictAllowed(task[t].op, status[k], IsLate(k))
  <2>1. k \in Keys /\ task[t].at = "cas"
    BY <1>5 DEF CompareAndSet, IInv, RowsInv
  <2>2. used' \in [Procs -> SUBSET Keys]
    <3>1. used \in [Procs -> SUBSET Keys] /\ ProcOf[t] \in Procs
      BY DEF IInv, TypeOK
    <3>2. used' = used \/ used' = [used EXCEPT ![ProcOf[t]] = @ \cup {k}]
      BY <1>5 DEF CompareAndSet
    <3> QED
      BY <2>1, <3>1, <3>2
  <2>3. After(task[t].op, ok) \in {"idle", "claimed", "audit_ok", "audit_fail"}
    BY DEF After
  <2>4. After(task[t].op, ok) = "claimed" =>
            task[t].op = "begin" /\ task[t].ok /\ status[k] = task[t].seen
    BY DEF After, ConflictAllowed
  <2>5. WriteIfUnchanged(t) /\ GoTo(t, After(task[t].op, ok))
    BY <1>5 DEF CompareAndSet
  <2>6. UNCHANGED <<bound, now, business, audits>>
    BY <1>5 DEF CompareAndSet
  <2> HIDE DEF k, ok
  <2> DEFINE x == After(task[t].op, ok)
  <2> HIDE DEF x
  <2>7. /\ x \in {"idle", "claimed", "audit_ok", "audit_fail"} /\ GoTo(t, x)
        /\ x = "claimed" => task[t].op = "begin" /\ task[t].ok /\ status[task[t].key] = task[t].seen
    BY <2>3, <2>4, <2>5 DEF x, k
  <2> QED
    BY <2>1, <2>2, <2>5, <2>6, <2>7, WritePreserves
<1>6. ASSUME NEW t \in Threads, NEW k \in Keys, ExecuteRequest(t, k) PROVE IInv'
  <2> DEFINE l == IsLate(k)
             r == [Idle EXCEPT !.at = "wait", !.key = k, !.late = l]
  <2>0. l \in BOOLEAN
    BY DEF IsLate
  <2> HIDE DEF l
  <2>1. r \in Tasks /\ r.at = "wait" /\ r.key = k
    BY <2>0 DEF Idle, Tasks, Points, Operations, Statuses
  <2>2. /\ task' = [task EXCEPT ![t] = r] /\ status[k] # "none"
        /\ UNCHANGED <<rows, now, business, used, audits, approvedBy>>
    BY <1>6 DEF ExecuteRequest, l
  <2> HIDE DEF r
  <2>3. /\ task' \in [Threads -> Tasks] /\ \A u \in Threads \ {t} : task'[u] = task[u]
        /\ task'[t] = r
    BY <2>1, <2>2 DEF IInv, TypeOK
  <2> QED
    BY <2>1, <2>2, <2>3 DEF IInv, TypeOK, RowsInv, DecisionInv, ClaimInv, ClaimIsExclusive,
       ApprovedInv, Holds, rows, business
<1>7. ASSUME NEW t \in Threads, Begin(t) PROVE IInv'
  <2>1. task[t].key \in Keys /\ task[t].late \in BOOLEAN /\ "begin" \in Operations
    BY <1>0, <1>7 DEF Begin, IInv, RowsInv, Tasks, Operations
  <2> QED
    BY <1>7, <2>1, ReadPreserves DEF Begin
<1>8. ASSUME NEW t \in Threads, Complete(t) \/ ReleaseClaim(t) PROVE IInv'
  <2>1. /\ task[t].key \in Keys /\ task[t].late \in BOOLEAN
        /\ {"complete", "release"} \subseteq Operations /\ Holds(t, task[t].key)
    BY <1>0, <1>8 DEF Complete, ReleaseClaim, IInv, RowsInv, Tasks, Operations, Holds
  <2>2. CASE Complete(t)
    BY <2>1, <2>2, ReadPreserves DEF Complete
  <2>3. CASE ReleaseClaim(t)
    BY <2>1, <2>3, ReadPreserves DEF ReleaseClaim
  <2> QED
    BY <1>8, <2>2, <2>3
<1>9. ASSUME NEW t \in Threads, DispatchCommits(t) \/ DispatchLosesAnswer(t) PROVE IInv'
  <2> DEFINE k == task[t].key
  <2>1. k \in Keys /\ Holds(t, k) /\ bound[k] \in Previews /\ k \in approvedBy /\ task[t].at = "claimed"
    BY <1>9 DEF DispatchCommits, DispatchLosesAnswer, IInv, RowsInv, Holds, ClaimIsExclusive,
       ApprovedInv
  <2>2. PICK x \in {"applied", "failed"} : GoTo(t, x)
    BY <1>9 DEF DispatchCommits, DispatchLosesAnswer
  <2>3. CommitStage(k, bound[k]) \/ CommitBinding(k, bound[k]) \/ CommitRecipe(k, bound[k])
    BY <1>9 DEF DispatchCommits, DispatchLosesAnswer
  <2>4. UNCHANGED <<rows, now, used, audits, approvedBy>>
    BY <1>9 DEF DispatchCommits, DispatchLosesAnswer
  <2>5. bound[k].app \in Apps /\ bound[k].to \in Stages /\ bound[k].rev \in Nat
    BY <2>1 DEF PreviewType
  <2>6. applied' = [applied EXCEPT ![k] = @ + 1]
    BY <2>3 DEF CommitStage, CommitBinding, CommitRecipe
  <2>7. /\ stage' \in [Apps -> Stages] /\ log' \in [Apps -> SUBSET (Keys \X Stages)]
        /\ revision' \in [Apps -> Nat] /\ boundBy' \in [Apps -> Keys \cup {NoKey}]
        /\ edits' = edits
    <3>1. CASE CommitStage(k, bound[k])
      BY <2>1, <2>5, <3>1 DEF CommitStage, IInv, TypeOK
    <3>2. CASE CommitBinding(k, bound[k])
      BY <2>1, <2>5, <3>2 DEF CommitBinding, IInv, TypeOK
    <3>3. CASE CommitRecipe(k, bound[k])
      BY <3>3 DEF CommitRecipe, IInv, TypeOK
    <3> QED
      BY <2>3, <3>1, <3>2, <3>3
  <2>8. applied' \in [Keys -> Nat]
    BY <2>1, <2>6 DEF IInv, TypeOK
  <2>9. task' \in [Threads -> Tasks]
    BY <2>2, GoToFacts DEF IInv, Points
  <2>10. TypeOK'
    BY <2>4, <2>7, <2>8, <2>9 DEF IInv, TypeOK, rows
  <2>11. \A j \in Keys : applied'[j] > 0 => j \in approvedBy
    BY <2>1, <2>6 DEF IInv, TypeOK, ApprovedInv
  <2> QED
    BY <2>1, <2>2, <2>4, <2>10, <2>11, MovePreserves DEF Points
<1>10. ASSUME NEW t \in Threads, DispatchReplays(t) \/ DispatchRaises(t) PROVE IInv'
  <2>1. PICK x \in {"applied", "failed"} : GoTo(t, x)
    BY <1>10 DEF DispatchReplays, DispatchRaises
  <2>2. task[t].at = "claimed" /\ UNCHANGED <<rows, now, business, used, audits, approvedBy>>
    BY <1>10 DEF DispatchReplays, DispatchRaises
  <2>3. Holds(t, task[t].key)
    BY <2>2 DEF Holds
  <2>4. TypeOK'
    BY <2>1, <2>2, GoToFacts DEF IInv, TypeOK, Points, rows, business
  <2> QED
    BY <2>1, <2>2, <2>3, <2>4, MovePreserves DEF IInv, ApprovedInv, Points, business
<1>11. ASSUME NEW t \in Threads, StoreRecord(t) \/ SinkRaises(t) PROVE IInv'
  <2>1. GoTo(t, "idle") /\ UNCHANGED <<rows, now, business, used, approvedBy>>
    BY <1>11 DEF StoreRecord, SinkRaises
  <2>2. audits' \in SUBSET (Keys \X BOOLEAN)
    <3>1. CASE SinkRaises(t)
      BY <3>1 DEF SinkRaises, IInv, TypeOK
    <3>2. CASE StoreRecord(t)
      <4> DEFINE b == task[t].at = "audit_ok"
      <4>1. b \in BOOLEAN /\ task[t].key \in Keys /\ audits \in SUBSET (Keys \X BOOLEAN)
        BY <3>2 DEF StoreRecord, IInv, TypeOK, RowsInv
      <4>2. audits' = audits \cup {<<task[t].key, b>>}
        BY <3>2 DEF StoreRecord
      <4> HIDE DEF b
      <4> QED
        BY <4>1, <4>2
    <3> QED
      BY <1>11, <3>1, <3>2
  <2>3. TypeOK'
    BY <2>1, <2>2, GoToFacts DEF IInv, TypeOK, Points, rows, business
  <2> QED
    BY <2>1, <2>3, MovePreserves DEF IInv, ApprovedInv, Points, business
<1>12. ASSUME NEW t \in Threads, RegistryRaises(t) PROVE IInv'
  <2>1. PICK x \in {"idle", "audit_fail"} :
           /\ GoTo(t, x)
           /\ x # "idle" => \/ task[t].at = "failed"
                            \/ task[t].at = "cas" /\ task[t].op = "release"
    BY <1>12 DEF RegistryRaises
  <2>2. UNCHANGED <<now, business, used, audits>>
    BY <1>12 DEF RegistryRaises
  <2>3. CASE UNCHANGED <<rows, approvedBy>>
    <3>1. TypeOK'
      BY <2>1, <2>2, <2>3, GoToFacts DEF IInv, TypeOK, Points, rows, business
    <3> QED
      BY <2>1, <2>2, <2>3, <3>1, MovePreserves DEF IInv, ApprovedInv, Points, business
  <2>4. CASE task[t].at = "create" /\ InsertRow(t) /\ UNCHANGED approvedBy
    BY <2>1, <2>2, <2>4, InsertPreserves
  <2>5. CASE task[t].at = "cas" /\ WriteIfUnchanged(t) /\ UNCHANGED bound
    <3>1. used' \in [Procs -> SUBSET Keys]
      BY <2>2 DEF IInv, TypeOK
    <3> QED
      BY <2>1, <2>2, <2>5, <3>1, WritePreserves
  <2> QED
    BY <1>12, <2>3, <2>4, <2>5 DEF RegistryRaises
<1>13. ASSUME NEW p \in Procs, Crash(p) PROVE IInv'
  <2>1. Idle \in Tasks /\ Idle.at = "idle"
    BY DEF Idle, Tasks, Points, Operations, Statuses
  <2>2. /\ task' = [t \in Threads |-> IF ProcOf[t] = p THEN Idle ELSE task[t]]
        /\ used' = [used EXCEPT ![p] = {}]
        /\ UNCHANGED <<rows, now, business, audits, approvedBy>>
    BY <1>13 DEF Crash
  <2>3. task' \in [Threads -> Tasks] /\ \A u \in Threads : task'[u].at = "idle" \/ task'[u] = task[u]
    BY <1>0, <2>1, <2>2
  <2>4. used' \in [Procs -> SUBSET Keys]
    BY <2>2 DEF IInv, TypeOK
  <2>5. TypeOK'
    BY <2>2, <2>3, <2>4 DEF IInv, TypeOK, rows, business
  <2>6. \A u \in Threads, k \in Keys : Holds(u, k)' => Holds(u, k) /\ task'[u] = task[u]
    BY <2>3 DEF Holds
  <2> QED
    BY <2>2, <2>3, <2>5, <2>6 DEF IInv, RowsInv, DecisionInv, ClaimInv, ClaimIsExclusive,
       ApprovedInv, rows, business
<1>14. CASE TimePasses
  <2>1. TypeOK' /\ UNCHANGED <<rows, task, applied, approvedBy>>
    BY <1>14 DEF TimePasses, IInv, TypeOK, rows, business
  <2> QED
    BY <2>1, OutsidePreserves
<1>15. ASSUME NEW a \in Apps, NEW s \in EditStages, ManualEdit(a, s) \/ EvidenceWrite(a, s)
       PROVE IInv'
  <2>1. TypeOK' /\ UNCHANGED <<rows, task, applied, approvedBy>>
    BY <1>15 DEF ManualEdit, EvidenceWrite, IInv, TypeOK, rows
  <2> QED
    BY <2>1, OutsidePreserves
<1>16. CASE UNCHANGED vars
  <2>1. TypeOK' /\ UNCHANGED <<rows, task, applied, approvedBy>>
    BY <1>16 DEF vars, IInv, TypeOK, rows
  <2> QED
    BY <2>1, OutsidePreserves
<1> QED
  BY <1>1, <1>2, <1>3, <1>4, <1>5, <1>6, <1>7, <1>8, <1>9, <1>10, <1>11, <1>12, <1>13,
     <1>14, <1>15, <1>16 DEF Next, Request, Progress, Environment

\* The invariant holds in every reachable state.
THEOREM InvariantHolds == Spec => []IInv
<1>1. Init => IInv
  BY InitIInv
<1>2. IInv /\ [Next]_vars => IInv'
  BY NextIInv
<1> QED
  BY <1>1, <1>2, PTL DEF Spec

\* The rows, requests and audits always have their types.
THEOREM TypeCorrect == Spec => []TypeOK
<1>1. IInv => TypeOK
  BY DEF IInv
<1> QED
  BY <1>1, InvariantHolds, PTL

\* However many processes and threads execute approvals, a token is claimed
\* by at most one of them, and its row says so until it answers.
THEOREM ClaimsAreExclusive == Spec => []ClaimIsExclusive
<1>1. IInv => ClaimIsExclusive
  BY DEF IInv
<1> QED
  BY <1>1, InvariantHolds, PTL
=============================================================================
