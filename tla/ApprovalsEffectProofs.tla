------------------------ MODULE ApprovalsEffectProofs ------------------------
(***************************************************************************)
(* What approved writes do, for any number of processes, threads, tokens   *)
(* and previews: they take effect at most once and only when approved,     *)
(* audits are truthful, an orphaned claim stays claimed, and every step of *)
(* the approval centre is a step of ApprovalLifecycle or a stutter.        *)
(***************************************************************************)
EXTENDS ApprovalsProofs

-----------------------------------------------------------------------------
(* The invariants, on top of IInv.                                         *)

\* The preview passed the evidence gate and the cohort and JD gate.
Gated(k) == bound[k].evidence /\ bound[k].gate \in {"no_job", "confirmed"}

\* Thread t executes, or its begin has decided to.
Admitted(t) ==
    \/ Holds(t, task[t].key)
    \/ task[t].at = "cas" /\ task[t].op = "begin" /\ task[t].ok

\* The adapter has answered that the write of t is in place.
Answered(t) ==
    \/ task[t].at = "applied"
    \/ task[t].at = "cas" /\ task[t].op = "complete"

\* Where each request is, with respect to the effect of its write: what is
\* executed was gated, what was answered took effect, only browser actions are
\* consumed directly, and success is about to be audited only for a token that
\* was consumed after its effect.
RequestAt(t) ==
    /\ Admitted(t) => Gated(task[t].key)
    /\ Answered(t) => applied[task[t].key] > 0
    /\ task[t].at = "cas" /\ task[t].op = "consume"
          => bound[task[t].key].op = "browser_action"
    /\ task[t].at = "audit_ok"
          => status[task[t].key] = "consumed" /\ applied[task[t].key] > 0

RequestInv == \A t \in Threads : RequestAt(t)

\* What the rows, the audits and the application data say about effects.
TokenTruthful(k) ==
    /\ k \in approvedBy => status[k] # "none"
    /\ applied[k] > 0 => Gated(k)
    /\ status[k] = "consumed" /\ bound[k].op # "browser_action" => applied[k] > 0
    /\ <<k, TRUE>> \in audits => status[k] = "consumed" /\ applied[k] > 0

AppTruthful(a) ==
    /\ \A e \in log[a] : applied[e[1]] > 0
    /\ boundBy[a] # NoKey => applied[boundBy[a]] > 0

EffectInv ==
    /\ \A k \in Keys : TokenTruthful(k)
    /\ \A a \in Apps : AppTruthful(a)

\* Why a second effect is impossible, for each kind of write: a stage update
\* finds its own entry in the stage history, a binding finds the revision it was
\* previewed against gone, and a recipe, which has no such trace, is never
\* released again once it was written.
OnceAt(k) ==
    /\ applied[k] <= 1 \/ (bound[k].op = "stage_update" /\ ~bound[k].idem)
    /\ applied[k] > 0 =>
          \/ bound[k].op = "stage_update"
                /\ (bound[k].idem => \E e \in log[bound[k].app] : e[1] = k)
          \/ bound[k].op = "binding_update" /\ revision[bound[k].app] > bound[k].rev
          \/ /\ bound[k].op = "recipe_update" /\ status[k] \in {"executing", "consumed"}
             /\ \A t \in Threads : Holds(t, k) => Answered(t)

OnceInv == \A k \in Keys : OnceAt(k)

-----------------------------------------------------------------------------
(* The five kinds of steps.  Everything below is proved once per kind.      *)

Others(t) == \A u \in Threads \ {t} : task'[u] = task[u]

\* A request starts, ends, gives up, or goes on in execute without a write.
CalmAt(u) ==
    \/ task'[u] = task[u]
    \/ task'[u].at \in {"idle", "create", "wait", "audit_fail"}
    \/ /\ task[u].at = "claimed" /\ task'[u].key = task[u].key
       /\ task'[u].at = "failed" \/ (task'[u].at = "applied" /\ applied[task[u].key] > 0)

CalmStep ==
    /\ UNCHANGED <<rows, log, revision, boundBy, applied, approvedBy>>
    /\ \A u \in Threads : CalmAt(u)
    /\ \A k \in Keys : <<k, TRUE>> \in audits' =>
          \/ <<k, TRUE>> \in audits
          \/ \E u \in Threads : task[u].at = "audit_ok" /\ task[u].key = k

\* An issuer inserts its row, or finds the key taken.
InsertStep(t) ==
    /\ task[t].at = "create" /\ InsertRow(t) /\ Others(t) /\ task'[t].at = "idle"
    /\ UNCHANGED <<business, audits, approvedBy>>

\* A registry operation reads its row and decides.
ReadStep(t) ==
    /\ Others(t) /\ task'[t].at = "cas"
    /\ LET k == task'[t].key
           o == task'[t].op
       IN  /\ o = "begin" /\ task'[t].ok => Gated(k)
           /\ o = "consume" => bound[k].op = "browser_action"
           /\ o = "complete" => task[t].at = "applied" /\ task[t].key = k
           /\ o = "release" => task[t].at = "failed" /\ task[t].key = k
           /\ o \notin {"complete", "release"} => task[t].at \in {"idle", "wait"}
    /\ UNCHANGED <<rows, business, audits, approvedBy>>

\* A registry operation writes what it decided, if the row is still as it was.
WriteStep(t) ==
    /\ task[t].at = "cas" /\ WriteIfUnchanged(t) /\ Others(t)
    /\ task'[t].at \in {"idle", "claimed", "audit_ok", "audit_fail"}
    /\ task'[t].at # "idle" => task'[t].key = task[t].key
    /\ task'[t].at = "claimed" => /\ task[t].op = "begin" /\ task[t].ok
                                  /\ status[task[t].key] = task[t].seen
    /\ task'[t].at = "audit_ok" => task[t].op = "complete"
    /\ UNCHANGED <<bound, business, audits>>

\* The adapter writes, and its answer arrives or is lost.
CommitStep(t) ==
    LET k == task[t].key IN
    /\ task[t].at = "claimed" /\ task'[t].key = k /\ task'[t].at \in {"applied", "failed"}
    /\ task'[t].at = "failed" => bound[k].op # "recipe_update"
    /\ CommitStage(k, bound[k]) \/ CommitBinding(k, bound[k]) \/ CommitRecipe(k, bound[k])
    /\ Others(t)
    /\ UNCHANGED <<rows, audits, approvedBy>>

\* What a read establishes, from the facts about any read.
LEMMA ReadIsReadStep ==
    ASSUME IInv, NEW t \in Threads, NEW k \in Keys, NEW o \in Operations,
           NEW late \in BOOLEAN, Read(t, k, o, late),
           o = "consume" => bound[k].op = "browser_action",
           o = "complete" => task[t].at = "applied" /\ task[t].key = k,
           o = "release" => task[t].at = "failed" /\ task[t].key = k,
           o \notin {"complete", "release"} => task[t].at \in {"idle", "wait"}
    PROVE  ReadStep(t)
BY ReadFacts DEF IInv, ReadStep, Others, Gated

\* A request that ends, gives up or leaves the lock of the registry is calm.
LEMMA GoToIsCalm ==
    ASSUME IInv, NEW t \in Threads, NEW x \in {"idle", "audit_fail"}, GoTo(t, x),
           UNCHANGED <<rows, log, revision, boundBy, applied, approvedBy, audits>>
    PROVE  CalmStep
<1>1. /\ \A u \in Threads \ {t} : task'[u] = task[u]
      /\ task'[t].at = x
  BY GoToFacts DEF IInv, Points
<1> QED
  BY <1>1 DEF CalmStep, CalmAt

\* A crash, the clock, the user and the evidence updates are calm.
LEMMA EnvironmentIsCalm ==
    ASSUME IInv, Environment
    PROVE  CalmStep
<1>1. Idle.at = "idle"
  BY DEF Idle
<1>2. ASSUME NEW p \in Procs, Crash(p)  PROVE CalmStep
  <2>1. \A u \in Threads : task'[u] = task[u] \/ task'[u].at = "idle"
    BY <1>1, <1>2 DEF Crash
  <2> QED
    BY <1>2, <2>1 DEF Crash, CalmStep, CalmAt, business
<1>3. CASE TimePasses
  BY <1>3 DEF TimePasses, CalmStep, CalmAt, business
<1>4. ASSUME NEW a \in Apps, NEW s \in EditStages, ManualEdit(a, s) \/ EvidenceWrite(a, s)
      PROVE  CalmStep
  BY <1>4 DEF ManualEdit, EvidenceWrite, CalmStep, CalmAt
<1> QED
  BY <1>2, <1>3, <1>4 DEF Environment

\* A new request is calm, or reads at once.
LEMMA RequestKinds ==
    ASSUME IInv, NEW t \in Threads, Request(t)
    PROVE  CalmStep \/ ReadStep(t)
<1>1. ASSUME NEW p \in Previews, IssueCheck(t, p)  PROVE CalmStep
  <2>1. /\ \A u \in Threads \ {t} : task'[u] = task[u]
        /\ task'[t].at = "create"
    BY <1>1 DEF IssueCheck, IInv, TypeOK, Tasks, Idle
  <2> QED
    BY <1>1, <2>1 DEF IssueCheck, CalmStep, CalmAt, business
<1>2. ASSUME NEW k \in Keys, ExecuteRequest(t, k)  PROVE CalmStep
  <2>1. /\ \A u \in Threads \ {t} : task'[u] = task[u]
        /\ task'[t].at = "wait"
    BY <1>2 DEF ExecuteRequest, IInv, TypeOK, Tasks, Idle
  <2> QED
    BY <1>2, <2>1 DEF ExecuteRequest, CalmStep, CalmAt, business
<1>3. ASSUME NEW k \in Keys, NEW o \in {"approve", "reject"}, OperatorDecides(t, k, o)
      PROVE  ReadStep(t)
  <2>1. IsLate(k) \in BOOLEAN /\ o \in Operations
    BY DEF IsLate, Operations
  <2> QED
    BY <1>3, <2>1, ReadIsReadStep DEF OperatorDecides
<1>4. ASSUME NEW k \in Keys, ConsumeBrowserAction(t, k)  PROVE ReadStep(t)
  <2>1. IsLate(k) \in BOOLEAN /\ "consume" \in Operations
    BY DEF IsLate, Operations
  <2> QED
    BY <1>4, <2>1, ReadIsReadStep DEF ConsumeBrowserAction
<1> QED
  BY <1>1, <1>2, <1>3, <1>4 DEF Request

\* A compare-and-set writes; the claim and the success of complete are only
\* reported when the row was still as the request had read it.
LEMMA CompareAndSetWrites ==
    ASSUME IInv, NEW t \in Threads, CompareAndSet(t)
    PROVE  WriteStep(t)
<1> DEFINE k  == task[t].key
           ok == IF status[k] = task[t].seen THEN task[t].ok
                 ELSE ConflictAllowed(task[t].op, status[k], IsLate(k))
           x  == After(task[t].op, ok)
<1>1. /\ task[t].at = "cas" /\ WriteIfUnchanged(t) /\ GoTo(t, x)
      /\ UNCHANGED <<bound, business, audits>>
  BY DEF CompareAndSet
<1>2. x \in {"idle", "claimed", "audit_ok", "audit_fail"}
  BY DEF After
<1>3. x = "claimed" => task[t].op = "begin" /\ task[t].ok /\ status[k] = task[t].seen
  BY DEF After, ConflictAllowed
<1>4. x = "audit_ok" => task[t].op = "complete"
  BY DEF After
<1> HIDE DEF x
<1>5. /\ Others(t) /\ task'[t].at = x
      /\ x # "idle" => task'[t].key = task[t].key
  BY <1>1, <1>2, GoToFacts DEF IInv, Points, Others
<1> QED
  BY <1>1, <1>2, <1>3, <1>4, <1>5 DEF WriteStep

\* What a failing registry call leaves behind: nothing, or the write it made.
LEMMA RegistryRaisesKinds ==
    ASSUME IInv, NEW t \in Threads, RegistryRaises(t)
    PROVE  CalmStep \/ InsertStep(t) \/ WriteStep(t)
<1>1. PICK x \in {"idle", "audit_fail"} :
         /\ GoTo(t, x)
         /\ x # "idle" => \/ task[t].at = "failed"
                          \/ task[t].at = "cas" /\ task[t].op = "release"
  BY DEF RegistryRaises
<1>2. UNCHANGED <<now, business, used, audits>>
  BY DEF RegistryRaises
<1>3. /\ Others(t) /\ task'[t].at = x
      /\ x # "idle" => task'[t].key = task[t].key
  BY <1>1, GoToFacts DEF IInv, Points, Others
<1>4. CASE UNCHANGED <<rows, approvedBy>>
  BY <1>1, <1>2, <1>4, GoToIsCalm DEF business
<1>5. CASE task[t].at = "create" /\ InsertRow(t) /\ UNCHANGED approvedBy
  BY <1>1, <1>2, <1>3, <1>5 DEF InsertStep
<1>6. CASE task[t].at = "cas" /\ WriteIfUnchanged(t) /\ UNCHANGED bound
  BY <1>1, <1>2, <1>3, <1>6 DEF WriteStep
<1> QED
  BY <1>4, <1>5, <1>6 DEF RegistryRaises

\* The adapter answers with the effect in place, or without one.
LEMMA DispatchKinds ==
    ASSUME IInv, EffectInv, NEW t \in Threads,
           \/ DispatchCommits(t) \/ DispatchLosesAnswer(t)
           \/ DispatchReplays(t) \/ DispatchRaises(t)
    PROVE  CalmStep \/ CommitStep(t)
<1> DEFINE k == task[t].key
<1>1. task[t].at = "claimed" /\ k \in Keys /\ status[k] # "none" /\ bound[k] \in Previews
  BY DEF DispatchCommits, DispatchLosesAnswer, DispatchReplays, DispatchRaises, IInv, RowsInv
<1>2. bound[k].app \in Apps
  BY <1>1, ConstantAssumption DEF PreviewType
<1>3. ASSUME NEW x \in {"applied", "failed"}, GoTo(t, x)
      PROVE  Others(t) /\ task'[t].at = x /\ task'[t].key = k
  BY <1>3, GoToFacts DEF IInv, Points, Others
<1>4. CASE DispatchCommits(t)
  BY <1>1, <1>3, <1>4 DEF DispatchCommits, CommitStep
<1>5. CASE DispatchLosesAnswer(t)
  BY <1>1, <1>3, <1>5 DEF DispatchLosesAnswer, CommitStep, CommitStage, CommitBinding
<1>6. CASE DispatchReplays(t)
  <2>1. applied[k] > 0
    <3>1. CASE ReplayAccepted(k, bound[k])
      <4>1. \E e \in log[bound[k].app] : e[1] = k
        BY <3>1 DEF ReplayAccepted, PriorEntries
      <4> HIDE DEF k
      <4> QED
        BY <1>2, <4>1 DEF EffectInv, AppTruthful
    <3>2. CASE boundBy[bound[k].app] = k
      BY <1>1, <1>2, <3>2, ConstantAssumption DEF EffectInv, AppTruthful
    <3> QED
      BY <1>6, <3>1, <3>2 DEF DispatchReplays
  <2> QED
    BY <1>1, <1>3, <1>6, <2>1 DEF DispatchReplays, CalmStep, CalmAt, Others, business
<1>7. CASE DispatchRaises(t)
  BY <1>1, <1>3, <1>7 DEF DispatchRaises, CalmStep, CalmAt, Others, business
<1> QED
  BY <1>4, <1>5, <1>6, <1>7

\* Every step of the approval centre is of one of the five kinds.
LEMMA StepKinds ==
    ASSUME IInv, EffectInv, Next
    PROVE  \/ CalmStep
           \/ \E t \in Threads : InsertStep(t) \/ ReadStep(t) \/ WriteStep(t) \/ CommitStep(t)
<1>1. ASSUME NEW t \in Threads, IssueCreate(t)  PROVE InsertStep(t)
  BY <1>1, GoToFacts DEF IssueCreate, InsertStep, Others, IInv, Points
<1>2. ASSUME NEW t \in Threads, Begin(t) \/ Complete(t) \/ ReleaseClaim(t)  PROVE ReadStep(t)
  <2>1. /\ task[t].key \in Keys /\ task[t].late \in BOOLEAN
        /\ {"begin", "complete", "release"} \subseteq Operations
    BY <1>2 DEF Begin, Complete, ReleaseClaim, IInv, RowsInv, TypeOK, Tasks, Operations
  <2> QED
    BY <1>2, <2>1, ReadIsReadStep DEF Begin, Complete, ReleaseClaim
<1>3. ASSUME NEW t \in Threads, StoreRecord(t) \/ SinkRaises(t)  PROVE CalmStep
  <2>1. Others(t) /\ task'[t].at = "idle"
    BY <1>3, GoToFacts DEF StoreRecord, SinkRaises, IInv, Points, Others
  <2>2. \A k \in Keys : <<k, TRUE>> \in audits' =>
           <<k, TRUE>> \in audits \/ (task[t].at = "audit_ok" /\ task[t].key = k)
    <3> DEFINE success == task[t].at = "audit_ok"
    <3>1. audits' \in {audits, audits \cup {<<task[t].key, success>>}}
      BY <1>3 DEF StoreRecord, SinkRaises
    <3> SUFFICES ASSUME NEW k \in Keys, <<k, TRUE>> \in audits', <<k, TRUE>> \notin audits
                 PROVE  success /\ task[t].key = k
      OBVIOUS
    <3> HIDE DEF success
    <3>2. <<k, TRUE>> = <<task[t].key, success>>
      BY <3>1, Zenon
    <3> QED
      BY <3>2, Zenon
  <2> QED
    BY <1>3, <2>1, <2>2 DEF StoreRecord, SinkRaises, CalmStep, CalmAt, Others, business
<1>4. ASSUME NEW t \in Threads, Progress(t)
      PROVE  CalmStep \/ InsertStep(t) \/ ReadStep(t) \/ WriteStep(t) \/ CommitStep(t)
  BY <1>1, <1>2, <1>3, <1>4, DispatchKinds, CompareAndSetWrites, RegistryRaisesKinds DEF Progress
<1> QED
  BY <1>4, RequestKinds, EnvironmentIsCalm DEF Next

-----------------------------------------------------------------------------
(* What the kinds of steps do.                                             *)

\* What a write of the registry can amount to.  Only the holder of a claim moves
\* its row, and it never finds the row changed.
WriteMove(t) ==
    LET k == task[t].key
        To(st) == status' = [status EXCEPT ![k] = st]
        Decides == ~Holds(t, k) /\ task'[t].at \in {"idle", "audit_fail"}
    IN  \/ Decides /\ UNCHANGED <<status, approvedBy>>
        \/ /\ Decides /\ UNCHANGED approvedBy
           /\ \/ status[k] \in {"pending", "approved", "rejected"} /\ To("expired")
              \/ status[k] \in {"pending", "approved"} /\ To("rejected")
        \/ /\ Decides /\ approvedBy' = approvedBy \cup {k}
           /\ status[k] \in {"pending", "approved"} /\ To("approved")
        \/ /\ Decides /\ UNCHANGED approvedBy
           /\ task[t].op = "consume" /\ status[k] = "approved" /\ To("consumed")
        \/ /\ ~Holds(t, k) /\ UNCHANGED approvedBy
           /\ task'[t].at \in {"idle", "audit_fail", "claimed"}
           /\ Admitted(t) /\ status[k] = "approved" /\ To("executing")
        \/ /\ Holds(t, k) /\ UNCHANGED approvedBy
           /\ task'[t].at \in {"idle", "audit_fail", "audit_ok"}
           /\ Answered(t) /\ status[k] = "executing" /\ To("consumed")
        \/ /\ Holds(t, k) /\ UNCHANGED approvedBy
           /\ task'[t].at \in {"idle", "audit_fail"}
           /\ ~Answered(t) /\ status[k] = "executing" /\ To("approved")

\* The decisions of the policy, written by compare-and-set, are those moves.
LEMMA WritesAreMoves ==
    ASSUME IInv, NEW t \in Threads, WriteStep(t)
    PROVE  /\ task[t].key \in Keys /\ status[task[t].key] # "none"
           /\ WriteMove(t)
<1> DEFINE k == task[t].key
           o == task[t].op
<1>1. k \in Keys /\ status[k] # "none" /\ task[t].at = "cas" /\ status \in [Keys -> Statuses]
  BY DEF WriteStep, IInv, RowsInv, TypeOK
<1>2. /\ task[t].next # "none"
      /\ SoundDecision(o, task[t].seen, task[t].late, task[t].ok, task[t].next)
      /\ o \in {"complete", "release"} => task[t].seen = "executing" /\ task[t].ok
  BY <1>1 DEF IInv, DecisionInv
<1>3. Holds(t, k) <=> o \in {"complete", "release"}
  BY <1>1 DEF Holds
<1>4. Holds(t, k) => status[k] = "executing" /\ ~task[t].late
  BY <1>1 DEF IInv, ClaimIsExclusive, ClaimInv
<1>5. /\ task'[t].at \in {"idle", "claimed", "audit_ok", "audit_fail"}
      /\ task'[t].at = "claimed" => o = "begin" /\ task[t].ok /\ status[k] = task[t].seen
      /\ task'[t].at = "audit_ok" => o = "complete"
  BY DEF WriteStep
<1>6. Answered(t) <=> o = "complete"
  BY <1>1 DEF Answered
<1>7. o = "begin" /\ task[t].ok => Admitted(t)
  BY <1>1 DEF Admitted
<1>8. CASE status[k] # task[t].seen
  <2>1. UNCHANGED <<status, approvedBy>>
    BY <1>8 DEF WriteStep, WriteIfUnchanged
  <2> QED
    BY <1>1, <1>2, <1>3, <1>4, <1>5, <1>8, <2>1 DEF WriteMove
<1>9. CASE status[k] = task[t].seen
  <2>1. /\ status' = [status EXCEPT ![k] = task[t].next]
        /\ approvedBy' = IF o = "approve" /\ task[t].next = "approved"
                         THEN approvedBy \cup {k} ELSE approvedBy
    BY <1>9 DEF WriteStep, WriteIfUnchanged
  <2>2. status[k] \in {"approved", "executing", "consumed"} => approvedBy \cup {k} = approvedBy
    BY <1>1 DEF IInv, ApprovedInv
  <2>3. task[t].next = status[k] => status' = status
    BY <1>1, <2>1
  <2>4. CASE o \in {"complete", "release"}
    BY <1>1, <1>2, <1>3, <1>4, <1>5, <1>6, <1>9, <2>1, <2>4 DEF WriteMove, SoundDecision
  <2>5. CASE o \notin {"complete", "release"} /\ task[t].ok
    BY <1>1, <1>2, <1>3, <1>5, <1>7, <1>9, <2>1, <2>5 DEF WriteMove, SoundDecision
  <2>6. CASE o \notin {"complete", "release"} /\ ~task[t].ok
    BY <1>1, <1>2, <1>3, <1>5, <1>9, <2>1, <2>2, <2>3, <2>6 DEF WriteMove, SoundDecision
  <2> QED
    BY <2>4, <2>5, <2>6
<1> QED
  BY <1>1, <1>8, <1>9

\* An insert touches no row that is there.
LEMMA InsertsAreNew ==
    ASSUME IInv, NEW t \in Threads, InsertStep(t)
    PROVE  \/ UNCHANGED rows
           \/ \E k \in Keys : /\ status[k] = "none" /\ applied[k] = applied'[k]
                              /\ status' = [status EXCEPT ![k] = "pending"]
                              /\ \A j \in Keys \ {k} : bound'[j] = bound[j]
<1> DEFINE p == task[t].want
<1>1. p \in Previews /\ p.key \in Keys
  BY ConstantAssumption DEF InsertStep, IInv, RowsInv, PreviewType
<1>2. CASE status[p.key] # "none"
  BY <1>2 DEF InsertStep, InsertRow
<1>3. CASE status[p.key] = "none"
  BY <1>1, <1>3 DEF InsertStep, InsertRow, IInv, TypeOK, business
<1> QED
  BY <1>2, <1>3

\* Commits count one more effect of the token that is being executed.
LEMMA CommitsCount ==
    ASSUME IInv, NEW t \in Threads, CommitStep(t)
    PROVE  LET k == task[t].key
               p == bound[k]
           IN  /\ k \in Keys /\ Holds(t, k) /\ ~Answered(t) /\ status[k] = "executing"
               /\ p \in Previews /\ p.app \in Apps /\ p.to \in Stages /\ p.rev \in Nat
               /\ applied \in [Keys -> Nat] /\ applied' = [applied EXCEPT ![k] = applied[k] + 1]
               /\ Others(t)
<1>1. task[t].key \in Keys /\ Holds(t, task[t].key) /\ ~Answered(t)
      /\ status[task[t].key] = "executing" /\ bound[task[t].key] \in Previews
  BY DEF CommitStep, IInv, RowsInv, Holds, Answered, ClaimIsExclusive
<1>2. /\ bound[task[t].key].app \in Apps /\ bound[task[t].key].to \in Stages
      /\ bound[task[t].key].rev \in Nat
  BY <1>1, ConstantAssumption DEF PreviewType
<1>3. applied' = [applied EXCEPT ![task[t].key] = applied[task[t].key] + 1]
  BY DEF CommitStep, CommitStage, CommitBinding, CommitRecipe
<1> QED
  BY <1>1, <1>2, <1>3 DEF IInv, TypeOK, CommitStep, Holds

\* Rows stay bound, effects stay done, consumed tokens stay consumed.
Monotone ==
    \A k \in Keys :
        /\ status[k] # "none" => status'[k] # "none" /\ bound'[k] = bound[k]
        /\ applied[k] > 0 => applied'[k] > 0
        /\ status[k] = "consumed" => status'[k] = "consumed"

LEMMA StepIsMonotone ==
    ASSUME IInv, EffectInv, Next
    PROVE  Monotone
<1>1. status \in [Keys -> Statuses] /\ applied \in [Keys -> Nat]
  BY DEF IInv, TypeOK
<1>2. ASSUME UNCHANGED <<rows, applied>>  PROVE Monotone
  BY <1>2 DEF Monotone, rows
<1>3. ASSUME NEW t \in Threads, InsertStep(t)  PROVE Monotone
  BY <1>1, <1>3, InsertsAreNew DEF Monotone, rows, business, InsertStep
<1>4. ASSUME NEW t \in Threads, WriteStep(t)  PROVE Monotone
  BY <1>1, <1>4, WritesAreMoves DEF WriteStep, WriteMove, Monotone, business
<1>5. ASSUME NEW t \in Threads, CommitStep(t)  PROVE Monotone
  BY <1>1, <1>5, CommitsCount DEF Monotone, rows, CommitStep
<1> QED
  BY <1>2, <1>3, <1>4, <1>5, StepKinds DEF CalmStep, ReadStep, business

-----------------------------------------------------------------------------
(* The invariants are inductive.                                           *)

\* A request that stands still keeps what it relies on.
LEMMA UnmovedRequest ==
    ASSUME IInv, RequestInv, Monotone, NEW u \in Threads, task'[u] = task[u]
    PROVE  RequestAt(u)'
<1> DEFINE k == task[u].key
<1>1. RequestAt(u)
  BY DEF RequestInv
<1>2. CASE task[u].at \in {"idle", "create"}
  BY <1>2 DEF RequestAt, Admitted, Answered, Holds
<1>3. CASE task[u].at \notin {"idle", "create"}
  <2>1. k \in Keys /\ status[k] # "none"
    BY <1>3 DEF IInv, RowsInv
  <2>2. /\ bound'[k] = bound[k] /\ (applied[k] > 0 => applied'[k] > 0)
        /\ (status[k] = "consumed" => status'[k] = "consumed")
    BY <2>1 DEF Monotone
  <2> QED
    BY <1>1, <2>2 DEF RequestAt, Admitted, Answered, Gated, Holds
<1> QED
  BY <1>2, <1>3

\* Requests keep the evidence for what they are about to do.
LEMMA NextRequestInv ==
    ASSUME IInv, RequestInv, EffectInv, Next
    PROVE  RequestInv'
<1>0. Monotone
  BY StepIsMonotone
<1> SUFFICES ASSUME NEW u \in Threads, task'[u] # task[u]  PROVE RequestAt(u)'
  BY <1>0, UnmovedRequest DEF RequestInv
<1>1. RequestAt(u)
  BY DEF RequestInv
<1>2. CASE CalmStep
  <2>1. CASE task'[u].at \in {"idle", "create", "wait", "audit_fail"}
    BY <2>1 DEF RequestAt, Admitted, Answered, Holds
  <2>2. CASE task'[u].at \notin {"idle", "create", "wait", "audit_fail"}
    <3>1. /\ task[u].at = "claimed" /\ task'[u].key = task[u].key
          /\ task'[u].at = "failed" \/ (task'[u].at = "applied" /\ applied[task[u].key] > 0)
          /\ UNCHANGED <<bound, applied>>
      BY <1>2, <2>2 DEF CalmStep, CalmAt, rows
    <3>2. Gated(task[u].key)
      BY <1>1, <3>1 DEF RequestAt, Admitted, Holds
    <3> QED
      BY <3>1, <3>2 DEF RequestAt, Answered, Gated
  <2> QED
    BY <2>1, <2>2
<1>3. CASE InsertStep(u)
  BY <1>3 DEF InsertStep, RequestAt, Admitted, Answered, Holds
<1>4. CASE ReadStep(u)
  BY <1>1, <1>4
  DEF ReadStep, RequestAt, Admitted, Answered, Holds, Gated, rows, business
<1>5. CASE WriteStep(u)
  <2>1. /\ task[u].key \in Keys /\ status \in [Keys -> Statuses] /\ WriteMove(u)
        /\ task'[u].at \in {"idle", "claimed", "audit_ok", "audit_fail"}
        /\ task'[u].at # "idle" => task'[u].key = task[u].key
        /\ UNCHANGED <<bound, applied>>
    BY <1>5, WritesAreMoves DEF WriteStep, IInv, TypeOK, business
  <2>2. CASE task'[u].at = "claimed"
    BY <1>1, <2>1, <2>2 DEF WriteMove, RequestAt, Answered, Gated
  <2>3. CASE task'[u].at = "audit_ok"
    <3>1. Answered(u) /\ status' = [status EXCEPT ![task[u].key] = "consumed"]
      BY <2>1, <2>3 DEF WriteMove
    <3> QED
      BY <1>1, <2>1, <2>3, <3>1 DEF RequestAt, Admitted, Answered, Holds
  <2>4. CASE task'[u].at \in {"idle", "audit_fail"}
    BY <2>4 DEF RequestAt, Admitted, Answered, Holds
  <2> QED
    BY <2>1, <2>2, <2>3, <2>4
<1>6. CASE CommitStep(u)
  <2>1. /\ task[u].key \in Keys /\ Holds(u, task[u].key)
        /\ applied \in [Keys -> Nat]
        /\ applied' = [applied EXCEPT ![task[u].key] = applied[task[u].key] + 1]
    BY <1>6, CommitsCount
  <2>2. /\ task'[u].key = task[u].key /\ task'[u].at \in {"applied", "failed"}
        /\ UNCHANGED bound
    BY <1>6 DEF CommitStep, rows
  <2>3. applied'[task[u].key] > 0
    BY <2>1
  <2> QED
    BY <1>1, <2>1, <2>2, <2>3 DEF RequestAt, Admitted, Answered, Gated
<1> QED
  BY <1>2, <1>3, <1>4, <1>5, <1>6, StepKinds DEF InsertStep, ReadStep, WriteStep, CommitStep, Others

\* The rows, the audits and the application data stay truthful about effects.
LEMMA NextEffectInv ==
    ASSUME IInv, RequestInv, EffectInv, Next
    PROVE  EffectInv'
<1>0. /\ \A a \in Apps : AppTruthful(a)
      /\ \A k \in Keys : TokenTruthful(k)
      /\ status \in [Keys -> Statuses] /\ applied \in [Keys -> Nat]
  BY DEF EffectInv, IInv, TypeOK
<1>1. (\A a \in Apps : AppTruthful(a)') /\ (\A k \in Keys : TokenTruthful(k)') => EffectInv'
  BY DEF EffectInv
<1>2. CASE CalmStep
  <2>1. \A a \in Apps : AppTruthful(a)'
    BY <1>0, <1>2 DEF CalmStep, AppTruthful
  <2>2. ASSUME NEW k \in Keys  PROVE TokenTruthful(k)'
    <3>1. UNCHANGED <<bound, status, applied, approvedBy>>
      BY <1>2 DEF CalmStep, rows
    <3>2. <<k, TRUE>> \in audits' => status[k] = "consumed" /\ applied[k] > 0
      <4>1. CASE <<k, TRUE>> \in audits
        BY <1>0, <4>1, Zenon DEF TokenTruthful
      <4>2. ASSUME NEW u \in Threads, task[u].at = "audit_ok", task[u].key = k
            PROVE  status[k] = "consumed" /\ applied[k] > 0
        BY <4>2 DEF RequestInv, RequestAt
      <4> QED
        BY <1>2, <4>1, <4>2, Zenon DEF CalmStep
    <3> QED
      BY <1>0, <3>1, <3>2 DEF TokenTruthful, Gated
  <2> QED
    BY <1>1, <2>1, <2>2
<1>3. ASSUME NEW t \in Threads, InsertStep(t)  PROVE EffectInv'
  <2>1. UNCHANGED <<log, boundBy, applied, audits, approvedBy>>
    BY <1>3 DEF InsertStep, business
  <2>2. \A a \in Apps : AppTruthful(a)'
    BY <1>0, <2>1 DEF AppTruthful
  <2>3. ASSUME NEW k \in Keys  PROVE TokenTruthful(k)'
    <3>1. \/ status'[k] = status[k] /\ bound'[k] = bound[k]
          \/ status[k] = "none" /\ status'[k] = "pending"
      BY <1>0, <1>3, InsertsAreNew DEF rows
    <3>2. applied[k] > 0 => status[k] # "none"
      BY <1>0 DEF IInv, ApprovedInv, TokenTruthful
    <3> QED
      BY <1>0, <2>1, <3>1, <3>2 DEF TokenTruthful, Gated
  <2> QED
    BY <1>1, <2>2, <2>3
<1>4. ASSUME NEW t \in Threads, ReadStep(t)  PROVE EffectInv'
  BY <1>4 DEF ReadStep, EffectInv, TokenTruthful, AppTruthful, Gated, rows, business
<1>5. ASSUME NEW t \in Threads, WriteStep(t)  PROVE EffectInv'
  <2>1. UNCHANGED <<bound, log, boundBy, applied, audits>>
    BY <1>5 DEF WriteStep, business
  <2>2. \A a \in Apps : AppTruthful(a)'
    BY <1>0, <2>1 DEF AppTruthful
  <2>3. task[t].key \in Keys /\ task[t].at = "cas" /\ WriteMove(t) /\ RequestAt(t)
    BY <1>5, WritesAreMoves DEF WriteStep, RequestInv
  <2>4. ASSUME NEW k \in Keys  PROVE TokenTruthful(k)'
    <3>1. CASE k # task[t].key
      BY <1>0, <2>1, <2>3, <3>1 DEF WriteMove, TokenTruthful, Gated
    <3>2. CASE k = task[t].key
      BY <1>0, <2>1, <2>3, <3>2 DEF WriteMove, RequestAt, TokenTruthful, Gated
    <3> QED
      BY <3>1, <3>2
  <2> QED
    BY <1>1, <2>2, <2>4
<1>6. ASSUME NEW t \in Threads, CommitStep(t)  PROVE EffectInv'
  <2> DEFINE c == task[t].key
             p == bound[c]
  <2>1. /\ c \in Keys /\ Holds(t, c) /\ p.app \in Apps
        /\ applied' = [applied EXCEPT ![c] = applied[c] + 1]
    BY <1>6, CommitsCount
  <2>2. /\ CommitStage(c, p) \/ CommitBinding(c, p) \/ CommitRecipe(c, p)
        /\ UNCHANGED <<bound, status, audits, approvedBy>>
    BY <1>6 DEF CommitStep, rows
  <2>3. Gated(c) /\ c \in approvedBy /\ status[c] = "executing"
    BY <2>1 DEF RequestInv, RequestAt, Admitted, IInv, ClaimIsExclusive, ApprovedInv
  <2> HIDE DEF c, p
  <2>4. \A k \in Keys : applied[k] > 0 \/ k = c => applied'[k] > 0
    BY <1>0, <2>1
  <2>5. \A a \in Apps : AppTruthful(a)'
    <3>1. ASSUME NEW a \in Apps, NEW e \in log'[a]  PROVE e \in log[a] \/ e[1] = c
      BY <2>1, <2>2, <3>1 DEF CommitStage, CommitBinding, CommitRecipe, IInv, TypeOK
    <3>2. ASSUME NEW a \in Apps  PROVE boundBy'[a] = boundBy[a] \/ boundBy'[a] = c
      BY <2>1, <2>2, <3>2 DEF CommitStage, CommitBinding, CommitRecipe, IInv, TypeOK
    <3>3. \A a \in Apps : /\ \A e \in log[a] : e[1] \in Keys
                          /\ boundBy[a] \in Keys \cup {NoKey}
      BY DEF IInv, TypeOK
    <3>4. ASSUME NEW a \in Apps, NEW e \in log'[a]  PROVE applied'[e[1]] > 0
      <4>1. e[1] \in Keys /\ (applied[e[1]] > 0 \/ e[1] = c)
        BY <1>0, <2>1, <3>1, <3>3, Zenon DEF AppTruthful
      <4> QED
        BY <2>4, <4>1, Zenon
    <3>5. ASSUME NEW a \in Apps, boundBy'[a] # NoKey  PROVE applied'[boundBy'[a]] > 0
      <4>1. boundBy'[a] \in Keys /\ (applied[boundBy'[a]] > 0 \/ boundBy'[a] = c)
        BY <1>0, <2>1, <3>2, <3>3, <3>5, Zenon DEF AppTruthful
      <4> QED
        BY <2>4, <4>1, Zenon
    <3> QED
      BY <3>4, <3>5 DEF AppTruthful
  <2>6. ASSUME NEW k \in Keys  PROVE TokenTruthful(k)'
    BY <1>0, <2>1, <2>2, <2>3, <2>4 DEF TokenTruthful, Gated
  <2> QED
    BY <1>1, <2>5, <2>6
<1> QED
  BY <1>2, <1>3, <1>4, <1>5, <1>6, StepKinds

\* What a second execution of a recipe would need: somebody who holds the claim
\* of a token again, without the answer.
RecipeClosed(k) ==
    /\ status[k] \in {"executing", "consumed"}
    /\ \A t \in Threads : Holds(t, k) => Answered(t)

\* Once a recipe has been written, nobody executes its token again.
LEMMA RecipesStayClosed ==
    ASSUME IInv, NEW k \in Keys, applied[k] > 0, RecipeClosed(k),
           NEW t \in Threads, ReadStep(t) \/ WriteStep(t) \/ InsertStep(t)
    PROVE  RecipeClosed(k)'
<1>0. status \in [Keys -> Statuses] /\ status[k] \in {"executing", "consumed"}
  BY DEF RecipeClosed, IInv, TypeOK
<1>1. \A u \in Threads \ {t} : Holds(u, k)' => Answered(u)'
  BY DEF RecipeClosed, ReadStep, WriteStep, InsertStep, Others, Holds, Answered
<1>2. CASE ReadStep(t)
  <2>1. Holds(t, k)' => Answered(t)'
    BY <1>2 DEF ReadStep, RecipeClosed, Holds, Answered
  <2> QED
    BY <1>0, <1>1, <1>2, <2>1 DEF RecipeClosed, ReadStep, rows
<1>3. CASE WriteStep(t)
  <2>1. WriteMove(t) /\ task[t].key \in Keys
    BY <1>3, WritesAreMoves
  <2>2. /\ task'[t].at \in {"idle", "claimed", "audit_ok", "audit_fail"}
        /\ task'[t].at # "idle" => task'[t].key = task[t].key
    BY <1>3 DEF WriteStep
  <2>3. ~Holds(t, k)'
    BY <1>0, <2>1, <2>2 DEF WriteMove, Holds
  <2>4. status'[k] \in {"executing", "consumed"}
    BY <1>0, <2>1 DEF WriteMove, RecipeClosed
  <2> QED
    BY <1>1, <2>3, <2>4 DEF RecipeClosed
<1>4. CASE InsertStep(t)
  <2>1. status'[k] = status[k]
    BY <1>0, <1>4, InsertsAreNew DEF rows
  <2>2. ~Holds(t, k)'
    BY <1>4 DEF InsertStep, Holds
  <2> QED
    BY <1>0, <1>1, <2>1, <2>2 DEF RecipeClosed
<1> QED
  BY <1>2, <1>3, <1>4

\* A second commit meets the trace of the first.
LEMMA NextOnceInv ==
    ASSUME IInv, RequestInv, EffectInv, OnceInv, Next
    PROVE  OnceInv'
<1> SUFFICES ASSUME NEW k \in Keys  PROVE OnceAt(k)'
  BY DEF OnceInv
<1>0. /\ OnceAt(k) /\ applied \in [Keys -> Nat] /\ applied' \in [Keys -> Nat]
      /\ applied[k] > 0 => bound'[k] = bound[k] /\ status[k] # "none" /\ bound[k] \in Previews
  <2>1. IInv'
    BY NextIInv
  <2> QED
    BY <2>1, StepIsMonotone DEF OnceInv, IInv, TypeOK, Monotone, ApprovedInv, EffectInv,
       TokenTruthful, RowsInv
<1>1. CASE applied[k] = 0 /\ applied'[k] = 0
  BY <1>1 DEF OnceAt
<1>2. ASSUME applied[k] > 0, applied'[k] = applied[k], UNCHANGED <<log, revision>>,
             RecipeClosed(k) => RecipeClosed(k)'
      PROVE  OnceAt(k)'
  BY <1>0, <1>2 DEF OnceAt, RecipeClosed
<1>3. CASE CalmStep
  <2>1. UNCHANGED <<log, revision, applied, status>>
    BY <1>3 DEF CalmStep, rows
  <2>2. ASSUME NEW u \in Threads, Holds(u, k)', Holds(u, k) => Answered(u)
        PROVE  Answered(u)'
    BY <1>3, <2>2 DEF CalmStep, CalmAt, Holds, Answered
  <2>3. RecipeClosed(k) => RecipeClosed(k)'
    BY <2>1, <2>2 DEF RecipeClosed
  <2> QED
    BY <1>0, <1>1, <1>2, <2>1, <2>3
<1>4. ASSUME NEW t \in Threads, InsertStep(t) \/ ReadStep(t) \/ WriteStep(t)  PROVE OnceAt(k)'
  <2>1. UNCHANGED <<log, revision, applied>>
    BY <1>4 DEF InsertStep, ReadStep, WriteStep, business
  <2>2. applied[k] > 0 /\ RecipeClosed(k) => RecipeClosed(k)'
    BY <1>4, RecipesStayClosed
  <2> QED
    BY <1>0, <1>1, <1>2, <2>1, <2>2
<1>5. ASSUME NEW t \in Threads, CommitStep(t), NEW c \in Keys, c = task[t].key
      PROVE  OnceAt(k)'
  <2> DEFINE p == bound[c]
  <2>1. /\ c \in Keys /\ Holds(t, c) /\ ~Answered(t) /\ status[c] = "executing"
        /\ p \in Previews /\ p.app \in Apps /\ p.rev \in Nat
        /\ applied' = [applied EXCEPT ![c] = applied[c] + 1]
        /\ Others(t) /\ task'[t].key = c
    BY <1>5, CommitsCount DEF CommitStep
  <2>2. /\ CommitStage(c, p) \/ CommitBinding(c, p) \/ CommitRecipe(c, p)
        /\ task'[t].at = "failed" => p.op # "recipe_update"
        /\ task'[t].at \in {"applied", "failed"}
        /\ UNCHANGED <<bound, status>>
    BY <1>5 DEF CommitStep, rows
  <2>3. /\ log \in [Apps -> SUBSET (Keys \X Stages)] /\ revision \in [Apps -> Nat]
    BY DEF IInv, TypeOK
  <2>4. CASE k = c
    <3>1. CASE CommitStage(c, p)
      <4>1. p.op = "stage_update" /\ PriorEntries(c, p) = {}
            /\ <<c, p.to>> \in log'[p.app]
        BY <2>1, <2>3, <3>1 DEF CommitStage, StageWriteAccepted
      <4>2. \E e \in log'[p.app] : e[1] = c
        BY <4>1
      <4>3. p.idem => ~ \E e \in log[p.app] : e[1] = c
        BY <4>1 DEF PriorEntries
      <4>4. p.idem => applied[c] = 0
        BY <1>0, <2>4, <4>1, <4>3 DEF OnceAt
      <4> HIDE DEF p
      <4>5. bound'[c] = p /\ p = bound[c]
        BY <2>2 DEF p
      <4>6. applied'[c] = applied[c] + 1
        BY <1>0, <2>1, <2>4
      <4> QED
        BY <1>0, <2>4, <4>1, <4>2, <4>4, <4>5, <4>6 DEF OnceAt
    <3>2. CASE CommitBinding(c, p)
      <4>1. p.op = "binding_update" /\ revision[p.app] = p.rev /\ revision'[p.app] = p.rev + 1
        BY <2>1, <2>3, <3>2 DEF CommitBinding
      <4>2. applied[c] = 0
        BY <1>0, <2>1, <2>4, <4>1 DEF OnceAt
      <4>3. revision'[p.app] > p.rev /\ applied'[c] = 1
        BY <1>0, <2>1, <2>4, <4>1, <4>2
      <4> QED
        BY <2>2, <2>4, <4>1, <4>3 DEF OnceAt
    <3>3. CASE CommitRecipe(c, p)
      <4>1. p.op = "recipe_update" /\ task'[t].at = "applied"
        BY <2>2, <3>3 DEF CommitRecipe
      <4>2. applied[c] = 0
        BY <1>0, <2>1, <2>4, <4>1 DEF OnceAt
      <4>3. \A u \in Threads : Holds(u, c)' => u = t
        BY <2>1, <2>2 DEF Others, IInv, ClaimIsExclusive, Holds
      <4>4. Answered(t)' /\ status'[c] = "executing" /\ applied'[c] = 1
        BY <1>0, <2>1, <2>2, <2>4, <4>1, <4>2 DEF Answered
      <4> QED
        BY <2>2, <2>4, <4>1, <4>3, <4>4 DEF OnceAt
    <3> QED
      BY <2>2, <3>1, <3>2, <3>3
  <2>5. CASE k # c /\ applied[k] > 0
    <3>1. applied'[k] = applied[k] /\ bound'[k] = bound[k] /\ status'[k] = status[k]
          /\ bound[k].app \in Apps /\ bound[k].rev \in Nat
      BY <1>0, <2>1, <2>2, <2>5, ConstantAssumption DEF PreviewType
    <3>2. \A a \in Apps : log[a] \subseteq log'[a] /\ revision'[a] >= revision[a]
      <4>1. CASE CommitStage(c, p)
        BY <2>1, <2>3, <4>1 DEF CommitStage
      <4>2. CASE CommitBinding(c, p)
        BY <2>1, <2>3, <4>2 DEF CommitBinding
      <4>3. CASE CommitRecipe(c, p)
        BY <2>3, <4>3 DEF CommitRecipe
      <4> QED
        BY <2>2, <4>1, <4>2, <4>3
    <3>3. revision[bound[k].app] > bound[k].rev => revision'[bound[k].app] > bound[k].rev
      <4>1. revision'[bound[k].app] \in Nat
        BY <3>1, NextIInv DEF IInv, TypeOK
      <4> QED
        BY <2>3, <3>1, <3>2, <4>1
    <3>4. RecipeClosed(k) => RecipeClosed(k)'
      BY <2>1, <2>2, <2>5, <3>1 DEF RecipeClosed, Others, Holds, Answered
    <3> QED
      BY <1>0, <2>5, <3>1, <3>2, <3>3, <3>4 DEF OnceAt, RecipeClosed
  <2>6. CASE k # c /\ applied[k] = 0
    BY <1>0, <1>1, <2>1, <2>6
  <2> QED
    BY <1>0, <2>4, <2>5, <2>6
<1>6. ASSUME NEW t \in Threads, CommitStep(t)  PROVE OnceAt(k)'
  BY <1>5, <1>6, CommitsCount
<1> QED
  BY <1>3, <1>4, <1>6, StepKinds

-----------------------------------------------------------------------------
(* The theorems.                                                           *)

Effects == RequestInv /\ EffectInv /\ OnceInv

\* What the requests, the rows and the application data say about effects holds
\* in every reachable state.
THEOREM EffectsInvariant == Spec => []Effects
<1>1. Init => Effects
  <2> SUFFICES ASSUME Init  PROVE Effects
    OBVIOUS
  <2>1. \A t \in Threads : task[t].at = "idle"
    BY DEF Init, Idle
  <2>2. \A k \in Keys : status[k] = "none" /\ applied[k] = 0
    BY DEF Init
  <2>3. audits = {} /\ approvedBy = {} /\ (\A a \in Apps : log[a] = {} /\ boundBy[a] = NoKey)
    BY DEF Init
  <2>4. RequestInv
    BY <2>1 DEF RequestInv, RequestAt, Admitted, Answered, Holds
  <2>5. EffectInv
    BY <2>2, <2>3 DEF EffectInv, TokenTruthful, AppTruthful
  <2>6. OnceInv
    BY <2>2 DEF OnceInv, OnceAt
  <2> QED
    BY <2>4, <2>5, <2>6 DEF Effects
<1>2. IInv /\ Effects /\ [Next]_vars => Effects'
  <2>1. CASE UNCHANGED vars
    BY <2>1 DEF vars, rows, business, Effects, RequestInv, RequestAt, EffectInv, TokenTruthful,
       AppTruthful, OnceInv, OnceAt, Admitted, Answered, Holds, Gated
  <2>2. IInv /\ Effects /\ Next => Effects'
    BY NextRequestInv, NextEffectInv, NextOnceInv DEF Effects
  <2> QED
    BY <2>1, <2>2
<1> QED
  BY <1>1, <1>2, InvariantHolds, PTL DEF Spec

\* An approved write takes effect at most once, however many processes execute
\* its token, whichever answers are lost, and whatever is written in between.
THEOREM WritesHappenOnce == Spec => []AppliedAtMostOnce
<1>1. Effects => AppliedAtMostOnce
  BY DEF Effects, OnceInv, OnceAt, AppliedAtMostOnce
<1> QED
  BY <1>1, EffectsInvariant, PTL

\* Nothing takes effect without the operator's approval and the gates, and the
\* consumed tokens and the successful audits are truthful.
THEOREM OnlyApprovedWrites == Spec => []WritesAreApproved
<1>1. IInv /\ Effects => WritesAreApproved
  BY DEF IInv, Effects, EffectInv, TokenTruthful, Gated, ApprovedInv, WritesAreApproved
<1> QED
  BY <1>1, InvariantHolds, EffectsInvariant, PTL

\* A key keeps the preview it was first bound to.
THEOREM BindingsAreImmutable == Spec => BindingIsImmutable
<1>1. IInv /\ Effects /\ [Next]_vars =>
         [\A k \in Keys : status[k] # "none" =>
             status'[k] # "none" /\ bound'[k] = bound[k]]_vars
  BY StepIsMonotone DEF Monotone, Effects
<1> QED
  BY <1>1, InvariantHolds, EffectsInvariant, PTL DEF Spec, BindingIsImmutable

\* A claim without a live holder is moved by nobody, and only a live holder of a
\* claim has an effect.
THEOREM OrphanedClaimsBlock == Spec => OrphanedClaimBlocks
<1> DEFINE Blocks(k) ==
              LET owned == \E t \in Threads : Holds(t, k)
              IN  /\ status[k] = "executing" /\ ~owned => status'[k] = "executing"
                  /\ applied'[k] # applied[k] => status[k] = "executing" /\ owned
<1>1. ASSUME IInv, Effects, Next, NEW k \in Keys  PROVE Blocks(k)
  <2>0. status \in [Keys -> Statuses]
    BY <1>1 DEF IInv, TypeOK
  <2>1. CASE UNCHANGED <<status, applied>>
    BY <2>1
  <2>2. ASSUME NEW t \in Threads, InsertStep(t)  PROVE Blocks(k)
    BY <1>1, <2>0, <2>2, InsertsAreNew DEF InsertStep, rows, business
  <2>3. ASSUME NEW t \in Threads, WriteStep(t)  PROVE Blocks(k)
    <3>1. WriteMove(t) /\ task[t].key \in Keys /\ UNCHANGED applied
      BY <1>1, <2>3, WritesAreMoves DEF WriteStep, business
    <3> QED
      BY <2>0, <3>1 DEF WriteMove
  <2>4. ASSUME NEW t \in Threads, CommitStep(t)  PROVE Blocks(k)
    <3>1. UNCHANGED status
      BY <2>4 DEF CommitStep, rows
    <3> QED
      BY <1>1, <2>4, <3>1, CommitsCount
  <2> QED
    BY <1>1, <2>1, <2>2, <2>3, <2>4, StepKinds DEF CalmStep, ReadStep, Effects, rows, business
<1>2. IInv /\ Effects /\ [Next]_vars => [\A k \in Keys : Blocks(k)]_vars
  BY <1>1
<1> QED
  BY <1>2, InvariantHolds, EffectsInvariant, PTL DEF Spec, OrphanedClaimBlocks

\* Approvals and evidence only move an application forward.
THEOREM StagesNeverRegress == Spec => StageNeverRegresses
<1>1. ASSUME IInv, Effects, Next, NEW a \in Apps, stage'[a] # stage[a]
      PROVE  ForwardMove(stage[a], stage'[a]) \/ ManualEdit(a, stage'[a])
  <2>0. stage \in [Apps -> Stages]
    BY <1>1 DEF IInv, TypeOK
  <2>1. ASSUME NEW t \in Threads, DispatchCommits(t) \/ DispatchLosesAnswer(t)
        PROVE  ForwardMove(stage[a], stage'[a])
    <3>1. PICK k \in {task[t].key} :
             CommitStage(k, bound[k]) \/ CommitBinding(k, bound[k]) \/ CommitRecipe(k, bound[k])
      BY <2>1 DEF DispatchCommits, DispatchLosesAnswer
    <3>2. CommitStage(k, bound[k])
      BY <1>1, <3>1 DEF CommitBinding, CommitRecipe
    <3> QED
      BY <1>1, <2>0, <3>2 DEF CommitStage, StageWriteAccepted
  <2>2. ASSUME NEW b \in Apps, NEW s \in EditStages, ManualEdit(b, s) \/ EvidenceWrite(b, s)
        PROVE  ForwardMove(stage[a], stage'[a]) \/ ManualEdit(a, stage'[a])
    <3>1. stage' = [stage EXCEPT ![b] = s]
      BY <2>2 DEF ManualEdit, EvidenceWrite
    <3>2. b = a /\ stage'[a] = s
      BY <1>1, <2>0, <3>1
    <3> QED
      BY <2>2, <3>2 DEF EvidenceWrite
  <2>3. ASSUME NEW t \in Threads, Request(t)  PROVE UNCHANGED stage
    BY <2>3 DEF Request, IssueCheck, OperatorDecides, ConsumeBrowserAction, ExecuteRequest, Read,
       business
  <2>4. ASSUME NEW t \in Threads, Progress(t), ~DispatchCommits(t), ~DispatchLosesAnswer(t)
        PROVE  UNCHANGED stage
    BY <2>4 DEF Progress, IssueCreate, CompareAndSet, Begin, DispatchReplays, DispatchRaises,
       Complete, ReleaseClaim, StoreRecord, SinkRaises, RegistryRaises, Read, business
  <2>5. ASSUME TimePasses \/ \E p \in Procs : Crash(p)  PROVE UNCHANGED stage
    BY <2>5 DEF TimePasses, Crash, business
  <2> QED
    BY <1>1, <2>1, <2>2, <2>3, <2>4, <2>5 DEF Next, Environment
<1>2. IInv /\ Effects /\ [Next]_vars =>
         [\A a \in Apps : stage'[a] # stage[a] =>
             ForwardMove(stage[a], stage'[a]) \/ ManualEdit(a, stage'[a])]_vars
  BY <1>1
<1> QED
  BY <1>2, InvariantHolds, EffectsInvariant, PTL DEF Spec, StageNeverRegresses

-----------------------------------------------------------------------------
(* The approval centre implements ApprovalLifecycle.                       *)

Owned == {k \in Keys : \E t \in Threads : Holds(t, k)}
Effective == {k \in Keys : applied[k] > 0}

\* A calm step only loses owners: requests end, or their process dies.
LEMMA CalmRefines ==
    ASSUME IInv, CalmStep
    PROVE  Lifecycle!OwnersVanish
<1>1. \A u \in Threads, k \in Keys : Holds(u, k)' => Holds(u, k)
  BY DEF CalmStep, CalmAt, Holds
<1>2. Owned' \in SUBSET Owned
  BY <1>1 DEF Owned
<1>3. UNCHANGED <<status, Effective, approvedBy>>
  BY DEF CalmStep, Effective, rows
<1> QED
  BY <1>2, <1>3 DEF Lifecycle!OwnersVanish, Owned, Effective

\* An insert issues a token, or is nothing.
LEMMA InsertRefines ==
    ASSUME IInv, NEW t \in Threads, InsertStep(t)
    PROVE  (\E k \in Keys : Lifecycle!Issue(k)) \/ UNCHANGED <<status, Owned, Effective, approvedBy>>
<1>1. \A u \in Threads, k \in Keys : Holds(u, k)' <=> Holds(u, k)
  BY DEF InsertStep, Others, Holds
<1>2. UNCHANGED <<Owned, Effective, approvedBy>>
  BY <1>1 DEF Owned, Effective, InsertStep, business
<1> QED
  BY <1>2, InsertsAreNew
  DEF Lifecycle!Issue, Lifecycle!Move, Owned, Effective, rows

\* A read decides, and is nothing yet.
LEMMA ReadRefines ==
    ASSUME IInv, NEW t \in Threads, ReadStep(t)
    PROVE  UNCHANGED <<status, Owned, Effective, approvedBy>>
<1>1. \A u \in Threads, k \in Keys : Holds(u, k)' <=> Holds(u, k)
  BY DEF ReadStep, Others, Holds
<1> QED
  BY <1>1 DEF Owned, Effective, ReadStep, rows, business

\* A write is the move of the token it amounts to.
LEMMA WriteRefines ==
    ASSUME IInv, RequestInv, NEW t \in Threads, WriteStep(t)
    PROVE  \/ \E k \in Keys : \/ Lifecycle!Approve(k) \/ Lifecycle!Reject(k) \/ Lifecycle!Lapse(k)
                              \/ Lifecycle!ConsumeAction(k) \/ Lifecycle!Claim(k)
                              \/ Lifecycle!GiveBack(k) \/ Lifecycle!Finish(k)
           \/ UNCHANGED <<status, Owned, Effective, approvedBy>>
<1> SUFFICES ASSUME NEW k \in Keys, k = task[t].key
             PROVE  \/ Lifecycle!Approve(k) \/ Lifecycle!Reject(k) \/ Lifecycle!Lapse(k)
                    \/ Lifecycle!ConsumeAction(k) \/ Lifecycle!Claim(k)
                    \/ Lifecycle!GiveBack(k) \/ Lifecycle!Finish(k)
                    \/ UNCHANGED <<status, Owned, Effective, approvedBy>>
  BY WritesAreMoves
<1> DEFINE To(st) == status' = [status EXCEPT ![k] = st]
           Decides == ~Holds(t, k) /\ task'[t].at \in {"idle", "audit_fail"}
<1>1. /\ Effective' = Effective /\ \A u \in Threads \ {t} : task'[u] = task[u]
      /\ task'[t].at \in {"idle", "claimed", "audit_ok", "audit_fail"}
      /\ task'[t].at # "idle" => task'[t].key = k
      /\ task[t].at = "cas"
  BY DEF WriteStep, Effective, Others, business
<1>2. /\ \A u \in Threads \ {t}, j \in Keys : Holds(u, j)' <=> Holds(u, j)
      /\ \A j \in Keys : Holds(t, j)' <=> (j = k /\ task'[t].at = "claimed")
      /\ \A j \in Keys : Holds(t, j) => j = k
  BY <1>1 DEF Holds
<1>3. ASSUME ~Holds(t, k), task'[t].at # "claimed"  PROVE Owned' = Owned
  BY <1>2, <1>3 DEF Owned
<1>4. ASSUME task'[t].at = "claimed"  PROVE Owned' = Owned \cup {k}
  BY <1>2, <1>4 DEF Owned
<1>5. ASSUME Holds(t, k), task'[t].at # "claimed"  PROVE k \in Owned /\ Owned' = Owned \ {k}
  <2>1. \A u \in Threads : Holds(u, k) => u = t
    BY <1>5 DEF IInv, ClaimIsExclusive
  <2> QED
    BY <1>2, <1>5, <2>1 DEF Owned
<1>6. CASE Decides /\ UNCHANGED <<status, approvedBy>>
  BY <1>1, <1>3, <1>6
<1>7. CASE /\ Decides /\ UNCHANGED approvedBy
           /\ status[k] \in {"pending", "approved", "rejected"} /\ To("expired")
  BY <1>1, <1>3, <1>7 DEF Lifecycle!Lapse, Lifecycle!Move, Owned, Effective
<1>8. CASE /\ Decides /\ UNCHANGED approvedBy
           /\ status[k] \in {"pending", "approved"} /\ To("rejected")
  BY <1>1, <1>3, <1>8 DEF Lifecycle!Reject, Lifecycle!Move, Owned, Effective
<1>9. CASE /\ Decides /\ approvedBy' = approvedBy \cup {k}
           /\ status[k] \in {"pending", "approved"} /\ To("approved")
  BY <1>1, <1>3, <1>9 DEF Lifecycle!Approve, Lifecycle!Move, Owned, Effective
<1>10. CASE /\ Decides /\ UNCHANGED approvedBy
            /\ status[k] = "approved" /\ To("consumed")
  BY <1>1, <1>3, <1>10 DEF Lifecycle!ConsumeAction, Lifecycle!Move, Owned, Effective
<1>11. CASE /\ ~Holds(t, k) /\ UNCHANGED approvedBy
            /\ status[k] = "approved" /\ To("executing")
  <2>1. Owned' \in {Owned, Owned \cup {k}}
    BY <1>3, <1>4, <1>11
  <2> QED
    BY <1>1, <1>11, <2>1 DEF Lifecycle!Claim, Lifecycle!Move, Owned, Effective
<1>12. CASE /\ Holds(t, k) /\ UNCHANGED approvedBy /\ task'[t].at # "claimed"
            /\ Answered(t) /\ status[k] = "executing" /\ To("consumed")
  <2>1. k \in Effective
    BY <1>12 DEF RequestInv, RequestAt, Effective
  <2> QED
    BY <1>1, <1>5, <1>12, <2>1 DEF Lifecycle!Finish, Lifecycle!Move, Owned, Effective
<1>13. CASE /\ Holds(t, k) /\ UNCHANGED approvedBy /\ task'[t].at # "claimed"
            /\ status[k] = "executing" /\ To("approved")
  BY <1>1, <1>5, <1>13 DEF Lifecycle!GiveBack, Lifecycle!Move, Owned, Effective
<1>14. WriteMove(t)
  BY WritesAreMoves
<1> QED
  BY <1>6, <1>7, <1>8, <1>9, <1>10, <1>11, <1>12, <1>13, <1>14 DEF WriteMove

\* A commit is the effect of an owned token.
LEMMA CommitRefines ==
    ASSUME IInv, NEW t \in Threads, CommitStep(t)
    PROVE  \E k \in Keys : Lifecycle!Apply(k)
<1> SUFFICES ASSUME NEW k \in Keys, k = task[t].key  PROVE Lifecycle!Apply(k)
  BY CommitsCount
<1>1. /\ Holds(t, k) /\ applied \in [Keys -> Nat]
      /\ applied' = [applied EXCEPT ![k] = applied[k] + 1]
  BY CommitsCount
<1>2. Effective' = Effective \cup {k}
  BY <1>1 DEF Effective
<1>3. \A u \in Threads, j \in Keys : Holds(u, j)' <=> Holds(u, j)
  BY DEF CommitStep, Others, Holds
<1>4. k \in Owned /\ Owned' = Owned
  BY <1>1, <1>3 DEF Owned
<1>5. UNCHANGED <<status, approvedBy>>
  BY DEF CommitStep, rows
<1> QED
  BY <1>2, <1>4, <1>5 DEF Lifecycle!Apply, Owned, Effective

\* The approval centre, with its processes, locks, crashes and lost answers, is an
\* implementation of the life cycle of a token.
THEOREM LifecycleIsImplemented == Spec => ImplementsLifecycle
<1>1. Init => Lifecycle!LifecycleInit
  <2> SUFFICES ASSUME Init  PROVE Lifecycle!LifecycleInit
    OBVIOUS
  <2>1. Owned = {}
    BY DEF Init, Idle, Owned, Holds
  <2>2. Effective = {}
    BY DEF Init, Effective
  <2>3. approvedBy = {} /\ status = [k \in Keys |-> "none"]
    BY DEF Init
  <2> QED
    BY <2>1, <2>2, <2>3 DEF Lifecycle!LifecycleInit, Owned, Effective
<1>2. IInv /\ Effects /\ [Next]_vars => [Lifecycle!LifecycleNext]_(Lifecycle!lifecycleVars)
  <2> SUFFICES ASSUME IInv, Effects, [Next]_vars
               PROVE  Lifecycle!LifecycleNext \/ UNCHANGED <<status, Owned, Effective, approvedBy>>
    BY DEF Lifecycle!lifecycleVars, Owned, Effective
  <2>1. CASE UNCHANGED vars
    BY <2>1 DEF vars, rows, business, Owned, Effective, Holds
  <2>2. CASE Next
    BY <2>2, StepKinds, CalmRefines, InsertRefines, ReadRefines, WriteRefines, CommitRefines
    DEF Effects, Lifecycle!LifecycleNext
  <2> QED
    BY <2>1, <2>2
<1> QED
  BY <1>1, <1>2, InvariantHolds, EffectsInvariant, PTL
  DEF Spec, ImplementsLifecycle, Lifecycle!LifecycleSpec
=============================================================================
