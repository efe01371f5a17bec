----------------------------- MODULE BridgeStore -----------------------------
(***************************************************************************)
(* BrowserBridgeStore: the durable lifecycle of browser operations, their  *)
(* append-only event log and the outbox of commands for the device, as     *)
(* written by the API process (messages of the device) and by the MCP      *)
(* processes (the workflows that created the operation, and cancellation). *)
(*                                                                         *)
(* The database is PostgreSQL at READ COMMITTED.  A store call is one      *)
(* transaction, in three steps: it loads the operation row WITHOUT locking *)
(* it, numbers its event from the log it can see, then inserts the event   *)
(* and updates the row.  Unique keys make the insert fail when the number  *)
(* or the event id was taken meanwhile; nothing protects the row.          *)
(***************************************************************************)
EXTENDS Naturals, Sequences, FiniteSets, SequencesExt

CONSTANTS
    Ops,            \* operation ids, one per idempotency key
    Kinds,          \* the operation names asked for, of "review", "observe", "capture"
    api,            \* the API process, which serves the device
    Callers,        \* MCP processes
    Progress,       \* statuses the device reports as progress
    MaxEvents       \* bound: events of an operation, by its name

\* OperationStatus.
Terminal == {"SUCCEEDED", "STATE_UNCLEAR", "FAILED", "CANCELLED"}
Open == {"CONNECTING", "DISPATCHED", "NAVIGATING", "WAITING_FOR_LOGIN",
         "EXTRACTING", "VALIDATING", "UPDATING"}

ASSUME StoreAssumption ==
    /\ IsFiniteSet(Ops)
    /\ Kinds \subseteq {"review", "observe", "capture"}
    /\ api \notin Callers
    /\ Progress \subseteq Open
    /\ MaxEvents \in [Kinds -> Nat]

Procs == Callers \cup {api}

VARIABLES
    kind,       \* the operation name of each, fixed by its request
    op,         \* browser_operations, "ABSENT" until created
    log,        \* browser_operation_events of each operation
    outbox,     \* browser_outbox of the device, in sequence order
    tx,         \* the open transaction of each process
    workflow    \* where the MCP workflow of each operation stands

vars == <<kind, op, log, outbox, tx, workflow>>

\* _ALLOWED_TRANSITIONS.
Transitions(s) ==
    LET Failing == {"STATE_UNCLEAR", "FAILED", "CANCELLED"}
        Reading == {"NAVIGATING", "WAITING_FOR_LOGIN", "EXTRACTING", "VALIDATING"} \cup Failing
    IN  CASE s \in Terminal -> {s}
          [] s = "UPDATING" -> {"UPDATING", "SUCCEEDED"} \cup Failing
          [] s = "VALIDATING" -> {"VALIDATING", "UPDATING", "SUCCEEDED"} \cup Failing
          [] s = "EXTRACTING" -> Reading \ {"NAVIGATING"}
          [] s \in {"NAVIGATING", "WAITING_FOR_LOGIN"} -> Reading
          [] s = "DISPATCHED" -> Reading \cup {"DISPATCHED"}
          [] OTHER -> Reading \cup {"CONNECTING", "DISPATCHED"}

\* Evidence that arrives after a failure reopens the operation.
AllowedFrom_Reopens(s) == IF s = "FAILED" THEN Transitions("EXTRACTING") ELSE Transitions(s)

AllowedFrom(s) == Transitions(s)

Row == [status : Open \cup Terminal \cup {"ABSENT"}, last : Nat]
EventIds == {"progress", "result", "updating", "verified", "cancel", "timeout", "recovery"}
EventTypes == {"progress", "observation", "validation", "terminal", "cancel", "recovery"}
Event == [seq : Nat \ {0}, id : EventIds, status : Open \cup Terminal, type : EventTypes]
Item == [op : Ops, type : {"dispatch", "cancel"}, acked : {"no", "device", "recovery"}]

Request == [call : {"create", "append_event", "terminal_result", "cancel", "ack"},
            op : Ops, id : EventIds, to : Open \cup Terminal, type : EventTypes,
            item : Nat]
NoTx == [step |-> "none"]
Transaction == {NoTx} \cup [step : {"loaded"}, request : Request, seen : Row]
                      \cup [step : {"numbered"}, request : Request, seen : Row, seq : Nat \ {0}]

Init == /\ kind \in [Ops -> Kinds]
        /\ op = [o \in Ops |-> [status |-> "ABSENT", last |-> 0]]
        /\ log = [o \in Ops |-> {}]
        /\ outbox = <<>>
        /\ tx = [p \in Procs |-> NoTx]
        /\ workflow = [o \in Ops |-> "none"]

-----------------------------------------------------------------------------
(* The first step of every call: load the row and make the checks that     *)
(* look only at it.                                                        *)

\* terminal_result and cancel refuse, or replay, a row already terminal.
RefusedAtLoad(call, row) == call \in {"terminal_result", "cancel"} /\ row.status \in Terminal

Load(p, request) ==
    /\ tx[p] = NoTx
    /\ request.call # "create" => op[request.op].status # "ABSENT"
    /\ tx' = [tx EXCEPT ![p] =
                 IF RefusedAtLoad(request.call, op[request.op]) THEN NoTx
                 ELSE [step |-> "loaded", request |-> request, seen |-> op[request.op]]]
    /\ UNCHANGED <<op, log, outbox, workflow>>

Call(call, o, id, to, type) ==
    [call |-> call, op |-> o, id |-> id, to |-> to, type |-> type, item |-> 0]

\* The workflow that asks for an operation creates the row and its dispatch.
\* An existing row is returned as it is.
BeginCreate(p, o) ==
    /\ p \in Callers
    /\ workflow[o] = "none"
    /\ Load(p, Call("create", o, "progress", "CONNECTING", "progress"))

\* What a browser read that SUCCEEDED means: evidence to validate, except for
\* the capture of an OC snapshot.
ResultCall_TrustsBrowser(o, status) == Call("terminal_result", o, "result", status, "terminal")

ResultCall(o, status) ==
    IF status = "SUCCEEDED" /\ kind[o] # "capture"
      THEN Call("append_event", o, "result", "VALIDATING", "observation")
      ELSE Call("terminal_result", o, "result", status, "terminal")

\* Messages of the device.  Progress carries a fresh event id, a result the
\* id under which the device remembers it and sends it again.  A FAILED result
\* stands for a STATE_UNCLEAR one too: both are terminal and nothing tells
\* them apart.
DeviceProgress(o, status) ==
    Load(api, Call("append_event", o, "progress", status, "progress"))

DeviceResult(o, status) == Load(api, ResultCall(o, status))

DeviceAck(i) ==
    /\ i \in 1..Len(outbox)
    /\ Load(api, [Call("ack", outbox[i].op, "progress", "DISPATCHED", "progress") EXCEPT !.item = i])

\* A cancel message without an outbox number asks for the cancellation itself;
\* one with a number is the acknowledgement of a cancel command (DeviceAck).
DeviceCancel(o) == Load(api, Call("cancel", o, "cancel", "CANCELLED", "cancel"))

\* The workflow polls until it sees the observation, marks the operation
\* UPDATING, verifies and writes the application, and closes the operation.
HasObservation(o) == \E e \in log[o] : e.type = "observation"

BeginUpdate(p, o) ==
    /\ p \in Callers
    /\ kind[o] = "review" /\ workflow[o] = "polling"
    /\ op[o].status = "VALIDATING" /\ HasObservation(o)
    /\ Load(p, Call("append_event", o, "updating", "UPDATING", "validation"))

BeginVerified(p, o, status) ==
    /\ p \in Callers
    /\ \/ kind[o] = "review" /\ workflow[o] = "updating"
       \/ /\ kind[o] = "observe" /\ workflow[o] = "polling" /\ status = "SUCCEEDED"
          /\ op[o].status = "VALIDATING" /\ HasObservation(o)
    /\ Load(p, Call("terminal_result", o, "verified", status, "terminal"))

\* A timed out or interrupted workflow, or the cancel tool.
BeginCancel(p, o, id) ==
    /\ p \in Callers
    /\ Load(p, Call("cancel", o, id, "CANCELLED", "cancel"))

-----------------------------------------------------------------------------
(* Second step: an event that exists is replayed; otherwise the transition *)
(* is checked against the row loaded before and the event gets a number    *)
(* from the log as it is now.                                              *)

LastSequence(o) == Max({e.seq : e \in log[o]} \cup {0})

Replayed(request) ==
    request.id # "progress" /\ \E e \in log[request.op] : e.id = request.id

\* append_event accepts the replay; terminal_result and cancel stamp their event
\* with the time of the call, so it differs from the stored one and they raise.
ReplayAccepted(request) == Replayed(request) /\ request.call = "append_event"

NextNumber(o, seen) == Max({seen.last, LastSequence(o)}) + 1

\* What a workflow does next when its call returned.
WorkflowAfter(request) ==
    IF request.call = "append_event" /\ request.id = "updating"
      THEN [workflow EXCEPT ![request.op] = "updating"]
    ELSE IF request.call = "terminal_result" /\ request.id = "verified"
      THEN [workflow EXCEPT ![request.op] = "finished"]
    ELSE workflow

Number(p) ==
    /\ tx[p].step = "loaded"
    /\ LET t == tx[p]
           r == t.request
           seq == NextNumber(r.op, t.seen)
       IN  /\ r.call \notin {"create", "ack"}
           /\ Replayed(r) \/ seq <= MaxEvents[kind[r.op]]
           /\ IF Replayed(r) \/ r.to \notin AllowedFrom(t.seen.status)
                THEN /\ tx' = [tx EXCEPT ![p] = NoTx]
                     /\ workflow' = IF ReplayAccepted(r) THEN WorkflowAfter(r) ELSE workflow
                ELSE /\ tx' = [tx EXCEPT ![p] = [step |-> "numbered", request |-> r,
                                                  seen |-> t.seen, seq |-> seq]]
                     /\ UNCHANGED workflow
    /\ UNCHANGED <<op, log, outbox>>

-----------------------------------------------------------------------------
(* Third step: insert, update and commit.                                  *)

\* The unique keys (operation_id, sequence) and event_id.
Taken_NoUniqueKey(request, seq) == FALSE

Taken(request, seq) ==
    \E e \in log[request.op] : e.seq = seq \/ (request.id # "progress" /\ e.id = request.id)

\* The UPDATE carries only the columns the transaction changed: a status equal
\* to the one it loaded is not written.
StatusWritten(o, seen, to) == IF to = seen.status THEN op[o].status ELSE to

Command(o, type) == [op |-> o, type |-> type, acked |-> "no"]

Write(p) ==
    /\ tx[p].step = "numbered"
    /\ LET t == tx[p]
           r == t.request
           o == r.op
       IN  IF Taken(r, t.seq)
             THEN UNCHANGED <<op, log, outbox, workflow>>
             ELSE /\ log' = [log EXCEPT ![o] = @ \cup
                        {[seq |-> t.seq, id |-> r.id, status |-> r.to, type |-> r.type]}]
                  /\ op' = [op EXCEPT ![o] =
                        [status |-> StatusWritten(o, t.seen, r.to), last |-> t.seq]]
                  /\ outbox' = IF r.call = "cancel" THEN Append(outbox, Command(o, "cancel"))
                               ELSE outbox
                  /\ workflow' = WorkflowAfter(r)
    /\ tx' = [tx EXCEPT ![p] = NoTx]

\* create: the unique idempotency key lets one transaction insert; any other
\* returns the row, or fails and is not retried.
CommitCreate(p) ==
    /\ tx[p].step = "loaded" /\ tx[p].request.call = "create"
    /\ LET o == tx[p].request.op IN
         IF op[o].status = "ABSENT"
           THEN /\ op' = [op EXCEPT ![o] = [status |-> "CONNECTING", last |-> 0]]
                /\ outbox' = Append(outbox, Command(o, "dispatch"))
                /\ workflow' = [workflow EXCEPT ![o] = "polling"]
           ELSE UNCHANGED <<op, outbox, workflow>>
    /\ tx' = [tx EXCEPT ![p] = NoTx]
    /\ UNCHANGED log

\* ack: the item is locked, the operation row is not.
CommitAck(p) ==
    /\ tx[p].step = "loaded" /\ tx[p].request.call = "ack"
    /\ LET i == tx[p].request.item
           o == outbox[i].op
       IN  IF outbox[i].acked # "no"
             THEN UNCHANGED <<op, outbox>>
             ELSE /\ outbox' = [outbox EXCEPT ![i].acked = "device"]
                  /\ op' = IF outbox[i].type = "dispatch" /\ tx[p].seen.status = "CONNECTING"
                             THEN [op EXCEPT ![o].status = "DISPATCHED"]
                             ELSE op
    /\ tx' = [tx EXCEPT ![p] = NoTx]
    /\ UNCHANGED <<log, workflow>>

\* A transaction that fails (connection lost, deadlock detected) leaves no trace.
Abort(p) ==
    /\ tx[p] # NoTx
    /\ tx' = [tx EXCEPT ![p] = NoTx]
    /\ UNCHANGED <<op, log, outbox, workflow>>

-----------------------------------------------------------------------------
(* Restart of the desktop: every process is gone when                      *)
(* recover_interrupted_operations runs.                                    *)

Interrupted == {o \in Ops : kind[o] # "capture" /\ op[o].status \in Open}

\* Recovery closes the rows and forgets to tell the device.
CancelCommands_None(ops) == <<>>

CancelCommands(ops) ==
    [i \in 1..Cardinality(ops) |-> Command(SetToSeq(ops)[i], "cancel")]

\* Recovery used as a sweep beside a live server.
OpenTransactions_Live == tx

OpenTransactions == [p \in Procs |-> NoTx]

RetiredItem(item) ==
    IF item.op \in Interrupted /\ item.type = "dispatch" /\ item.acked = "no"
      THEN [item EXCEPT !.acked = "recovery"] ELSE item

Restart ==
    /\ \A o \in Interrupted : LastSequence(o) < MaxEvents[kind[o]]
    /\ op' = [o \in Ops |-> IF o \in Interrupted
                              THEN [status |-> "CANCELLED", last |-> LastSequence(o) + 1]
                              ELSE op[o]]
    /\ log' = [o \in Ops |-> IF o \in Interrupted
                 THEN log[o] \cup {[seq |-> LastSequence(o) + 1, id |-> "recovery",
                                    status |-> "CANCELLED", type |-> "recovery"]}
                 ELSE log[o]]
    /\ outbox' = [i \in DOMAIN outbox |-> RetiredItem(outbox[i])] \o CancelCommands(Interrupted)
    /\ tx' = OpenTransactions
    /\ workflow' = [o \in Ops |-> IF op[o].status = "ABSENT" THEN "none" ELSE "finished"]

-----------------------------------------------------------------------------
Next == \/ \E p \in Procs : Number(p) \/ Write(p) \/ CommitCreate(p) \/ CommitAck(p) \/ Abort(p)
        \/ \E p \in Callers, o \in Ops :
              \/ BeginCreate(p, o) \/ BeginUpdate(p, o)
              \/ \E s \in {"SUCCEEDED", "STATE_UNCLEAR", "FAILED"} : BeginVerified(p, o, s)
              \/ \E id \in {"cancel", "timeout"} : BeginCancel(p, o, id)
        \/ \E o \in Ops :
              \/ \E s \in Progress : DeviceProgress(o, s)
              \/ \E s \in {"SUCCEEDED", "FAILED"} : DeviceResult(o, s)
              \/ DeviceCancel(o)
        \/ \E i \in 1..Len(outbox) : DeviceAck(i)
        \/ Restart

Spec == Init /\ [][Next /\ UNCHANGED kind]_vars

-----------------------------------------------------------------------------
(* Properties.                                                             *)

\* Every variable keeps its type.
TypeOK ==
    /\ kind \in [Ops -> Kinds]
    /\ op \in [Ops -> Row]
    /\ log \in [Ops -> SUBSET Event]
    /\ outbox \in Seq(Item)
    /\ tx \in [Procs -> Transaction]
    /\ workflow \in [Ops -> {"none", "polling", "updating", "finished"}]

\* The log of an operation is a numbered history: no two events share a number
\* or (but for progress) an id, and the row points at the last one, although
\* the transactions that number events do not lock the row.
LogIsNumbered ==
    \A o \in Ops :
        /\ \A e, f \in log[o] : e.seq = f.seq \/ (e.id = f.id /\ e.id # "progress") => e = f
        /\ op[o].last = LastSequence(o)

\* A review or an observation succeeds only on evidence: the log holds an
\* observation of the browser before the success, and the success was written
\* by the workflow that checked it, never by the browser's own word.
SuccessIsVerified ==
    \A o \in Ops : kind[o] # "capture" =>
        \A e \in log[o] : e.status = "SUCCEEDED" =>
            e.id = "verified" /\ \E f \in log[o] : f.type = "observation" /\ f.seq < e.seq

\* Whoever cancels, the device is told: a cancelled operation has a cancel
\* command in the outbox behind its dispatch.
CancelIsQueued ==
    \A o \in Ops : (\E e \in log[o] : e.status = "CANCELLED") =>
        \E i, j \in 1..Len(outbox) :
            /\ i < j
            /\ outbox[i].op = o /\ outbox[i].type = "dispatch"
            /\ outbox[j].op = o /\ outbox[j].type = "cancel"

\* A dispatch that recovery retired is never delivered, so its operation must
\* stay cancelled, whatever the device or a late workflow writes afterwards.
RetiredStaysCancelled ==
    \A i \in 1..Len(outbox) : outbox[i].acked = "recovery" => op[outbox[i].op].status = "CANCELLED"

\* A closed operation changes only through a transaction that loaded the row
\* while it was open: nothing that loads a closed row (a late result, progress,
\* an acknowledgement, a second cancellation, recovery) reopens or renames it.
OnlyStaleWritesReopen ==
    [][\A o \in Ops :
          op[o].status \in Terminal /\ op'[o].status # op[o].status =>
             \E p \in Procs : /\ tx[p] # NoTx /\ tx'[p] = NoTx
                              /\ tx[p].request.op = o
                              /\ tx[p].seen.status \in Open]_vars

\* A terminal status is final: later results, progress, acknowledgements and
\* cancellations leave it alone.
TerminalIsFinal ==
    [][\A o \in Ops : op[o].status \in Terminal => op'[o].status = op[o].status]_vars
=============================================================================
