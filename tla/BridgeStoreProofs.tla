--------------------------- MODULE BridgeStoreProofs ---------------------------
(***************************************************************************)
(* The durable life of a browser operation, for any number of operations,  *)
(* processes and events: its log stays a numbered history, it succeeds     *)
(* only on evidence, its cancellation reaches the device's queue, and what *)
(* recovery closed stays closed, although no transaction locks its row.    *)
(***************************************************************************)
EXTENDS BridgeStore, FiniteSetTheorems, SequenceTheorems, TLAPS

-----------------------------------------------------------------------------
(* The inductive invariant.                                                *)

\* Recovery closed the operation.
Recovered(o) == \E e \in log[o] : e.id = "recovery"

Dispatched(o) == \E i \in 1..Len(outbox) : outbox[i].op = o /\ outbox[i].type = "dispatch"
CancelQueued(o) ==
    \E i, j \in 1..Len(outbox) : /\ i < j
                                 /\ outbox[i].op = o /\ outbox[i].type = "dispatch"
                                 /\ outbox[j].op = o /\ outbox[j].type = "cancel"

\* The numbers of a log are 1 up to the row's last one, without a gap: an insert
\* that finds its number free can only be the next one.
NumberedAt(o) ==
    /\ \A e, f \in log[o] : e.seq = f.seq \/ (e.id = f.id /\ e.id # "progress") => e = f
    /\ \A e \in log[o] : e.seq <= op[o].last
    /\ \A n \in 1..op[o].last : \E e \in log[o] : e.seq = n

\* A row exists once it is created, and its dispatch with it.
CreatedAt(o) ==
    /\ op[o].status = "ABSENT" => op[o].last = 0 /\ log[o] = {}
    /\ op[o].status # "ABSENT" => Dispatched(o)

\* Successes rest on an observation, and a workflow updates only on one.
EvidenceAt(o) ==
    /\ workflow[o] = "updating" => HasObservation(o)
    /\ kind[o] # "capture" =>
          \A e \in log[o] : e.status = "SUCCEEDED" =>
             e.id = "verified" /\ \E f \in log[o] : f.type = "observation" /\ f.seq < e.seq

CancelledAt(o) ==
    /\ (\E e \in log[o] : e.status = "CANCELLED") => CancelQueued(o)
    /\ Recovered(o) => op[o].status = "CANCELLED"

\* What recovery retired it closed; an operation in the outbox exists.
ItemAt(i) ==
    \A o \in {outbox[i].op} : /\ op[o].status # "ABSENT"
                              /\ outbox[i].acked = "recovery" => Recovered(o)

\* What an open transaction loaded may be old, but it was there: the row has only
\* moved on.  What recovery closed was loaded after that.
Loaded(r, seen) ==
    /\ r.call # "create" => seen.status # "ABSENT" /\ op[r.op].status # "ABSENT"
    /\ seen.last <= op[r.op].last
    /\ Recovered(r.op) => seen.status = "CANCELLED"

\* What a call may ask for.
Asked(r) ==
    /\ r.id # "recovery"
    /\ r.id = "updating" => HasObservation(r.op)
    /\ r.to = "SUCCEEDED" /\ kind[r.op] # "capture" => r.id = "verified" /\ HasObservation(r.op)
    /\ r.to = "CANCELLED" => r.call = "cancel"
    /\ r.call = "ack" => r.item \in 1..Len(outbox) /\ outbox[r.item].op = r.op

\* A numbered event follows from the row that was loaded, and its number is at
\* most the next free one.
Follows(r, seen, seq) ==
    /\ r.call \notin {"create", "ack"}
    /\ r.to \in AllowedFrom(seen.status)
    /\ seq <= op[r.op].last + 1

TxAt(p) ==
    /\ tx[p] # NoTx =>
          \A r \in {tx[p].request}, seen \in {tx[p].seen} : Loaded(r, seen) /\ Asked(r)
    /\ tx[p].step = "numbered" =>
          \A r \in {tx[p].request}, seen \in {tx[p].seen}, seq \in {tx[p].seq} : Follows(r, seen, seq)

RowAt(o) == NumberedAt(o) /\ CreatedAt(o) /\ EvidenceAt(o) /\ CancelledAt(o)

RowInv == \A o \in Ops : RowAt(o)
TxInv == \A p \in Procs : TxAt(p)
ItemInv == \A i \in 1..Len(outbox) : ItemAt(i)

IInv == TypeOK /\ RowInv /\ TxInv /\ ItemInv

-----------------------------------------------------------------------------
(* The operators of the model.                                             *)

\* A largest element of a set of numbers is its maximum.
LEMMA MaxIs ==
  ASSUME NEW S \in SUBSET Nat, NEW m \in S, \A x \in S : x <= m
  PROVE  Max(S) = m
<1>1. \A x \in S : (\A y \in S : x >= y) => x = m
  OBVIOUS
<1>2. \A y \in S : m >= y
  OBVIOUS
<1>3. \E x \in S : \A y \in S : x >= y
  BY <1>2
<1>4. Max(S) \in S /\ \A y \in S : Max(S) >= y
  BY <1>3 DEF Max
<1> QED  BY <1>1, <1>4

\* The cancel commands of a set of operations are a queue with one for each.
LEMMA CancelCommandsCover ==
  ASSUME NEW S \in SUBSET Ops
  PROVE  /\ CancelCommands(S) \in Seq(Item)
         /\ \A i \in 1..Len(CancelCommands(S)) : \E o \in S : CancelCommands(S)[i] = Command(o, "cancel")
         /\ \A o \in S : \E i \in 1..Len(CancelCommands(S)) : CancelCommands(S)[i] = Command(o, "cancel")
<1> DEFINE n == Cardinality(S)
           order == SetToSeq(S)
<1>1. IsFiniteSet(S)
  BY StoreAssumption, FS_Subset
<1>2. n \in Nat /\ ExistsBijection(1..n, S)
  BY <1>1, FS_CardinalityType
<1>3. \E f \in [1..n -> S] : IsInjective(f)
  BY <1>2 DEF ExistsBijection, Bijection, Injection
<1>4. order \in [1..n -> S] /\ IsInjective(order)
  BY <1>3 DEF SetToSeq
<1>5. order \in Injection(1..n, S)
  BY <1>4 DEF Injection
<1>6. Cardinality(1..n) = n
  BY <1>2, FS_Interval
<1>7. order \in Surjection(1..n, S)
  BY <1>1, <1>5, <1>6, FS_Injection
<1>8. \A o \in S : \E i \in 1..n : order[i] = o
  BY <1>7 DEF Surjection
<1>9. CancelCommands(S) = [i \in 1..n |-> Command(order[i], "cancel")]
  BY DEF CancelCommands
<1> HIDE DEF n, order
<1>10. \A o \in S : Command(o, "cancel") \in Item
  BY DEF Command, Item
<1>11. CancelCommands(S) \in [1..n -> Item]
  BY <1>4, <1>9, <1>10
<1>12. CancelCommands(S) \in Seq(Item) /\ Len(CancelCommands(S)) = n
  BY <1>2, <1>11
<1>13. \A i \in 1..n : order[i] \in S /\ CancelCommands(S)[i] = Command(order[i], "cancel")
  BY <1>4, <1>9
<1>14. \A o \in S : \E i \in 1..n : CancelCommands(S)[i] = Command(o, "cancel")
  BY <1>8, <1>13
<1> QED  BY <1>12, <1>13, <1>14

\* The last number of the log is the one the row remembers.
LEMMA LastIsRows ==
  ASSUME TypeOK, NEW o \in Ops, NumberedAt(o)
  PROVE  LastSequence(o) = op[o].last /\ op[o].last \in Nat
<1> DEFINE S == {e.seq : e \in log[o]} \cup {0}
           m == op[o].last
<1>1. /\ m \in Nat /\ \A e \in log[o] : e.seq \in Nat
      /\ \A e \in log[o] : e.seq <= m
      /\ \A n \in 1..m : \E e \in log[o] : e.seq = n
  BY DEF TypeOK, Row, Event, NumberedAt
<1> HIDE DEF m
<1>2. S \in SUBSET Nat /\ \A x \in S : x <= m
  BY <1>1
<1>3. m \in S
  <2>1. CASE m = 0
    BY <2>1
  <2>2. CASE m # 0
    <3>1. m \in 1..m
      BY <1>1, <2>2
    <3> QED  BY <1>1, <3>1
  <2> QED  BY <2>1, <2>2
<1> HIDE DEF S
<1>4. Max(S) = m
  BY <1>2, <1>3, MaxIs
<1> QED  BY <1>1, <1>4 DEF LastSequence, S, m

\* A transaction numbers its event right behind the row it finds, however old
\* the row it loaded.
LEMMA NumberIsNext ==
  ASSUME TypeOK, NEW o \in Ops, NumberedAt(o), NEW seen \in Row, seen.last <= op[o].last
  PROVE  NextNumber(o, seen) = op[o].last + 1
<1>1. LastSequence(o) = op[o].last /\ op[o].last \in Nat /\ seen.last \in Nat
  BY LastIsRows DEF Row
<1> DEFINE S == {seen.last, LastSequence(o)}
<1>2. S \in SUBSET Nat /\ op[o].last \in S /\ \A x \in S : x <= op[o].last
  BY <1>1
<1> HIDE DEF S
<1>3. Max(S) = op[o].last
  BY <1>2, MaxIs
<1> QED  BY <1>3 DEF NextNumber, S

-----------------------------------------------------------------------------
(* The kinds of steps.                                                     *)

\* The fields of a row of the outbox.
LEMMA ItemsAreTyped ==
  ASSUME TypeOK, NEW i \in 1..Len(outbox)
  PROVE  /\ outbox[i] \in Item /\ outbox[i].op \in Ops
         /\ outbox[i].type \in {"dispatch", "cancel"} /\ outbox[i].acked \in {"no", "device", "recovery"}
<1>1. outbox \in Seq(Item)
  BY DEF TypeOK
<1>2. outbox[i] \in Item
  BY <1>1, ElementOfSeq
<1> QED  BY <1>2 DEF Item

\* The fields of an open transaction.
LEMMA OpenTransaction ==
  ASSUME TypeOK, NEW p \in Procs, tx[p] # NoTx
  PROVE  /\ tx[p].request \in Request /\ tx[p].seen \in Row
         /\ tx[p].step \in {"loaded", "numbered"}
         /\ tx[p].step = "numbered" => tx[p].seq \in Nat \ {0}
  BY DEF TypeOK, Transaction

\* A transaction with a step is open.
LEMMA StepIsOpen ==
  ASSUME NEW p \in Procs, tx[p].step \in {"loaded", "numbered"}
  PROVE  tx[p] # NoTx
  BY DEF NoTx

\* Every call that begins loads a request it may ask for.
Begins == \E p \in Procs, r \in Request : Load(p, r) /\ Asked(r)

\* A request built by Call is a request.
LEMMA CallIsRequest ==
  ASSUME NEW call \in {"create", "append_event", "terminal_result", "cancel", "ack"},
         NEW o \in Ops, NEW id \in EventIds, NEW to \in Open \cup Terminal, NEW type \in EventTypes
  PROVE  /\ Call(call, o, id, to, type) \in Request
         /\ Call(call, o, id, to, type).call = call /\ Call(call, o, id, to, type).op = o
         /\ Call(call, o, id, to, type).id = id /\ Call(call, o, id, to, type).to = to
  BY DEF Call, Request

\* A call that asks for neither success nor cancellation nor an update may be made.
LEMMA PlainCallIsAsked ==
  ASSUME NEW call \in {"create", "append_event", "terminal_result"},
         NEW o \in Ops, NEW id \in {"progress", "result", "verified"},
         NEW to \in (Open \cup Terminal) \ {"SUCCEEDED", "CANCELLED"}, NEW type \in EventTypes
  PROVE  Asked(Call(call, o, id, to, type)) /\ Call(call, o, id, to, type) \in Request
<1> DEFINE r == Call(call, o, id, to, type)
<1>1. r \in Request /\ r.call = call /\ r.op = o /\ r.id = id /\ r.to = to
  BY CallIsRequest DEF EventIds
<1> HIDE DEF r
<1>2. Asked(r)
  BY <1>1 DEF Asked
<1> QED  BY <1>1, <1>2 DEF r

\* Every step begins a call, is a step of a transaction, or restarts.
LEMMA StepKinds ==
  ASSUME IInv, Next
  PROVE  \/ Begins
         \/ \E p \in Procs : Number(p) \/ Write(p) \/ CommitCreate(p) \/ CommitAck(p) \/ Abort(p)
         \/ Restart
<1>0. api \in Procs /\ Callers \subseteq Procs
  BY DEF Procs
<1>1. ASSUME NEW p \in Callers, NEW o \in Ops, BeginCreate(p, o) PROVE Begins
  <2>1. Load(p, Call("create", o, "progress", "CONNECTING", "progress"))
    BY <1>1 DEF BeginCreate
  <2>2. "CONNECTING" \in (Open \cup Terminal) \ {"SUCCEEDED", "CANCELLED"} /\ "progress" \in EventTypes
    BY DEF Open, Terminal, EventTypes
  <2>3. Asked(Call("create", o, "progress", "CONNECTING", "progress"))
        /\ Call("create", o, "progress", "CONNECTING", "progress") \in Request
    BY <2>2, PlainCallIsAsked
  <2> QED  BY <1>0, <2>1, <2>3 DEF Begins
<1>2. ASSUME NEW p \in Callers, NEW o \in Ops, BeginUpdate(p, o) PROVE Begins
  <2> DEFINE r == Call("append_event", o, "updating", "UPDATING", "validation")
  <2>1. Load(p, r) /\ HasObservation(o)
    BY <1>2 DEF BeginUpdate
  <2>2. /\ r \in Request /\ r.call = "append_event" /\ r.op = o /\ r.id = "updating" /\ r.to = "UPDATING"
    BY CallIsRequest DEF EventIds, EventTypes, Open
  <2> HIDE DEF r
  <2>3. Asked(r)
    BY <2>1, <2>2 DEF Asked
  <2> QED  BY <1>0, <2>1, <2>2, <2>3 DEF Begins
<1>3. ASSUME NEW p \in Callers, NEW o \in Ops, NEW status \in {"SUCCEEDED", "STATE_UNCLEAR", "FAILED"},
             BeginVerified(p, o, status)
      PROVE  Begins
  <2> DEFINE r == Call("terminal_result", o, "verified", status, "terminal")
  <2>1. Load(p, r)
    BY <1>3 DEF BeginVerified
  <2>2. HasObservation(o)
    BY <1>3 DEF BeginVerified, IInv, RowInv, RowAt, EvidenceAt
  <2>3. r \in Request /\ r.call = "terminal_result" /\ r.op = o /\ r.id = "verified" /\ r.to = status
    BY CallIsRequest DEF EventIds, EventTypes, Terminal
  <2> HIDE DEF r
  <2>4. Asked(r)
    BY <2>2, <2>3 DEF Asked
  <2> QED  BY <1>0, <2>1, <2>3, <2>4 DEF Begins
<1>4. ASSUME NEW p \in Procs, NEW o \in Ops, NEW id \in {"cancel", "timeout"},
             Load(p, Call("cancel", o, id, "CANCELLED", "cancel"))
      PROVE  Begins
  <2> DEFINE r == Call("cancel", o, id, "CANCELLED", "cancel")
  <2>1. r \in Request /\ r.call = "cancel" /\ r.op = o /\ r.id = id /\ r.to = "CANCELLED"
    BY CallIsRequest DEF EventIds, EventTypes, Terminal
  <2>2. Load(p, r)
    BY <1>4
  <2> HIDE DEF r
  <2>3. Asked(r)
    BY <2>1 DEF Asked
  <2> QED  BY <2>1, <2>2, <2>3 DEF Begins
<1>5. ASSUME NEW o \in Ops, NEW s \in Progress, DeviceProgress(o, s) PROVE Begins
  <2>1. Load(api, Call("append_event", o, "progress", s, "progress"))
    BY <1>5 DEF DeviceProgress
  <2>2. s \in (Open \cup Terminal) \ {"SUCCEEDED", "CANCELLED"} /\ "progress" \in EventTypes
    BY StoreAssumption DEF Open, Terminal, EventTypes
  <2>3. Asked(Call("append_event", o, "progress", s, "progress"))
        /\ Call("append_event", o, "progress", s, "progress") \in Request
    BY <2>2, PlainCallIsAsked
  <2> QED  BY <1>0, <2>1, <2>3 DEF Begins
<1>6. ASSUME NEW o \in Ops, NEW s \in {"SUCCEEDED", "FAILED"}, DeviceResult(o, s) PROVE Begins
  <2>1. Load(api, ResultCall(o, s))
    BY <1>6 DEF DeviceResult
  <2>2. CASE s = "SUCCEEDED" /\ kind[o] # "capture"
    <3>1. ResultCall(o, s) = Call("append_event", o, "result", "VALIDATING", "observation")
      BY <2>2 DEF ResultCall
    <3>2. "VALIDATING" \in (Open \cup Terminal) \ {"SUCCEEDED", "CANCELLED"} /\ "observation" \in EventTypes
      BY DEF Open, Terminal, EventTypes
    <3>3. Asked(ResultCall(o, s)) /\ ResultCall(o, s) \in Request
      BY <3>1, <3>2, PlainCallIsAsked
    <3> QED  BY <1>0, <2>1, <3>3 DEF Begins
  <2>3. CASE ~(s = "SUCCEEDED" /\ kind[o] # "capture")
    <3> DEFINE r == Call("terminal_result", o, "result", s, "terminal")
    <3>1. Load(api, r)
      BY <2>1, <2>3 DEF ResultCall
    <3>2. r \in Request /\ r.call = "terminal_result" /\ r.op = o /\ r.id = "result" /\ r.to = s
      BY CallIsRequest DEF EventIds, EventTypes, Terminal
    <3> HIDE DEF r
    <3>3. Asked(r)
      BY <2>3, <3>2 DEF Asked
    <3> QED  BY <1>0, <3>1, <3>2, <3>3 DEF Begins
  <2> QED  BY <2>2, <2>3
<1>7. ASSUME NEW i \in 1..Len(outbox), DeviceAck(i) PROVE Begins
  <2> DEFINE o == outbox[i].op
             c == Call("ack", o, "progress", "DISPATCHED", "progress")
             r == [c EXCEPT !.item = i]
  <2>0. o \in Ops
    BY ItemsAreTyped DEF IInv
  <2>1. c \in Request /\ c.call = "ack" /\ c.op = o /\ c.id = "progress" /\ c.to = "DISPATCHED"
    <3> HIDE DEF o
    <3> QED  BY <2>0, CallIsRequest DEF EventIds, EventTypes, Open
  <2>2. Load(api, r)
    BY <1>7 DEF DeviceAck
  <2> HIDE DEF c
  <2>3. /\ r \in Request /\ r.call = "ack" /\ r.op = o /\ r.id = "progress"
        /\ r.to = "DISPATCHED" /\ r.item = i
    BY <2>1 DEF Request
  <2> HIDE DEF r
  <2>4. Asked(r)
    BY <2>3 DEF Asked
  <2> QED  BY <1>0, <2>2, <2>3, <2>4 DEF Begins
<1>8. ASSUME NEW p \in Callers, NEW o \in Ops, NEW id \in {"cancel", "timeout"}, BeginCancel(p, o, id)
      PROVE  Begins
  BY <1>0, <1>4, <1>8 DEF BeginCancel
<1>9. ASSUME NEW o \in Ops, DeviceCancel(o) PROVE Begins
  BY <1>0, <1>4, <1>9 DEF DeviceCancel
<1> QED  BY <1>1, <1>2, <1>3, <1>5, <1>6, <1>7, <1>8, <1>9 DEF Next

-----------------------------------------------------------------------------
(* What every step that is not a restart leaves in place.                  *)

\* The outbox only grows, and a row of it keeps its operation and kind.
OutboxGrows ==
    /\ Len(outbox) \in Nat /\ Len(outbox') \in Nat /\ Len(outbox) <= Len(outbox')
    /\ \A i \in 1..Len(outbox) : outbox'[i].op = outbox[i].op /\ outbox'[i].type = outbox[i].type

\* Events, numbers and rows are never lost.
HistoryGrows ==
    /\ OutboxGrows
    /\ \A o \in Ops : /\ log[o] \subseteq log'[o] /\ op[o].last <= op'[o].last
                      /\ op[o].status # "ABSENT" => op'[o].status # "ABSENT"

\* Recovery closes nothing in this step.
NoRecovery == \A o \in Ops : Recovered(o)' => Recovered(o)

\* A command in the outbox stays there, behind the ones before it.
LEMMA QueuedStays ==
  ASSUME OutboxGrows, NEW o
  PROVE  (Dispatched(o) => Dispatched(o)') /\ (CancelQueued(o) => CancelQueued(o)')
<1>1. \A i \in 1..Len(outbox) : /\ i \in 1..Len(outbox')
                                /\ outbox'[i].op = outbox[i].op /\ outbox'[i].type = outbox[i].type
  BY DEF OutboxGrows
<1>2. Dispatched(o) => Dispatched(o)'
  BY <1>1 DEF Dispatched
<1>3. CancelQueued(o) => CancelQueued(o)'
  BY <1>1 DEF CancelQueued
<1> QED  BY <1>2, <1>3

\* A row keeps its invariant while its log and its last number stay.
LEMMA RowKept ==
  ASSUME NEW o \in Ops, RowAt(o), OutboxGrows, UNCHANGED kind,
         log'[o] = log[o], op'[o].last = op[o].last,
         \/ op'[o].status = op[o].status
         \/ op[o].status # "ABSENT" /\ op'[o].status # "ABSENT" /\ ~Recovered(o),
         workflow'[o] = "updating" => HasObservation(o)
  PROVE  RowAt(o)'
<1>1. NumberedAt(o)'
  BY DEF RowAt, NumberedAt
<1>2. CreatedAt(o)'
  BY QueuedStays DEF RowAt, CreatedAt
<1>3. EvidenceAt(o)'
  BY DEF RowAt, EvidenceAt, HasObservation
<1>4. CancelledAt(o)'
  BY QueuedStays DEF RowAt, CancelledAt, Recovered
<1> QED  BY <1>1, <1>2, <1>3, <1>4 DEF RowAt

\* What a request may ask for, and what a transaction loaded, stays so.
LEMMA RequestKept ==
  ASSUME TypeOK, TypeOK', HistoryGrows, NoRecovery, UNCHANGED kind,
         NEW r \in Request, NEW seen \in Row
  PROVE  /\ Loaded(r, seen) => Loaded(r, seen)'
         /\ Asked(r) => Asked(r)'
         /\ \A seq \in Nat : Follows(r, seen, seq) => Follows(r, seen, seq)'
<1>1. r.op \in Ops
  BY DEF Request
<1>2. /\ log[r.op] \subseteq log'[r.op] /\ op[r.op].last <= op'[r.op].last
      /\ op[r.op].status # "ABSENT" => op'[r.op].status # "ABSENT"
      /\ op[r.op].last \in Nat /\ op'[r.op].last \in Nat /\ seen.last \in Nat
  BY <1>1 DEF HistoryGrows, TypeOK, Row
<1>3. Loaded(r, seen) => Loaded(r, seen)'
  BY <1>1, <1>2 DEF Loaded, NoRecovery
<1>4. Asked(r) => Asked(r)'
  <2>1. HasObservation(r.op) => HasObservation(r.op)'
    BY <1>2 DEF HasObservation
  <2>2. ASSUME r.item \in 1..Len(outbox) PROVE r.item \in 1..Len(outbox') /\ outbox'[r.item].op = outbox[r.item].op
    BY <2>2 DEF HistoryGrows, OutboxGrows
  <2> QED  BY <2>1, <2>2 DEF Asked
<1>5. \A seq \in Nat : Follows(r, seen, seq) => Follows(r, seen, seq)'
  BY <1>2 DEF Follows
<1> QED  BY <1>3, <1>4, <1>5

\* A transaction that does not step keeps its invariant.
LEMMA TxKept ==
  ASSUME TypeOK, TypeOK', HistoryGrows, NoRecovery, UNCHANGED kind,
         NEW p \in Procs, TxAt(p), tx'[p] = tx[p] \/ tx'[p] = NoTx
  PROVE  TxAt(p)'
<1>1. CASE tx'[p] = NoTx
  BY <1>1 DEF TxAt, NoTx
<1>2. CASE tx'[p] = tx[p] /\ tx[p] # NoTx
  <2>1. tx[p].request \in Request /\ tx[p].seen \in Row
        /\ (tx[p].step = "numbered" => tx[p].seq \in Nat)
    BY <1>2, OpenTransaction
  <2>2. ASSUME NEW r \in {tx'[p].request}, NEW seen \in {tx'[p].seen} PROVE Loaded(r, seen)' /\ Asked(r)'
    <3>1. r = tx[p].request /\ seen = tx[p].seen /\ r \in Request /\ seen \in Row
      BY <1>2, <2>1, <2>2
    <3>2. Loaded(r, seen) /\ Asked(r)
      BY <1>2, <3>1 DEF TxAt
    <3> QED  BY <3>1, <3>2, RequestKept
  <2>3. ASSUME tx'[p].step = "numbered",
               NEW r \in {tx'[p].request}, NEW seen \in {tx'[p].seen}, NEW seq \in {tx'[p].seq}
        PROVE  Follows(r, seen, seq)'
    <3>1. r = tx[p].request /\ seen = tx[p].seen /\ seq = tx[p].seq /\ r \in Request /\ seen \in Row /\ seq \in Nat
      BY <1>2, <2>1, <2>3
    <3>2. Follows(r, seen, seq)
      BY <1>2, <2>3, <3>1 DEF TxAt
    <3> QED  BY <3>1, <3>2, RequestKept
  <2> QED  BY <2>2, <2>3 DEF TxAt
<1> QED  BY <1>1, <1>2

\* The outbox keeps its invariant when new rows are of operations that exist.
LEMMA ItemsKept ==
  ASSUME TypeOK, TypeOK', ItemInv, HistoryGrows,
         \A i \in 1..Len(outbox) : outbox'[i].acked = "recovery" => outbox[i].acked = "recovery",
         \A i \in 1..Len(outbox') : i > Len(outbox) =>
             outbox'[i].acked # "recovery" /\ op'[outbox'[i].op].status # "ABSENT"
  PROVE  ItemInv'
<1>1. SUFFICES ASSUME NEW i \in 1..Len(outbox'), NEW o \in {outbox'[i].op}
               PROVE  op'[o].status # "ABSENT" /\ (outbox'[i].acked = "recovery" => Recovered(o)')
  BY DEF ItemInv, ItemAt
<1>2. Len(outbox) \in Nat /\ Len(outbox') \in Nat
  BY DEF HistoryGrows, OutboxGrows
<1>3. CASE i > Len(outbox)
  BY <1>3
<1>4. CASE i \in 1..Len(outbox)
  <2>1. o = outbox[i].op /\ o \in Ops
    BY <1>4, ItemsAreTyped DEF HistoryGrows, OutboxGrows
  <2>2. op[o].status # "ABSENT" /\ (outbox[i].acked = "recovery" => Recovered(o))
    <3>1. ItemAt(i)
      BY <1>4 DEF ItemInv
    <3>2. o \in {outbox[i].op}
      BY <2>1
    <3> QED  BY <3>1, <3>2 DEF ItemAt
  <2>3. Recovered(o) => Recovered(o)'
    BY <2>1 DEF HistoryGrows, Recovered
  <2> QED  BY <1>4, <2>1, <2>2, <2>3 DEF HistoryGrows
<1> QED  BY <1>2, <1>3, <1>4

\* A step that touches no row, log or outbox.
LEMMA QuietStep ==
  ASSUME TypeOK, UNCHANGED <<op, log, outbox>>
  PROVE  HistoryGrows /\ NoRecovery
<1>1. Len(outbox) \in Nat /\ \A o \in Ops : op[o].last \in Nat
  BY DEF TypeOK, Row
<1>2. OutboxGrows
  BY <1>1 DEF OutboxGrows
<1> QED  BY <1>1, <1>2 DEF HistoryGrows, NoRecovery, Recovered

-----------------------------------------------------------------------------
(* Each kind of step keeps the invariant.                                  *)

\* The first state satisfies it.
LEMMA InitIInv == Init => IInv
<1> SUFFICES ASSUME Init PROVE IInv
  OBVIOUS
<1>1. TypeOK
  <2>1. outbox \in Seq(Item)
    BY EmptySeq DEF Init
  <2>2. op \in [Ops -> Row]
    BY DEF Init, Row
  <2>3. tx \in [Procs -> Transaction]
    BY DEF Init, Transaction
  <2> QED  BY <2>1, <2>2, <2>3 DEF Init, TypeOK
<1>2. RowInv
  BY DEF Init, RowInv, RowAt, NumberedAt, CreatedAt, EvidenceAt, CancelledAt, Recovered
<1>3. TxInv
  BY DEF Init, TxInv, TxAt, NoTx
<1>4. ItemInv
  BY DEF Init, ItemInv
<1> QED  BY <1>1, <1>2, <1>3, <1>4 DEF IInv

\* A call that begins: what it loads is the row as it is.
LEMMA BeginKeeps ==
  ASSUME IInv, Begins, UNCHANGED kind
  PROVE  IInv'
<1>1. PICK p \in Procs, r \in Request : Load(p, r) /\ Asked(r)
  BY DEF Begins
<1> DEFINE seen == op[r.op]
<1>2. /\ r.call # "create" => op[r.op].status # "ABSENT"
      /\ tx' = [tx EXCEPT ![p] = IF RefusedAtLoad(r.call, op[r.op]) THEN NoTx
                                 ELSE [step |-> "loaded", request |-> r, seen |-> op[r.op]]]
      /\ UNCHANGED <<op, log, outbox, workflow>>
  BY <1>1 DEF Load
<1>3. r.op \in Ops /\ op[r.op] \in Row
  BY DEF Request, IInv, TypeOK
<1>4. tx'[p] = NoTx \/ tx'[p] = [step |-> "loaded", request |-> r, seen |-> op[r.op]]
  BY <1>2 DEF IInv, TypeOK
<1>5. \A q \in Procs : q # p => tx'[q] = tx[q]
  BY <1>2 DEF IInv, TypeOK
<1>6. TypeOK'
  <2>1. [step |-> "loaded", request |-> r, seen |-> op[r.op]] \in Transaction /\ NoTx \in Transaction
    BY <1>3 DEF Transaction
  <2>2. tx' \in [Procs -> Transaction]
    BY <1>2, <2>1 DEF IInv, TypeOK
  <2> QED  BY <1>2, <2>2 DEF IInv, TypeOK
<1>7. HistoryGrows /\ NoRecovery
  BY <1>2, QuietStep DEF IInv
<1>8. TxAt(p)'
  <2>1. CASE tx'[p] = NoTx
    BY <2>1 DEF TxAt, NoTx
  <2>2. CASE tx'[p] = [step |-> "loaded", request |-> r, seen |-> op[r.op]]
    <3>1. Loaded(r, seen)
      <4>1. op[r.op].last \in Nat
        BY <1>3 DEF Row
      <4>2. Recovered(r.op) => op[r.op].status = "CANCELLED"
        BY <1>3 DEF IInv, RowInv, RowAt, CancelledAt
      <4> QED  BY <1>2, <4>1, <4>2 DEF Loaded
    <3> DEFINE s == op[r.op]
    <3>2. ASSUME NEW x \in {tx'[p].request}, NEW y \in {tx'[p].seen} PROVE Loaded(x, y)' /\ Asked(x)'
      <4>1. x = r /\ y = op[r.op]
        BY <2>2, <3>2
      <4>2. Loaded(x, y) /\ Asked(x)
        BY <1>1, <3>1, <4>1
      <4>3. x \in Request /\ y \in Row
        BY <1>3, <4>1
      <4> QED  BY <1>6, <1>7, <4>2, <4>3, RequestKept DEF IInv
    <3>3. tx'[p].step # "numbered"
      BY <2>2
    <3> QED  BY <3>2, <3>3 DEF TxAt
  <2> QED  BY <1>4, <2>1, <2>2
<1>9. TxInv'
  BY <1>5, <1>6, <1>7, <1>8, TxKept DEF IInv, TxInv
<1>10. RowInv'
  BY <1>2, <1>7, RowKept DEF IInv, RowInv, HistoryGrows, RowAt, EvidenceAt
<1>11. ItemInv'
  BY <1>2 DEF IInv, ItemInv, ItemAt, Recovered
<1> QED  BY <1>6, <1>9, <1>10, <1>11 DEF IInv

\* A transaction that gives up, or finds nothing to write, leaves no trace.
LEMMA GiveUpKeeps ==
  ASSUME IInv, NEW p \in Procs, tx' = [tx EXCEPT ![p] = NoTx],
         UNCHANGED <<kind, op, log, outbox, workflow>>
  PROVE  IInv'
<1>1. tx' = [tx EXCEPT ![p] = NoTx] /\ UNCHANGED <<op, log, outbox, workflow>>
  OBVIOUS
<1>2. TypeOK'
  BY <1>1 DEF IInv, TypeOK, Transaction
<1>3. HistoryGrows /\ NoRecovery
  BY <1>1, QuietStep DEF IInv
<1>4. \A q \in Procs : tx'[q] = tx[q] \/ tx'[q] = NoTx
  BY <1>1 DEF IInv, TypeOK
<1>5. TxInv'
  BY <1>2, <1>3, <1>4, TxKept DEF IInv, TxInv
<1>6. RowInv'
  BY <1>1, <1>3, RowKept DEF IInv, RowInv, HistoryGrows, RowAt, EvidenceAt
<1>7. ItemInv'
  BY <1>1 DEF IInv, ItemInv, ItemAt, Recovered
<1> QED  BY <1>2, <1>5, <1>6, <1>7 DEF IInv

\* A workflow that moves to its update has seen an observation.
LEMMA WorkflowNeedsEvidence ==
  ASSUME IInv, NEW r \in Request, Asked(r), NEW o \in Ops,
         workflow' = workflow \/ workflow' = WorkflowAfter(r), workflow'[o] = "updating"
  PROVE  HasObservation(o)
<1>1. workflow[o] = "updating" => HasObservation(o)
  BY DEF IInv, RowInv, RowAt, EvidenceAt
<1>2. CASE workflow'[o] = workflow[o]
  BY <1>1, <1>2
<1>3. CASE workflow'[o] # workflow[o]
  <2>1. o = r.op /\ r.id = "updating"
    BY <1>3 DEF WorkflowAfter, IInv, TypeOK
  <2> QED  BY <2>1 DEF Asked
<1> QED  BY <1>2, <1>3

\* The second step: the number is the next one of the log as it is now.
LEMMA NumberKeeps ==
  ASSUME IInv, NEW p \in Procs, Number(p), UNCHANGED kind
  PROVE  IInv'
<1> DEFINE r == tx[p].request
           seen == tx[p].seen
           seq == NextNumber(r.op, seen)
           numbered == [step |-> "numbered", request |-> r, seen |-> seen, seq |-> seq]
<1>1. /\ tx[p] # NoTx /\ r \in Request /\ seen \in Row
      /\ r.op \in Ops /\ op[r.op] \in Row
  <2>1. tx[p] # NoTx
    BY StepIsOpen DEF Number
  <2>2. r \in Request /\ seen \in Row
    BY <2>1, OpenTransaction DEF IInv
  <2> QED  BY <2>1, <2>2 DEF Request, IInv, TypeOK
<1>2. Loaded(r, seen) /\ Asked(r)
  BY <1>1 DEF IInv, TxInv, TxAt
<1>3. seq = op[r.op].last + 1 /\ op[r.op].last \in Nat
  <2>1. seen.last <= op[r.op].last
    BY <1>2 DEF Loaded
  <2>2. NumberedAt(r.op)
    BY <1>1 DEF IInv, RowInv, RowAt
  <2> QED  BY <1>1, <2>1, <2>2, NumberIsNext DEF IInv, Row
<1>4. /\ UNCHANGED <<op, log, outbox>>
      /\ \/ tx' = [tx EXCEPT ![p] = NoTx] /\ (workflow' = workflow \/ workflow' = WorkflowAfter(r))
         \/ /\ tx' = [tx EXCEPT ![p] = numbered] /\ workflow' = workflow
            /\ r.call \notin {"create", "ack"} /\ r.to \in AllowedFrom(seen.status)
  BY DEF Number
<1>5. workflow' \in [Ops -> {"none", "polling", "updating", "finished"}]
  BY <1>4 DEF WorkflowAfter, IInv, TypeOK
<1>6. TypeOK'
  <2>1. numbered \in Transaction
    <3>1. seq \in Nat \ {0}
      BY <1>3
    <3> HIDE DEF seq, r, seen
    <3> QED  BY <1>1, <3>1 DEF Transaction
  <2>2. tx' \in [Procs -> Transaction]
    <3> HIDE DEF numbered
    <3>1. NoTx \in Transaction
      BY DEF Transaction
    <3> QED  BY <1>4, <2>1, <3>1 DEF IInv, TypeOK
  <2> QED  BY <1>4, <1>5, <2>2 DEF IInv, TypeOK
<1>7. HistoryGrows /\ NoRecovery
  BY <1>4, QuietStep DEF IInv
<1>8. TxAt(p)'
  <2>1. CASE tx'[p] = NoTx
    BY <2>1 DEF TxAt, NoTx
  <2>2. CASE /\ tx'[p] = numbered
             /\ r.call \notin {"create", "ack"} /\ r.to \in AllowedFrom(seen.status)
    <3>1. Follows(r, seen, seq)
      BY <1>3, <2>2 DEF Follows
    <3>2. /\ tx'[p].request = r /\ tx'[p].seen = seen /\ tx'[p].seq = seq
          /\ seq \in Nat
      BY <1>3, <2>2
    <3> HIDE DEF r, seen, seq, numbered
    <3>3. ASSUME NEW x \in {tx'[p].request}, NEW y \in {tx'[p].seen} PROVE Loaded(x, y)' /\ Asked(x)'
      <4>1. x = r /\ y = seen
        BY <3>2, <3>3
      <4>2. Loaded(x, y) /\ Asked(x) /\ x \in Request /\ y \in Row
        BY <1>1, <1>2, <4>1
      <4> QED  BY <1>6, <1>7, <4>2, RequestKept DEF IInv
    <3>4. ASSUME NEW x \in {tx'[p].request}, NEW y \in {tx'[p].seen}, NEW n \in {tx'[p].seq}
          PROVE  Follows(x, y, n)'
      <4>1. x = r /\ y = seen /\ n = seq
        BY <3>2, <3>4
      <4>2. Follows(x, y, n) /\ x \in Request /\ y \in Row /\ n \in Nat
        BY <1>1, <3>1, <3>2, <4>1
      <4> QED  BY <1>6, <1>7, <4>2, RequestKept DEF IInv
    <3> QED  BY <3>3, <3>4 DEF TxAt
  <2>3. p \in DOMAIN tx
    BY DEF IInv, TypeOK
  <2> QED  BY <1>4, <2>1, <2>2, <2>3
<1>9. TxInv'
  <2>1. \A q \in Procs : q # p => tx'[q] = tx[q]
    BY <1>4 DEF IInv, TypeOK
  <2> QED  BY <1>6, <1>7, <1>8, <2>1, TxKept DEF IInv, TxInv
<1>10. RowInv'
  <2>1. ASSUME NEW o \in Ops PROVE RowAt(o)'
    <3>1. workflow'[o] = "updating" => HasObservation(o)
      BY <1>1, <1>2, <1>4, WorkflowNeedsEvidence
    <3> QED  BY <1>4, <1>7, <3>1, RowKept DEF IInv, RowInv, HistoryGrows
  <2> QED  BY <2>1 DEF RowInv
<1>11. ItemInv'
  BY <1>4 DEF IInv, ItemInv, ItemAt, Recovered
<1> QED  BY <1>6, <1>9, <1>10, <1>11 DEF IInv

\* The third step finds its number free only when it is the next one.
LEMMA WrittenIsNext ==
  ASSUME IInv, NEW o \in Ops, NEW r \in Request, r.op = o, NEW seen \in Row, NEW seq \in Nat \ {0},
         Follows(r, seen, seq), ~Taken(r, seq)
  PROVE  seq = op[o].last + 1 /\ op[o].last \in Nat
<1>1. op[o].last \in Nat /\ seq <= op[o].last + 1
  BY DEF IInv, TypeOK, Row, Follows
<1>2. ~(seq <= op[o].last)
  <2>1. SUFFICES ASSUME seq <= op[o].last PROVE FALSE
    OBVIOUS
  <2>2. seq \in 1..op[o].last
    BY <1>1, <2>1
  <2>3. \E e \in log[o] : e.seq = seq
    BY <2>2 DEF IInv, RowInv, RowAt, NumberedAt
  <2> QED  BY <2>3 DEF Taken
<1> QED  BY <1>1, <1>2

\* A written event extends the history of its row.
LEMMA WriteExtendsRow ==
  ASSUME IInv, TypeOK', NEW o \in Ops, NEW r \in Request, r.op = o, NEW seen \in Row, NEW seq \in Nat \ {0},
         Loaded(r, seen), Asked(r), Follows(r, seen, seq), ~Taken(r, seq), UNCHANGED kind, OutboxGrows,
         log'[o] = log[o] \cup {[seq |-> seq, id |-> r.id, status |-> r.to, type |-> r.type]},
         op'[o] = [status |-> StatusWritten(o, seen, r.to), last |-> seq],
         r.call = "cancel" => outbox' = Append(outbox, Command(o, "cancel")),
         workflow' = WorkflowAfter(r)
  PROVE  RowAt(o)'
<1> DEFINE new == [seq |-> seq, id |-> r.id, status |-> r.to, type |-> r.type]
<1>0. /\ new.seq = seq /\ new.id = r.id /\ new.status = r.to /\ new.type = r.type
      /\ log'[o] = log[o] \cup {new}
  OBVIOUS
<1> HIDE DEF new
<1>1. /\ seq = op[o].last + 1 /\ op[o].last \in Nat /\ op'[o].last = seq
      /\ op'[o].status = StatusWritten(o, seen, r.to)
  BY WrittenIsNext
<1>2. RowAt(o) /\ \A e \in log[o] : e.seq \in Nat
  BY DEF IInv, RowInv, TypeOK, Event
<1>3. op[o].status # "ABSENT" /\ op'[o].status # "ABSENT"
  <2>1. op[o].status # "ABSENT"
    BY DEF Follows, Loaded
  <2>2. r.to # "ABSENT"
    BY DEF Request, Open, Terminal
  <2> QED  BY <1>1, <2>1, <2>2 DEF StatusWritten
<1>4. NumberedAt(o)'
  <2>1. \A e \in log[o] : e.seq <= op[o].last
    BY <1>2 DEF RowAt, NumberedAt
  <2>2. \A e \in log[o] : e.seq # seq /\ ~(e.id = r.id /\ r.id # "progress")
    BY DEF Taken
  <2>3. \A e, f \in log'[o] : e.seq = f.seq \/ (e.id = f.id /\ e.id # "progress") => e = f
    BY <1>0, <1>2, <2>2 DEF RowAt, NumberedAt
  <2>4. \A e \in log'[o] : e.seq <= op'[o].last
    BY <1>0, <1>1, <1>2, <2>1
  <2>5. \A n \in 1..op'[o].last : \E e \in log'[o] : e.seq = n
    <3>1. ASSUME NEW n \in 1..op'[o].last PROVE \E e \in log'[o] : e.seq = n
      <4>1. CASE n = seq
        BY <1>0, <4>1
      <4>2. CASE n # seq
        <5>1. n \in 1..op[o].last
          BY <1>1, <4>2
        <5> QED  BY <1>0, <1>2, <5>1 DEF RowAt, NumberedAt
      <4> QED  BY <4>1, <4>2
    <3> QED  BY <3>1
  <2> QED  BY <2>3, <2>4, <2>5 DEF NumberedAt
<1>5. CreatedAt(o)'
  BY <1>2, <1>3, QueuedStays DEF RowAt, CreatedAt
<1>6. EvidenceAt(o)'
  <2>1. workflow'[o] = "updating" => HasObservation(o)
    BY WorkflowNeedsEvidence
  <2>2. HasObservation(o) => HasObservation(o)'
    BY <1>0 DEF HasObservation
  <2>3. ASSUME kind[o] # "capture", NEW e \in log'[o], e.status = "SUCCEEDED"
        PROVE  e.id = "verified" /\ \E f \in log'[o] : f.type = "observation" /\ f.seq < e.seq
    <3>1. CASE e \in log[o]
      BY <1>0, <1>2, <2>3, <3>1 DEF RowAt, EvidenceAt
    <3>2. CASE e = new
      <4>1. r.id = "verified" /\ HasObservation(o)
        BY <1>0, <2>3, <3>2 DEF Asked
      <4>2. PICK f \in log[o] : f.type = "observation"
        BY <4>1 DEF HasObservation
      <4>3. f.seq <= op[o].last /\ f.seq \in Nat
        BY <1>2 DEF RowAt, NumberedAt
      <4>4. f.seq < seq
        BY <1>1, <4>3
      <4> QED  BY <1>0, <3>2, <4>1, <4>2, <4>4
    <3> QED  BY <1>0, <3>1, <3>2
  <2> QED  BY <2>1, <2>2, <2>3 DEF EvidenceAt
<1>7. CancelledAt(o)'
  <2>1. ASSUME NEW e \in log'[o], e.status = "CANCELLED" PROVE CancelQueued(o)'
    <3>1. CASE e \in log[o]
      BY <1>2, <2>1, <3>1, QueuedStays DEF RowAt, CancelledAt
    <3>2. CASE e = new
      <4>1. outbox' = Append(outbox, Command(o, "cancel"))
        BY <1>0, <2>1, <3>2 DEF Asked
      <4>2. outbox \in Seq(Item) /\ Command(o, "cancel") \in Item
        BY DEF IInv, TypeOK, Command, Item
      <4>3. /\ Len(outbox') = Len(outbox) + 1 /\ outbox'[Len(outbox) + 1] = Command(o, "cancel")
            /\ Len(outbox) \in Nat
        BY <4>1, <4>2
      <4>4. PICK i \in 1..Len(outbox) : outbox[i].op = o /\ outbox[i].type = "dispatch"
        BY <1>2, <1>3 DEF RowAt, CreatedAt, Dispatched
      <4>5. /\ i \in 1..Len(outbox') /\ outbox'[i].op = o /\ outbox'[i].type = "dispatch"
            /\ i < Len(outbox) + 1 /\ Len(outbox) + 1 \in 1..Len(outbox')
        BY <4>3, <4>4 DEF OutboxGrows
      <4> QED  BY <4>3, <4>5 DEF CancelQueued, Command
    <3> QED  BY <1>0, <3>1, <3>2
  <2>2. ASSUME Recovered(o)' PROVE op'[o].status = "CANCELLED"
    <3>1. Recovered(o)
      BY <1>0, <2>2 DEF Recovered, Asked
    <3>2. seen.status = "CANCELLED" /\ op[o].status = "CANCELLED"
      BY <1>2, <3>1 DEF Loaded, RowAt, CancelledAt
    <3>3. r.to = "CANCELLED"
      BY <3>2 DEF Follows, AllowedFrom, Transitions, Terminal
    <3> QED  BY <1>1, <3>2, <3>3 DEF StatusWritten
  <2> QED  BY <2>1, <2>2 DEF CancelledAt
<1> QED  BY <1>4, <1>5, <1>6, <1>7 DEF RowAt

\* The third step of a call that appends an event.
LEMMA WriteKeeps ==
  ASSUME IInv, NEW p \in Procs, Write(p), UNCHANGED kind
  PROVE  IInv'
<1> DEFINE r == tx[p].request
           seen == tx[p].seen
           seq == tx[p].seq
           o == r.op
           new == [seq |-> seq, id |-> r.id, status |-> r.to, type |-> r.type]
<1>1. /\ tx[p] # NoTx /\ r \in Request /\ seen \in Row /\ seq \in Nat \ {0} /\ o \in Ops
      /\ Loaded(r, seen) /\ Asked(r) /\ Follows(r, seen, seq)
  <2>1. tx[p] # NoTx /\ tx[p].step = "numbered"
    BY StepIsOpen DEF Write
  <2>2. r \in Request /\ seen \in Row /\ seq \in Nat \ {0}
    BY <2>1, OpenTransaction DEF IInv
  <2>3. Loaded(r, seen) /\ Asked(r) /\ Follows(r, seen, seq)
    BY <2>1 DEF IInv, TxInv, TxAt
  <2> QED  BY <2>1, <2>2, <2>3 DEF Request
<1>2. /\ tx' = [tx EXCEPT ![p] = NoTx]
      /\ Taken(r, seq) => UNCHANGED <<op, log, outbox, workflow>>
      /\ ~Taken(r, seq) =>
            /\ log' = [log EXCEPT ![o] = @ \cup {new}]
            /\ op' = [op EXCEPT ![o] = [status |-> StatusWritten(o, seen, r.to), last |-> seq]]
            /\ outbox' = IF r.call = "cancel" THEN Append(outbox, Command(o, "cancel")) ELSE outbox
            /\ workflow' = WorkflowAfter(r)
  BY DEF Write
<1> HIDE DEF r, seen, seq, o
<1>3. CASE Taken(r, seq)
  BY <1>2, <1>3, GiveUpKeeps
<1>4. CASE ~Taken(r, seq)
  <2> SUFFICES ASSUME NEW R \in Request, R = r, NEW S \in Row, S = seen, NEW n \in Nat \ {0}, n = seq,
                      NEW x \in Ops, x = o
               PROVE  IInv'
    BY <1>1
  <2>0. /\ R.op = x /\ Loaded(R, S) /\ Asked(R) /\ Follows(R, S, n) /\ ~Taken(R, n)
        /\ tx' = [tx EXCEPT ![p] = NoTx]
        /\ log' = [log EXCEPT ![x] = @ \cup {[seq |-> n, id |-> R.id, status |-> R.to, type |-> R.type]}]
        /\ op' = [op EXCEPT ![x] = [status |-> StatusWritten(x, S, R.to), last |-> n]]
        /\ outbox' = IF R.call = "cancel" THEN Append(outbox, Command(x, "cancel")) ELSE outbox
        /\ workflow' = WorkflowAfter(R)
    BY <1>1, <1>2, <1>4 DEF o
  <2>1. /\ outbox \in Seq(Item) /\ op \in [Ops -> Row] /\ log \in [Ops -> SUBSET Event]
        /\ tx \in [Procs -> Transaction]
    BY DEF IInv, TypeOK
  <2>2. Command(x, "cancel") \in Item /\ Command(x, "cancel").acked = "no" /\ Command(x, "cancel").op = x
    BY DEF Command, Item
  <2>3. n = op[x].last + 1 /\ op[x].last \in Nat /\ op[x].status # "ABSENT"
    BY <2>0, WrittenIsNext DEF Follows, Loaded
  <2>4. R.id \in EventIds /\ R.to \in Open \cup Terminal /\ R.type \in EventTypes
    BY DEF Request
  <2>5. StatusWritten(x, S, R.to) \in Open \cup Terminal
    BY <2>1, <2>3, <2>4 DEF StatusWritten, Row
  <2>6. "ABSENT" \notin Open \cup Terminal
    BY DEF Open, Terminal
  <2>7. op'[x].last = n /\ op'[x].status = StatusWritten(x, S, R.to)
    BY <2>0, <2>1
  <2>8. TypeOK'
    <3>1. op' \in [Ops -> Row]
      <4>1. [status |-> StatusWritten(x, S, R.to), last |-> n] \in Row
        BY <2>5 DEF Row
      <4> QED  BY <2>0, <2>1, <4>1
    <3>2. log' \in [Ops -> SUBSET Event]
      <4>1. [seq |-> n, id |-> R.id, status |-> R.to, type |-> R.type] \in Event
        BY <2>4 DEF Event
      <4> QED  BY <2>0, <2>1, <4>1
    <3>3. outbox' \in Seq(Item)
      BY <2>0, <2>1, <2>2
    <3>4. tx' \in [Procs -> Transaction]
      BY <2>0, <2>1 DEF Transaction
    <3>5. workflow' \in [Ops -> {"none", "polling", "updating", "finished"}]
      BY <2>0 DEF WorkflowAfter, IInv, TypeOK
    <3> QED  BY <3>1, <3>2, <3>3, <3>4, <3>5 DEF IInv, TypeOK
  <2>9. OutboxGrows /\ \A i \in 1..Len(outbox) : outbox'[i] = outbox[i]
    BY <2>0, <2>1, <2>2 DEF OutboxGrows
  <2>10. HistoryGrows
    <3>1. ASSUME NEW y \in Ops
          PROVE  /\ log[y] \subseteq log'[y] /\ op[y].last <= op'[y].last
                 /\ op[y].status # "ABSENT" => op'[y].status # "ABSENT"
      <4>1. CASE y = x
        BY <2>0, <2>1, <2>3, <2>5, <2>6, <2>7, <4>1
      <4>2. CASE y # x
        <5>1. op'[y] = op[y] /\ log'[y] = log[y] /\ op[y].last \in Nat
          BY <2>0, <2>1, <4>2 DEF Row
        <5> QED  BY <5>1
      <4> QED  BY <4>1, <4>2
    <3> QED  BY <2>9, <3>1 DEF HistoryGrows
  <2>11. NoRecovery
    BY <2>0, <2>1 DEF NoRecovery, Recovered, Asked
  <2>12. TxInv'
    <3>1. \A q \in Procs : tx'[q] = tx[q] \/ tx'[q] = NoTx
      BY <2>0, <2>1
    <3> QED  BY <2>8, <2>10, <2>11, <3>1, TxKept DEF IInv, TxInv
  <2>13. ItemInv'
    <3>1. \A i \in 1..Len(outbox') : i > Len(outbox) => outbox'[i] = Command(x, "cancel")
      BY <2>0, <2>1, <2>2
    <3>2. op'[x].status # "ABSENT"
      BY <2>5, <2>6, <2>7
    <3> QED  BY <2>2, <2>8, <2>9, <2>10, <3>1, <3>2, ItemsKept DEF IInv
  <2>14. RowInv'
    <3>1. ASSUME NEW y \in Ops PROVE RowAt(y)'
      <4>1. CASE y = x
        <5>1. log'[x] = log[x] \cup {[seq |-> n, id |-> R.id, status |-> R.to, type |-> R.type]}
              /\ op'[x] = [status |-> StatusWritten(x, S, R.to), last |-> n]
          BY <2>0, <2>1
        <5> QED  BY <2>0, <2>8, <2>9, <4>1, <5>1, WriteExtendsRow
      <4>2. CASE y # x
        <5>1. op'[y] = op[y] /\ log'[y] = log[y]
          BY <2>0, <2>1, <4>2
        <5>2. workflow'[y] = "updating" => HasObservation(y)
          BY <2>0, WorkflowNeedsEvidence
        <5> QED  BY <2>9, <5>1, <5>2, RowKept DEF IInv, RowInv
      <4> QED  BY <4>1, <4>2
    <3> QED  BY <3>1 DEF RowInv
  <2> QED  BY <2>8, <2>12, <2>13, <2>14 DEF IInv
<1> QED  BY <1>3, <1>4

\* create: one transaction inserts the row with its dispatch.
LEMMA CreateKeeps ==
  ASSUME IInv, NEW p \in Procs, CommitCreate(p), UNCHANGED kind
  PROVE  IInv'
<1> DEFINE o == tx[p].request.op
<1>1. o \in Ops
  BY StepIsOpen, OpenTransaction DEF CommitCreate, IInv, Request
<1>2. CASE op[o].status # "ABSENT"
  BY <1>2, GiveUpKeeps DEF CommitCreate
<1>3. CASE op[o].status = "ABSENT"
  <2> SUFFICES ASSUME NEW x \in Ops, x = o PROVE IInv'
    BY <1>1
  <2>0. /\ tx' = [tx EXCEPT ![p] = NoTx] /\ UNCHANGED log
        /\ op' = [op EXCEPT ![x] = [status |-> "CONNECTING", last |-> 0]]
        /\ outbox' = Append(outbox, Command(x, "dispatch"))
        /\ workflow' = [workflow EXCEPT ![x] = "polling"]
    BY <1>3 DEF CommitCreate
  <2> HIDE DEF o
  <2>1. /\ outbox \in Seq(Item) /\ op \in [Ops -> Row] /\ log \in [Ops -> SUBSET Event]
        /\ tx \in [Procs -> Transaction] /\ workflow \in [Ops -> {"none", "polling", "updating", "finished"}]
    BY DEF IInv, TypeOK
  <2>2. /\ Command(x, "dispatch") \in Item /\ Command(x, "dispatch").acked = "no"
        /\ Command(x, "dispatch").op = x /\ Command(x, "dispatch").type = "dispatch"
    BY DEF Command, Item
  <2>3. op[x].last = 0 /\ log[x] = {} /\ op'[x].last = 0 /\ op'[x].status = "CONNECTING"
    BY <1>3, <2>0, <2>1 DEF IInv, RowInv, RowAt, CreatedAt
  <2>4. TypeOK'
    <3>1. op' \in [Ops -> Row]
      BY <2>0, <2>1 DEF Row, Open
    <3>2. outbox' \in Seq(Item)
      BY <2>0, <2>1, <2>2
    <3>3. tx' \in [Procs -> Transaction]
      BY <2>0, <2>1 DEF Transaction
    <3>4. workflow' \in [Ops -> {"none", "polling", "updating", "finished"}]
      BY <2>0, <2>1
    <3> QED  BY <2>0, <3>1, <3>2, <3>3, <3>4 DEF IInv, TypeOK
  <2>5. OutboxGrows /\ \A i \in 1..Len(outbox) : outbox'[i] = outbox[i]
    BY <2>0, <2>1, <2>2 DEF OutboxGrows
  <2>6. \A y \in Ops : y # x => op'[y] = op[y]
    BY <2>0, <2>1
  <2>7. HistoryGrows
    <3>1. ASSUME NEW y \in Ops
          PROVE  /\ log[y] \subseteq log'[y] /\ op[y].last <= op'[y].last
                 /\ op[y].status # "ABSENT" => op'[y].status # "ABSENT"
      <4>1. op[y].last \in Nat
        BY <2>1 DEF Row
      <4> QED  BY <2>0, <2>3, <2>6, <4>1
    <3> QED  BY <2>5, <3>1 DEF HistoryGrows
  <2>8. NoRecovery
    BY <2>0 DEF NoRecovery, Recovered
  <2>9. TxInv'
    <3>1. \A q \in Procs : tx'[q] = tx[q] \/ tx'[q] = NoTx
      BY <2>0, <2>1
    <3> QED  BY <2>4, <2>7, <2>8, <3>1, TxKept DEF IInv, TxInv
  <2>10. Len(outbox') = Len(outbox) + 1 /\ outbox'[Len(outbox')] = Command(x, "dispatch") /\ Len(outbox) \in Nat
    BY <2>0, <2>1, <2>2
  <2>11. ItemInv'
    <3>1. \A i \in 1..Len(outbox') : i > Len(outbox) => outbox'[i] = Command(x, "dispatch")
      BY <2>10
    <3> QED  BY <2>2, <2>3, <2>4, <2>5, <2>7, <3>1, ItemsKept DEF IInv
  <2>12. RowInv'
    <3>1. ASSUME NEW y \in Ops PROVE RowAt(y)'
      <4>1. CASE y = x
        <5>1. NumberedAt(x)'
          BY <2>0, <2>3 DEF NumberedAt
        <5>2. Dispatched(x)'
          BY <2>2, <2>10 DEF Dispatched
        <5>3. CreatedAt(x)'
          BY <2>3, <5>2 DEF CreatedAt
        <5>4. EvidenceAt(x)'
          BY <2>0, <2>1, <2>3 DEF EvidenceAt
        <5>5. CancelledAt(x)'
          BY <2>0, <2>3 DEF CancelledAt, Recovered
        <5> QED  BY <4>1, <5>1, <5>3, <5>4, <5>5 DEF RowAt
      <4>2. CASE y # x
        <5>1. workflow'[y] = "updating" => HasObservation(y)
          BY <2>0, <2>1, <4>2 DEF IInv, RowInv, RowAt, EvidenceAt
        <5> QED  BY <2>0, <2>5, <2>6, <4>2, <5>1, RowKept DEF IInv, RowInv
      <4> QED  BY <4>1, <4>2
    <3> QED  BY <3>1 DEF RowInv
  <2> QED  BY <2>4, <2>9, <2>11, <2>12 DEF IInv
<1> QED  BY <1>2, <1>3

\* ack: the item is marked; the row it loaded decides whether the row is dispatched.
LEMMA AckKeeps ==
  ASSUME IInv, NEW p \in Procs, CommitAck(p), UNCHANGED kind
  PROVE  IInv'
<1> DEFINE r == tx[p].request
           seen == tx[p].seen
<1>1. /\ r \in Request /\ seen \in Row /\ r.op \in Ops /\ r.item \in 1..Len(outbox)
      /\ outbox[r.item].op = r.op /\ Loaded(r, seen) /\ r.call = "ack"
  <2>1. tx[p] # NoTx /\ r.call = "ack"
    BY StepIsOpen DEF CommitAck
  <2>2. r \in Request /\ seen \in Row
    BY <2>1, OpenTransaction DEF IInv
  <2>3. Loaded(r, seen) /\ Asked(r)
    BY <2>1 DEF IInv, TxInv, TxAt
  <2> QED  BY <2>1, <2>2, <2>3 DEF Request, Asked
<1> SUFFICES ASSUME NEW i \in 1..Len(outbox), i = r.item, NEW o \in Ops, o = outbox[i].op, o = r.op,
                    NEW s \in Row, s = seen
             PROVE  IInv'
  BY <1>1
<1>2. /\ tx' = [tx EXCEPT ![p] = NoTx] /\ UNCHANGED <<log, workflow>>
      /\ outbox[i].acked # "no" => UNCHANGED <<op, outbox>>
      /\ outbox[i].acked = "no" =>
            /\ outbox' = [outbox EXCEPT ![i].acked = "device"]
            /\ op' = IF outbox[i].type = "dispatch" /\ s.status = "CONNECTING"
                       THEN [op EXCEPT ![o].status = "DISPATCHED"] ELSE op
  BY DEF CommitAck
<1>3. Loaded(r, s) /\ op[o].status # "ABSENT" /\ (Recovered(o) => s.status = "CANCELLED")
  BY <1>1 DEF Loaded
<1> HIDE DEF r, seen
<1>4. CASE outbox[i].acked # "no"
  BY <1>2, <1>4, GiveUpKeeps
<1>5. CASE outbox[i].acked = "no"
  <2>1. /\ outbox \in Seq(Item) /\ op \in [Ops -> Row] /\ log \in [Ops -> SUBSET Event]
        /\ tx \in [Procs -> Transaction] /\ Len(outbox) \in Nat
    BY DEF IInv, TypeOK
  <2> DEFINE new == [outbox[i] EXCEPT !.acked = "device"]
  <2>2. new \in Item /\ new.op = outbox[i].op /\ new.type = outbox[i].type /\ new.acked = "device"
    <3>1. outbox[i] \in Item
      BY <2>1, ElementOfSeq
    <3> QED  BY <3>1 DEF Item
  <2>3. outbox' = [outbox EXCEPT ![i] = new]
    BY <1>2, <1>5
  <2> HIDE DEF new
  <2>4. /\ outbox' \in Seq(Item) /\ Len(outbox') = Len(outbox)
        /\ \A j \in 1..Len(outbox) : outbox'[j] = IF j = i THEN new ELSE outbox[j]
    BY <2>1, <2>2, <2>3, ExceptSeq
  <2>5. OutboxGrows
    <3>1. \A j \in 1..Len(outbox) : outbox'[j].op = outbox[j].op /\ outbox'[j].type = outbox[j].type
      BY <2>2, <2>4
    <3> QED  BY <2>1, <2>4, <3>1 DEF OutboxGrows
  <2>6. \A j \in 1..Len(outbox) : outbox'[j].acked = "recovery" => outbox[j].acked = "recovery"
    BY <2>2, <2>4
  <2>7. /\ op' \in [Ops -> Row] /\ \A y \in Ops : op'[y].last = op[y].last
        /\ \A y \in Ops : op'[y].status = op[y].status \/ (y = o /\ op'[y].status = "DISPATCHED" /\ ~Recovered(o))
    <3>1. CASE op' = op
      BY <2>1, <3>1
    <3>2. CASE op' # op
      <4>1. op' = [op EXCEPT ![o].status = "DISPATCHED"] /\ ~Recovered(o)
        BY <1>2, <1>3, <1>5, <3>2
      <4> DEFINE row == [op[o] EXCEPT !.status = "DISPATCHED"]
      <4>2. row \in Row /\ row.status = "DISPATCHED" /\ row.last = op[o].last
        BY <2>1 DEF Row, Open
      <4>3. op' = [op EXCEPT ![o] = row]
        BY <4>1
      <4> HIDE DEF row
      <4> QED  BY <2>1, <4>1, <4>2, <4>3
    <3> QED  BY <3>1, <3>2
  <2>8. TypeOK'
    <3>1. tx' \in [Procs -> Transaction]
      BY <1>2, <2>1 DEF Transaction
    <3> QED  BY <1>2, <2>4, <2>7, <3>1 DEF IInv, TypeOK
  <2>9. HistoryGrows
    <3>1. ASSUME NEW y \in Ops
          PROVE  /\ log[y] \subseteq log'[y] /\ op[y].last <= op'[y].last
                 /\ op[y].status # "ABSENT" => op'[y].status # "ABSENT"
      <4>1. op[y].last \in Nat
        BY <2>1 DEF Row
      <4> QED  BY <1>2, <2>7, <4>1
    <3> QED  BY <2>5, <3>1 DEF HistoryGrows
  <2>10. NoRecovery
    BY <1>2 DEF NoRecovery, Recovered
  <2>11. TxInv'
    <3>1. \A q \in Procs : tx'[q] = tx[q] \/ tx'[q] = NoTx
      BY <1>2, <2>1
    <3> QED  BY <2>8, <2>9, <2>10, <3>1, TxKept DEF IInv, TxInv
  <2>12. ItemInv'
    <3>1. \A j \in 1..Len(outbox') : ~(j > Len(outbox))
      BY <2>1, <2>4
    <3> QED  BY <2>6, <2>8, <2>9, <3>1, ItemsKept DEF IInv
  <2>13. RowInv'
    <3>1. ASSUME NEW y \in Ops PROVE RowAt(y)'
      <4>1. workflow'[y] = "updating" => HasObservation(y)
        BY <1>2 DEF IInv, RowInv, RowAt, EvidenceAt
      <4>2. \/ op'[y].status = op[y].status
            \/ op[y].status # "ABSENT" /\ op'[y].status # "ABSENT" /\ ~Recovered(y)
        BY <1>3, <2>7
      <4> QED  BY <1>2, <2>5, <2>7, <4>1, <4>2, RowKept DEF IInv, RowInv
    <3> QED  BY <3>1 DEF RowInv
  <2> QED  BY <2>8, <2>11, <2>12, <2>13 DEF IInv
<1> QED  BY <1>4, <1>5

\* The rows a restart finds keep their place; cancel commands come behind them.
LEMMA RestartExtendsOutbox ==
  ASSUME TypeOK, Restart
  PROVE  /\ outbox' \in Seq(Item) /\ OutboxGrows
         /\ \A i \in 1..Len(outbox) : outbox'[i] = RetiredItem(outbox[i])
         /\ \A i \in 1..Len(outbox') : i > Len(outbox) => \E o \in Interrupted : outbox'[i] = Command(o, "cancel")
         /\ \A o \in Interrupted : \E i \in 1..Len(outbox') : i > Len(outbox) /\ outbox'[i] = Command(o, "cancel")
<1> DEFINE kept == [i \in DOMAIN outbox |-> RetiredItem(outbox[i])]
           cancels == CancelCommands(Interrupted)
           n == Len(outbox)
           m == Len(cancels)
<1>1. outbox \in Seq(Item) /\ n \in Nat /\ DOMAIN outbox = 1..n
  BY LenProperties DEF TypeOK
<1>2. \A item \in Item : RetiredItem(item) \in Item /\ RetiredItem(item).op = item.op /\ RetiredItem(item).type = item.type
  BY DEF RetiredItem, Item
<1>3. \A i \in 1..n : outbox[i] \in Item
  BY <1>1, ElementOfSeq
<1>4. kept \in Seq(Item) /\ Len(kept) = n /\ \A i \in 1..n : kept[i] = RetiredItem(outbox[i])
  <2>1. kept \in [1..n -> Item]
    BY <1>1, <1>2, <1>3
  <2> QED  BY <1>1, <2>1
<1>5. /\ cancels \in Seq(Item) /\ m \in Nat
      /\ \A i \in 1..m : \E o \in Interrupted : cancels[i] = Command(o, "cancel")
      /\ \A o \in Interrupted : \E i \in 1..m : cancels[i] = Command(o, "cancel")
  <2>1. Interrupted \in SUBSET Ops
    BY DEF Interrupted
  <2> QED  BY <2>1, CancelCommandsCover, LenProperties
<1>6. outbox' = kept \o cancels
  BY DEF Restart
<1> HIDE DEF kept, cancels, m, n
<1>7. /\ outbox' \in Seq(Item) /\ Len(outbox') = n + m
      /\ \A i \in 1..(n + m) : outbox'[i] = IF i <= n THEN kept[i] ELSE cancels[i - n]
  BY <1>4, <1>5, <1>6, ConcatProperties DEF m
<1>8. \A i \in 1..n : outbox'[i] = RetiredItem(outbox[i])
  BY <1>1, <1>4, <1>5, <1>7
<1>9. OutboxGrows
  BY <1>1, <1>2, <1>3, <1>5, <1>7, <1>8 DEF OutboxGrows, n
<1>10. ASSUME NEW i \in 1..Len(outbox'), i > n PROVE \E o \in Interrupted : outbox'[i] = Command(o, "cancel")
  <2>1. i - n \in 1..m /\ outbox'[i] = cancels[i - n]
    BY <1>1, <1>5, <1>7, <1>10
  <2> QED  BY <1>5, <2>1
<1>11. ASSUME NEW o \in Interrupted PROVE \E i \in 1..Len(outbox') : i > n /\ outbox'[i] = Command(o, "cancel")
  <2>1. PICK k \in 1..m : cancels[k] = Command(o, "cancel")
    BY <1>5
  <2>2. n + k \in 1..(n + m) /\ n + k > n /\ (n + k) - n = k /\ ~(n + k <= n)
    BY <1>1, <1>5
  <2>3. outbox'[n + k] = cancels[k]
    BY <1>7, <2>2
  <2> QED  BY <1>7, <2>1, <2>2, <2>3
<1> QED  BY <1>7, <1>8, <1>9, <1>10, <1>11 DEF n

\* Recovery: no transaction is open, so what it closes nobody has loaded before.
LEMMA RestartKeeps ==
  ASSUME IInv, Restart, UNCHANGED kind
  PROVE  IInv'
<1>1. /\ tx' = [p \in Procs |-> NoTx]
      /\ op' = [o \in Ops |-> IF o \in Interrupted
                              THEN [status |-> "CANCELLED", last |-> LastSequence(o) + 1] ELSE op[o]]
      /\ log' = [o \in Ops |-> IF o \in Interrupted
                   THEN log[o] \cup {[seq |-> LastSequence(o) + 1, id |-> "recovery",
                                      status |-> "CANCELLED", type |-> "recovery"]}
                   ELSE log[o]]
      /\ workflow' = [o \in Ops |-> IF op[o].status = "ABSENT" THEN "none" ELSE "finished"]
  BY DEF Restart, OpenTransactions
<1>2. /\ op \in [Ops -> Row] /\ log \in [Ops -> SUBSET Event] /\ \A o \in Ops : RowAt(o) /\ op[o].last \in Nat
      /\ \A o \in Ops : LastSequence(o) = op[o].last
  BY LastIsRows DEF IInv, TypeOK, RowInv, RowAt, Row
<1>3. /\ outbox' \in Seq(Item) /\ OutboxGrows
      /\ \A i \in 1..Len(outbox) : outbox'[i] = RetiredItem(outbox[i])
      /\ \A i \in 1..Len(outbox') : i > Len(outbox) => \E o \in Interrupted : outbox'[i] = Command(o, "cancel")
      /\ \A o \in Interrupted : \E i \in 1..Len(outbox') : i > Len(outbox) /\ outbox'[i] = Command(o, "cancel")
  BY RestartExtendsOutbox DEF IInv
<1>4. Interrupted \subseteq Ops /\ \A o \in Interrupted : op[o].status \in Open
  BY DEF Interrupted
<1> DEFINE Closing(n) == [seq |-> n, id |-> "recovery", status |-> "CANCELLED", type |-> "recovery"]
<1>5. ASSUME NEW o \in Interrupted
      PROVE  /\ op'[o].status = "CANCELLED" /\ op'[o].last = op[o].last + 1
             /\ log'[o] = log[o] \cup {Closing(op[o].last + 1)}
  BY <1>1, <1>2, <1>4
<1>6. ASSUME NEW o \in Ops, o \notin Interrupted PROVE op'[o] = op[o] /\ log'[o] = log[o]
  BY <1>1, <1>6
<1>7. TypeOK'
  <2>1. op' \in [Ops -> Row]
    <3>1. \A o \in Ops : [status |-> "CANCELLED", last |-> LastSequence(o) + 1] \in Row
      BY <1>2 DEF Row, Terminal
    <3> QED  BY <1>1, <1>2, <3>1
  <2>2. log' \in [Ops -> SUBSET Event]
    <3>1. \A o \in Ops : [seq |-> LastSequence(o) + 1, id |-> "recovery",
                          status |-> "CANCELLED", type |-> "recovery"] \in Event
      BY <1>2 DEF Event, EventIds, EventTypes, Terminal
    <3> QED  BY <1>1, <1>2, <3>1
  <2>3. tx' \in [Procs -> Transaction]
    BY <1>1 DEF Transaction
  <2>4. workflow' \in [Ops -> {"none", "polling", "updating", "finished"}]
    BY <1>1
  <2> QED  BY <1>3, <2>1, <2>2, <2>3, <2>4 DEF IInv, TypeOK
<1>8. TxInv'
  <2>1. \A p \in Procs : tx'[p] = NoTx
    BY <1>1
  <2> QED  BY <2>1 DEF TxInv, TxAt, NoTx
<1>9. HistoryGrows
  <2>1. ASSUME NEW o \in Ops
        PROVE  /\ log[o] \subseteq log'[o] /\ op[o].last <= op'[o].last
               /\ op[o].status # "ABSENT" => op'[o].status # "ABSENT"
    BY <1>2, <1>5, <1>6
  <2> QED  BY <1>3, <2>1 DEF HistoryGrows
<1>10. \A o \in Ops : workflow'[o] # "updating"
  BY <1>1
<1>11. RowInv'
  <2>1. ASSUME NEW o \in Interrupted PROVE RowAt(o)'
    <3>0. o \in Ops
      BY <1>4
    <3> DEFINE n == op[o].last + 1
               new == Closing(n)
    <3>1. /\ new.seq = n /\ new.id = "recovery" /\ new.status = "CANCELLED"
          /\ log'[o] = log[o] \cup {new} /\ op'[o].last = n /\ op'[o].status = "CANCELLED"
          /\ op[o].last \in Nat /\ n = op[o].last + 1
      BY <1>2, <1>5, <3>0
    <3>2. \A e \in log[o] : e.seq \in Nat /\ e.seq <= op[o].last /\ e.id # "recovery"
      <4>1. ~Recovered(o)
        BY <1>2, <1>4, <3>0 DEF RowAt, CancelledAt, Open
      <4> QED  BY <1>2, <3>0, <4>1 DEF RowAt, NumberedAt, Recovered, Event
    <3>3. op[o].status # "ABSENT"
      BY <1>4 DEF Open
    <3> HIDE DEF new, n
    <3>4. NumberedAt(o)'
      <4>1. \A e, f \in log'[o] : e.seq = f.seq \/ (e.id = f.id /\ e.id # "progress") => e = f
        BY <1>2, <3>0, <3>1, <3>2 DEF RowAt, NumberedAt
      <4>2. \A e \in log'[o] : e.seq <= op'[o].last
        BY <3>1, <3>2
      <4>3. ASSUME NEW k \in 1..op'[o].last PROVE \E e \in log'[o] : e.seq = k
        <5>1. CASE k = n
          BY <3>1, <5>1
        <5>2. CASE k # n
          <6>1. k \in 1..op[o].last
            BY <3>1, <5>2
          <6> QED  BY <1>2, <3>0, <3>1, <6>1 DEF RowAt, NumberedAt
        <5> QED  BY <5>1, <5>2
      <4> QED  BY <4>1, <4>2, <4>3 DEF NumberedAt
    <3>5. CreatedAt(o)'
      BY <1>2, <1>3, <3>0, <3>1, <3>3, QueuedStays DEF RowAt, CreatedAt
    <3>6. EvidenceAt(o)'
      <4>1. ASSUME kind[o] # "capture", NEW e \in log'[o], e.status = "SUCCEEDED"
            PROVE  e.id = "verified" /\ \E f \in log'[o] : f.type = "observation" /\ f.seq < e.seq
        BY <1>2, <3>0, <3>1, <4>1 DEF RowAt, EvidenceAt
      <4> QED  BY <1>10, <3>0, <4>1 DEF EvidenceAt
    <3>7. CancelledAt(o)'
      <4>1. PICK i \in 1..Len(outbox) : outbox[i].op = o /\ outbox[i].type = "dispatch"
        BY <1>2, <3>0, <3>3 DEF RowAt, CreatedAt, Dispatched
      <4>2. PICK j \in 1..Len(outbox') : j > Len(outbox) /\ outbox'[j] = Command(o, "cancel")
        BY <1>3
      <4>3. i \in 1..Len(outbox') /\ i < j /\ outbox'[i].op = o /\ outbox'[i].type = "dispatch"
        BY <1>3, <4>1, <4>2 DEF OutboxGrows
      <4>4. CancelQueued(o)'
        BY <4>2, <4>3 DEF CancelQueued, Command
      <4> QED  BY <3>1, <4>4 DEF CancelledAt
    <3> QED  BY <3>4, <3>5, <3>6, <3>7 DEF RowAt
  <2>2. ASSUME NEW o \in Ops, o \notin Interrupted PROVE RowAt(o)'
    BY <1>2, <1>3, <1>6, <1>10, <2>2, RowKept
  <2> QED  BY <2>1, <2>2 DEF RowInv
<1>12. ItemInv'
  <2> SUFFICES ASSUME NEW i \in 1..Len(outbox'), NEW o \in {outbox'[i].op}
               PROVE  op'[o].status # "ABSENT" /\ (outbox'[i].acked = "recovery" => Recovered(o)')
    BY DEF ItemInv, ItemAt
  <2>0. ASSUME NEW x \in Interrupted PROVE op'[x].status # "ABSENT" /\ Recovered(x)'
    <3> DEFINE new == Closing(op[x].last + 1)
    <3>1. op'[x].status = "CANCELLED" /\ log'[x] = log[x] \cup {new} /\ new.id = "recovery"
      BY <1>5
    <3> HIDE DEF new
    <3>2. new \in log'[x]
      BY <3>1
    <3> QED  BY <3>1, <3>2 DEF Recovered
  <2>1. CASE i > Len(outbox)
    <3>1. PICK x \in Interrupted : outbox'[i] = Command(x, "cancel")
      BY <1>3, <2>1
    <3>2. o = x
      BY <3>1 DEF Command
    <3> QED  BY <2>0, <3>2
  <2>2. CASE i \in 1..Len(outbox)
    <3>1. o = outbox[i].op /\ o \in Ops /\ outbox'[i] = RetiredItem(outbox[i])
      BY <1>3, <2>2, ItemsAreTyped DEF IInv, OutboxGrows
    <3>2. CASE o \in Interrupted
      BY <2>0, <3>2
    <3>3. CASE o \notin Interrupted
      <4>1. outbox'[i] = outbox[i]
        BY <3>1, <3>3 DEF RetiredItem
      <4>2. ItemAt(i) /\ o \in {outbox[i].op}
        BY <2>2, <3>1 DEF IInv, ItemInv
      <4> QED  BY <1>6, <3>1, <3>3, <4>1, <4>2 DEF ItemAt, Recovered
    <3> QED  BY <3>2, <3>3
  <2>3. Len(outbox) \in Nat /\ Len(outbox') \in Nat
    BY <1>3 DEF OutboxGrows
  <2> QED  BY <2>1, <2>2, <2>3
<1> QED  BY <1>7, <1>8, <1>11, <1>12 DEF IInv

-----------------------------------------------------------------------------
(* The theorems.                                                           *)

\* Every step keeps the invariant.
LEMMA NextIInv == IInv /\ [Next /\ UNCHANGED kind]_vars => IInv'
<1> SUFFICES ASSUME IInv, [Next /\ UNCHANGED kind]_vars PROVE IInv'
  OBVIOUS
<1>1. CASE Next /\ UNCHANGED kind
  <2>1. CASE Begins
    BY <1>1, <2>1, BeginKeeps
  <2>2. ASSUME NEW p \in Procs, Number(p) \/ Write(p) \/ CommitCreate(p) \/ CommitAck(p) \/ Abort(p)
        PROVE  IInv'
    <3>1. CASE Number(p)
      BY <1>1, <3>1, NumberKeeps
    <3>2. CASE Write(p)
      BY <1>1, <3>2, WriteKeeps
    <3>3. CASE CommitCreate(p)
      BY <1>1, <3>3, CreateKeeps
    <3>4. CASE CommitAck(p)
      BY <1>1, <3>4, AckKeeps
    <3>5. CASE Abort(p)
      BY <1>1, <3>5, GiveUpKeeps DEF Abort
    <3> QED  BY <2>2, <3>1, <3>2, <3>3, <3>4, <3>5
  <2>3. CASE Restart
    BY <1>1, <2>3, RestartKeeps
  <2> QED  BY <1>1, <2>1, <2>2, <2>3, StepKinds
<1>2. CASE UNCHANGED vars
  <2>1. TypeOK'
    BY <1>2 DEF IInv, TypeOK, vars
  <2>2. HistoryGrows /\ NoRecovery
    BY <1>2, QuietStep DEF IInv, vars
  <2>3. TxInv'
    BY <1>2, <2>1, <2>2, TxKept DEF IInv, TxInv, vars
  <2>4. RowInv'
    BY <1>2, <2>2, RowKept DEF IInv, RowInv, RowAt, EvidenceAt, HistoryGrows, vars
  <2>5. ItemInv'
    BY <1>2 DEF IInv, ItemInv, ItemAt, Recovered, vars
  <2> QED  BY <2>1, <2>3, <2>4, <2>5 DEF IInv
<1> QED  BY <1>1, <1>2

\* The store keeps its types and its invariant, whatever transactions overlap and
\* whenever the desktop restarts.
THEOREM StoreInvariant == Spec => []IInv
<1>1. Init => IInv
  BY InitIInv
<1>2. IInv /\ [Next /\ UNCHANGED kind]_vars => IInv'
  BY NextIInv
<1> QED  BY <1>1, <1>2, PTL DEF Spec

\* The log of every operation is a numbered history and its row points at the last
\* event, although no transaction of _append_event_in_session locks the row.
THEOREM LogsAreNumbered == Spec => []LogIsNumbered
<1>1. IInv => LogIsNumbered
  <2> SUFFICES ASSUME IInv, NEW o \in Ops
               PROVE  /\ \A e, f \in log[o] : e.seq = f.seq \/ (e.id = f.id /\ e.id # "progress") => e = f
                      /\ op[o].last = LastSequence(o)
    BY DEF LogIsNumbered
  <2>1. NumberedAt(o)
    BY DEF IInv, RowInv, RowAt
  <2> QED  BY <2>1, LastIsRows DEF IInv, NumberedAt
<1> QED  BY <1>1, StoreInvariant, PTL

\* A review or an observation succeeds only on an observation of the browser, and
\* by the workflow that checked it.
THEOREM SuccessesAreVerified == Spec => []SuccessIsVerified
<1>1. IInv => SuccessIsVerified
  BY DEF IInv, RowInv, RowAt, EvidenceAt, SuccessIsVerified
<1> QED  BY <1>1, StoreInvariant, PTL

\* Every cancellation, of the user, of a timed out workflow or of recovery, has its
\* command in the outbox behind the dispatch.
THEOREM CancellationsAreQueued == Spec => []CancelIsQueued
<1>1. IInv => CancelIsQueued
  BY DEF IInv, RowInv, RowAt, CancelledAt, CancelQueued, CancelIsQueued
<1> QED  BY <1>1, StoreInvariant, PTL

\* An operation whose dispatch recovery retired stays cancelled.
THEOREM RetiredStayCancelled == Spec => []RetiredStaysCancelled
<1>1. IInv => RetiredStaysCancelled
  <2> SUFFICES ASSUME IInv, NEW i \in 1..Len(outbox), outbox[i].acked = "recovery",
                      NEW o \in {outbox[i].op}
               PROVE  op[o].status = "CANCELLED"
    BY DEF RetiredStaysCancelled
  <2>1. o \in Ops
    BY ItemsAreTyped DEF IInv
  <2>2. Recovered(o)
    BY DEF IInv, ItemInv, ItemAt
  <2> QED  BY <2>1, <2>2 DEF IInv, RowInv, RowAt, CancelledAt
<1> QED  BY <1>1, StoreInvariant, PTL

\* Only a transaction that loaded the row while it was open changes the status of a
\* closed operation.
THEOREM ClosedRowsNeedStaleReads == Spec => OnlyStaleWritesReopen
<1> DEFINE ByStaleWrite(o) == \E p \in Procs : /\ tx[p] # NoTx /\ tx'[p] = NoTx
                                               /\ tx[p].request.op = o
                                               /\ tx[p].seen.status \in Open
           Kept == \A o \in Ops : op[o].status \in Terminal /\ op'[o].status # op[o].status => ByStaleWrite(o)
<1>1. ASSUME IInv, Next, UNCHANGED kind PROVE Kept
  <2> SUFFICES ASSUME NEW o \in Ops, op[o].status \in Terminal, op'[o].status # op[o].status
               PROVE  ByStaleWrite(o)
    OBVIOUS
  <2>0. op \in [Ops -> Row] /\ tx \in [Procs -> Transaction]
    BY <1>1 DEF IInv, TypeOK
  <2>1. ASSUME NEW p \in Procs, Write(p) PROVE ByStaleWrite(o)
    <3> DEFINE r == tx[p].request
               seen == tx[p].seen
    <3>1. tx[p] # NoTx /\ tx[p].step = "numbered" /\ tx'[p] = NoTx
      BY <2>0, <2>1, StepIsOpen DEF Write
    <3>2. /\ seen \in Row /\ Loaded(r, seen) /\ r.call # "create" /\ r.to \in AllowedFrom(seen.status)
      BY <1>1, <3>1, OpenTransaction DEF IInv, TxInv, TxAt, Follows
    <3>3. o = r.op /\ op'[o].status = StatusWritten(o, seen, r.to)
      BY <2>0, <2>1 DEF Write
    <3> HIDE DEF r, seen
    <3>4. r.to # seen.status
      BY <3>3 DEF StatusWritten
    <3>5. seen.status \notin Terminal
      <4>1. \A s \in Terminal : Transitions(s) = {s}
        BY DEF Transitions, Terminal
      <4> QED  BY <3>2, <3>4, <4>1 DEF AllowedFrom
    <3>6. seen.status \in Open
      BY <3>2, <3>5 DEF Row, Loaded
    <3> QED  BY <3>1, <3>3, <3>6 DEF r, seen
  <2>2. ASSUME NEW p \in Procs, CommitAck(p) PROVE ByStaleWrite(o)
    <3>1. tx[p] # NoTx /\ tx'[p] = NoTx /\ tx[p].request.call = "ack"
      BY <2>0, <2>2, StepIsOpen DEF CommitAck
    <3>2. o = outbox[tx[p].request.item].op /\ tx[p].seen.status = "CONNECTING"
      BY <2>0, <2>2 DEF CommitAck
    <3>3. outbox[tx[p].request.item].op = tx[p].request.op
      <4>1. ASSUME NEW r \in {tx[p].request}, NEW s \in {tx[p].seen} PROVE Asked(r)
        BY <1>1, <3>1 DEF IInv, TxInv, TxAt
      <4> QED  BY <3>1, <4>1 DEF Asked
    <3> QED  BY <3>1, <3>2, <3>3 DEF Open
  <2>3. ASSUME NEW p \in Procs, CommitCreate(p) PROVE FALSE
    BY <2>0, <2>3 DEF CommitCreate, Terminal
  <2>4. CASE Restart
    <3>1. o \notin Interrupted
      BY DEF Interrupted, Terminal, Open
    <3> QED  BY <2>4, <3>1 DEF Restart
  <2>5. ASSUME NEW p \in Procs, Number(p) \/ Abort(p) PROVE FALSE
    BY <2>5 DEF Number, Abort
  <2>6. CASE Begins
    BY <2>6 DEF Begins, Load
  <2> QED  BY <1>1, <2>1, <2>2, <2>3, <2>4, <2>5, <2>6, StepKinds
<1>2. ASSUME IInv, [Next /\ UNCHANGED kind]_vars PROVE [Kept]_vars
  BY <1>1, <1>2
<1>3. Spec => [][Kept]_vars
  BY <1>2, StoreInvariant, PTL DEF Spec
<1> QED  BY <1>3 DEF OnlyStaleWritesReopen
==============================================================================
