------------------------- MODULE BridgeDeliveryProofs -------------------------
(***************************************************************************)
(* The delivery of commands to the device, for any number of operations,   *)
(* connections, writers and outbox rows: no command is skipped by the      *)
(* high-water mark of a connection, none runs its review twice, and a      *)
(* cancelled review is idle.                                               *)
(***************************************************************************)
EXTENDS BridgeDelivery, FiniteSetTheorems, SequenceTheorems, TLAPS

-----------------------------------------------------------------------------
(* The inductive invariant.                                                *)

\* Rows of the outbox that have been committed.
Stored == {s \in Sequence : item[s] # None}
Pending(s) == item[s] # None /\ ~item[s].acked

\* One transaction at a time holds the cursor, and the number it holds is the
\* last one given out: no committed row has that number or a later one.
Numbered ==
    /\ \A w \in Writers : writing[w] # None => writing[w].seq = cursor
    /\ \A v, w \in Writers : writing[v] # None /\ writing[w] # None => v = w
    /\ \A s \in Stored : s <= cursor
    /\ \A s \in Stored, w \in Writers : writing[w] # None => s < cursor

\* What is about to be sent, was sent or is in flight has been committed.
OnlyStored ==
    /\ batch.items \subseteq Stored
    /\ \A c \in Conns : down[c] \in Seq(Stored) /\ up[c] \in Seq(Stored)
    /\ current # None => conn[current].last \in Stored \cup {0}

\* A connection that is registered or has a batch has been opened.
Opened ==
    /\ current # None => conn[current].state = "open"
    /\ batch.items # {} => batch.conn \in Conns
    /\ batch.conn # None => conn[batch.conn].state # "unused"

\* The batch of the registered connection continues where its mark stands and
\* leaves no unacknowledged row out.
BatchIsNext ==
    current # None /\ batch.conn = current =>
        /\ \A s \in batch.items : s > conn[current].last
        /\ \A s \in batch.items : \A t \in Sequence :
              Pending(t) /\ conn[current].last < t /\ t <= s => t \in batch.items

\* The client keeps every operation it has met, and has met what it reviewed.
Remembered ==
    /\ active \subseteq seen /\ told \subseteq seen
    /\ \A o \in Ops : reviews[o] = 0 \/ o \in seen

QueueInv == TypeOK /\ Numbered /\ OnlyStored /\ Opened /\ BatchIsNext /\ NothingSkipped
ClientInv == reviews \in [Ops -> Nat] /\ Remembered /\ OneReviewPerOperation /\ ToldIsIdle

-----------------------------------------------------------------------------
(* The client.                                                             *)

\* The client's invariant holds at first.
LEMMA InitClientInv == Init => ClientInv
  BY DEF Init, ClientInv, Remembered, OneReviewPerOperation, ToldIsIdle

\* A message changes the client's sets only as its operation and kind say: a
\* review starts only for an operation not met before, and a cancel stops it.
LEMMA ReceiveClientInv ==
  ASSUME ClientInv, NEW c \in Conns, ClientReceives(c)
  PROVE  ClientInv'
<1> DEFINE s == Head(down[c])
           o == item[s].op
<1>1. /\ seen' = seen \cup {o}
      /\ active' = ActiveAfter(s)
      /\ reviews' = IF StartsReview(s) THEN [reviews EXCEPT ![o] = @ + 1] ELSE reviews
      /\ told' = IF item[s].type = "cancel" THEN told \cup {o} ELSE told
  BY DEF ClientReceives
<1>2. CASE StartsReview(s)
  <2>1. item[s].type = "dispatch" /\ o \notin seen
    BY <1>2 DEF StartsReview
  <2>2. active' = active \cup {o} /\ told' = told /\ reviews' = [reviews EXCEPT ![o] = @ + 1]
    BY <1>1, <1>2, <2>1 DEF ActiveAfter
  <2> HIDE DEF s, o
  <2>3. reviews \in [Ops -> Nat] /\ (\A p \in Ops : reviews[p] <= 1 /\ (reviews[p] = 0 \/ p \in seen))
    BY DEF ClientInv, Remembered, OneReviewPerOperation
  <2>4. reviews' \in [Ops -> Nat] /\ (\A p \in Ops : reviews'[p] <= 1 /\ (reviews'[p] = 0 \/ p \in seen'))
    <3>1. seen' = seen \cup {o}
      BY <1>1
    <3>2. reviews' \in [Ops -> Nat]
      <4>1. CASE o \in Ops
        <5>1. reviews[o] + 1 \in Nat
          BY <2>3, <4>1
        <5> QED  BY <2>2, <2>3, <5>1
      <4>2. CASE o \notin Ops
        BY <2>2, <2>3, <4>2
      <4> QED  BY <4>1, <4>2
    <3>3. ASSUME NEW p \in Ops, p # o PROVE reviews'[p] = reviews[p]
      BY <2>2, <2>3, <3>3
    <3>4. o \in Ops => reviews'[o] = 1
      BY <2>1, <2>2, <2>3
    <3> QED  BY <2>3, <3>1, <3>2, <3>3, <3>4
  <2>5. active' \subseteq seen' /\ told' \subseteq seen' /\ told' \cap active' = {}
    BY <1>1, <2>1, <2>2 DEF ClientInv, Remembered, ToldIsIdle
  <2> QED  BY <2>4, <2>5 DEF ClientInv, Remembered, OneReviewPerOperation, ToldIsIdle
<1>3. CASE ~StartsReview(s) /\ item[s].type = "cancel"
  <2>1. active' = active \ {o} /\ told' = told \cup {o} /\ reviews' = reviews
    BY <1>1, <1>3 DEF ActiveAfter
  <2> HIDE DEF s, o
  <2> QED  BY <1>1, <2>1 DEF ClientInv, Remembered, OneReviewPerOperation, ToldIsIdle
<1>4. CASE ~StartsReview(s) /\ item[s].type # "cancel"
  <2>1. active' = active /\ told' = told /\ reviews' = reviews
    BY <1>1, <1>4 DEF ActiveAfter
  <2> HIDE DEF s, o
  <2> QED  BY <1>1, <2>1 DEF ClientInv, Remembered, OneReviewPerOperation, ToldIsIdle
<1> QED  BY <1>2, <1>3, <1>4

\* Every step keeps the client's invariant.
LEMMA NextClientInv ==
  ASSUME ClientInv, [Next]_vars
  PROVE  ClientInv'
<1>1. CASE UNCHANGED device
  BY <1>1 DEF ClientInv, Remembered, OneReviewPerOperation, ToldIsIdle, device
<1>2. ASSUME NEW c \in Conns, ClientReceives(c) PROVE ClientInv'
  BY <1>2, ReceiveClientInv
<1>3. CASE UNCHANGED <<seen, told, reviews>> /\ active' \subseteq active
  BY <1>3 DEF ClientInv, Remembered, OneReviewPerOperation, ToldIsIdle
<1>4. ASSUME NEW c \in Conns, SocketLost(c) \/ CloseCompletes(c) PROVE ClientInv'
  BY <1>3, <1>4 DEF SocketLost, CloseCompletes
<1>5. ASSUME NEW o \in Ops, ReviewEnds(o) PROVE ClientInv'
  BY <1>3, <1>5 DEF ReviewEnds
<1>6. ASSUME NEW w \in Writers, CommitItem(w) \/ RollBack(w) PROVE ClientInv'
  BY <1>1, <1>6 DEF CommitItem, RollBack
<1>7. ASSUME NEW w \in Writers, NEW o \in Ops, NEW type, TakeNumber(w, o, type) PROVE ClientInv'
  BY <1>1, <1>7 DEF TakeNumber
<1>8. ASSUME NEW c \in Conns, Connect(c) \/ ReceiveLoopEnds(c) \/ ServerReceives(c) PROVE ClientInv'
  BY <1>1, <1>8 DEF Connect, ReceiveLoopEnds, ServerReceives
<1>9. CASE CloseDevice \/ FetchBatch \/ SendItem \/ SendFails
  BY <1>1, <1>9 DEF CloseDevice, FetchBatch, SendItem, SendFails
<1>10. CASE UNCHANGED vars
  BY <1>1, <1>10 DEF vars
<1> QED  BY <1>2, <1>4, <1>5, <1>6, <1>7, <1>8, <1>9, <1>10 DEF Next

\* However often a command is delivered, an operation is reviewed at most once.
THEOREM ReviewsRunOnce == Spec => []OneReviewPerOperation
<1>1. ClientInv /\ [Next]_vars => ClientInv'
  BY NextClientInv
<1>2. ClientInv => OneReviewPerOperation
  BY DEF ClientInv
<1> QED  BY InitClientInv, <1>1, <1>2, PTL DEF Spec

\* What the client was told to cancel it neither runs nor has queued.
THEOREM CancelledReviewsAreIdle == Spec => []ToldIsIdle
<1>1. ClientInv /\ [Next]_vars => ClientInv'
  BY NextClientInv
<1>2. ClientInv => ToldIsIdle
  BY DEF ClientInv
<1> QED  BY InitClientInv, <1>1, <1>2, PTL DEF Spec

-----------------------------------------------------------------------------
(* The rows a fetch returns.                                               *)

\* There are finitely many unacknowledged rows.
LEMMA UnackedIsFinite ==
  ASSUME NEW after, NEW T \in SUBSET Unacked(after)
  PROVE  IsFiniteSet(T)
<1>1. IsFiniteSet(Sequence)
  BY FS_Interval, DeliveryAssumption DEF Sequence
<1>2. T \in SUBSET Sequence
  BY DEF Unacked
<1> QED  BY <1>1, <1>2, FS_Subset

\* Of two unacknowledged rows the earlier one has fewer rows before it.
LEMMA EarlierHasFewerBefore ==
  ASSUME NEW after, NEW s \in Unacked(after), NEW t \in Unacked(after), s < t
  PROVE  Cardinality({u \in Unacked(after) : u < s}) < Cardinality({u \in Unacked(after) : u < t})
<1> DEFINE B(x) == {u \in Unacked(after) : u < x}
<1>1. IsFiniteSet(B(t)) /\ IsFiniteSet(B(s))
  BY UnackedIsFinite
<1>2. B(s) \in SUBSET B(t) /\ B(s) # B(t)
  <2>1. Unacked(after) \subseteq Nat
    BY DeliveryAssumption DEF Unacked, Sequence
  <2>2. s \in B(t) /\ s \notin B(s)
    BY <2>1
  <2> QED  BY <2>1, <2>2
<1>3. Cardinality(B(s)) \in Nat /\ Cardinality(B(t)) \in Nat
  BY <1>1, FS_CardinalityType
<1>4. Cardinality(B(s)) <= Cardinality(B(t)) /\ Cardinality(B(s)) # Cardinality(B(t))
  BY <1>1, <1>2, FS_Subset
<1> HIDE DEF B
<1>5. Cardinality(B(s)) < Cardinality(B(t))
  BY <1>3, <1>4
<1> QED  BY <1>5 DEF B

\* A fetch returns the oldest unacknowledged rows beyond its mark, at most
\* MaxBatch of them.
LEMMA FetchedIsOldest ==
  ASSUME NEW after
  PROVE  /\ Fetched(after) \subseteq Unacked(after)
         /\ \A s \in Fetched(after), t \in Unacked(after) : t <= s => t \in Fetched(after)
         /\ Cardinality(Fetched(after)) <= MaxBatch
<1> DEFINE Before(x) == Cardinality({u \in Unacked(after) : u < x})
<1>1. Fetched(after) = {s \in Unacked(after) : Before(s) < MaxBatch}
  BY DEF Fetched
<1>2. \A s \in Unacked(after) : Before(s) \in Nat
  BY UnackedIsFinite, FS_CardinalityType
<1>3. \A s, t \in Unacked(after) : s < t => Before(s) < Before(t)
  BY EarlierHasFewerBefore
<1>4. Unacked(after) \subseteq Nat
  BY DeliveryAssumption DEF Unacked, Sequence
<1> HIDE DEF Before
<1>5. \A s \in Fetched(after), t \in Unacked(after) : t <= s => t \in Fetched(after)
  BY <1>1, <1>2, <1>3, <1>4, DeliveryAssumption
<1>6. Cardinality(Fetched(after)) <= MaxBatch
  <2> DEFINE slot == [s \in Fetched(after) |-> Before(s)]
  <2>1. slot \in [Fetched(after) -> 0..(MaxBatch - 1)]
    BY <1>1, <1>2, DeliveryAssumption
  <2>2. \A s, t \in Fetched(after) : slot[s] = slot[t] => s = t
    BY <1>1, <1>2, <1>3, <1>4
  <2>3. slot \in Injection(Fetched(after), 0..(MaxBatch - 1))
    BY <2>1, <2>2 DEF Injection, IsInjective
  <2>4. IsFiniteSet(0..(MaxBatch - 1)) /\ Cardinality(0..(MaxBatch - 1)) = MaxBatch
    BY FS_Interval, DeliveryAssumption
  <2> HIDE DEF slot
  <2> QED  BY <2>3, <2>4, FS_Injection
<1> QED  BY <1>1, <1>5, <1>6

-----------------------------------------------------------------------------
(* The queue: every step keeps each part of its invariant.                 *)

\* The first state satisfies the queue's invariant.
LEMMA InitQueueInv == Init => QueueInv
<1>1. Init => TypeOK
  <2>1. Cardinality({}) = 0
    BY FS_EmptySet
  <2>2. <<>> \in Seq(Sequence)
    BY EmptySeq
  <2>3. 0 \in 0..MaxItems
    BY DeliveryAssumption
  <2>4. Init => batch \in [conn : Conns \cup {None}, items : SUBSET Sequence]
    BY DEF Init, NoBatch
  <2>5. Init => Cardinality(batch.items) <= MaxBatch
    BY <2>1, DeliveryAssumption DEF Init, NoBatch
  <2>6. Init => down \in [Conns -> Seq(Sequence)] /\ up \in [Conns -> Seq(Sequence)]
    BY <2>2 DEF Init
  <2>7. Init => conn \in [Conns -> [state : {"unused", "open", "closing", "closed"}, last : 0..MaxItems]]
    BY <2>3 DEF Init
  <2>8. Init => /\ cursor \in 0..MaxItems
                /\ writing \in [Writers -> {None} \cup [op : Ops, type : {"dispatch", "cancel"}, seq : Sequence]]
                /\ item \in [Sequence -> {None} \cup Row]
                /\ sent \in [Conns -> SUBSET Sequence] /\ reviews \in [Ops -> Nat]
    BY <2>3 DEF Init
  <2> QED  BY <2>3, <2>4, <2>5, <2>6, <2>7, <2>8 DEF Init, TypeOK
<1>2. Init => Numbered /\ Opened /\ BatchIsNext /\ NothingSkipped
  BY DEF Init, Numbered, Opened, BatchIsNext, NothingSkipped, NoBatch, Stored
<1>3. Init => OnlyStored
  BY EmptySeq DEF Init, OnlyStored, NoBatch
<1> QED  BY <1>1, <1>2, <1>3 DEF QueueInv

\* An acknowledged row is a row.
LEMMA AckedRow ==
  ASSUME NEW row \in Row
  PROVE  [row EXCEPT !.acked = TRUE] \in Row /\ [row EXCEPT !.acked = TRUE].acked = TRUE
  BY DEF Row

\* A row of the outbox, once committed, stays, and is never unacknowledged again.
LEMMA RowsStay ==
  ASSUME TypeOK, Numbered, OnlyStored, [Next]_vars
  PROVE  \A s \in Stored : item'[s] # None /\ (Pending(s)' => Pending(s))
<1>1. CASE UNCHANGED item
  BY <1>1 DEF Stored, Pending
<1>2. ASSUME NEW w \in Writers, CommitItem(w), NEW s \in Stored
      PROVE  item'[s] # None /\ (Pending(s)' => Pending(s))
  <2>1. writing[w].seq \in Sequence /\ s # writing[w].seq
    BY <1>2 DEF TypeOK, Numbered, CommitItem, Stored, Sequence
  <2> QED  BY <1>2, <2>1 DEF TypeOK, CommitItem, Stored, Pending
<1>3. ASSUME NEW c \in Conns, ServerReceives(c), NEW s \in Stored
      PROVE  item'[s] # None /\ (Pending(s)' => Pending(s))
  <2>1. Head(up[c]) \in Stored
    BY <1>3 DEF TypeOK, OnlyStored, ServerReceives
  <2>2. item' = [item EXCEPT ![Head(up[c])].acked = TRUE]
    BY <1>3 DEF ServerReceives
  <2> DEFINE row == item[Head(up[c])]
             new == [row EXCEPT !.acked = TRUE]
  <2>3. row \in Row /\ item \in [Sequence -> {None} \cup Row]
    BY <2>1 DEF TypeOK, Stored
  <2>4. new \in Row /\ new.acked = TRUE
    BY <2>3, AckedRow
  <2>5. item' = [item EXCEPT ![Head(up[c])] = new]
    BY <2>2
  <2>6. new # None
    BY <2>4, DeliveryAssumption
  <2> HIDE DEF new, row
  <2> QED  BY <2>1, <2>3, <2>4, <2>5, <2>6 DEF Stored, Pending
<1>4. ASSUME NEW w \in Writers, RollBack(w) \/ (\E o \in Ops, type \in {"dispatch", "cancel"} : TakeNumber(w, o, type))
      PROVE  UNCHANGED item
  BY <1>4 DEF TakeNumber, RollBack
<1>5. ASSUME NEW c \in Conns, 
             Connect(c) \/ SocketLost(c) \/ ReceiveLoopEnds(c) \/ CloseCompletes(c) \/ ClientReceives(c)
      PROVE  UNCHANGED item
  BY <1>5 DEF Connect, SocketLost, ReceiveLoopEnds, CloseCompletes, ClientReceives, store
<1>6. ASSUME CloseDevice \/ FetchBatch \/ SendItem \/ SendFails \/ UNCHANGED vars
      PROVE  UNCHANGED item
  BY <1>6 DEF CloseDevice, FetchBatch, SendItem, SendFails, store, vars
<1>7. ASSUME NEW o \in Ops, ReviewEnds(o) PROVE UNCHANGED item
  BY <1>7 DEF ReviewEnds, store
<1> QED  BY <1>1, <1>2, <1>3, <1>4, <1>5, <1>6, <1>7 DEF Next

\* A message leaves the front of a queue of stored rows, or joins its end.
LEMMA QueueOfStored ==
  ASSUME NEW S, NEW q \in Seq(S)
  PROVE  /\ \A s \in S : Append(q, s) \in Seq(S)
         /\ q # <<>> => Head(q) \in S /\ Tail(q) \in Seq(S)
         /\ \A T : S \subseteq T => q \in Seq(T)
<1>1. \A s \in S : Append(q, s) \in Seq(S)
  BY AppendProperties
<1>2. q # <<>> => Head(q) \in S /\ Tail(q) \in Seq(S)
  BY HeadTailProperties
<1>3. ASSUME NEW T, S \subseteq T PROVE q \in Seq(T)
  <2>1. PICK n \in Nat : q \in [1..n -> S]
    BY SeqDef
  <2>2. q \in [1..n -> T]
    BY <1>3, <2>1
  <2> QED  BY <2>2, SeqDef
<1> QED  BY <1>1, <1>2, <1>3

\* The steps of the outbox keep every type.
LEMMA StoreTypeOK ==
  ASSUME TypeOK, Numbered, OnlyStored,
         \/ \E w \in Writers : CommitItem(w) \/ RollBack(w)
         \/ \E w \in Writers, o \in Ops, type \in {"dispatch", "cancel"} : TakeNumber(w, o, type)
         \/ \E c \in Conns : ServerReceives(c)
  PROVE  TypeOK'
<1>1. ASSUME NEW w \in Writers, CommitItem(w) PROVE TypeOK'
  <2>1. writing[w].seq \in Sequence
    BY <1>1 DEF TypeOK, CommitItem
  <2>2. item' = [item EXCEPT ![writing[w].seq] =
                   [op |-> writing[w].op, type |-> writing[w].type, acked |-> FALSE]]
    BY <1>1 DEF CommitItem
  <2>3. [op |-> writing[w].op, type |-> writing[w].type, acked |-> FALSE] \in Row
    BY <1>1 DEF TypeOK, CommitItem, Row
  <2>4. item' \in [Sequence -> {None} \cup Row]
    BY <2>1, <2>2, <2>3 DEF TypeOK
  <2> QED  BY <1>1, <2>4 DEF TypeOK, CommitItem, device
<1>2. ASSUME NEW w \in Writers, RollBack(w) PROVE TypeOK'
  <2>1. writing[w].seq - 1 \in 0..MaxItems
    BY <1>2, DeliveryAssumption DEF TypeOK, RollBack, Sequence
  <2> QED  BY <1>2, <2>1 DEF TypeOK, RollBack, device
<1>3. ASSUME NEW w \in Writers, NEW o \in Ops, NEW type \in {"dispatch", "cancel"},
             TakeNumber(w, o, type)
      PROVE  TypeOK'
  <2>1. cursor + 1 \in Sequence /\ cursor + 1 \in 0..MaxItems
    <3>1. cursor \in 0..MaxItems /\ cursor < MaxItems
      BY <1>3 DEF TypeOK, TakeNumber
    <3> QED  BY <3>1, DeliveryAssumption DEF Sequence
  <2>2. [op |-> o, type |-> type, seq |-> cursor + 1]
            \in [op : Ops, type : {"dispatch", "cancel"}, seq : Sequence]
    BY <2>1
  <2>3. writing' \in [Writers -> {None} \cup [op : Ops, type : {"dispatch", "cancel"}, seq : Sequence]]
    BY <1>3, <2>2 DEF TypeOK, TakeNumber
  <2> QED  BY <1>3, <2>1, <2>3 DEF TypeOK, TakeNumber, device
<1>4. ASSUME NEW c \in Conns, ServerReceives(c) PROVE TypeOK'
  <2>1. /\ Head(up[c]) \in Stored
        /\ up[c] # <<>> /\ up[c] \in Seq(Sequence)
    BY <1>4 DEF TypeOK, OnlyStored, ServerReceives
  <2>2. Tail(up[c]) \in Seq(Sequence)
    BY <2>1, QueueOfStored
  <2>3. up' \in [Conns -> Seq(Sequence)]
    BY <1>4, <2>2 DEF TypeOK, ServerReceives
  <2> DEFINE row == item[Head(up[c])]
             new == [row EXCEPT !.acked = TRUE]
  <2>4. row \in Row /\ item \in [Sequence -> {None} \cup Row]
    BY <2>1 DEF TypeOK, Stored
  <2>5. new \in Row
    BY <2>4, AckedRow
  <2>6. item' = [item EXCEPT ![Head(up[c])] = new]
    BY <1>4 DEF ServerReceives
  <2>7. item' \in [Sequence -> {None} \cup Row]
    <3> HIDE DEF new, row
    <3> QED  BY <2>4, <2>5, <2>6
  <2>8. connected' \in BOOLEAN
    BY <1>4 DEF ServerReceives
  <2> HIDE DEF new, row
  <2> QED  BY <1>4, <2>3, <2>7, <2>8 DEF TypeOK, ServerReceives, device
<1> QED  BY <1>1, <1>2, <1>3, <1>4

\* The steps of the connections keep every type.
LEMMA ConnectionTypeOK ==
  ASSUME TypeOK,
         \/ \E c \in Conns : Connect(c) \/ SocketLost(c) \/ ReceiveLoopEnds(c) \/ CloseCompletes(c)
         \/ CloseDevice \/ SendFails
  PROVE  TypeOK'
<1> DEFINE Connection == [state : {"unused", "open", "closing", "closed"}, last : 0..MaxItems]
<1>0. /\ conn \in [Conns -> Connection] /\ current \in Conns \cup {None}
      /\ None \notin Conns /\ 0 \in 0..MaxItems
  BY DeliveryAssumption DEF TypeOK
<1>1. ASSUME NEW f \in [Conns -> Connection], NEW c \in Conns,
             NEW state \in {"unused", "open", "closing", "closed"}
      PROVE  [f EXCEPT ![c].state = state] \in [Conns -> Connection]
  <2>1. [f[c] EXCEPT !.state = state] \in Connection
    OBVIOUS
  <2> QED  BY <2>1
<1>2. ASSUME NEW c \in Conns, Connect(c) PROVE TypeOK'
  <2>1. conn' \in [Conns -> Connection]
    <3>1. \A d \in Conns : [conn[d] EXCEPT !.state = "closing"] \in Connection
      BY <1>0
    <3>2. [state |-> "open", last |-> 0] \in Connection
      BY <1>0
    <3> HIDE DEF Connection
    <3> QED  BY <1>0, <1>2, <3>1, <3>2 DEF Connect
  <2> QED  BY <1>2, <2>1 DEF TypeOK, Connect, device, store
<1>3. ASSUME NEW c \in Conns, SocketLost(c) PROVE TypeOK'
  <2>1. <<>> \in Seq(Sequence)
    BY EmptySeq
  <2> QED  BY <1>3, <2>1 DEF TypeOK, SocketLost, store
<1>4. ASSUME NEW c \in Conns, ReceiveLoopEnds(c) PROVE TypeOK'
  <2>1. conn' \in [Conns -> Connection]
    <3> HIDE DEF Connection
    <3> QED  BY <1>0, <1>1, <1>4 DEF ReceiveLoopEnds
  <2> QED  BY <1>4, <2>1 DEF TypeOK, ReceiveLoopEnds, Unregister, device, store
<1>5. ASSUME NEW c \in Conns, CloseCompletes(c) PROVE TypeOK'
  <2>1. conn' \in [Conns -> Connection]
    <3> HIDE DEF Connection
    <3> QED  BY <1>0, <1>1, <1>5 DEF CloseCompletes
  <2>2. <<>> \in Seq(Sequence)
    BY EmptySeq
  <2> QED  BY <1>5, <2>1, <2>2 DEF TypeOK, CloseCompletes, store
<1>6. CASE CloseDevice
  <2>1. conn' \in [Conns -> Connection]
    <3> HIDE DEF Connection
    <3> QED  BY <1>0, <1>1, <1>6 DEF CloseDevice
  <2> QED  BY <1>6, <2>1 DEF TypeOK, CloseDevice, Unregister, device, store
<1>7. CASE SendFails
  <2>1. conn' \in [Conns -> Connection]
    <3> HIDE DEF Connection
    <3> QED  BY <1>0, <1>1, <1>7 DEF SendFails, TypeOK, NoBatch
  <2>2. batch' \in [conn : Conns \cup {None}, items : SUBSET Sequence] /\ Cardinality(batch'.items) <= MaxBatch
    BY <1>7, FS_EmptySet, DeliveryAssumption DEF SendFails, NoBatch
  <2> QED  BY <1>7, <2>1, <2>2 DEF TypeOK, SendFails, Unregister, device, store
<1> QED  BY <1>2, <1>3, <1>4, <1>5, <1>6, <1>7

\* The steps of dispatch_pending and of the client keep every type.
LEMMA TransferTypeOK ==
  ASSUME TypeOK, OnlyStored, Opened, ClientInv,
         \/ FetchBatch \/ SendItem
         \/ \E c \in Conns : ClientReceives(c)
         \/ \E o \in Ops : ReviewEnds(o)
  PROVE  TypeOK'
<1>1. CASE FetchBatch
  <2>1. batch' = [conn |-> current, items |-> Fetched(DispatchedUpTo(current))] /\ current \in Conns
    BY <1>1 DEF FetchBatch, TypeOK
  <2>2. Fetched(DispatchedUpTo(current)) \in SUBSET Sequence
    BY FetchedIsOldest DEF Unacked
  <2>3. Cardinality(Fetched(DispatchedUpTo(current))) <= MaxBatch
    BY FetchedIsOldest
  <2> QED  BY <1>1, <2>1, <2>2, <2>3 DEF FetchBatch, TypeOK, device, store
<1>2. CASE SendItem
  <2>1. batch' \in [conn : Conns \cup {None}, items : SUBSET Sequence] /\ Cardinality(batch'.items) <= MaxBatch
    <3>1. Cardinality({}) <= MaxBatch
      BY FS_EmptySet, DeliveryAssumption
    <3>2. CASE batch' = NoBatch
      BY <3>1, <3>2 DEF NoBatch
    <3>3. ASSUME NEW s \in batch.items, batch' = [batch EXCEPT !.items = @ \ {s}]
          PROVE  batch' \in [conn : Conns \cup {None}, items : SUBSET Sequence] /\ Cardinality(batch'.items) <= MaxBatch
      <4>1. batch' \in [conn : Conns \cup {None}, items : SUBSET Sequence] /\ batch'.items = batch.items \ {s}
        BY <3>3 DEF TypeOK
      <4>2. IsFiniteSet(batch.items)
        <5>1. batch.items \in SUBSET (1..MaxItems)
          BY DEF TypeOK, Sequence
        <5>2. IsFiniteSet(1..MaxItems)
          BY FS_Interval, DeliveryAssumption
        <5> QED  BY <5>1, <5>2, FS_Subset
      <4>3. Cardinality(batch'.items) <= Cardinality(batch.items)
        BY <4>1, <4>2, FS_Subset
      <4>4. IsFiniteSet(batch'.items)
        BY <4>1, <4>2, FS_Subset
      <4>5. Cardinality(batch.items) \in Nat /\ Cardinality(batch'.items) \in Nat
        BY <4>2, <4>4, FS_CardinalityType
      <4>6. Cardinality(batch.items) <= MaxBatch
        BY DEF TypeOK
      <4> QED  BY <4>1, <4>3, <4>5, <4>6, DeliveryAssumption
    <3> QED  BY <1>2, <3>2, <3>3 DEF SendItem, BatchAfter
  <2>2. CASE current # batch.conn
    BY <1>2, <2>1, <2>2 DEF SendItem, TypeOK, device, store
  <2>3. CASE current = batch.conn
    <3>1. PICK s \in batch.items :
              /\ conn' = [conn EXCEPT ![current].last = s]
              /\ sent' = [sent EXCEPT ![current] = @ \cup {s}]
              /\ down' = IF socket = current THEN [down EXCEPT ![current] = Append(@, s)] ELSE down
      BY <1>2, <2>3 DEF SendItem
    <3>2. s \in Sequence /\ s \in 0..MaxItems
      BY DeliveryAssumption DEF TypeOK, Sequence
    <3>3. current \in Conns
      BY <2>3 DEF Opened
    <3>4. conn' \in [Conns -> [state : {"unused", "open", "closing", "closed"}, last : 0..MaxItems]]
      <4> DEFINE Connection == [state : {"unused", "open", "closing", "closed"}, last : 0..MaxItems]
                 new == [conn[current] EXCEPT !.last = s]
      <4>1. conn \in [Conns -> Connection]
        BY DEF TypeOK
      <4>2. new \in Connection
        BY <3>2, <3>3, <4>1
      <4>3. conn' = [conn EXCEPT ![current] = new]
        BY <3>1
      <4> HIDE DEF Connection, new
      <4>4. conn' \in [Conns -> Connection]
        BY <4>1, <4>2, <4>3
      <4> QED  BY <4>4 DEF Connection
    <3>5. sent' \in [Conns -> SUBSET Sequence]
      BY <3>1, <3>2, <3>3 DEF TypeOK
    <3>6. Append(down[current], s) \in Seq(Sequence)
      BY <3>2, <3>3, QueueOfStored DEF TypeOK
    <3>7. down' \in [Conns -> Seq(Sequence)]
      BY <3>1, <3>6 DEF TypeOK
    <3> QED  BY <1>2, <2>1, <3>4, <3>5, <3>7 DEF SendItem, TypeOK, device, store
  <2> QED  BY <2>2, <2>3
<1>3. ASSUME NEW c \in Conns, ClientReceives(c) PROVE TypeOK'
  <2> DEFINE s == Head(down[c])
  <2>1. down[c] \in Seq(Sequence) /\ down[c] \in Seq(Stored) /\ down[c] # <<>> /\ up[c] \in Seq(Sequence)
    BY <1>3 DEF TypeOK, OnlyStored, ClientReceives
  <2>2. s \in Stored /\ s \in Sequence /\ Tail(down[c]) \in Seq(Sequence)
    BY <2>1, QueueOfStored
  <2>3. Append(up[c], s) \in Seq(Sequence)
    BY <2>1, <2>2, QueueOfStored
  <2>4. up' = [up EXCEPT ![c] = Append(@, s)] /\ down' = [down EXCEPT ![c] = Tail(@)]
    BY <1>3 DEF ClientReceives
  <2>5. up' \in [Conns -> Seq(Sequence)] /\ down' \in [Conns -> Seq(Sequence)]
    <3> HIDE DEF s
    <3> QED  BY <2>2, <2>3, <2>4 DEF TypeOK
  <2>6. item[s].op \in Ops
    BY <2>2 DEF TypeOK, Stored, Row
  <2>7. seen' \subseteq Ops /\ active' \subseteq Ops /\ told' \subseteq Ops
    <3>1. /\ seen' = seen \cup {item[s].op}
          /\ active' = ActiveAfter(s)
          /\ told' = IF item[s].type = "cancel" THEN told \cup {item[s].op} ELSE told
      BY <1>3 DEF ClientReceives
    <3>2. seen \subseteq Ops /\ active \subseteq Ops /\ told \subseteq Ops
      BY DEF TypeOK
    <3> HIDE DEF s
    <3> QED  BY <2>6, <3>1, <3>2 DEF ActiveAfter
  <2>8. reviews' \in [Ops -> Nat]
    BY <1>3, ReceiveClientInv DEF ClientInv
  <2>9. UNCHANGED <<store, current, conn, batch, connected, socket, sent>>
    BY <1>3 DEF ClientReceives
  <2> QED  BY <2>5, <2>7, <2>8, <2>9 DEF TypeOK, store
<1>4. ASSUME NEW o \in Ops, ReviewEnds(o) PROVE TypeOK'
  BY <1>4 DEF ReviewEnds, TypeOK, store
<1> QED  BY <1>1, <1>2, <1>3, <1>4

\* Every step keeps every type.
LEMMA NextTypeOK ==
  ASSUME TypeOK, Numbered, OnlyStored, Opened, ClientInv, [Next]_vars
  PROVE  TypeOK'
<1>1. CASE UNCHANGED vars
  BY <1>1 DEF TypeOK, vars, store, device
<1> QED  BY <1>1, StoreTypeOK, ConnectionTypeOK, TransferTypeOK DEF Next

\* The cursor row is locked while a number is out: numbers commit in order.
LEMMA NextNumbered ==
  ASSUME TypeOK, Numbered, OnlyStored, [Next]_vars
  PROVE  Numbered'
<1>1. CASE UNCHANGED <<cursor, writing, item>>
  BY <1>1 DEF Numbered, Stored
<1>2. ASSUME NEW w \in Writers, NEW o \in Ops, NEW type \in {"dispatch", "cancel"}, TakeNumber(w, o, type)
      PROVE  Numbered'
  <2>1. /\ \A v \in Writers : writing[v] = None
        /\ cursor' = cursor + 1 /\ UNCHANGED item
        /\ writing' = [writing EXCEPT ![w] = [op |-> o, type |-> type, seq |-> cursor + 1]]
    BY <1>2 DEF TakeNumber, CursorFree
  <2>2. \A v \in Writers : v # w => writing'[v] = None
    BY <2>1 DEF TypeOK
  <2>3. writing'[w].seq = cursor'
    BY <2>1 DEF TypeOK
  <2>4. Stored' = Stored /\ Stored \subseteq Nat /\ cursor \in Nat
    BY <2>1, DeliveryAssumption DEF Stored, Sequence, TypeOK
  <2>5. \A s \in Stored : s < cursor' /\ s <= cursor'
    <3>1. \A s \in Stored : s <= cursor
      BY DEF Numbered
    <3> QED  BY <2>1, <2>4, <3>1
  <2>6. \A v \in Writers : writing'[v] # None => v = w /\ writing'[v].seq = cursor'
    BY <2>2, <2>3
  <2> QED  BY <2>4, <2>5, <2>6 DEF Numbered
<1>3. ASSUME NEW w \in Writers, CommitItem(w) PROVE Numbered'
  <2>1. /\ writing[w].seq = cursor /\ cursor' = cursor /\ writing[w] # None
        /\ \A v \in Writers : v # w => writing[v] = None
    BY <1>3 DEF CommitItem, Numbered
  <2>2. \A v \in Writers : writing'[v] = None
    BY <1>3, <2>1 DEF CommitItem, TypeOK
  <2>3. Stored' \subseteq Stored \cup {cursor}
    BY <1>3, <2>1 DEF CommitItem, TypeOK, Stored
  <2>4. Stored \subseteq Nat /\ cursor \in Nat
    BY DeliveryAssumption DEF Stored, Sequence, TypeOK
  <2>5. \A s \in Stored' : s <= cursor'
    BY <2>1, <2>3, <2>4 DEF Numbered
  <2> QED  BY <2>2, <2>5 DEF Numbered
<1>4. ASSUME NEW w \in Writers, RollBack(w) PROVE Numbered'
  <2>1. /\ writing[w].seq = cursor /\ cursor' = cursor - 1 /\ UNCHANGED item /\ writing[w] # None
        /\ \A v \in Writers : v # w => writing[v] = None
    BY <1>4 DEF RollBack, Numbered
  <2>2. \A v \in Writers : writing'[v] = None
    BY <1>4, <2>1 DEF RollBack, TypeOK
  <2>3. Stored' = Stored /\ Stored \subseteq Nat /\ cursor \in Nat
    BY <2>1, DeliveryAssumption DEF Stored, Sequence, TypeOK
  <2>4. \A s \in Stored : s <= cursor'
    <3>1. \A s \in Stored : s < cursor
      BY <2>1 DEF Numbered
    <3>2. ASSUME NEW s \in Stored PROVE s <= cursor'
      <4>1. s < cursor /\ s \in Nat /\ cursor \in Nat /\ cursor' = cursor - 1
        BY <2>1, <2>3, <3>1
      <4> QED  BY <4>1
    <3> QED  BY <3>2
  <2> QED  BY <2>2, <2>3, <2>4 DEF Numbered
<1>5. ASSUME NEW c \in Conns, ServerReceives(c) PROVE Numbered'
  <2>1. Head(up[c]) \in Stored
    BY <1>5 DEF TypeOK, OnlyStored, ServerReceives
  <2>2. Stored' \subseteq Stored
    BY <1>5, <2>1 DEF ServerReceives, Stored, TypeOK
  <2>3. UNCHANGED <<cursor, writing>>
    BY <1>5 DEF ServerReceives
  <2> QED  BY <2>2, <2>3 DEF Numbered
<1>6. ASSUME NEW c \in Conns,
             Connect(c) \/ SocketLost(c) \/ ReceiveLoopEnds(c) \/ CloseCompletes(c) \/ ClientReceives(c)
      PROVE  Numbered'
  BY <1>1, <1>6 DEF Connect, SocketLost, ReceiveLoopEnds, CloseCompletes, ClientReceives, store
<1>7. CASE CloseDevice \/ FetchBatch \/ SendItem \/ SendFails \/ UNCHANGED vars
  BY <1>1, <1>7 DEF CloseDevice, FetchBatch, SendItem, SendFails, store, vars
<1>8. ASSUME NEW o \in Ops, ReviewEnds(o) PROVE Numbered'
  BY <1>1, <1>8 DEF ReviewEnds, store
<1> QED  BY <1>2, <1>3, <1>4, <1>5, <1>6, <1>7, <1>8 DEF Next

\* A connection with a batch was opened, and the registered one is open.
LEMMA NextOpened ==
  ASSUME TypeOK, Opened, [Next]_vars
  PROVE  Opened'
<1>0. None \notin Conns /\ current \in Conns \cup {None} /\ batch.conn \in Conns \cup {None}
  BY DeliveryAssumption DEF TypeOK
<1>1. CASE UNCHANGED <<current, batch, conn>>
  BY <1>1 DEF Opened
<1>2. ASSUME NEW c \in Conns, Connect(c) PROVE Opened'
  BY <1>0, <1>2 DEF Opened, Connect, TypeOK
<1>3. ASSUME NEW c \in Conns, ReceiveLoopEnds(c) PROVE Opened'
  <2>1. conn' = [conn EXCEPT ![c].state = "closed"] /\ UNCHANGED batch /\ current' = IF current = c THEN None ELSE current
    BY <1>3 DEF ReceiveLoopEnds, Unregister
  <2> QED  BY <1>0, <2>1 DEF Opened, TypeOK
<1>4. ASSUME NEW c \in Conns, CloseCompletes(c) PROVE Opened'
  <2>1. conn' = [conn EXCEPT ![c].state = "closed"] /\ UNCHANGED <<batch, current>> /\ conn[c].state = "closing"
    BY <1>4 DEF CloseCompletes
  <2> QED  BY <1>0, <2>1 DEF Opened, TypeOK
<1>5. CASE CloseDevice
  <2>1. conn' = [conn EXCEPT ![current].state = "closing"] /\ UNCHANGED batch /\ current' = None
    BY <1>5 DEF CloseDevice, Unregister
  <2> QED  BY <1>0, <2>1 DEF Opened, TypeOK
<1>6. CASE FetchBatch
  BY <1>0, <1>6 DEF Opened, FetchBatch
<1>7. CASE SendItem
  <2>1. CASE batch' = NoBatch
    <3>1. current' = current /\ (conn' = conn \/ \E s : conn' = [conn EXCEPT ![current].last = s])
      BY <1>7 DEF SendItem
    <3> QED  BY <1>0, <2>1, <3>1 DEF Opened, TypeOK, NoBatch
  <2>2. ASSUME NEW s, batch' = [batch EXCEPT !.items = @ \ {s}], conn' = [conn EXCEPT ![current].last = s],
               UNCHANGED current
        PROVE  Opened'
    BY <1>0, <2>2 DEF Opened, TypeOK
  <2> QED  BY <1>7, <2>1, <2>2 DEF SendItem, BatchAfter
<1>8. CASE SendFails
  <2>1. batch' = NoBatch /\ current' = None
    BY <1>8 DEF SendFails, Unregister
  <2> QED  BY <2>1 DEF Opened, NoBatch
<1>9. ASSUME NEW c \in Conns, SocketLost(c) \/ ClientReceives(c) \/ ServerReceives(c) PROVE Opened'
  BY <1>1, <1>9 DEF SocketLost, ClientReceives, ServerReceives
<1>10. ASSUME NEW w \in Writers, CommitItem(w) \/ RollBack(w)
                \/ \E o \in Ops, type \in {"dispatch", "cancel"} : TakeNumber(w, o, type)
       PROVE  Opened'
  BY <1>1, <1>10 DEF CommitItem, RollBack, TakeNumber
<1>11. ASSUME NEW o \in Ops, ReviewEnds(o) PROVE Opened'
  BY <1>1, <1>11 DEF ReviewEnds
<1>12. CASE UNCHANGED vars
  BY <1>1, <1>12 DEF vars
<1> QED  BY <1>2, <1>3, <1>4, <1>5, <1>6, <1>7, <1>8, <1>9, <1>10, <1>11, <1>12 DEF Next

\* A row committed by a step has a later number than every row before it.
LEMMA NewRowsAreLast ==
  ASSUME TypeOK, Numbered, OnlyStored, [Next]_vars
  PROVE  /\ Stored \subseteq Stored'
         /\ \A t \in Stored' : t \in Stored \/ \A s \in Stored : s < t
<1>0. Stored \subseteq Stored'
  BY RowsStay DEF Stored
<1>1. CASE Stored' \subseteq Stored
  BY <1>0, <1>1
<1>2. ASSUME NEW w \in Writers, CommitItem(w)
      PROVE  \A t \in Stored' : t \in Stored \/ \A s \in Stored : s < t
  <2>1. writing[w].seq = cursor /\ writing[w] # None
    BY <1>2 DEF CommitItem, Numbered
  <2>2. Stored' \subseteq Stored \cup {cursor}
    BY <1>2, <2>1 DEF CommitItem, TypeOK, Stored
  <2> QED  BY <2>1, <2>2 DEF Numbered
<1>3. ASSUME NEW c \in Conns, ServerReceives(c) PROVE Stored' \subseteq Stored
  <2>1. Head(up[c]) \in Stored
    BY <1>3 DEF TypeOK, OnlyStored, ServerReceives
  <2> QED  BY <1>3, <2>1 DEF ServerReceives, Stored, TypeOK
<1>4. CASE UNCHANGED item
  BY <1>0, <1>4 DEF Stored
<1>5. ASSUME NEW w \in Writers, RollBack(w) \/ (\E o \in Ops, type \in {"dispatch", "cancel"} : TakeNumber(w, o, type))
      PROVE  UNCHANGED item
  BY <1>5 DEF TakeNumber, RollBack
<1>6. ASSUME NEW c \in Conns,
             Connect(c) \/ SocketLost(c) \/ ReceiveLoopEnds(c) \/ CloseCompletes(c) \/ ClientReceives(c)
      PROVE  UNCHANGED item
  BY <1>6 DEF Connect, SocketLost, ReceiveLoopEnds, CloseCompletes, ClientReceives, store
<1>7. ASSUME CloseDevice \/ FetchBatch \/ SendItem \/ SendFails \/ UNCHANGED vars
      PROVE  UNCHANGED item
  BY <1>7 DEF CloseDevice, FetchBatch, SendItem, SendFails, store, vars
<1>8. ASSUME NEW o \in Ops, ReviewEnds(o) PROVE UNCHANGED item
  BY <1>8 DEF ReviewEnds, store
<1> QED  BY <1>0, <1>1, <1>2, <1>3, <1>4, <1>5, <1>6, <1>7, <1>8 DEF Next

\* What is sent and what is answered stays within the committed rows.
LEMMA NextOnlyStored ==
  ASSUME TypeOK, Numbered, OnlyStored, Opened, [Next]_vars
  PROVE  OnlyStored'
<1>0. Stored \subseteq Stored' /\ None \notin Conns
  BY NewRowsAreLast, DeliveryAssumption
<1>1. \A c \in Conns : down[c] \in Seq(Stored') /\ up[c] \in Seq(Stored')
  BY <1>0, QueueOfStored DEF OnlyStored
<1>2. <<>> \in Seq(Stored')
  BY EmptySeq
<1> DEFINE Queues == \A c \in Conns : down'[c] \in Seq(Stored') /\ up'[c] \in Seq(Stored')
           Mark == current' # None => conn'[current'].last \in Stored' \cup {0}
           Batch == batch'.items \subseteq Stored'
<1>3. ASSUME UNCHANGED <<down, up>> PROVE Queues
  BY <1>1, <1>3
<1>4. ASSUME UNCHANGED <<batch, current, conn>> PROVE Batch /\ Mark
  BY <1>0, <1>4 DEF OnlyStored
<1>5. ASSUME NEW w \in Writers, CommitItem(w) \/ RollBack(w)
                \/ \E o \in Ops, type \in {"dispatch", "cancel"} : TakeNumber(w, o, type)
      PROVE  Queues /\ Batch /\ Mark
  BY <1>3, <1>4, <1>5 DEF CommitItem, RollBack, TakeNumber
<1>6. ASSUME NEW c \in Conns, Connect(c) PROVE Queues /\ Batch /\ Mark
  <2>1. UNCHANGED <<down, up, batch>> /\ current' = c /\ conn'[c].last = 0
    BY <1>6 DEF Connect
  <2> QED  BY <1>0, <1>3, <2>1 DEF OnlyStored
<1>7. ASSUME NEW c \in Conns, SocketLost(c) PROVE Queues /\ Batch /\ Mark
  <2>1. UNCHANGED <<batch, current, conn, up>> /\ down' = [down EXCEPT ![c] = <<>>]
    BY <1>7 DEF SocketLost
  <2> QED  BY <1>1, <1>2, <1>4, <2>1 DEF TypeOK
<1>8. ASSUME NEW c \in Conns, ReceiveLoopEnds(c) PROVE Queues /\ Batch /\ Mark
  <2>1. /\ UNCHANGED <<down, up, batch>> /\ conn' = [conn EXCEPT ![c].state = "closed"]
        /\ current' = IF current = c THEN None ELSE current
    BY <1>8 DEF ReceiveLoopEnds, Unregister
  <2>2. current' # None => current' = current /\ conn'[current] = conn[current]
    BY <2>1 DEF TypeOK
  <2> QED  BY <1>0, <1>3, <2>1, <2>2 DEF OnlyStored
<1>9. ASSUME NEW c \in Conns, CloseCompletes(c) PROVE Queues /\ Batch /\ Mark
  <2>1. /\ UNCHANGED <<batch, current>> /\ conn' = [conn EXCEPT ![c].state = "closed"]
        /\ conn[c].state = "closing"
        /\ down' = [down EXCEPT ![c] = <<>>] /\ up' = [up EXCEPT ![c] = <<>>]
    BY <1>9 DEF CloseCompletes
  <2>2. Queues
    BY <1>1, <1>2, <2>1 DEF TypeOK
  <2>3. current # None => current # c /\ conn'[current] = conn[current]
    BY <2>1 DEF Opened, TypeOK
  <2>4. Mark /\ Batch
    BY <1>0, <2>1, <2>3 DEF OnlyStored
  <2> QED  BY <2>2, <2>4
<1>10. ASSUME CloseDevice \/ SendFails PROVE Queues /\ Batch /\ Mark
  <2>1. UNCHANGED <<down, up>> /\ current' = None /\ (batch' = batch \/ batch' = NoBatch)
    BY <1>10 DEF CloseDevice, SendFails, Unregister
  <2> QED  BY <1>0, <1>3, <2>1 DEF OnlyStored, NoBatch
<1>11. ASSUME FetchBatch PROVE Queues /\ Batch /\ Mark
  <2>1. /\ UNCHANGED <<down, up, current, conn, item>>
        /\ batch'.items = Fetched(DispatchedUpTo(current))
    BY <1>11 DEF FetchBatch, store
  <2>2. batch'.items \subseteq Stored
    BY <2>1, FetchedIsOldest DEF Unacked, Stored
  <2> QED  BY <1>0, <1>3, <2>1, <2>2 DEF OnlyStored
<1>12. ASSUME SendItem PROVE Queues /\ Batch /\ Mark
  <2>1. CASE current # batch.conn
    <3>1. UNCHANGED <<down, up, current, conn>> /\ batch' = NoBatch
      BY <1>12, <2>1 DEF SendItem
    <3> QED  BY <1>0, <1>3, <3>1 DEF OnlyStored, NoBatch
  <2>2. CASE current = batch.conn
    <3>1. PICK s \in batch.items :
              /\ conn' = [conn EXCEPT ![current].last = s]
              /\ down' = IF socket = current THEN [down EXCEPT ![current] = Append(@, s)] ELSE down
              /\ batch' = BatchAfter(s) /\ UNCHANGED <<up, current>>
      BY <1>12, <2>2 DEF SendItem
    <3>2. s \in Stored' /\ current \in Conns
      BY <1>0, <2>2 DEF OnlyStored, Opened
    <3>3. Append(down[current], s) \in Seq(Stored')
      BY <1>1, <3>2, QueueOfStored
    <3>4. Queues
      BY <1>1, <3>1, <3>3 DEF TypeOK
    <3>5. Batch
      BY <1>0, <3>1 DEF OnlyStored, BatchAfter, NoBatch, TypeOK
    <3>6. Mark
      BY <3>1, <3>2 DEF TypeOK
    <3> QED  BY <3>4, <3>5, <3>6
  <2> QED  BY <2>1, <2>2
<1>13. ASSUME NEW c \in Conns, ClientReceives(c) PROVE Queues /\ Batch /\ Mark
  <2>1. /\ up' = [up EXCEPT ![c] = Append(@, Head(down[c]))]
        /\ down' = [down EXCEPT ![c] = Tail(@)] /\ down[c] # <<>>
        /\ UNCHANGED <<batch, current, conn>>
    BY <1>13 DEF ClientReceives
  <2>2. Tail(down[c]) \in Seq(Stored') /\ Append(up[c], Head(down[c])) \in Seq(Stored')
    BY <1>1, <2>1, QueueOfStored
  <2>3. Queues
    BY <1>1, <2>1, <2>2 DEF TypeOK
  <2> QED  BY <1>4, <2>1, <2>3
<1>14. ASSUME NEW c \in Conns, ServerReceives(c) PROVE Queues /\ Batch /\ Mark
  <2>1. up' = [up EXCEPT ![c] = Tail(@)] /\ up[c] # <<>> /\ UNCHANGED <<down, batch, current, conn>>
    BY <1>14 DEF ServerReceives
  <2>2. Tail(up[c]) \in Seq(Stored')
    BY <1>1, <2>1, QueueOfStored
  <2>3. Queues
    BY <1>1, <2>1, <2>2 DEF TypeOK
  <2> QED  BY <1>4, <2>1, <2>3
<1>15. ASSUME NEW o \in Ops, ReviewEnds(o) PROVE Queues /\ Batch /\ Mark
  BY <1>3, <1>4, <1>15 DEF ReviewEnds
<1>16. ASSUME UNCHANGED vars PROVE Queues /\ Batch /\ Mark
  BY <1>3, <1>4, <1>16 DEF vars
<1>17. Queues /\ Batch /\ Mark
  BY <1>5, <1>6, <1>7, <1>8, <1>9, <1>10, <1>11, <1>12, <1>13, <1>14, <1>15, <1>16 DEF Next
<1> QED  BY <1>17 DEF OnlyStored

\* A step that leaves the registered connection, its mark, its batch and what was
\* sent on it alone keeps the mark's meaning: only later rows are committed.
LEMMA MarkStaysComplete ==
  ASSUME TypeOK, Numbered, OnlyStored, [Next]_vars,
         current # None, BatchIsNext, NothingSkipped
  PROVE  /\ \A s \in 1..conn[current].last : Pending(s)' => s \in sent[current]
         /\ batch.conn = current =>
               \A s \in batch.items : \A t \in Sequence :
                   Pending(t)' /\ conn[current].last < t /\ t <= s => t \in batch.items
<1>0. /\ conn[current].last \in Stored \cup {0} /\ batch.items \subseteq Stored
      /\ Stored \subseteq Nat /\ Stored \subseteq Sequence /\ Sequence \subseteq Nat
      /\ conn[current].last \in 0..MaxItems
  BY DeliveryAssumption DEF OnlyStored, Stored, Sequence, TypeOK
<1>1. ASSUME NEW t \in Sequence, Pending(t)', NEW s \in Stored, t <= s PROVE Pending(t)
  <2>1. t \in Stored'
    BY <1>1 DEF Pending, Stored, Sequence
  <2>2. ~(s < t)
    BY <1>0, <1>1
  <2>3. t \in Stored
    BY <2>1, <2>2, NewRowsAreLast
  <2> QED  BY <1>1, <2>3, RowsStay
<1>2. ASSUME NEW s \in 1..conn[current].last, Pending(s)' PROVE s \in sent[current]
  <2>1. s \in Sequence /\ conn[current].last \in Stored /\ s <= conn[current].last
    BY <1>0, DeliveryAssumption DEF Sequence
  <2>2. Pending(s)
    BY <1>1, <1>2, <2>1
  <2> QED  BY <2>2 DEF NothingSkipped, Pending
<1>3. ASSUME NEW s \in batch.items, NEW t \in Sequence, batch.conn = current,
             Pending(t)', conn[current].last < t, t <= s
      PROVE  t \in batch.items
  <2>1. Pending(t)
    BY <1>0, <1>1, <1>3
  <2> QED  BY <1>3, <2>1 DEF BatchIsNext
<1> QED  BY <1>2, <1>3

\* Every step keeps the meaning of the registered connection's mark and batch.
LEMMA NextNothingSkipped ==
  ASSUME TypeOK, Numbered, OnlyStored, Opened, BatchIsNext, NothingSkipped, [Next]_vars
  PROVE  BatchIsNext' /\ NothingSkipped'
<1>0. None \notin Conns /\ current \in Conns \cup {None}
  BY DeliveryAssumption DEF TypeOK
<1>1. CASE current' = None
  BY <1>1 DEF BatchIsNext, NothingSkipped
<1>2. ASSUME UNCHANGED <<current, sent>>, batch' = batch \/ batch' = NoBatch,
             current # None => conn'[current].last = conn[current].last
      PROVE  BatchIsNext' /\ NothingSkipped'
  <2>1. CASE current # None
    <3>1. NothingSkipped'
      BY <1>2, <2>1, MarkStaysComplete DEF NothingSkipped, Pending
    <3>2. CASE batch' = NoBatch
      BY <2>1, <1>2, <3>1, <3>2 DEF BatchIsNext, NoBatch
    <3>3. CASE batch' = batch
      <4>1. /\ current' = current /\ conn'[current].last = conn[current].last
        BY <1>2, <2>1
      <4>2. batch.conn = current =>
               /\ \A s \in batch.items : s > conn[current].last
               /\ \A s \in batch.items : \A t \in Sequence :
                     Pending(t)' /\ conn[current].last < t /\ t <= s => t \in batch.items
        BY <2>1, MarkStaysComplete DEF BatchIsNext
      <4>3. BatchIsNext'
        BY <3>3, <4>1, <4>2 DEF BatchIsNext
      <4> QED  BY <3>1, <4>3
    <3> QED  BY <1>2, <3>2, <3>3
  <2> QED  BY <1>1, <1>2, <2>1
<1>3. ASSUME NEW w \in Writers, CommitItem(w) \/ RollBack(w)
                \/ \E o \in Ops, type \in {"dispatch", "cancel"} : TakeNumber(w, o, type)
      PROVE  BatchIsNext' /\ NothingSkipped'
  BY <1>2, <1>3 DEF CommitItem, RollBack, TakeNumber
<1>4. ASSUME NEW c \in Conns, Connect(c) PROVE BatchIsNext' /\ NothingSkipped'
  <2>1. /\ UNCHANGED batch /\ current' = c /\ conn[c].state = "unused"
        /\ conn'[c].last = 0
    BY <1>4 DEF Connect
  <2>2. batch'.conn # current'
    BY <1>0, <2>1 DEF Opened
  <2> QED  BY <2>1, <2>2 DEF BatchIsNext, NothingSkipped
<1>5. ASSUME NEW c \in Conns, ReceiveLoopEnds(c) PROVE BatchIsNext' /\ NothingSkipped'
  <2>1. /\ UNCHANGED <<batch, sent>> /\ conn' = [conn EXCEPT ![c].state = "closed"]
        /\ current' = IF current = c THEN None ELSE current
    BY <1>5 DEF ReceiveLoopEnds, Unregister
  <2>2. current' # None => current' = current /\ conn'[current].last = conn[current].last
    BY <2>1 DEF TypeOK
  <2> QED  BY <1>1, <1>2, <2>1, <2>2
<1>6. ASSUME NEW c \in Conns, CloseCompletes(c) PROVE BatchIsNext' /\ NothingSkipped'
  <2>1. UNCHANGED <<batch, current, sent>> /\ conn' = [conn EXCEPT ![c].state = "closed"]
    BY <1>6 DEF CloseCompletes
  <2>2. current # None => conn'[current].last = conn[current].last
    BY <1>0, <2>1 DEF TypeOK
  <2> QED  BY <1>2, <2>1, <2>2
<1>7. CASE CloseDevice \/ SendFails
  BY <1>1, <1>7 DEF CloseDevice, SendFails, Unregister
<1>8. CASE FetchBatch
  <2> DEFINE last == conn[current].last
             rows == Fetched(last)
  <2>1. /\ UNCHANGED <<current, conn, item, sent>> /\ current # None
        /\ batch' = [conn |-> current, items |-> rows]
    BY <1>8 DEF FetchBatch, DispatchedUpTo, store
  <2>2. rows \subseteq Unacked(last) /\ \A s \in rows, t \in Unacked(last) : t <= s => t \in rows
    BY FetchedIsOldest
  <2>3. last \in Nat /\ Sequence \subseteq Nat /\ current \in Conns
    BY <1>0, <2>1, DeliveryAssumption DEF TypeOK, Sequence
  <2> HIDE DEF rows, last
  <2>4. \A s \in rows : s > last
    BY <2>2, <2>3 DEF Unacked
  <2>5. \A s \in rows : \A t \in Sequence : Pending(t) /\ last < t /\ t <= s => t \in rows
    BY <2>2, <2>3 DEF Unacked, Pending
  <2>6. conn'[current'].last = last
    BY <2>1 DEF last
  <2>7. \A t : Pending(t)' <=> Pending(t)
    BY <2>1 DEF Pending
  <2>8. BatchIsNext'
    BY <2>1, <2>4, <2>5, <2>6, <2>7 DEF BatchIsNext
  <2>9. NothingSkipped'
    BY <2>1 DEF NothingSkipped
  <2> QED  BY <2>8, <2>9
<1>9. CASE SendItem
  <2>1. CASE current # batch.conn
    BY <1>2, <1>9, <2>1 DEF SendItem
  <2>2. CASE current = batch.conn
    <3> DEFINE last == conn[current].last
    <3>1. PICK s \in batch.items :
              /\ \A t \in batch.items : s <= t
              /\ conn' = [conn EXCEPT ![current].last = s]
              /\ sent' = [sent EXCEPT ![current] = @ \cup {s}]
              /\ batch' = BatchAfter(s) /\ UNCHANGED <<item, current>>
      BY <1>9, <2>2 DEF SendItem, store
    <3>2. /\ current \in Conns /\ current # None /\ s \in Sequence /\ Sequence \subseteq Nat
          /\ batch.items \subseteq Sequence /\ last \in Nat
      BY <1>0, <2>2, DeliveryAssumption DEF Opened, TypeOK, Sequence
    <3>3. conn'[current].last = s /\ sent'[current] = sent[current] \cup {s}
      BY <3>1, <3>2 DEF TypeOK
    <3>4. s > last /\ \A t \in batch.items : t > last
      BY <2>2, <3>2 DEF BatchIsNext
    <3>5. \A r \in batch.items : \A t \in Sequence : Pending(t) /\ last < t /\ t <= r => t \in batch.items
      BY <2>2, <3>2 DEF BatchIsNext
    <3>6. \A t \in Sequence : Pending(t) /\ t <= last => t \in sent[current]
      <4>1. \A t \in 1..last : Pending(t) => t \in sent[current]
        BY <3>2 DEF NothingSkipped, Pending
      <4> HIDE DEF last
      <4> QED  BY <3>2, <4>1, DeliveryAssumption DEF Sequence
    <3>7. \A t : Pending(t)' <=> Pending(t)
      BY <3>1 DEF Pending
    <3> HIDE DEF last
    <3>8. ASSUME NEW t \in 1..s, Pending(t) PROVE t \in sent[current] \cup {s}
      <4>1. t \in Sequence /\ t \in Nat /\ t <= s
        BY <3>2, DeliveryAssumption DEF Sequence
      <4>2. CASE t <= last
        BY <3>6, <3>8, <4>1, <4>2
      <4>3. CASE last < t
        <5>1. t \in batch.items
          BY <3>5, <3>8, <4>1, <4>3
        <5>2. s <= t
          BY <3>1, <5>1
        <5> QED  BY <3>2, <4>1, <5>2
      <4> QED  BY <3>2, <4>1, <4>2, <4>3
    <3>9. NothingSkipped'
      BY <3>1, <3>3, <3>7, <3>8 DEF NothingSkipped, Pending
    <3>10. BatchIsNext'
      <4>1. CASE batch' = NoBatch
        BY <3>1, <3>2, <4>1 DEF BatchIsNext, NoBatch
      <4>2. CASE batch' = [batch EXCEPT !.items = @ \ {s}]
        <5>1. batch'.items = batch.items \ {s}
          BY <4>2 DEF TypeOK
        <5>2. \A r \in batch'.items : r > s
          BY <3>1, <3>2, <5>1
        <5>3. ASSUME NEW r \in batch'.items, NEW t \in Sequence, Pending(t), s < t, t <= r
              PROVE  t \in batch'.items
          <6>1. r \in batch.items
            BY <5>1, <5>3
          <6>2. t \in Nat /\ s \in Nat /\ last \in Nat /\ last < s /\ s < t
            BY <3>2, <3>4, <5>3
          <6>3. last < t /\ t # s
            BY <6>2
          <6> QED  BY <3>5, <5>1, <5>3, <6>1, <6>3
        <5>4. current' = current /\ conn'[current].last = s
          BY <3>1, <3>3
        <5> QED  BY <3>7, <5>2, <5>3, <5>4 DEF BatchIsNext
      <4> QED  BY <3>1, <4>1, <4>2 DEF BatchAfter
    <3> QED  BY <3>9, <3>10
  <2> QED  BY <2>1, <2>2
<1>10. ASSUME NEW c \in Conns, SocketLost(c) \/ ClientReceives(c) \/ ServerReceives(c)
       PROVE  BatchIsNext' /\ NothingSkipped'
  BY <1>2, <1>10 DEF SocketLost, ClientReceives, ServerReceives
<1>11. ASSUME NEW o \in Ops, ReviewEnds(o) PROVE BatchIsNext' /\ NothingSkipped'
  BY <1>2, <1>11 DEF ReviewEnds
<1>12. CASE UNCHANGED vars
  BY <1>2, <1>12 DEF vars
<1> QED  BY <1>3, <1>4, <1>5, <1>6, <1>7, <1>8, <1>9, <1>10, <1>11, <1>12 DEF Next

-----------------------------------------------------------------------------
(* What holds of every behaviour.                                          *)

\* The outbox, the marks, the batch and the messages in flight stay consistent.
THEOREM DeliveryInvariant == Spec => [](QueueInv /\ ClientInv)
<1>1. Init => QueueInv /\ ClientInv
  BY InitQueueInv, InitClientInv
<1>2. QueueInv /\ ClientInv /\ [Next]_vars => (QueueInv /\ ClientInv)'
  BY NextTypeOK, NextNumbered, NextOnlyStored, NextOpened, NextNothingSkipped, NextClientInv
  DEF QueueInv
<1> QED  BY <1>1, <1>2, PTL DEF Spec

\* No command below the mark of the registered connection is left behind: each
\* that is not acknowledged was sent on that connection.
THEOREM MarksSkipNothing == Spec => []NothingSkipped
<1>1. QueueInv /\ ClientInv => NothingSkipped
  BY DEF QueueInv
<1> QED  BY DeliveryInvariant, <1>1, PTL
=============================================================================
