---------------------------- MODULE BridgeDelivery ----------------------------
(***************************************************************************)
(* BrowserBridgeServer and the desktop's bridge client: how the commands   *)
(* of the outbox reach the device over WebSocket connections that break,   *)
(* reconnect and replace each other, and what the device does with them.   *)
(*                                                                         *)
(* The server is one asyncio loop: a step runs to the next await.  The     *)
(* rows of an operation are the subject of BridgeStore; here an operation  *)
(* is a dispatch command and perhaps a cancel command.                     *)
(***************************************************************************)
EXTENDS Naturals, Sequences, FiniteSets

CONSTANTS
    Ops,            \* operations of one device
    Conns,          \* bound: WebSocket connections the device opens
    Writers,        \* processes that enqueue commands (MCP, API)
    MaxBatch,       \* MAX_OUTBOX_BATCH
    MaxItems,       \* bound: outbox rows of the device
    None

Row == [op : Ops, type : {"dispatch", "cancel"}, acked : BOOLEAN]

ASSUME DeliveryAssumption ==
    MaxBatch \in Nat \ {0} /\ MaxItems \in Nat /\ None \notin Conns \cup Row

VARIABLES
    cursor,     \* browser_outbox_cursors.next_sequence - 1
    writing,    \* per writer, the command of its open transaction
    item,       \* committed outbox rows by sequence
    current,    \* _connections[device]: the registered connection
    conn,       \* per connection: its state and last_dispatched_sequence
    batch,      \* the dispatch_pending call that holds _dispatch_lock
    down, up,   \* messages in flight on each connection
    connected,  \* browser_bridge_devices.connected
    socket,     \* the client's socket
    seen,       \* the client's seen operation ids
    active,     \* reviews the client is running or has queued
    told,       \* operations whose cancel command the client handled
    sent,       \* history: sequences sent on each connection
    reviews     \* history: reviews started per operation

store == <<cursor, writing, item>>
device == <<seen, active, told, reviews>>
vars == <<store, current, conn, batch, down, up, connected, socket, device, sent>>

Sequence == 1..MaxItems
NoBatch == [conn |-> None, items |-> {}]

Init == /\ cursor = 0
        /\ writing = [w \in Writers |-> None]
        /\ item = [s \in Sequence |-> None]
        /\ current = None
        /\ conn = [c \in Conns |-> [state |-> "unused", last |-> 0]]
        /\ batch = NoBatch
        /\ down = [c \in Conns |-> <<>>]
        /\ up = [c \in Conns |-> <<>>]
        /\ connected = FALSE
        /\ socket = None
        /\ seen = {} /\ active = {} /\ told = {}
        /\ reviews = [o \in Ops |-> 0]
        /\ sent = [c \in Conns |-> {}]

-----------------------------------------------------------------------------
(* The outbox.  A transaction takes its number from the cursor row under   *)
(* FOR UPDATE and holds that row until it commits or rolls back.           *)

\* The cursor read without FOR UPDATE.
CursorFree_NoLock == TRUE

CursorFree == \A w \in Writers : writing[w] = None

Enqueued(o, type) == \/ \E s \in Sequence : item[s] # None /\ item[s].op = o /\ item[s].type = type
                     \/ \E w \in Writers : writing[w] # None /\ writing[w].op = o /\ writing[w].type = type
Committed(o, type) == \E s \in Sequence : item[s] # None /\ item[s].op = o /\ item[s].type = type

TakeNumber(w, o, type) ==
    /\ writing[w] = None /\ CursorFree
    /\ cursor < MaxItems
    /\ ~Enqueued(o, type) /\ (type = "cancel" => Committed(o, "dispatch"))
    /\ cursor' = cursor + 1
    /\ writing' = [writing EXCEPT ![w] = [op |-> o, type |-> type, seq |-> cursor + 1]]
    /\ UNCHANGED <<item, current, conn, batch, down, up, connected, socket, device, sent>>

CommitItem(w) ==
    /\ writing[w] # None
    /\ item' = [item EXCEPT ![writing[w].seq] =
                   [op |-> writing[w].op, type |-> writing[w].type, acked |-> FALSE]]
    /\ writing' = [writing EXCEPT ![w] = None]
    /\ UNCHANGED <<cursor, current, conn, batch, down, up, connected, socket, device, sent>>

\* A transaction that rolls back gives its number back before it frees the row.
RollBack(w) ==
    /\ writing[w] # None
    /\ cursor' = writing[w].seq - 1
    /\ writing' = [writing EXCEPT ![w] = None]
    /\ UNCHANGED <<item, current, conn, batch, down, up, connected, socket, device, sent>>

Unacked(after) == {s \in Sequence : s > after /\ item[s] # None /\ ~item[s].acked}

-----------------------------------------------------------------------------
(* Connections.                                                            *)

\* The client opens a socket when it has none; the server authenticates it,
\* registers it in place of an older connection and starts to close that one.
Connect(c) ==
    /\ socket = None /\ conn[c].state = "unused"
    /\ socket' = c
    /\ current' = c
    /\ connected' = TRUE
    /\ conn' = [d \in Conns |-> IF d = c THEN [state |-> "open", last |-> 0]
                                ELSE IF d = current /\ conn[d].state = "open"
                                  THEN [conn[d] EXCEPT !.state = "closing"]
                                ELSE conn[d]]
    /\ UNCHANGED <<store, batch, down, up, device, sent>>

\* The connection breaks: the client drops its tasks of that socket and what
\* was on its way to it is lost; what it sent may still arrive.
SocketLost(c) ==
    /\ socket = c
    /\ socket' = None
    /\ down' = [down EXCEPT ![c] = <<>>]
    /\ active' = {}
    /\ UNCHANGED <<store, current, conn, batch, up, connected, seen, told, reviews, sent>>

\* unregister: only the registered connection clears the durable flag.
Unregister(c) ==
    /\ current' = IF current = c THEN None ELSE current
    /\ connected' = IF current = c THEN FALSE ELSE connected

\* The receive loop of a connection whose other end is gone finishes.
ReceiveLoopEnds(c) ==
    /\ conn[c].state = "open" /\ socket # c /\ up[c] = <<>>
    /\ Unregister(c)
    /\ conn' = [conn EXCEPT ![c].state = "closed"]
    /\ UNCHANGED <<store, batch, down, up, socket, device, sent>>

\* The server's close of a removed connection completes: nothing more is read.
CloseCompletes(c) ==
    /\ conn[c].state = "closing"
    /\ conn' = [conn EXCEPT ![c].state = "closed"]
    /\ up' = [up EXCEPT ![c] = <<>>]
    /\ down' = [down EXCEPT ![c] = <<>>]
    /\ socket' = IF socket = c THEN None ELSE socket
    /\ active' = IF socket = c THEN {} ELSE active
    /\ UNCHANGED <<store, current, batch, connected, seen, told, reviews, sent>>

\* close_device and stop remove the registered connection and close it.
CloseDevice ==
    /\ current # None
    /\ Unregister(current)
    /\ conn' = [conn EXCEPT ![current].state = "closing"]
    /\ UNCHANGED <<store, batch, down, up, socket, device, sent>>

-----------------------------------------------------------------------------
(* dispatch_pending, under _dispatch_lock.                                 *)

\* Numbers already dispatched on any connection are not fetched again.
DispatchedUpTo_AllConnections(c) ==
    LET lasts == {conn[d].last : d \in Conns} IN CHOOSE m \in lasts : \A n \in lasts : n <= m

DispatchedUpTo(c) == conn[c].last

\* fetch_unacked_outbox: the oldest unacknowledged rows, up to its LIMIT.
Fetched(after) ==
    {s \in Unacked(after) : Cardinality({t \in Unacked(after) : t < s}) < MaxBatch}

FetchBatch ==
    /\ batch = NoBatch /\ current # None
    /\ Fetched(DispatchedUpTo(current)) # {}
    /\ batch' = [conn |-> current, items |-> Fetched(DispatchedUpTo(current))]
    /\ UNCHANGED <<store, current, conn, down, up, connected, socket, device, sent>>

BatchAfter(s) == IF batch.items = {s} THEN NoBatch ELSE [batch EXCEPT !.items = @ \ {s}]

\* The next item, in the order of the numbers, is sent if the connection is
\* still the registered one.
SendItem ==
    /\ batch # NoBatch
    /\ IF current # batch.conn
         THEN batch' = NoBatch /\ UNCHANGED <<conn, down, sent>>
         ELSE \E s \in batch.items :
                  /\ \A t \in batch.items : s <= t
                  /\ conn' = [conn EXCEPT ![current].last = s]
                  /\ sent' = [sent EXCEPT ![current] = @ \cup {s}]
                  /\ down' = IF socket = current THEN [down EXCEPT ![current] = Append(@, s)] ELSE down
                  /\ batch' = BatchAfter(s)
    /\ UNCHANGED <<store, current, up, connected, socket, device>>

\* A send that fails disconnects and ends the batch.
SendFails ==
    /\ batch # NoBatch /\ current = batch.conn
    /\ Unregister(current)
    /\ conn' = [conn EXCEPT ![current].state = "closing"]
    /\ batch' = NoBatch
    /\ UNCHANGED <<store, down, up, socket, device, sent>>

-----------------------------------------------------------------------------
(* The client.                                                             *)

\* A client that only looks at the reviews it is running.
StartsReview_Again(s) == item[s].type = "dispatch" /\ item[s].op \notin active

\* A dispatch starts a review unless the client has met the operation before.
StartsReview(s) == item[s].type = "dispatch" /\ item[s].op \notin seen

\* A cancel that only the queue honours.
ActiveAfter_KeepsRunning(s) == IF StartsReview(s) THEN active \cup {item[s].op} ELSE active

ActiveAfter(s) == CASE StartsReview(s) -> active \cup {item[s].op}
                    [] item[s].type = "cancel" -> active \ {item[s].op}
                    [] OTHER -> active

ClientReceives(c) ==
    /\ socket = c /\ down[c] # <<>>
    /\ LET s == Head(down[c])
           o == item[s].op
       IN  /\ up' = [up EXCEPT ![c] = Append(@, s)]
           /\ seen' = seen \cup {o}
           /\ active' = ActiveAfter(s)
           /\ reviews' = IF StartsReview(s) THEN [reviews EXCEPT ![o] = @ + 1] ELSE reviews
           /\ told' = IF item[s].type = "cancel" THEN told \cup {o} ELSE told
    /\ down' = [down EXCEPT ![c] = Tail(@)]
    /\ UNCHANGED <<store, current, conn, batch, connected, socket, sent>>

ReviewEnds(o) ==
    /\ o \in active
    /\ active' = active \ {o}
    /\ UNCHANGED <<store, current, conn, batch, down, up, connected, socket, seen, told, reviews, sent>>

\* handle_message: any message of an authenticated connection that still has
\* a receive loop marks the device connected; an ack is recorded.
ServerReceives(c) ==
    /\ conn[c].state \in {"open", "closing"} /\ up[c] # <<>>
    /\ connected' = TRUE
    /\ item' = [item EXCEPT ![Head(up[c])].acked = TRUE]
    /\ up' = [up EXCEPT ![c] = Tail(@)]
    /\ UNCHANGED <<cursor, writing, current, conn, batch, down, socket, device, sent>>

Next == \/ \E w \in Writers : CommitItem(w) \/ RollBack(w)
        \/ \E w \in Writers, o \in Ops, type \in {"dispatch", "cancel"} : TakeNumber(w, o, type)
        \/ \E c \in Conns : \/ Connect(c) \/ SocketLost(c) \/ ReceiveLoopEnds(c)
                            \/ CloseCompletes(c) \/ ClientReceives(c) \/ ServerReceives(c)
        \/ CloseDevice \/ FetchBatch \/ SendItem \/ SendFails
        \/ \E o \in Ops : ReviewEnds(o)

Spec == Init /\ [][Next]_vars

(* The loops of server and client keep running; commits complete; a client *)
(* without a socket reconnects.  Connections may break while any are left. *)
Fairness ==
    /\ \A w \in Writers : WF_vars(CommitItem(w) \/ RollBack(w))
    /\ \A c \in Conns : /\ WF_vars(ReceiveLoopEnds(c)) /\ WF_vars(CloseCompletes(c))
                        /\ WF_vars(ClientReceives(c)) /\ WF_vars(ServerReceives(c))
    /\ WF_vars(\E c \in Conns : Connect(c))
    /\ WF_vars(FetchBatch) /\ WF_vars(SendItem)

FairSpec == Spec /\ Fairness

-----------------------------------------------------------------------------
(* Properties.                                                             *)

\* Every variable keeps its type.
TypeOK ==
    /\ cursor \in 0..MaxItems
    /\ writing \in [Writers -> {None} \cup [op : Ops, type : {"dispatch", "cancel"}, seq : Sequence]]
    /\ item \in [Sequence -> {None} \cup Row]
    /\ current \in Conns \cup {None}
    /\ conn \in [Conns -> [state : {"unused", "open", "closing", "closed"}, last : 0..MaxItems]]
    /\ batch \in [conn : Conns \cup {None}, items : SUBSET Sequence]
    /\ Cardinality(batch.items) <= MaxBatch
    /\ down \in [Conns -> Seq(Sequence)] /\ up \in [Conns -> Seq(Sequence)]
    /\ connected \in BOOLEAN /\ socket \in Conns \cup {None}
    /\ seen \subseteq Ops /\ active \subseteq Ops /\ told \subseteq Ops
    /\ sent \in [Conns -> SUBSET Sequence] /\ reviews \in [Ops -> Nat]

\* last_dispatched_sequence is a high-water mark, so a command that commits
\* behind it would never be sent on that connection: every unacknowledged
\* command below the mark of the registered connection was sent on it.
NothingSkipped ==
    current # None =>
        \A s \in 1..conn[current].last : item[s] # None /\ ~item[s].acked => s \in sent[current]

\* A command repeated after a reconnect does not run the review again.
OneReviewPerOperation == \A o \in Ops : reviews[o] <= 1

\* Once the client has handled the cancel command of an operation it neither
\* runs nor queues its review, whatever is delivered again later.
ToldIsIdle == told \cap active = {}

\* A command that commits is acknowledged in the end if some connection lasts.
EventuallyAcked ==
    \A c \in Conns : <>[](socket = c /\ current = c)
        => \A s \in Sequence : [](item[s] # None => <>(item[s] # None /\ item[s].acked))

\* The durable flag says connected only while a connection is registered or
\* one is still being closed.
DisconnectsPersist ==
    current = None /\ (\A c \in Conns : conn[c].state \in {"unused", "closed"}) => ~connected
=============================================================================
