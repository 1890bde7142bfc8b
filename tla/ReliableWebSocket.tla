-------------------------- MODULE ReliableWebSocket --------------------------
(***************************************************************************)
(* Reliable WebSocket delivery between the server nodes and one client     *)
(* (one browser tab of one user): the hub's broadcast and connection       *)
(* index, the send and dead queues of a WebConn, the resume of a broken    *)
(* connection on the same or another node, and the client's sequence       *)
(* check (web_hub.go, web_conn.go, websocket_reliable.go, api4/websocket.go *)
(* and the webapp's websocket.ts).                                         *)
(*                                                                         *)
(* A WebConn is a number c; model.NewId() called for it returns c, so that *)
(* every connection id is fresh (a WebConn takes at most one new id in its *)
(* life).  An event is its rank in the order of publication.               *)
(***************************************************************************)
EXTENDS DeadQueue, FiniteSets

CONSTANTS
    Nodes,                  \* the server nodes of the cluster
    SendQueueSize,          \* sendQueueSize: 256 in the code
    MaxConns,               \* bound: sockets the client opens
    MaxEvents,              \* bound: events published
    MaxReplies,             \* bound: requests answered over the socket
    MaxEncodeErrors,        \* bound: events that fail to encode
    MaxFaults               \* bound: network failures, panics, crashes

ASSUME NodesAssumption == IsFiniteSet(Nodes) /\ Nodes # {}
ASSUME SendQueueAssumption == SendQueueSize \in Nat \ {0}
ASSUME BoundsAssumption ==
    /\ MaxConns \in Nat \ {0}
    /\ {MaxEvents, MaxReplies, MaxEncodeErrors, MaxFaults} \subseteq Nat

VARIABLES
    published,              \* number of events published so far
    inbox,                  \* per node: events waiting in hub.broadcast
    conn,                   \* the WebConns
    index,                  \* per node: hubConnectionIndex.byConnection
    wire,                   \* frames under way to the client's current socket
    client,                 \* WebSocketClient and what its application knows
    stream,                 \* history: per connection id, the messages numbered
    missed,                 \* history: events lost during a resume or unencodable
    rewound,                \* history: a given-up handshake resumed emptied queues
    spent                   \* how much of each bound is used up

vars == <<published, inbox, conn, index, wire, client, stream, missed, rewound, spent>>

Conns == 1 .. MaxConns
Ids == 0 .. MaxConns                    \* 0 is the client's empty connectionId

Event(e)  == [kind |-> "event", n |-> e]
Hello(id) == [kind |-> "hello", n |-> id]
Reply     == [kind |-> "reply", n |-> 0]
Hole      == [kind |-> "hole",  n |-> 0]    \* numbered, but never encoded

Message == [kind : {"event", "hello", "reply"}, n : Nat]
Entry   == [seq : Nat, msg : Message]

Stages == {"unused", "upgraded", "asked", "populated", "registered",
           "pumping", "stopped", "gone"}

ConnType ==
    [node : Nodes, stage : Stages,
     reqId : Ids, reqSeq : Nat,         \* connection_id and sequence_number
     id : Ids,                          \* connectionID
     send : Seq(Message), closed : BOOLEAN,
     dq : DeadQueueOf(Entry), seq : Nat,
     active : BOOLEAN, reused : BOOLEAN]    \* reused: reuseCount # 0

Blank ==
    [node |-> CHOOSE n \in Nodes : TRUE, stage |-> "unused", reqId |-> 0,
     reqSeq |-> 0, id |-> 0, send |-> << >>, closed |-> FALSE,
     dq |-> EmptyDeadQueue, seq |-> 0, active |-> FALSE, reused |-> FALSE]

\* A WebConn nobody refers to any more.
Gone == [Blank EXCEPT !.stage = "gone"]

Init ==
    /\ published = 0
    /\ inbox = [n \in Nodes |-> {}]
    /\ conn = [c \in Conns |-> Blank]
    /\ index = [n \in Nodes |-> {}]
    /\ wire = << >>
    /\ client = [conn |-> 0, id |-> 0, seq |-> 0, stale |-> FALSE,
                 known |-> {}, received |-> << >>, base |-> 0]
    /\ stream = [i \in Ids |-> << >>]
    /\ missed = {}
    /\ rewound = FALSE
    /\ spent = [faults |-> 0, replies |-> 0, errors |-> 0]

HasFault == spent.faults < MaxFaults
SpendFault == spent' = [spent EXCEPT !.faults = @ + 1]

-----------------------------------------------------------------------------
\* The hub: publication and broadcast

\* Publish hands the event to the hubs of every node.
Publish ==
    /\ published < MaxEvents
    /\ published' = published + 1
    /\ inbox' = [n \in Nodes |-> inbox[n] \cup {published + 1}]
    /\ UNCHANGED <<conn, index, wire, client, stream, missed, rewound, spent>>

Full(c) == Len(conn[c].send) >= SendQueueSize

\* closeAndRemoveConn: the write pump, if there is one, finds send closed.
Overflown(r) == IF r.stage = "gone" THEN Gone ELSE [r EXCEPT !.closed = TRUE]

\* The hub offers m to each connection of C without blocking, and drops the
\* connections whose queue is full.
Offer(n, C, m) ==
    /\ conn' = [c \in Conns |->
                    IF c \notin C THEN conn[c]
                    ELSE IF Full(c) THEN Overflown(conn[c])
                    ELSE [conn[c] EXCEPT !.send = Append(@, m)]]
    /\ index' = [index EXCEPT ![n] = @ \ {c \in C : Full(c)}]

\* The lookup took a connection out of the index and its successor is not yet
\* registered: a broadcast of this hub reaches neither.
Resuming(n) == \E c \in Conns : /\ conn[c].node = n
                                /\ conn[c].stage = "populated"
                                /\ conn[c].reused

HubBroadcast(n) ==
    \E e \in inbox[n] :
        /\ inbox' = [inbox EXCEPT ![n] = @ \ {e}]
        /\ Offer(n, index[n], Event(e))
        /\ missed' = IF Resuming(n) THEN missed \cup {e} ELSE missed
        /\ UNCHANGED <<published, wire, client, stream, rewound, spent>>

\* A request of the client is answered through the hub (SendMessage).
Answer(c) ==
    /\ spent.replies < MaxReplies
    /\ conn[c].stage = "pumping"
    /\ c \in index[conn[c].node]
    /\ Offer(conn[c].node, {c}, Reply)
    /\ spent' = [spent EXCEPT !.replies = @ + 1]
    /\ UNCHANGED <<published, inbox, wire, client, stream, missed, rewound>>

\* Connections removed from an index; those without a goroutine are forgotten.
Removed(f, C) ==
    [c \in Conns |-> IF c \in C /\ f[c].stage = "gone" THEN Gone ELSE f[c]]

\* RemoveInactiveConnections: those idle for longer than the reaper's threshold.
Reap(n) ==
    \E C \in SUBSET {c \in index[n] : ~conn[c].active} :
        /\ C # {}
        /\ index' = [index EXCEPT ![n] = @ \ C]
        /\ conn' = Removed(conn, C)
        /\ UNCHANGED <<published, inbox, wire, client, stream, missed, rewound, spent>>

-----------------------------------------------------------------------------
\* The handshake: connectWebSocket

\* The upgrade comes first, and opens the socket for the client: from now on a
\* reconnecting application refetches its state (onopen).
ClientConnect(n) ==
    /\ client.conn = 0
    /\ \E c \in Conns :
          /\ conn[c].stage = "unused"
          /\ \A d \in 1 .. (c - 1) : conn[d].stage # "unused"
          /\ conn' = [conn EXCEPT ![c] =
                 [Blank EXCEPT !.node = n, !.stage = "upgraded",
                               !.reqId = client.id, !.reqSeq = client.seq]]
          /\ client' = [client EXCEPT !.conn = c, !.stale = @ \/ c # 1]
    /\ wire' = << >>
    /\ UNCHANGED <<published, inbox, index, stream, missed, rewound, spent>>

\* A connection that starts over, with a new id.
Fresh(c) == [conn[c] EXCEPT !.stage = "populated", !.id = c, !.active = TRUE]

ResumedFromZero(c, send, dq) ==             \* mutant: cfg.sequence is not set
    [conn[c] EXCEPT !.stage = "populated", !.id = conn[c].reqId,
                    !.send = send, !.dq = dq, !.reused = TRUE]

ResumedWithoutQueue(c, send, dq) ==         \* mutant: cfg.activeQueue is not set
    [conn[c] EXCEPT !.stage = "populated", !.id = conn[c].reqId, !.dq = dq,
                    !.seq = conn[c].reqSeq, !.reused = TRUE]

\* A connection that goes on where the client stopped (PopulateWebConnConfig).
Resumed(c, send, dq) ==
    [conn[c] EXCEPT !.stage = "populated", !.id = conn[c].reqId,
                    !.send = send, !.dq = dq, !.seq = conn[c].reqSeq,
                    !.reused = TRUE]

AnyWithId(n, id) == {d \in index[n] : conn[d].id = id}     \* mutant: active ones too

\* RemoveInactiveByConnectionID picks one of these.
Inactive(n, id) == {d \in index[n] : conn[d].id = id /\ ~conn[d].active}

AsksCluster(c) == conn[c].reqSeq # 0 /\ Cardinality(Nodes) > 1

NewConnection(c) ==
    /\ conn[c].stage = "upgraded"
    /\ conn[c].reqId = 0
    /\ conn' = [conn EXCEPT ![c] = Fresh(c)]
    /\ UNCHANGED <<published, inbox, index, wire, client, stream, missed, rewound, spent>>

\* GetWSQueues on the other nodes, each of which gives up its inactive
\* connection whether or not it can be resumed.
ClusterLookup(c) ==
    LET others == Nodes \ {conn[c].node}
        seq == conn[c].reqSeq
        Queues(d) ==
            IF NothingWritten(conn[d].dq) THEN {}
            ELSE IF ~HasMsgLoss(conn[d].dq, seq)
                 THEN {Resumed(c, conn[d].send, EmptyDeadQueue)}
            ELSE IF IsInDeadQueue(conn[d].dq, seq)
                 THEN {Resumed(c, conn[d].send,
                          Refill(Drain(conn[d].dq,
                                       IndexInDeadQueue(conn[d].dq, seq))))}
            ELSE {}
        asked == [conn[c] EXCEPT !.stage = "asked"]
    IN  /\ conn[c].stage = "upgraded"
        /\ conn[c].reqId # 0
        /\ AsksCluster(c)
        /\ \/ /\ \A n \in others : Inactive(n, conn[c].reqId) = {}
              /\ conn' = [conn EXCEPT ![c] = asked]
              /\ UNCHANGED index
           \/ \E n \in others : \E d \in Inactive(n, conn[c].reqId) :
              /\ index' = [index EXCEPT ![n] = @ \ {d}]
              /\ \E r \in IF Queues(d) = {} THEN {asked} ELSE Queues(d) :
                    conn' = Removed([conn EXCEPT ![c] = r], {d})
        /\ UNCHANGED <<published, inbox, wire, client, stream, missed, rewound, spent>>

\* The other nodes cannot be asked, or their queues cannot be read.
ClusterLookupFails(c) ==
    /\ HasFault
    /\ conn[c].stage = "upgraded"
    /\ conn[c].reqId # 0
    /\ AsksCluster(c)
    /\ \E C \in SUBSET UNION {Inactive(n, conn[c].reqId) :
                              n \in Nodes \ {conn[c].node}} :
          /\ index' = [n \in Nodes |-> index[n] \ C]
          /\ conn' = Removed([conn EXCEPT ![c] = Fresh(c)], C)
    /\ SpendFault
    /\ UNCHANGED <<published, inbox, wire, client, stream, missed, rewound>>

\* The queue of d is empty because d took its connection over from another node
\* without loss; nothing tells that c, which its client gave up, asks for less.
Rewinds(c, d) == NothingWritten(conn[d].dq) /\ client.conn # c

\* checkLocalWebConn: the hub gives up its inactive connection, or a new one
\* starts (the old one is still open, or gone).
LocalLookup(c) ==
    LET n == conn[c].node
        found == Inactive(n, conn[c].reqId)
    IN  /\ conn[c].reqId # 0
        /\ \/ conn[c].stage = "asked"
           \/ conn[c].stage = "upgraded" /\ ~AsksCluster(c)
        /\ \/ /\ found = {}
              /\ conn' = [conn EXCEPT ![c] = Fresh(c)]
              /\ UNCHANGED <<index, rewound>>
           \/ \E d \in found :
              /\ index' = [index EXCEPT ![n] = @ \ {d}]
              /\ conn' = Removed([conn EXCEPT ![c] =
                                     Resumed(c, conn[d].send, conn[d].dq)], {d})
              /\ rewound' = (rewound \/ Rewinds(c, d))
        /\ UNCHANGED <<published, inbox, wire, client, stream, missed, spent>>

\* HubRegister: only a connection that starts over is sent a hello.
Register(c) ==
    /\ conn[c].stage = "populated"
    /\ conn' = [conn EXCEPT ![c].stage = "registered", ![c].active = TRUE,
                            ![c].send = IF conn[c].reused THEN @
                                        ELSE Append(@, Hello(conn[c].id))]
    /\ index' = [index EXCEPT ![conn[c].node] = @ \cup {c}]
    /\ UNCHANGED <<published, inbox, wire, client, stream, missed, rewound, spent>>

\* The channel members cannot be read: the socket is closed, the queues are lost.
RegisterFails(c) ==
    /\ HasFault
    /\ conn[c].stage = "populated"
    /\ conn' = [conn EXCEPT ![c] = Gone]
    /\ SpendFault
    /\ UNCHANGED <<published, inbox, index, wire, client, stream, missed, rewound>>

-----------------------------------------------------------------------------
\* The write pump

\* Frames reach the client only through the socket it holds.
Transmit(c, frames) ==
    wire' = IF client.conn = c THEN wire \o frames ELSE wire

\* A write fails once the client is gone, or when the network does.
MayFail(c) == client.conn # c \/ HasFault

WriteFailed(c) ==
    /\ MayFail(c)
    /\ spent' = IF client.conn = c THEN [spent EXCEPT !.faults = @ + 1] ELSE spent

\* writePump before its loop: drain the dead queue, or start over with a new id
\* when the client's next event was evicted, or go on without loss.
PumpStart(c) ==
    LET r == conn[c]
        sent == Drain(r.dq, IndexInDeadQueue(r.dq, r.seq))
        hello == [seq |-> 0, msg |-> Hello(c)]
        overview == <<published, inbox, index, client, missed, rewound>>
        Found == r.seq # 0 /\ IsInDeadQueue(r.dq, r.seq)
        Evicted == r.seq # 0 /\ ~IsInDeadQueue(r.dq, r.seq) /\ HasMsgLoss(r.dq, r.seq)
    IN  /\ r.stage = "registered"
        /\ \/ /\ Found
              /\ \E k \in 0 .. Len(sent) :
                    /\ Transmit(c, SubSeq(sent, 1, k))
                    /\ conn' = [conn EXCEPT
                           ![c].seq = @ + k,
                           ![c].stage = IF k = Len(sent) THEN "pumping"
                                                         ELSE "stopped"]
                    /\ IF k = Len(sent) THEN UNCHANGED spent ELSE WriteFailed(c)
              /\ UNCHANGED stream
           \/ /\ Evicted
              /\ conn' = [conn EXCEPT
                     ![c].dq = AddToDeadQueue(ClearDeadQueue(r.dq), hello),
                     ![c].id = c, ![c].seq = 1, ![c].stage = "pumping"]
              /\ stream' = [stream EXCEPT ![c] = << hello.msg >>]
              /\ Transmit(c, << hello >>)     \* a failing write: PumpStop next
              /\ UNCHANGED spent
           \/ /\ ~Found /\ ~Evicted
              /\ conn' = [conn EXCEPT ![c].stage = "pumping"]
              /\ UNCHANGED <<wire, stream, spent>>
        /\ UNCHANGED overview

\* The message takes the connection's next sequence number.  A number that was
\* passed over is a hole.
Number(c, m) ==
    stream' = [stream EXCEPT ![conn[c].id] =
        [k \in 1 .. (conn[c].seq + 1) |-> IF k > conn[c].seq THEN m
                                          ELSE IF k <= Len(@) THEN @[k] ELSE Hole]]

PumpedKeepsUnwritten(c, entry, stage) ==    \* mutant: dequeued only once written
    [conn EXCEPT ![c].send = IF stage = "stopped" THEN @ ELSE Tail(@),
                 ![c].seq = @ + 1, ![c].dq = AddToDeadQueue(@, entry),
                 ![c].stage = stage]

\* The head of send is numbered and in the dead queue.
Pumped(c, entry, stage) ==
    [conn EXCEPT ![c].send = Tail(@), ![c].seq = @ + 1,
                 ![c].dq = AddToDeadQueue(@, entry), ![c].stage = stage]

\* writePump takes an event from send: it is numbered, encoded, kept in the dead
\* queue and written, in this order.
PumpSend(c) ==
    LET r == conn[c]
        m == Head(r.send)
        entry == [seq |-> r.seq, msg |-> m]
    IN  /\ r.stage = "pumping"
        /\ r.send # << >>
        /\ m.kind # "reply"
        /\ \/ /\ Number(c, m)
              /\ conn' = Pumped(c, entry, "pumping")
              /\ Transmit(c, << entry >>)
              /\ UNCHANGED <<missed, spent>>
           \/ /\ Number(c, m)
              /\ WriteFailed(c)
              /\ conn' = Pumped(c, entry, "stopped")
              /\ UNCHANGED <<wire, missed>>
           \/ /\ spent.errors < MaxEncodeErrors
              /\ m.kind = "event"         \* a hello holds plain strings only
              /\ spent' = [spent EXCEPT !.errors = @ + 1]
              /\ Number(c, Hole)
              /\ conn' = [conn EXCEPT ![c].send = Tail(@), ![c].seq = @ + 1]
              /\ missed' = missed \cup {m.n}
              /\ UNCHANGED wire
        /\ UNCHANGED <<published, inbox, index, client, rewound>>

\* A reply is written without a sequence number; the client's event stream
\* ignores it.
PumpReply(c) ==
    /\ conn[c].stage = "pumping"
    /\ conn[c].send # << >>
    /\ Head(conn[c].send).kind = "reply"
    /\ conn' = [conn EXCEPT ![c].send = Tail(@)]
    /\ UNCHANGED <<published, inbox, index, wire, client, stream, missed, rewound, spent>>

\* The hub closed send and everything before that is written: close the socket.
PumpClose(c) ==
    /\ conn[c].stage = "pumping"
    /\ conn[c].send = << >>
    /\ conn[c].closed
    /\ conn' = [conn EXCEPT ![c].stage = "stopped"]
    /\ UNCHANGED <<published, inbox, index, wire, client, stream, missed, rewound, spent>>

\* The read pump meets a closed socket or the pong deadline and ends the write pump.
PumpStop(c) ==
    /\ conn[c].stage = "pumping"
    /\ WriteFailed(c)
    /\ conn' = [conn EXCEPT ![c].stage = "stopped"]
    /\ UNCHANGED <<published, inbox, index, wire, client, stream, missed, rewound>>

\* HubUnregister: the connection stays in the index, inactive, unless an overflow
\* removed it.
Unregister(c) ==
    /\ conn[c].stage = "stopped"
    /\ conn' = [conn EXCEPT ![c] =
                   IF c \in index[conn[c].node]
                   THEN [@ EXCEPT !.stage = "gone", !.active = FALSE]
                   ELSE Gone]
    /\ UNCHANGED <<published, inbox, index, wire, client, stream, missed, rewound, spent>>

-----------------------------------------------------------------------------
\* Failures of a node

\* doRecover: a panicking hub starts again with an empty index; the sockets stay
\* open.  The event it was handling is lost.
HubPanic(n) ==
    /\ HasFault
    /\ \E E \in SUBSET inbox[n] :
          /\ Cardinality(E) <= 1
          /\ inbox' = [inbox EXCEPT ![n] = @ \ E]
          /\ missed' = IF Resuming(n) THEN missed \cup E ELSE missed
    /\ index' = [index EXCEPT ![n] = {}]
    /\ conn' = Removed(conn, index[n])
    /\ SpendFault
    /\ UNCHANGED <<published, wire, client, stream, rewound>>

\* The node goes down and comes back without any connection.
NodeCrash(n) ==
    /\ HasFault
    /\ inbox' = [inbox EXCEPT ![n] = {}]
    /\ index' = [index EXCEPT ![n] = {}]
    /\ conn' = [c \in Conns |-> IF conn[c].node = n /\ conn[c].stage # "unused"
                                THEN Gone ELSE conn[c]]
    /\ SpendFault
    /\ UNCHANGED <<published, wire, client, stream, missed, rewound>>

-----------------------------------------------------------------------------
\* The client

NeverRestarts(frame) == FALSE               \* mutant: every hello goes on

\* A hello with another id means that events were missed.
Restarts(frame) ==
    frame.msg.kind = "hello" /\ client.id # 0 /\ client.id # frame.msg.n

\* onmessage: after a restart the application refetches and a new stream begins.
\* A sequence number out of order closes the socket.
ClientReceive ==
    LET frame == Head(wire)
        restarts == Restarts(frame)
        seq == IF restarts THEN 0 ELSE client.seq
        received == IF restarts THEN << >> ELSE client.received
        id == IF frame.msg.kind = "hello" THEN frame.msg.n ELSE client.id
        accepts == frame.seq = seq
        taught == IF frame.msg.kind = "event" THEN {frame.msg.n} ELSE {}
    IN  /\ wire # << >>
        /\ wire' = IF accepts THEN Tail(wire) ELSE << >>
        /\ client' =
              [conn |-> IF accepts THEN client.conn ELSE 0,
               id |-> id,
               seq |-> IF accepts THEN seq + 1 ELSE seq,
               stale |-> client.stale \/ restarts,
               known |-> IF accepts THEN client.known \cup taught ELSE client.known,
               received |-> IF accepts THEN Append(received, frame.msg) ELSE received,
               base |-> IF client.id = 0 THEN published ELSE client.base]
        /\ UNCHANGED <<published, inbox, conn, index, stream, missed, rewound, spent>>

Detach ==
    /\ client' = [client EXCEPT !.conn = 0]
    /\ wire' = << >>
    /\ UNCHANGED <<published, inbox, conn, index, stream, missed, rewound>>

\* The network fails, or the tab thinks so.
ClientDisconnect ==
    /\ client.conn # 0
    /\ HasFault
    /\ Detach
    /\ SpendFault

ClosedByServer(c) == conn[c].stage \in {"stopped", "gone"}     \* mutant: no pings

\* The server closed the socket, or does not answer pings because the hub does not
\* know the connection.
Abandoned(c) ==
    \/ conn[c].stage \in {"stopped", "gone"}
    \/ conn[c].stage = "pumping" /\ c \notin index[conn[c].node]

\* onclose, or the ping interval's time limit.
ClientNotice ==
    /\ client.conn # 0
    /\ Abandoned(client.conn)
    /\ Detach
    /\ UNCHANGED spent

\* The reconnect and missed-event listeners read the state of the server.
Refetch ==
    /\ client.stale
    /\ client' = [client EXCEPT !.stale = FALSE, !.known = 1 .. published]
    /\ UNCHANGED <<published, inbox, conn, index, wire, stream, missed, rewound, spent>>

-----------------------------------------------------------------------------
Hub(n) == HubBroadcast(n) \/ Reap(n) \/ HubPanic(n) \/ NodeCrash(n)

Handshake(c) ==
    \/ NewConnection(c) \/ ClusterLookup(c) \/ LocalLookup(c) \/ Register(c)

Pump(c) ==
    \/ PumpStart(c) \/ PumpSend(c) \/ PumpReply(c) \/ PumpClose(c)
    \/ PumpStop(c) \/ Unregister(c)

Client ==
    \/ \E n \in Nodes : ClientConnect(n)
    \/ ClientReceive \/ ClientDisconnect \/ ClientNotice \/ Refetch

Next ==
    \/ Publish
    \/ \E n \in Nodes : Hub(n)
    \/ \E c \in Conns : \/ Handshake(c) \/ Pump(c) \/ Answer(c)
                        \/ ClusterLookupFails(c) \/ RegisterFails(c)
    \/ Client

Spec == Init /\ [][Next]_vars

\* Goroutines that can run do run, frames and HTTP answers arrive, and a client
\* without a connection keeps trying.  Faults, the reaper and the publication of
\* events are never forced.
Fairness ==
    /\ \A n \in Nodes : WF_vars(HubBroadcast(n))
    /\ \A c \in Conns : WF_vars(Handshake(c)) /\ WF_vars(Pump(c))
    /\ WF_vars(\E n \in Nodes : ClientConnect(n))
    /\ WF_vars(ClientReceive) /\ WF_vars(ClientNotice) /\ WF_vars(Refetch)

FairSpec == Spec /\ Fairness

-----------------------------------------------------------------------------
\* Properties

TypeOK ==
    /\ published \in Nat
    /\ inbox \in [Nodes -> SUBSET Nat]
    /\ conn \in [Conns -> ConnType]
    /\ index \in [Nodes -> SUBSET Conns]
    /\ wire \in Seq(Entry)
    /\ client \in [conn : 0 .. MaxConns, id : Nat, seq : Nat, stale : BOOLEAN,
                   known : SUBSET Nat, received : Seq(Message), base : Nat]
    /\ stream \in [Ids -> Seq(Message \cup {Hole})]
    /\ missed \subseteq Nat
    /\ rewound \in BOOLEAN
    /\ spent \in [faults : Nat, replies : Nat, errors : Nat]

\* What the client accepted under its connection id is what the server numbered
\* under it, from the hello on: whatever connections, resumes and retransmissions
\* it took, no sequence number ever stood for two messages the client could see.
StreamAgreement ==
    /\ client.seq = Len(client.received)
    /\ client.seq <= Len(stream[client.id])
    /\ client.received = SubSeq(stream[client.id], 1, client.seq)

\* On several nodes the same, until a handshake that its client gave up resumes
\* queues that were emptied on the way from another node: it numbers again what the
\* client already received.
AgreementUnlessRewound == StreamAgreement \/ rewound

\* A retransmission never shows an event again: with a single node, no event is
\* accepted twice under one connection id.
NoDuplicateDelivery ==
    \A i, j \in DOMAIN client.received :
        /\ i < j
        /\ client.received[i].kind = "event"
        => client.received[i] # client.received[j]

\* A WebConn holds the queues of its id from the lookup until it left the index.
Holds(c) ==
    \/ conn[c].stage \in {"populated", "registered", "pumping", "stopped"}
    \/ \E n \in Nodes : c \in index[n]

\* The queues of a connection id are never in two hands: a resume takes them from
\* a connection whose pumps ended, and no stale handshake gets them again.
SingleOwner ==
    \A c, d \in Conns :
        Holds(c) /\ Holds(d) /\ conn[c].id # 0 /\ conn[c].id = conn[d].id => c = d

\* The client has everything the server has for it.
CaughtUp ==
    /\ client.conn # 0
    /\ ~client.stale
    /\ wire = << >>
    /\ LET r == conn[client.conn] IN
          /\ r.stage = "pumping"
          /\ client.conn \in index[r.node]
          /\ r.id = client.id /\ r.seq = client.seq /\ r.send = << >>
    /\ \A n \in Nodes : inbox[n] = {}

\* Events the client must know of: those published since its first hello.
Owed == {e \in 1 .. published : e > client.base}

\* "deadQueue ... is used to resuscitate any messages that might have got lost
\* when the connection is broken" (web_conn.go): a client that caught up with the
\* server knows every event published since its first hello.
NoSilentLoss == CaughtUp => Owed \subseteq client.known

\* With a single node, the only encodable events a client can lose unnoticed are
\* those the hub broadcast (or was handling when it panicked) between the lookup of
\* a resumed connection and its registration.
LossOnlyDuringResume == CaughtUp => Owed \subseteq client.known \cup missed

\* Once faults stop, the client catches up for good.
Converges == <>[]CaughtUp

\* The stream of an id without its first hole and what follows.
Whole(s) ==
    LET holes == {i \in DOMAIN s : s[i] = Hole}
    IN  IF holes = {} THEN s
        ELSE SubSeq(s, 1, (CHOOSE i \in holes : \A j \in holes : i <= j) - 1)

\* The whole protocol implements the abstract event stream.
Promise == INSTANCE EventStream WITH
    streams <- [i \in Ids |-> Whole(stream[i])],
    current <- client.id,
    received <- client.received

ImplementsEventStream == Promise!Spec
=============================================================================
