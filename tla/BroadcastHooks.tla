---------------------------- MODULE BroadcastHooks ----------------------------
(***************************************************************************)
(* A hub that broadcasts events with hooks: one event object is offered to *)
(* many connections, each of which may get it as it is, a copy of its own, *)
(* or not at all (web_broadcast_hook.go, web_broadcast_hooks.go), while    *)
(* the write pumps take from the send queues concurrently (web_conn.go).   *)
(* Every connection here belongs to a user of its own.                     *)
(***************************************************************************)
EXTENDS Naturals, Sequences, SequencesExt

CONSTANTS
    Conns,                  \* the connections of the hub, each of another user
    SendQueueSize,          \* sendQueueSize
    MaxEvents               \* bound: events broadcast

ASSUME BroadcastAssumption == SendQueueSize \in Nat \ {0} /\ MaxEvents \in Nat

VARIABLES
    hooks,                  \* per event: the hooks it was published with
    data,                   \* per event: the fields hooks added to the shared object
    rejected,               \* the events whose shared object is rejected
    open,                   \* the connections in the hub's index
    todo,                   \* the connections still to be offered the last event
    send,                   \* per connection: its send queue
    got,                    \* per connection: the events written, with their data
    skipped,                \* per connection: the events the pump dropped as rejected
    lost,                   \* per connection: the event its full queue did not take
    moved                   \* the connections another node took over

vars == <<hooks, data, rejected, open, todo, send, got, skipped, lost, moved>>

Events == 1 .. MaxEvents
Fields == {"mentions", "should_ack"}

\* addMentionsBroadcastHook, and addFollowersBroadcastHook which does the same with
\* another field: a field for some recipients.
AddHook(users) == [kind |-> "add", for |-> users, except |-> {}]
\* postedAckBroadcastHook asks for an acknowledgement those who were mentioned and
\* those of the list, except connections that do not want any and the author's.
AckHook(users, except) == [kind |-> "ack", for |-> users, except |-> except]
\* onlyChannelAdminsBroadcastHook, burnOnReadReactionBroadcastHook: the recipients
\* who may see the event.
FilterHook(users) == [kind |-> "filter", for |-> users, except |-> {}]

\* The lists of hooks the application publishes: an event without hooks, a new post,
\* and a request to join a channel or a reaction.
HookLists ==
    {<< >>}
    \cup {<<AddHook(S), AckHook(T, U)>> :
              S \in SUBSET Conns, T \in SUBSET Conns, U \in SUBSET Conns}
    \cup {<<FilterHook(S)>> : S \in SUBSET Conns}

\* A queued *WebSocketEvent: own says that the pointer is to a copy made for this
\* connection, rejected is the flag of that copy.
Ref == [event : Events, own : BOOLEAN, data : SUBSET Fields, rejected : BOOLEAN]

Init ==
    /\ hooks = << >>
    /\ data = << >>
    /\ rejected = {}
    /\ open = Conns
    /\ todo = {}
    /\ send = [c \in Conns |-> << >>]
    /\ got = [c \in Conns |-> {}]
    /\ skipped = [c \in Conns |-> {}]
    /\ lost = [c \in Conns |-> {}]
    /\ moved = {}

-----------------------------------------------------------------------------
\* HookedWebSocketEvent

AddInPlace(he, field) == [he EXCEPT !.data = @ \cup {field}]   \* mutant: no copy is made

\* Add copies the original first; the copy does not inherit the rejected flag.
Add(he, field) == [he EXCEPT !.own = TRUE, !.data = @ \cup {field}]

RejectCopyOnly(he) == [he EXCEPT !.rejected = he.own]      \* mutant: only copies

\* Event().Reject(): the copy, or without one the original, is rejected.
Reject(he) == IF he.own THEN [he EXCEPT !.rejected = TRUE]
                        ELSE [he EXCEPT !.original = TRUE]

\* Process of one hook, for the recipient c.
Process(he, hook, c) ==
    CASE hook.kind = "add" -> IF c \in hook.for THEN Add(he, "mentions") ELSE he
      [] hook.kind = "ack" -> IF /\ c \notin hook.except
                                 /\ "mentions" \in he.data \/ c \in hook.for
                              THEN Add(he, "should_ack") ELSE he
      [] hook.kind = "filter" -> IF c \in hook.for THEN he ELSE Reject(he)

\* runBroadcastHooks: what the hooks make of event e for the recipient c.
Hooked(e, c) ==
    FoldLeft(LAMBDA he, hook : Process(he, hook, c),
             [own |-> FALSE, data |-> data[e], rejected |-> FALSE,
              original |-> e \in rejected],
             hooks[e])

-----------------------------------------------------------------------------
\* The hub takes an event from its broadcast queue.
StartBroadcast ==
    /\ todo = {}
    /\ Len(hooks) < MaxEvents
    /\ \E list \in HookLists : hooks' = Append(hooks, list)
    /\ data' = Append(data, {})
    /\ todo' = open
    /\ UNCHANGED <<rejected, open, send, got, skipped, lost, moved>>

OfferKeepsFull(c) ==                        \* mutant: a full queue closes nothing
    LET e == Len(hooks)
        he == Hooked(e, c)
        ref == [event |-> e, own |-> he.own, data |-> he.data,
                rejected |-> he.rejected]
    IN  /\ c \in todo
        /\ todo' = todo \ {c}
        /\ send' = IF Len(send[c]) < SendQueueSize
                   THEN [send EXCEPT ![c] = Append(@, ref)] ELSE send
        /\ UNCHANGED <<hooks, data, rejected, open, lost, got, skipped, moved>>

\* ... and offers it to one connection after the other.  The hooks run before the
\* send is tried; a full queue closes the connection.
Offer(c) ==
    LET e == Len(hooks)
        he == Hooked(e, c)
        ref == [event |-> e, own |-> he.own, data |-> he.data,
                rejected |-> he.rejected]
    IN  /\ c \in todo
        /\ todo' = todo \ {c}
        /\ rejected' = IF he.original THEN rejected \cup {e} ELSE rejected
        /\ data' = IF he.own THEN data ELSE [data EXCEPT ![e] = he.data]
        /\ \/ /\ Len(send[c]) < SendQueueSize
              /\ send' = [send EXCEPT ![c] = Append(@, ref)]
              /\ UNCHANGED <<open, lost>>
           \/ /\ Len(send[c]) >= SendQueueSize
              /\ open' = open \ {c}
              /\ lost' = [lost EXCEPT ![c] = @ \cup {e}]
              /\ UNCHANGED send
        /\ UNCHANGED <<hooks, got, skipped, moved>>

\* The fields and the rejected flag of the object a queue entry points to.
DataOf(ref) == IF ref.own THEN ref.data ELSE data[ref.event]

IsRejectedPooled(ref) ==                    \* mutant: event objects are reused
    IF ref.own THEN ref.rejected ELSE {ref.event, ref.event - 1} \cap rejected # {}

IsRejected(ref) == IF ref.own THEN ref.rejected ELSE ref.event \in rejected

\* writePump takes an event from its queue, at any time, and reads the flag then.
Pump(c) ==
    LET ref == Head(send[c]) IN
    /\ send[c] # << >>
    /\ send' = [send EXCEPT ![c] = Tail(@)]
    /\ IF IsRejected(ref)
       THEN /\ skipped' = [skipped EXCEPT ![c] = @ \cup {ref.event}]
            /\ UNCHANGED got
       ELSE /\ got' = [got EXCEPT ![c] = @ \cup {[event |-> ref.event,
                                                 data |-> DataOf(ref)]}]
            /\ UNCHANGED skipped
    /\ UNCHANGED <<hooks, data, rejected, open, todo, lost, moved>>

MoveKeeps(c) ==                             \* mutant: the hub keeps the connection
    /\ c \in open
    /\ todo = {}
    /\ moved' = moved \cup {c}
    /\ UNCHANGED <<hooks, data, rejected, open, todo, send, got, skipped, lost>>

\* The client reconnects to another node: its queue is marshalled, and the JSON of
\* an event has no rejected flag (marshalAQ, UnmarshalAQItem).
Move(c) ==
    /\ c \in open
    /\ todo = {}
    /\ open' = open \ {c}
    /\ moved' = moved \cup {c}
    /\ send' = [send EXCEPT ![c] =
           [i \in DOMAIN @ |-> [event |-> @[i].event, own |-> TRUE,
                                data |-> DataOf(@[i]), rejected |-> FALSE]]]
    /\ UNCHANGED <<hooks, data, rejected, todo, got, skipped, lost>>

Next == StartBroadcast \/ \E c \in Conns : Offer(c) \/ Pump(c) \/ Move(c)

Spec == Init /\ [][Next]_vars

-----------------------------------------------------------------------------
\* Properties

TypeOK ==
    /\ hooks \in Seq(HookLists) /\ Len(hooks) <= MaxEvents
    /\ data \in Seq(SUBSET Fields) /\ Len(data) = Len(hooks)
    /\ rejected \subseteq 1 .. Len(hooks)
    /\ open \subseteq Conns /\ todo \subseteq open /\ moved \subseteq Conns \ open
    /\ send \in [Conns -> Seq(Ref)]
    /\ \A c \in Conns : Len(send[c]) <= SendQueueSize
    /\ got \in [Conns -> SUBSET [event : Events, data : SUBSET Fields]]
    /\ skipped \in [Conns -> SUBSET Events] /\ lost \in [Conns -> SUBSET Events]

\* The recipients every filter of event e lets through.
Accepted(e) ==
    {c \in Conns : \A i \in DOMAIN hooks[e] :
                      hooks[e][i].kind = "filter" => c \in hooks[e][i].for}

\* The fields the hooks of event e mean for c alone.
FieldsFor(e, c) ==
    LET mentioned == \E i \in DOMAIN hooks[e] :
                         hooks[e][i].kind = "add" /\ c \in hooks[e][i].for
        acked == \E i \in DOMAIN hooks[e] :
                     /\ hooks[e][i].kind = "ack"
                     /\ c \notin hooks[e][i].except
                     /\ mentioned \/ c \in hooks[e][i].for
    IN  {f \in Fields : IF f = "mentions" THEN mentioned ELSE acked}

\* HookedWebSocketEvent "ensures the original WebSocket event is not modified": what
\* a recipient reads are the fields meant for it, never those of another recipient
\* of the same object, and an acknowledgement is asked of it on its own account.
OwnFieldsOnly ==
    \A c \in Conns : \A m \in got[c] : m.data = FieldsFor(m.event, c)

\* A recipient that a filter rejects does not receive the event, however the pumps
\* and the hub interleave, as long as it stays on this node.
RejectedNeverReceived ==
    \A c \in Conns \ moved : \A m \in got[c] : c \in Accepted(m.event)

\* Every event the hub offered to a connection is in its queue, written, dropped as
\* rejected or the one that closed it, and only one of these.
Accounted ==
    \A c \in Conns : \A e \in 1 .. Len(hooks) :
        LET queued == \E i \in DOMAIN send[c] : send[c][i].event = e
            written == \E m \in got[c] : m.event = e
            offered == c \in open /\ ~(e = Len(hooks) /\ c \in todo)
        IN  /\ offered => queued \/ written \/ e \in skipped[c]
            /\ ~(queued /\ written) /\ ~(queued /\ e \in skipped[c])
            /\ ~(written /\ e \in skipped[c])
            /\ e \in lost[c] => ~queued /\ ~written /\ e \notin skipped[c]

\* A pump drops an event only if a filter rejected it for somebody.
SkippedOnlyIfFiltered ==
    \A c \in Conns : \A e \in skipped[c] : Accepted(e) # Conns

\* "this hook simply filters non-admin members out" (web_broadcast_hooks.go): the
\* recipients a filter lets through are not denied the event.
AcceptedNotSkipped ==
    \A c \in Conns : \A e \in skipped[c] : c \notin Accepted(e)
=============================================================================
