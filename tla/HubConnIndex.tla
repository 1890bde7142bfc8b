----------------------------- MODULE HubConnIndex -----------------------------
(***************************************************************************)
(* The connection index of one hub: which connections a broadcast to a     *)
(* user, to a channel or to a connection id reaches (hubConnectionIndex in *)
(* web_hub.go), against the database it copies the channel memberships     *)
(* from and the handshakes, pumps and failures that change connections     *)
(* behind its back.                                                        *)
(*                                                                         *)
(* model.NewId() called for connection c returns c: every id is fresh, and *)
(* a connection takes at most one new id in its life.                      *)
(***************************************************************************)
EXTENDS Naturals

CONSTANTS
    Conns,                  \* the WebConns
    Users,                  \* the users whose connections this hub holds
    Channels,
    NoConn,                 \* a nil *WebConn
    NoUser,                 \* the empty UserId
    MaxChanges              \* bound: changes of membership

ASSUME NoneAssumption == NoConn \notin Conns /\ NoUser \notin Users
ASSUME MaxChangesAssumption == MaxChanges \in Nat

VARIABLES
    members,                \* the channels of each user, in the database
    replica,                \* the same, as the read replica has it
    changes,                \* number of changes of membership so far
    pending,                \* per user: invalidations the hub has yet to handle
    conn,                   \* the WebConns
    index,                  \* hubConnectionIndex
    rejoined,               \* history: connections that authenticated again, or
                            \* resumed one that did
    misread                 \* history: connections routed by stale memberships

database == <<members, replica, changes>>
vars == <<database, pending, conn, index, rejoined, misread>>

\* joining: in HubRegister before the pumps run; rejoining: in HubRegister called
\* by the read pump; closing: the pumps end; ended: unregistered.
Stages == {"unused", "joining", "open", "rejoining", "closing", "ended"}

ConnType ==
    [stage : Stages, user : Users \cup {NoUser}, token : BOOLEAN, id : Conns,
     active : BOOLEAN, closed : BOOLEAN, reused : BOOLEAN, renamed : BOOLEAN]

\* conns and list are byConnection, a map: a connection that is not one of its keys has
\* no list.  user is byUserId, channel byChannelKey and id byConnectionId.
IndexMaps ==
    [conns : SUBSET Conns, list : [Conns -> SUBSET Channels],
     user : [Users -> SUBSET Conns], channel : [Channels -> SUBSET Conns],
     id : [Conns -> Conns \cup {NoConn}]]

IndexType == {i \in IndexMaps : \A c \in Conns \ i.conns : i.list[c] = {}}

EmptyIndex ==
    [conns |-> {}, list |-> [c \in Conns |-> {}], user |-> [u \in Users |-> {}],
     channel |-> [k \in Channels |-> {}], id |-> [i \in Conns |-> NoConn]]

Unused(c) ==
    [stage |-> "unused", user |-> NoUser, token |-> FALSE, id |-> c,
     active |-> FALSE, closed |-> FALSE, reused |-> FALSE, renamed |-> FALSE]

Init ==
    /\ members \in [Users -> SUBSET Channels]
    /\ replica = members
    /\ changes = 0
    /\ pending = [u \in Users |-> 0]
    /\ conn = [c \in Conns |-> Unused(c)]
    /\ index = EmptyIndex
    /\ rejoined = {}
    /\ misread = {}

-----------------------------------------------------------------------------
\* The operations of hubConnectionIndex

AddedWithoutChannels(c, channels) ==        \* mutant: addToChannels is not called
    [conns   |-> index.conns \cup {c},
     list    |-> [index.list EXCEPT ![c] = channels],
     user    |-> [u \in Users |-> IF u = conn[c].user THEN index.user[u] \cup {c}
                                                      ELSE index.user[u]],
     channel |-> index.channel,
     id      |-> [index.id EXCEPT ![conn[c].id] = c]]

\* Add: the list of a connection that is there already is replaced, without taking
\* the connection out of the channels of the old one.
Added(c, channels) ==
    [conns   |-> index.conns \cup {c},
     list    |-> [index.list EXCEPT ![c] = channels],
     user    |-> [u \in Users |-> IF u = conn[c].user THEN index.user[u] \cup {c}
                                                      ELSE index.user[u]],
     channel |-> [k \in Channels |-> IF k \in channels
                                     THEN index.channel[k] \cup {c}
                                     ELSE index.channel[k]],
     id      |-> [index.id EXCEPT ![conn[c].id] = c]]

RemovedFromUserNot(C) ==                    \* mutant: byUserId is left alone
    LET gone == C \cap index.conns IN
    [conns   |-> index.conns \ gone,
     list    |-> [c \in Conns |-> IF c \in gone THEN {} ELSE index.list[c]],
     user    |-> index.user,
     channel |-> [k \in Channels |->
                     index.channel[k] \ {c \in gone : k \in index.list[c]}],
     id      |-> [i \in Conns |-> IF \E c \in gone : conn[c].id = i
                                  THEN NoConn ELSE index.id[i]]]

RemovedButItsId(C) ==                       \* mutant: byConnectionId is left alone
    LET gone == C \cap index.conns IN
    [conns   |-> index.conns \ gone,
     list    |-> [c \in Conns |-> IF c \in gone THEN {} ELSE index.list[c]],
     user    |-> [u \in Users |-> index.user[u] \ {c \in gone : conn[c].user = u}],
     channel |-> [k \in Channels |->
                     index.channel[k] \ {c \in gone : k \in index.list[c]}],
     id      |-> index.id]

\* Remove, for every connection of C: it leaves the entries of the user, the id and
\* the channels it has now.
Removed(C) ==
    LET gone == C \cap index.conns IN
    [conns   |-> index.conns \ gone,
     list    |-> [c \in Conns |-> IF c \in gone THEN {} ELSE index.list[c]],
     user    |-> [u \in Users |-> index.user[u] \ {c \in gone : conn[c].user = u}],
     channel |-> [k \in Channels |->
                     index.channel[k] \ {c \in gone : k \in index.list[c]}],
     id      |-> [i \in Conns |-> IF \E c \in gone : conn[c].id = i
                                  THEN NoConn ELSE index.id[i]]]

ReroutedWithoutRemoving(u, channels) ==     \* mutant: old channels are kept
    [index EXCEPT
        !.list = [c \in Conns |-> IF c \in index.user[u] \cap index.conns
                                  THEN channels ELSE @[c]],
        !.channel = [k \in Channels |->
            @[k] \cup (IF k \in channels THEN index.user[u] ELSE {})]]

ReroutedActiveOnly(u, channels) ==          \* mutant: inactive connections are skipped
    LET known == {c \in index.user[u] \cap index.conns : conn[c].active} IN
    [index EXCEPT
        !.list = [c \in Conns |-> IF c \in known THEN channels ELSE @[c]],
        !.channel = [k \in Channels |->
            (@[k] \ {c \in known : k \in index.list[c]})
                \cup (IF k \in channels THEN known ELSE {})]]

ReroutedUnknownToo(u, channels) ==          \* mutant: also those byConnection has not
    LET known == index.user[u] \cap index.conns IN
    [index EXCEPT
        !.list = [c \in Conns |-> IF c \in index.user[u] THEN channels ELSE @[c]],
        !.channel = [k \in Channels |->
            (@[k] \ {c \in known : k \in index.list[c]})
                \cup (IF k \in channels THEN index.user[u] ELSE {})]]

\* InvalidateCMCacheForUser: all the user's connections move to other channels.
Rerouted(u, channels) ==
    LET known == index.user[u] \cap index.conns IN
    [index EXCEPT
        !.list = [c \in Conns |-> IF c \in known THEN channels ELSE @[c]],
        !.channel = [k \in Channels |->
            (@[k] \ {c \in known : k \in index.list[c]})
                \cup (IF k \in channels THEN index.user[u] ELSE {})]]

ForConnection(id) == index.id[id]

-----------------------------------------------------------------------------
\* The database

\* A user joins or leaves channels; the hub is told afterwards.
ChangeMembership(u) ==
    /\ changes < MaxChanges
    /\ changes' = changes + 1
    /\ \E channels \in SUBSET Channels \ {members[u]} :
           members' = [members EXCEPT ![u] = channels]
    /\ pending' = [pending EXCEPT ![u] = @ + 1]
    /\ UNCHANGED <<replica, conn, index, rejoined, misread>>

ReplicaCatchesUp ==
    /\ replica # members
    /\ replica' = members
    /\ UNCHANGED <<members, changes, pending, conn, index, rejoined, misread>>

\* Connections that were routed by what the replica has for u.
ReadFor(u, C) ==
    misread' = IF replica[u] = members[u] THEN misread \ C ELSE misread \cup C

-----------------------------------------------------------------------------
\* The handshake

\* A socket with a session: with a new connection id, before HubRegister.
Connect(c, u) ==
    /\ conn[c].stage = "unused"
    /\ conn' = [conn EXCEPT ![c].stage = "joining", ![c].user = u,
                            ![c].token = TRUE, ![c].active = TRUE]
    /\ UNCHANGED <<database, pending, index, rejoined, misread>>

\* A socket without a session: it is not in the hub until it authenticates.
ConnectAnonymously(c) ==
    /\ conn[c].stage = "unused"
    /\ conn' = [conn EXCEPT ![c].stage = "open", ![c].active = TRUE]
    /\ UNCHANGED <<database, pending, index, rejoined, misread>>

\* RemoveInactiveByConnectionID: connection c of user u takes over the queues and the
\* id of d.
Resume(c, d, u) ==
    /\ conn[c].stage = "unused"
    /\ d \in index.user[u]
    /\ ~conn[d].active
    /\ index' = Removed({d})
    /\ conn' = [conn EXCEPT ![c].stage = "joining", ![c].user = u,
                            ![c].token = TRUE, ![c].id = conn[d].id,
                            ![c].reused = TRUE]
    /\ rejoined' = IF d \in rejoined THEN rejoined \cup {c} ELSE rejoined
    /\ UNCHANGED <<database, pending, misread>>

\* The hub goroutine panics and starts over with an empty index.
Panics(f) ==
    /\ index' = EmptyIndex
    /\ conn' = f
    /\ UNCHANGED <<database, pending, rejoined, misread>>

\* The register arm of the hub.  The hello of a connection that starts over goes to
\* its send queue, which must not be closed.
Register(c) ==
    LET opened == [conn EXCEPT ![c].stage = "open", ![c].active = TRUE]
    IN  /\ conn[c].stage \in {"joining", "rejoining"}
        /\ \/ /\ ~(conn[c].closed /\ conn[c].token /\ ~conn[c].reused)
              /\ index' = Added(c, replica[conn[c].user])
              /\ conn' = opened
              /\ ReadFor(conn[c].user, {c})
              /\ UNCHANGED <<database, pending, rejoined>>
           \/ /\ conn[c].closed /\ conn[c].token /\ ~conn[c].reused
              /\ Panics([opened EXCEPT ![c].stage = "closing"])

\* The memberships cannot be read: the caller closes the socket.
RegisterFails(c) ==
    /\ conn[c].stage \in {"joining", "rejoining"}
    /\ conn' = [conn EXCEPT ![c].active = TRUE,
                    ![c].stage = IF @ = "joining" THEN "ended" ELSE "closing"]
    /\ UNCHANGED <<database, pending, index, rejoined, misread>>

-----------------------------------------------------------------------------
\* The pumps of a connection

\* The write pump cannot resume the client's sequence: a new connection id.
Rename(c) ==
    /\ conn[c].stage \in {"open", "rejoining"}
    /\ conn[c].reused
    /\ ~conn[c].renamed
    /\ conn' = [conn EXCEPT ![c].id = c, ![c].renamed = TRUE]
    /\ UNCHANGED <<database, pending, index, rejoined, misread>>

\* IsBasicAuthenticated: the session expired, or was revoked.
Expire(c) ==
    /\ conn[c].stage = "open"
    /\ conn[c].token
    /\ conn' = [conn EXCEPT ![c].token = FALSE]
    /\ UNCHANGED <<database, pending, index, rejoined, misread>>

\* The authentication_challenge of a client without a token registers the
\* connection, for the first time or again.
Challenge(c, u) ==
    /\ conn[c].stage = "open"
    /\ ~conn[c].token
    /\ conn' = [conn EXCEPT ![c].stage = "rejoining", ![c].user = u,
                            ![c].token = TRUE]
    /\ rejoined' = IF conn[c].user = NoUser THEN rejoined ELSE rejoined \cup {c}
    /\ UNCHANGED <<database, pending, index, misread>>

\* The socket breaks.
Break(c) ==
    /\ conn[c].stage = "open"
    /\ conn' = [conn EXCEPT ![c].stage = "closing"]
    /\ UNCHANGED <<database, pending, index, rejoined, misread>>

\* The unregister arm: the connection stays in the index, inactive.
Unregister(c) ==
    /\ conn[c].stage = "closing"
    /\ conn' = [conn EXCEPT ![c].stage = "ended", ![c].active = FALSE]
    /\ UNCHANGED <<database, pending, index, rejoined, misread>>

-----------------------------------------------------------------------------
\* The hub

CloseWithoutRemoving(C) ==                  \* mutant: the index keeps them
    /\ index' = index
    /\ conn' = [c \in Conns |-> IF c \in C THEN [conn[c] EXCEPT !.closed = TRUE]
                                            ELSE conn[c]]
    /\ UNCHANGED <<database, pending, rejoined, misread>>

\* closeAndRemoveConn for every connection of C; closing a closed queue panics.
CloseAndRemove(C) ==
    LET closed == [c \in Conns |-> IF c \in C THEN [conn[c] EXCEPT !.closed = TRUE]
                                              ELSE conn[c]]
    IN  \/ /\ \A c \in C : ~conn[c].closed
           /\ index' = Removed(C)
           /\ conn' = closed
           /\ UNCHANGED <<database, pending, rejoined, misread>>
        \/ /\ \E c \in C : conn[c].closed
           /\ Panics(closed)

\* A broadcast, or a reply, finds the queue of a connection full.  Sending on a
\* queue that is closed panics.
Overflow(c) ==
    /\ c \in index.conns
    /\ CloseAndRemove({c})

\* The invalidateUser arm.
InvalidateUser(u) ==
    /\ pending[u] > 0
    /\ pending' = [pending EXCEPT ![u] = @ - 1]
    /\ index' = Rerouted(u, replica[u])
    /\ ReadFor(u, index.user[u])
    /\ UNCHANGED <<database, conn, rejoined>>

\* The same, when the memberships cannot be read: every connection of the user is
\* closed.
InvalidateUserFails(u) ==
    LET C == index.user[u]
        closed == [c \in Conns |-> IF c \in C THEN [conn[c] EXCEPT !.closed = TRUE]
                                              ELSE conn[c]]
    IN  /\ pending[u] > 0
        /\ pending' = [pending EXCEPT ![u] = @ - 1]
        /\ index' = IF \E c \in C : conn[c].closed THEN EmptyIndex ELSE Removed(C)
        /\ conn' = closed
        /\ UNCHANGED <<database, rejoined, misread>>

\* The invalidateAll arm: no session is valid any more, and clearChannels.
InvalidateAll ==
    /\ index' = [index EXCEPT !.channel = [k \in Channels |-> {}]]
    /\ conn' = [c \in Conns |-> IF c \in index.conns
                                THEN [conn[c] EXCEPT !.token = FALSE] ELSE conn[c]]
    /\ UNCHANGED <<database, pending, rejoined, misread>>

\* RemoveInactiveConnections: those idle for longer than the threshold.
Reap ==
    \E C \in SUBSET {c \in index.conns : ~conn[c].active} :
        /\ C # {}
        /\ index' = Removed(C)
        /\ UNCHANGED <<database, pending, conn, rejoined, misread>>

\* doRecover after a panic anywhere in the hub.
HubPanic == index.conns # {} /\ Panics(conn)

Next ==
    \/ \E u \in Users : \/ ChangeMembership(u) \/ InvalidateUser(u)
                        \/ InvalidateUserFails(u)
    \/ ReplicaCatchesUp
    \/ \E c \in Conns :
          \/ \E u \in Users : \/ Connect(c, u) \/ Challenge(c, u)
                              \/ \E d \in Conns : Resume(c, d, u)
          \/ ConnectAnonymously(c) \/ Register(c) \/ RegisterFails(c)
          \/ Rename(c) \/ Expire(c) \/ Break(c) \/ Unregister(c) \/ Overflow(c)
    \/ InvalidateAll \/ Reap \/ HubPanic

Spec == Init /\ [][Next]_vars

-----------------------------------------------------------------------------
\* Properties

TypeOK ==
    /\ members \in [Users -> SUBSET Channels]
    /\ replica \in [Users -> SUBSET Channels]
    /\ changes \in Nat
    /\ pending \in [Users -> Nat]
    /\ conn \in [Conns -> ConnType]
    /\ index \in IndexType
    /\ rejoined \subseteq Conns
    /\ misread \subseteq Conns

\* byUserId and byConnection hold the same connections, under the user they belong
\* to: an event for a user reaches every connection of the user in the hub, and no
\* other.  Only a connection that authenticates again can be under two users.
UserIndexExact ==
    \A c \in Conns \ rejoined : \A u \in Users :
        c \in index.user[u] <=> c \in index.conns /\ conn[c].user = u

\* An event for a channel reaches every registered connection whose list has the
\* channel, if the connection is authenticated: after clearChannels none is, until
\* it registers again.
RoutingComplete ==
    \A c \in index.conns :
        /\ conn[c].token
        /\ conn[c].stage = "open" \/ c \notin rejoined
        => \A k \in index.list[c] : c \in index.channel[k]

\* A channel leads to no connection that left the index or the channel; only a
\* connection that registered again can stay behind in a channel.
NoRoutingLeak ==
    \A k \in Channels : \A c \in index.channel[k] \ rejoined :
        c \in index.conns /\ k \in index.list[c]

\* When the hub handled every invalidation of a user, an authenticated connection
\* is routed by the channels the user is in, unless the replica it was read from
\* was behind: no order of a handshake, a change of membership and its
\* invalidation leaves a connection with an old list.
RoutingFollowsMembership ==
    \A c \in index.conns \ (misread \cup rejoined) :
        pending[conn[c].user] = 0 => index.list[c] = members[conn[c].user]

\* byConnectionId leads to the connections of the index, by their id, as long as
\* their write pump gives them no new one.
IdIndexExact ==
    \A c \in Conns : ~conn[c].renamed /\ c \notin rejoined =>
        \A i \in Conns : index.id[i] = c <=> c \in index.conns /\ conn[c].id = i

\* No connection of the index has a closed queue, so the hub neither sends on a
\* closed channel nor closes one twice (both panic), if none registers again.
OpenInIndex == \A c \in index.conns \ rejoined : ~conn[c].closed

\* "ForConnection returns the connection from its ID." (web_hub.go)
ForConnectionFindsIt ==
    \A c \in index.conns : ForConnection(conn[c].id) = c
=============================================================================
