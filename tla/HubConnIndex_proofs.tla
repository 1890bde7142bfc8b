------------------------ MODULE HubConnIndex_proofs ------------------------
(***************************************************************************)
(* Proofs about the hub's connection index, for any number of connections, *)
(* users and channels.                                                     *)
(***************************************************************************)
EXTENDS HubConnIndex, TLAPS

\* The connection c is nowhere in the index.
Outside(c) ==
    /\ c \notin index.conns
    /\ \A u \in Users : c \notin index.user[u]
    /\ \A k \in Channels : c \notin index.channel[k]
    /\ \A i \in Conns : index.id[i] # c

\* The connection c was never given to the hub.
NotYetIn(c) ==
    conn[c].stage \in {"unused", "joining", "rejoining"} \/ conn[c].user = NoUser

\* A connection that was never registered has left no trace in the index, and its
\* queue is open.
NewIsOutside ==
    \A c \in Conns \ rejoined : NotYetIn(c) => Outside(c) /\ ~conn[c].closed

\* The connection c is over, and not even its queues are left.
Dead(c) == conn[c].stage = "ended" /\ c \notin index.conns

\* An id that was not given out yet belongs to nobody.
FreshIds ==
    \A c, d \in Conns :
        /\ conn[c].stage = "unused" /\ c # d => conn[d].id # c
        /\ conn[c].reused /\ ~conn[c].renamed => conn[d].id # c

\* Two connections share an id only if one of them resumed the other, which is over;
\* one that resumes a rejoined connection is rejoined itself.
IdsDistinct ==
    \A c, d \in Conns :
        c # d /\ conn[c].id = conn[d].id /\ c \notin rejoined =>
            Dead(c) \/ (Dead(d) /\ d \notin rejoined)

\* What a connection is before its handshake, and after it.
Lifecycle ==
    \A c \in Conns :
        /\ conn[c].stage = "unused" =>
               /\ conn[c].user = NoUser /\ conn[c].id = c /\ c \notin rejoined
               /\ ~conn[c].closed /\ ~conn[c].reused /\ ~conn[c].renamed
        /\ conn[c].stage \in {"joining", "rejoining"} => conn[c].user # NoUser
        /\ c \in index.conns /\ ~conn[c].active => conn[c].stage = "ended"
        /\ conn[c].renamed => conn[c].reused

IndexInv ==
    /\ TypeOK /\ NewIsOutside /\ UserIndexExact /\ RoutingComplete /\ NoRoutingLeak
    /\ RoutingFollowsMembership /\ OpenInIndex /\ FreshIds /\ IdsDistinct /\ Lifecycle
    /\ IdIndexExact

-----------------------------------------------------------------------------
\* The operations of the index keep its type.

LEMMA StageNames ==
    /\ "unused" \in Stages /\ "joining" \in Stages /\ "open" \in Stages
    /\ "rejoining" \in Stages /\ "closing" \in Stages /\ "ended" \in Stages
BY DEF Stages

LEMMA StageUpdateType ==
    ASSUME conn \in [Conns -> ConnType],
           NEW c \in Conns, NEW s \in Stages, NEW a \in BOOLEAN
    PROVE  [conn EXCEPT ![c].stage = s, ![c].active = a] \in [Conns -> ConnType]
BY DEF ConnType

LEMMA AddedType ==
    ASSUME index \in IndexType, conn \in [Conns -> ConnType],
           NEW c \in Conns, NEW channels \in SUBSET Channels
    PROVE  Added(c, channels) \in IndexType
BY DEF Added, IndexType, IndexMaps, ConnType

LEMMA RemovedType ==
    ASSUME index \in IndexType, NEW C \in SUBSET Conns
    PROVE  Removed(C) \in IndexType
BY DEF Removed, IndexType, IndexMaps

LEMMA ReroutedType ==
    ASSUME index \in IndexType, NEW u \in Users, NEW channels \in SUBSET Channels
    PROVE  Rerouted(u, channels) \in IndexType
BY DEF Rerouted, IndexType, IndexMaps

LEMMA KnownUser ==
    ASSUME IndexInv
    PROVE  \A c \in index.conns \ rejoined : c \in Conns /\ conn[c].user \in Users
<1>1. \A c \in index.conns : c \in Conns /\ conn[c].user \in Users \cup {NoUser}
  BY DEF IndexInv, TypeOK, IndexType, IndexMaps, ConnType
<1> QED
  BY <1>1 DEF IndexInv, NewIsOutside, NotYetIn, Outside

LEMMA EmptyIndexType == EmptyIndex \in IndexType
BY DEF EmptyIndex, IndexType, IndexMaps

-----------------------------------------------------------------------------
\* Steps that leave the index alone

\* A step of one connection that keeps its user, id and queue, starts no handshake
\* and gives it no session.
LEMMA QuietKeeps ==
    ASSUME IndexInv, NEW c \in Conns,
           UNCHANGED <<database, pending, index, rejoined, misread>>,
           conn' \in [Conns -> ConnType],
           \A d \in Conns \ {c} : conn'[d] = conn[d],
           conn'[c].user = conn[c].user, conn'[c].id = conn[c].id,
           conn'[c].closed = conn[c].closed, conn'[c].reused = conn[c].reused,
           conn'[c].renamed = conn[c].renamed,
           conn'[c].token => conn[c].token,
           conn'[c].stage \in {"open", "closing", "ended"},
           conn'[c].stage = "open" => conn[c].stage = "open" \/ c \notin rejoined,
           conn[c].stage = "ended" => conn'[c].stage = "ended",
           c \in index.conns => conn'[c].active \/ conn'[c].stage = "ended"
    PROVE  IndexInv'
<1> USE DEF IndexInv
<1>1. index \in IndexType /\ index.conns \subseteq Conns
  BY DEF TypeOK, IndexType, IndexMaps
<1>2. TypeOK'
  BY DEF TypeOK, database
<1>3. NewIsOutside'
  BY <1>1 DEF NewIsOutside, NotYetIn, Outside
<1>4. UserIndexExact'
  BY <1>1 DEF UserIndexExact
<1>5. RoutingComplete'
  BY <1>1 DEF RoutingComplete
<1>6. NoRoutingLeak'
  BY DEF NoRoutingLeak
<1>7. RoutingFollowsMembership'
  BY <1>1 DEF RoutingFollowsMembership, database
<1>8. OpenInIndex'
  BY <1>1 DEF OpenInIndex
<1>9. FreshIds'
  BY DEF FreshIds
<1>10. IdsDistinct'
  BY DEF IdsDistinct, Dead
<1>11. Lifecycle'
  BY <1>1 DEF Lifecycle
<1>12. IdIndexExact'
  BY DEF IdIndexExact
<1> QED
  BY <1>2, <1>3, <1>4, <1>5, <1>6, <1>7, <1>8, <1>9, <1>10, <1>11, <1>12

LEMMA ConnectAnonymouslyKeeps ==
    ASSUME IndexInv, NEW c \in Conns, ConnectAnonymously(c)
    PROVE  IndexInv'
<1>1. conn' \in [Conns -> ConnType]
  BY StageNames, StageUpdateType DEF IndexInv, TypeOK, ConnectAnonymously
<1> QED
  BY <1>1, QuietKeeps DEF IndexInv, TypeOK, ConnType, Lifecycle, ConnectAnonymously

LEMMA RegisterFailsKeeps ==
    ASSUME IndexInv, NEW c \in Conns, RegisterFails(c)
    PROVE  IndexInv'
<1>1. conn' \in [Conns -> ConnType]
  BY StageNames DEF IndexInv, TypeOK, ConnType, RegisterFails
<1> QED
  BY <1>1, QuietKeeps DEF IndexInv, TypeOK, ConnType, RegisterFails

LEMMA ExpireKeeps ==
    ASSUME IndexInv, NEW c \in Conns, Expire(c)
    PROVE  IndexInv'
<1>1. conn' \in [Conns -> ConnType]
  BY DEF IndexInv, TypeOK, ConnType, Expire
<1>2. /\ \A d \in Conns \ {c} : conn'[d] = conn[d]
      /\ conn'[c].stage = "open" /\ conn[c].stage = "open" /\ ~conn'[c].token
      /\ conn'[c].user = conn[c].user /\ conn'[c].id = conn[c].id
      /\ conn'[c].active = conn[c].active /\ conn'[c].closed = conn[c].closed
      /\ conn'[c].reused = conn[c].reused /\ conn'[c].renamed = conn[c].renamed
  BY DEF IndexInv, TypeOK, ConnType, Expire
<1>3. c \in index.conns => conn'[c].active
  BY <1>2 DEF IndexInv, Lifecycle
<1> QED
  BY <1>1, <1>2, <1>3, QuietKeeps DEF Expire

LEMMA BreakKeeps ==
    ASSUME IndexInv, NEW c \in Conns, Break(c)
    PROVE  IndexInv'
<1>1. conn' \in [Conns -> ConnType]
  BY StageNames DEF IndexInv, TypeOK, ConnType, Break
<1> QED
  BY <1>1, QuietKeeps DEF IndexInv, TypeOK, ConnType, Lifecycle, Break

LEMMA UnregisterKeeps ==
    ASSUME IndexInv, NEW c \in Conns, Unregister(c)
    PROVE  IndexInv'
<1>1. conn' \in [Conns -> ConnType]
  BY StageNames, StageUpdateType DEF IndexInv, TypeOK, Unregister
<1> QED
  BY <1>1, QuietKeeps DEF IndexInv, TypeOK, ConnType, Unregister

-----------------------------------------------------------------------------
\* Steps that give a connection a new user or id

LEMMA ConnectKeeps ==
    ASSUME IndexInv, NEW c \in Conns, NEW u \in Users, Connect(c, u)
    PROVE  IndexInv'
<1> USE NoneAssumption DEF IndexInv
<1>1. /\ conn[c].stage = "unused"
      /\ UNCHANGED <<database, pending, index, rejoined, misread>>
      /\ index \in IndexType /\ index.conns \subseteq Conns
  BY DEF Connect, TypeOK, IndexType, IndexMaps
<1>2. \A d \in Conns \ {c} : conn'[d] = conn[d]
  BY DEF Connect, TypeOK
<1>2a. conn'[c] = [conn[c] EXCEPT !.stage = "joining", !.user = u,
                                  !.token = TRUE, !.active = TRUE]
  BY DEF Connect, TypeOK
<1>3. /\ conn'[c].stage = "joining" /\ conn'[c].user = u
      /\ conn'[c].id = conn[c].id /\ conn'[c].closed = conn[c].closed
      /\ conn'[c].reused = conn[c].reused /\ conn'[c].renamed = conn[c].renamed
  BY <1>2a DEF TypeOK, ConnType
<1>4. Outside(c) /\ ~conn[c].closed /\ c \notin rejoined
  BY <1>1 DEF NewIsOutside, NotYetIn, Lifecycle
<1>5. TypeOK'
  <2>1. conn[c] \in ConnType /\ u \in Users \cup {NoUser}
    BY DEF TypeOK
  <2>2. conn' = [d \in Conns |-> conn'[d]]
    BY DEF Connect, TypeOK
  <2>3. conn'[c] \in ConnType
    BY <1>2a, <2>1, StageNames DEF ConnType
  <2> QED
    BY <1>1, <1>2, <2>2, <2>3 DEF TypeOK, database
<1>6. NewIsOutside'
  BY <1>1, <1>2, <1>3, <1>4 DEF NewIsOutside, NotYetIn, Outside
<1>7. UserIndexExact'
  BY <1>1, <1>2, <1>3, <1>4 DEF UserIndexExact, Outside
<1>8. RoutingComplete'
  BY <1>1, <1>2, <1>4 DEF RoutingComplete, Outside
<1>9. NoRoutingLeak'
  BY <1>1 DEF NoRoutingLeak
<1>10. RoutingFollowsMembership'
  BY <1>1, <1>2, <1>4 DEF RoutingFollowsMembership, Outside, database
<1>11. OpenInIndex'
  BY <1>1, <1>2, <1>4 DEF OpenInIndex, Outside
<1>12. FreshIds'
  BY <1>1, <1>2, <1>3 DEF FreshIds
<1>13. IdsDistinct'
  BY <1>1, <1>2, <1>3 DEF IdsDistinct, Dead
<1>14. Lifecycle'
  BY <1>1, <1>2, <1>3, <1>4 DEF Lifecycle, Outside
<1>15. IdIndexExact'
  BY <1>1, <1>2, <1>3 DEF IdIndexExact
<1> QED
  BY <1>5, <1>6, <1>7, <1>8, <1>9, <1>10, <1>11, <1>12, <1>13, <1>14, <1>15

LEMMA RenameKeeps ==
    ASSUME IndexInv, NEW c \in Conns, Rename(c)
    PROVE  IndexInv'
<1> USE DEF IndexInv
<1>1. /\ conn[c].stage \in {"open", "rejoining"} /\ conn[c].reused /\ ~conn[c].renamed
      /\ UNCHANGED <<database, pending, index, rejoined, misread>>
      /\ index \in IndexType /\ index.conns \subseteq Conns
  BY DEF Rename, TypeOK, IndexType, IndexMaps
<1>2. /\ conn' \in [Conns -> ConnType]
      /\ \A d \in Conns \ {c} : conn'[d] = conn[d]
  BY DEF Rename, TypeOK, ConnType
<1>3. /\ conn'[c].stage = conn[c].stage /\ conn'[c].user = conn[c].user
      /\ conn'[c].token = conn[c].token /\ conn'[c].id = c
      /\ conn'[c].active = conn[c].active /\ conn'[c].closed = conn[c].closed
      /\ conn'[c].reused /\ conn'[c].renamed
  BY DEF Rename, TypeOK, ConnType
<1>4. TypeOK'
  BY <1>1, <1>2 DEF TypeOK, database
<1>5. NewIsOutside'
  BY <1>1, <1>2, <1>3 DEF NewIsOutside, NotYetIn, Outside
<1>6. UserIndexExact'
  BY <1>1, <1>2, <1>3 DEF UserIndexExact
<1>7. RoutingComplete'
  BY <1>1, <1>2, <1>3 DEF RoutingComplete
<1>8. NoRoutingLeak'
  BY <1>1 DEF NoRoutingLeak
<1>9. RoutingFollowsMembership'
  BY <1>1, <1>2, <1>3 DEF RoutingFollowsMembership, database
<1>10. OpenInIndex'
  BY <1>1, <1>2, <1>3 DEF OpenInIndex
<1>11. FreshIds'
  BY <1>1, <1>2, <1>3 DEF FreshIds
<1>12. IdsDistinct'
  BY <1>1, <1>2, <1>3 DEF IdsDistinct, Dead, FreshIds
<1>13. Lifecycle'
  BY <1>1, <1>2, <1>3 DEF Lifecycle
<1>14. IdIndexExact'
  BY <1>1, <1>2, <1>3 DEF IdIndexExact
<1> QED
  BY <1>4, <1>5, <1>6, <1>7, <1>8, <1>9, <1>10, <1>11, <1>12, <1>13, <1>14

LEMMA ChallengeKeeps ==
    ASSUME IndexInv, NEW c \in Conns, NEW u \in Users, Challenge(c, u)
    PROVE  IndexInv'
<1> USE NoneAssumption DEF IndexInv
<1>1. /\ conn[c].stage = "open"
      /\ UNCHANGED <<database, pending, index, misread>>
      /\ rejoined' = IF conn[c].user = NoUser THEN rejoined ELSE rejoined \cup {c}
      /\ index \in IndexType /\ index.conns \subseteq Conns
  BY DEF Challenge, TypeOK, IndexType, IndexMaps
<1>2. \A d \in Conns \ {c} : conn'[d] = conn[d]
  BY DEF Challenge, TypeOK
<1>2a. conn'[c] = [conn[c] EXCEPT !.stage = "rejoining", !.user = u, !.token = TRUE]
  BY DEF Challenge, TypeOK
<1>3. /\ conn'[c].stage = "rejoining" /\ conn'[c].user = u
      /\ conn'[c].id = conn[c].id /\ conn'[c].active = conn[c].active
      /\ conn'[c].closed = conn[c].closed
      /\ conn'[c].reused = conn[c].reused /\ conn'[c].renamed = conn[c].renamed
  BY <1>2a DEF TypeOK, ConnType
<1>4. c \notin rejoined' => Outside(c) /\ ~conn[c].closed
  BY <1>1 DEF NewIsOutside, NotYetIn
<1>5. TypeOK'
  <2>1. conn[c] \in ConnType /\ u \in Users \cup {NoUser}
    BY DEF TypeOK
  <2>2. conn' = [d \in Conns |-> conn'[d]]
    BY DEF Challenge, TypeOK
  <2>3. conn'[c] \in ConnType
    BY <1>2a, <2>1, StageNames DEF ConnType
  <2> QED
    BY <1>1, <1>2, <2>2, <2>3 DEF TypeOK, database
<1>6. NewIsOutside'
  BY <1>1, <1>2, <1>3, <1>4 DEF NewIsOutside, NotYetIn, Outside
<1>7. UserIndexExact'
  BY <1>1, <1>2, <1>3, <1>4 DEF UserIndexExact, Outside
<1>8. RoutingComplete'
  BY <1>1, <1>2, <1>3, <1>4 DEF RoutingComplete, Outside
<1>9. NoRoutingLeak'
  BY <1>1 DEF NoRoutingLeak
<1>10. RoutingFollowsMembership'
  BY <1>1, <1>2, <1>4 DEF RoutingFollowsMembership, Outside, database
<1>11. OpenInIndex'
  BY <1>1, <1>2, <1>3 DEF OpenInIndex
<1>12. FreshIds'
  BY <1>1, <1>2, <1>3 DEF FreshIds
<1>13. IdsDistinct'
  BY <1>1, <1>2, <1>3 DEF IdsDistinct, Dead
<1>14. Lifecycle'
  BY <1>1, <1>2, <1>3 DEF Lifecycle
<1>15. IdIndexExact'
  BY <1>1, <1>2, <1>3 DEF IdIndexExact
<1> QED
  BY <1>5, <1>6, <1>7, <1>8, <1>9, <1>10, <1>11, <1>12, <1>13, <1>14, <1>15

-----------------------------------------------------------------------------
\* Steps that take connections out of the index

\* The connections, with the queues of D closed.
Closing(D) == [c \in Conns |-> IF c \in D THEN [conn[c] EXCEPT !.closed = TRUE]
                                         ELSE conn[c]]

\* A step closes at most the queues of D and breaks off handshakes.
OnlyCloses(D) ==
    \A c \in Conns :
        /\ \/ conn'[c].stage = conn[c].stage
           \/ conn'[c].stage = "closing" /\ conn[c].stage # "ended"
        /\ conn'[c].user = conn[c].user /\ conn'[c].id = conn[c].id
        /\ conn'[c].reused = conn[c].reused /\ conn'[c].renamed = conn[c].renamed
        /\ conn'[c].closed = conn[c].closed \/ c \in D

LEMMA ClosingFields ==
    ASSUME conn \in [Conns -> ConnType], NEW D \in SUBSET Conns, conn' = Closing(D)
    PROVE  /\ conn' \in [Conns -> ConnType]
           /\ \A c \in Conns :
                  /\ conn'[c].stage = conn[c].stage /\ conn'[c].user = conn[c].user
                  /\ conn'[c].token = conn[c].token /\ conn'[c].id = conn[c].id
                  /\ conn'[c].active = conn[c].active
                  /\ c \notin D => conn'[c].closed = conn[c].closed
                  /\ conn'[c].reused = conn[c].reused
                  /\ conn'[c].renamed = conn[c].renamed
<1>1. conn' = [c \in Conns |-> conn'[c]]
  BY DEF Closing
<1>2. ASSUME NEW c \in D
      PROVE  /\ conn'[c] \in ConnType
             /\ conn'[c].stage = conn[c].stage /\ conn'[c].user = conn[c].user
             /\ conn'[c].token = conn[c].token /\ conn'[c].id = conn[c].id
             /\ conn'[c].active = conn[c].active
             /\ conn'[c].reused = conn[c].reused /\ conn'[c].renamed = conn[c].renamed
  <2>1. conn'[c] = [conn[c] EXCEPT !.closed = TRUE] /\ conn[c] \in ConnType
    BY DEF Closing
  <2> QED
    BY <2>1 DEF ConnType
<1>3. \A c \in Conns \ D : conn'[c] = conn[c] /\ conn[c] \in ConnType
  BY DEF Closing
<1> QED
  BY <1>1, <1>2, <1>3

\* The connections C leave the index and the queues of D are closed.
LEMMA RemovedKeeps ==
    ASSUME IndexInv, NEW C \in SUBSET Conns, NEW D \in SUBSET C,
           UNCHANGED <<database, rejoined, misread>>,
           pending' \in [Users -> Nat],
           \A u \in Users :
               pending'[u] = 0 => pending[u] = 0 \/ index.user[u] \subseteq C,
           C \ rejoined \subseteq index.conns,
           index' = Removed(C),
           conn' = Closing(D)
    PROVE  IndexInv'
<1> USE DEF IndexInv
<1>1. /\ index \in IndexType /\ index' \in IndexType
      /\ index.conns \subseteq Conns /\ index'.conns \subseteq Conns
  BY RemovedType DEF TypeOK, IndexType, IndexMaps
<1>2. \A c \in Conns :
          /\ conn'[c].stage = conn[c].stage /\ conn'[c].user = conn[c].user
          /\ conn'[c].token = conn[c].token /\ conn'[c].id = conn[c].id
          /\ conn'[c].active = conn[c].active
          /\ c \notin D => conn'[c].closed = conn[c].closed
          /\ conn'[c].reused = conn[c].reused /\ conn'[c].renamed = conn[c].renamed
  BY ClosingFields DEF TypeOK
<1>3. /\ index'.conns = index.conns \ C
      /\ \A u \in Users :
             index'.user[u] = index.user[u] \ {c \in C \cap index.conns : conn[c].user = u}
      /\ \A c \in Conns \ C : index'.list[c] = index.list[c]
      /\ \A k \in Channels :
             index'.channel[k] = index.channel[k] \
                 {c \in C \cap index.conns : k \in index.list[c]}
      /\ \A i \in Conns :
             index'.id[i] = IF \E c \in C \cap index.conns : conn[c].id = i
                            THEN NoConn ELSE index.id[i]
  BY DEF Removed
<1>4. TypeOK'
  <2>1. conn' \in [Conns -> ConnType]
    BY ClosingFields DEF TypeOK
  <2> QED
    BY <1>1, <2>1 DEF TypeOK, database
<1>5. NewIsOutside'
  BY <1>2, <1>3, NoneAssumption DEF NewIsOutside, NotYetIn, Outside
<1>6. UserIndexExact'
  BY <1>2, <1>3 DEF UserIndexExact
<1>7. RoutingComplete'
  <2>1. \A c \in Conns : index.list[c] \subseteq Channels
    BY <1>1 DEF IndexType, IndexMaps
  <2> QED
    BY <1>1, <1>2, <1>3, <2>1 DEF RoutingComplete
<1>8. NoRoutingLeak'
  BY <1>1, <1>3 DEF NoRoutingLeak, IndexType, IndexMaps
<1>9. RoutingFollowsMembership'
  BY <1>1, <1>2, <1>3, KnownUser
     DEF RoutingFollowsMembership, UserIndexExact, database
<1>10. OpenInIndex'
  BY <1>1, <1>2, <1>3 DEF OpenInIndex
<1>11. FreshIds'
  BY <1>2 DEF FreshIds
<1>12. IdsDistinct'
  BY <1>2, <1>3 DEF IdsDistinct, Dead
<1>13. Lifecycle'
  BY <1>1, <1>2, <1>3 DEF Lifecycle, NewIsOutside, NotYetIn, Outside
<1>14. IdIndexExact'
  BY <1>2, <1>3, NoneAssumption DEF IdIndexExact, IdsDistinct, Dead
<1> QED
  BY <1>4, <1>5, <1>6, <1>7, <1>8, <1>9, <1>10, <1>11, <1>12, <1>13, <1>14

\* The hub starts over with an empty index; the queues of D are closed and some
\* handshakes are cut short.
LEMMA EmptiedKeeps ==
    ASSUME IndexInv, NEW D \in SUBSET Conns,
           UNCHANGED <<database, rejoined, misread>>,
           pending' \in [Users -> Nat],
           index' = EmptyIndex,
           conn' \in [Conns -> ConnType],
           OnlyCloses(D),
           D \ rejoined \subseteq index.conns
    PROVE  IndexInv'
<1> USE DEF IndexInv, OnlyCloses
<1>1. /\ index' \in IndexType /\ index'.conns = {}
      /\ \A u \in Users : index'.user[u] = {}
      /\ \A k \in Channels : index'.channel[k] = {}
      /\ \A i \in Conns : index'.id[i] = NoConn
  BY EmptyIndexType DEF EmptyIndex
<1>2. TypeOK'
  BY <1>1 DEF TypeOK, database
<1>3. NewIsOutside'
  BY <1>1, NoneAssumption DEF NewIsOutside, NotYetIn, Outside
<1>4. UserIndexExact'
  BY <1>1 DEF UserIndexExact
<1>5. RoutingComplete' /\ RoutingFollowsMembership' /\ OpenInIndex'
  BY <1>1 DEF RoutingComplete, RoutingFollowsMembership, OpenInIndex
<1>6. NoRoutingLeak'
  BY <1>1 DEF NoRoutingLeak
<1>7. FreshIds'
  BY DEF FreshIds
<1>8. IdsDistinct'
  BY <1>1 DEF IdsDistinct, Dead
<1>9. Lifecycle'
  BY <1>1 DEF Lifecycle, NewIsOutside, NotYetIn, Outside
<1>10. IdIndexExact'
  BY <1>1, NoneAssumption DEF IdIndexExact
<1> QED
  BY <1>2, <1>3, <1>4, <1>5, <1>6, <1>7, <1>8, <1>9, <1>10

LEMMA ClosingOnlyCloses ==
    ASSUME conn \in [Conns -> ConnType], NEW D \in SUBSET Conns, conn' = Closing(D)
    PROVE  OnlyCloses(D)
<1>1. \A c \in Conns \ D : conn'[c].closed = conn[c].closed
  BY ClosingFields
<1> QED
  BY <1>1, ClosingFields DEF OnlyCloses

LEMMA OverflowKeeps ==
    ASSUME IndexInv, NEW c \in Conns, Overflow(c)
    PROVE  IndexInv'
<1>1. conn' = Closing({c}) /\ UNCHANGED <<database, pending, rejoined, misread>>
  BY DEF Overflow, CloseAndRemove, Panics, Closing
<1>2. /\ pending' \in [Users -> Nat] /\ pending' = pending
      /\ conn \in [Conns -> ConnType]
  BY <1>1 DEF IndexInv, TypeOK
<1>3. c \in index.conns /\ (index' = Removed({c}) \/ index' = EmptyIndex)
  BY DEF Overflow, CloseAndRemove, Panics
<1>4. CASE index' = Removed({c})
  BY <1>1, <1>2, <1>3, <1>4, RemovedKeeps
<1>5. CASE index' = EmptyIndex
  BY <1>1, <1>2, <1>3, <1>5, ClosingFields, ClosingOnlyCloses, EmptiedKeeps
<1> QED
  BY <1>3, <1>4, <1>5

LEMMA InvalidateUserFailsKeeps ==
    ASSUME IndexInv, NEW u \in Users, InvalidateUserFails(u)
    PROVE  IndexInv'
<1> DEFINE C == index.user[u]
<1>1. /\ UNCHANGED <<database, rejoined, misread>>
      /\ conn' = Closing(C)
      /\ index' = Removed(C) \/ index' = EmptyIndex
  BY DEF InvalidateUserFails, Closing
<1>2. /\ pending' \in [Users -> Nat]
      /\ \A v \in Users : pending'[v] = 0 => pending[v] = 0 \/ index.user[v] \subseteq C
      /\ conn \in [Conns -> ConnType]
  BY DEF InvalidateUserFails, IndexInv, TypeOK
<1>3. C \in SUBSET Conns /\ C \ rejoined \subseteq index.conns
  BY DEF IndexInv, TypeOK, IndexType, IndexMaps, UserIndexExact
<1> HIDE DEF C
<1>4. CASE index' = Removed(C)
  BY <1>1, <1>2, <1>3, <1>4, RemovedKeeps
<1>5. CASE index' = EmptyIndex
  BY <1>1, <1>2, <1>3, <1>5, ClosingFields, ClosingOnlyCloses, EmptiedKeeps
<1> QED
  BY <1>1, <1>4, <1>5

LEMMA ReapKeeps ==
    ASSUME IndexInv, Reap
    PROVE  IndexInv'
<1>1. PICK C \in SUBSET {c \in index.conns : ~conn[c].active} :
          index' = Removed(C) /\ UNCHANGED <<database, pending, conn, rejoined, misread>>
  BY DEF Reap
<1>2. C \in SUBSET Conns /\ C \subseteq index.conns
  BY DEF IndexInv, TypeOK, IndexType, IndexMaps
<1>3. conn' = Closing({})
  BY <1>1 DEF IndexInv, TypeOK, Closing
<1>4. pending' \in [Users -> Nat] /\ pending' = pending
  BY <1>1 DEF IndexInv, TypeOK
<1> QED
  BY <1>1, <1>2, <1>3, <1>4, RemovedKeeps

LEMMA HubPanicKeeps ==
    ASSUME IndexInv, HubPanic
    PROVE  IndexInv'
<1>1. /\ index' = EmptyIndex /\ conn' = conn
      /\ UNCHANGED <<database, pending, rejoined, misread>>
  BY DEF HubPanic, Panics
<1>2. pending' \in [Users -> Nat] /\ conn' \in [Conns -> ConnType]
  BY <1>1 DEF IndexInv, TypeOK
<1>3. OnlyCloses({})
  BY <1>1 DEF OnlyCloses
<1> QED
  BY <1>1, <1>2, <1>3, EmptiedKeeps

LEMMA ResumeKeeps ==
    ASSUME IndexInv, NEW c \in Conns, NEW d \in Conns, NEW u \in Users, Resume(c, d, u)
    PROVE  IndexInv'
<1> USE NoneAssumption DEF IndexInv
<1>1. /\ conn[c].stage = "unused" /\ d \in index.user[u] /\ ~conn[d].active
      /\ UNCHANGED <<database, pending, misread>>
      /\ rejoined' \subseteq Conns /\ (c \in rejoined' => c \in rejoined \/ d \in rejoined)
      /\ d \in rejoined => c \in rejoined'
      /\ \A e \in Conns \ {c} : e \in rejoined' <=> e \in rejoined
  BY DEF Resume, TypeOK
<1>2. /\ index \in IndexType /\ index' \in IndexType
      /\ index.conns \subseteq Conns /\ index'.conns \subseteq Conns
  <2>1. index' = Removed({d}) /\ {d} \in SUBSET Conns
    BY DEF Resume
  <2>2. index \in IndexType /\ index' \in IndexType
    BY <2>1, RemovedType DEF TypeOK
  <2> QED
    BY <2>2 DEF IndexType, IndexMaps
<1>3. \A e \in Conns \ {c} : conn'[e] = conn[e]
  BY DEF Resume, TypeOK
<1>4. conn'[c] = [conn[c] EXCEPT !.stage = "joining", !.user = u, !.token = TRUE,
                                 !.id = conn[d].id, !.reused = TRUE]
  BY DEF Resume, TypeOK
<1>5. /\ conn'[c].stage = "joining" /\ conn'[c].user = u
      /\ conn'[c].id = conn[d].id /\ conn'[c].closed = conn[c].closed
      /\ conn'[c].reused /\ conn'[c].renamed = conn[c].renamed
  BY <1>4 DEF TypeOK, ConnType
\* The connection that resumes was nowhere.
<1>6. Outside(c) /\ ~conn[c].closed /\ ~conn[c].renamed /\ c \notin rejoined
  BY <1>1 DEF NewIsOutside, NotYetIn, Lifecycle
\* The connection it resumes is over.
<1>7. /\ c # d /\ conn[d].stage # "unused"
      /\ d \notin rejoined =>
             d \in index.conns /\ conn[d].stage = "ended" /\ conn[d].user = u
  BY <1>1, <1>6 DEF Outside, NewIsOutside, NotYetIn, UserIndexExact, Lifecycle
<1>8. /\ index'.conns = index.conns \ {d}
      /\ \A e \in Conns \ {d} :
             /\ \A v \in Users : e \in index'.user[v] <=> e \in index.user[v]
             /\ \A k \in Channels : e \in index'.channel[k] <=> e \in index.channel[k]
             /\ index'.list[e] = index.list[e]
      /\ \A v \in Users :
             d \in index'.user[v] <=>
                 d \in index.user[v] /\ ~(d \in index.conns /\ conn[d].user = v)
      /\ \A k \in Channels :
             d \in index'.channel[k] <=>
                 d \in index.channel[k] /\ ~(d \in index.conns /\ k \in index.list[d])
      /\ \A i \in Conns :
             index'.id[i] = IF d \in index.conns /\ conn[d].id = i
                            THEN NoConn ELSE index.id[i]
  BY DEF Removed, Resume, IndexType, IndexMaps
<1>9. Outside(c)'
  BY <1>6, <1>8 DEF Outside
<1>10. TypeOK'
  <2>1. conn[c] \in ConnType /\ conn[d].id \in Conns /\ u \in Users \cup {NoUser}
    BY DEF TypeOK, ConnType
  <2>2. conn' = [e \in Conns |-> conn'[e]]
    BY DEF Resume, TypeOK
  <2>3. conn'[c] \in ConnType
    BY <1>4, <2>1, StageNames DEF ConnType
  <2> QED
    BY <1>1, <1>2, <1>3, <2>2, <2>3 DEF TypeOK, database
<1>11. NewIsOutside'
  BY <1>1, <1>3, <1>5, <1>6, <1>8, <1>9 DEF NewIsOutside, NotYetIn, Outside
<1>12. UserIndexExact'
  BY <1>1, <1>3, <1>8, <1>9 DEF UserIndexExact, Outside
<1>13. RoutingComplete'
  <2>1. \A e \in Conns : index.list[e] \subseteq Channels
    BY <1>2 DEF IndexType, IndexMaps
  <2> QED
    BY <1>1, <1>2, <1>3, <1>8, <1>9, <2>1 DEF RoutingComplete, Outside
<1>14. NoRoutingLeak'
  <2>1. \A k \in Channels : index'.channel[k] \subseteq Conns
    BY <1>2 DEF IndexType, IndexMaps
  <2> QED
    BY <1>1, <1>7, <1>8, <1>9, <2>1 DEF NoRoutingLeak, Outside
<1>15. RoutingFollowsMembership'
  BY <1>1, <1>2, <1>3, <1>8, <1>9 DEF RoutingFollowsMembership, Outside, database
<1>16. OpenInIndex'
  BY <1>1, <1>2, <1>3, <1>8, <1>9 DEF OpenInIndex, Outside
<1>17. FreshIds'
  BY <1>1, <1>3, <1>5, <1>7 DEF FreshIds
<1>18. IdsDistinct'
  BY <1>1, <1>3, <1>5, <1>6, <1>7, <1>8, <1>9 DEF IdsDistinct, Dead, Outside
<1>19. Lifecycle'
  BY <1>1, <1>2, <1>3, <1>5, <1>6, <1>8, <1>9 DEF Lifecycle, Outside
<1>20. IdIndexExact'
  BY <1>1, <1>3, <1>5, <1>8, <1>9 DEF IdIndexExact, IdsDistinct, Dead, Outside
<1> QED
  BY <1>10, <1>11, <1>12, <1>13, <1>14, <1>15, <1>16, <1>17, <1>18, <1>19, <1>20

-----------------------------------------------------------------------------
\* Steps that put connections into the index, or route them

LEMMA RegisterKeeps ==
    ASSUME IndexInv, NEW c \in Conns, Register(c)
    PROVE  IndexInv'
<1> USE NoneAssumption DEF IndexInv
<1> DEFINE u == conn[c].user
           channels == replica[u]
           opened == [conn EXCEPT ![c].stage = "open", ![c].active = TRUE]
<1>1. /\ conn[c].stage \in {"joining", "rejoining"}
      /\ u \in Users /\ channels \in SUBSET Channels
      /\ c \notin rejoined => Outside(c) /\ ~conn[c].closed
  BY DEF Register, Lifecycle, TypeOK, ConnType, NewIsOutside, NotYetIn
<1>2. CASE /\ index' = Added(c, channels) /\ conn' = opened
           /\ misread' = IF replica[u] = members[u] THEN misread \ {c}
                                                     ELSE misread \cup {c}
           /\ UNCHANGED <<database, pending, rejoined>>
  <2>1. conn' \in [Conns -> ConnType]
    BY <1>2, StageNames, StageUpdateType DEF TypeOK
  <2>2. /\ \A d \in Conns \ {c} : conn'[d] = conn[d]
        /\ conn'[c].stage = "open" /\ conn'[c].user = u /\ conn'[c].active
        /\ conn'[c].id = conn[c].id /\ conn'[c].closed = conn[c].closed
        /\ conn'[c].token = conn[c].token
        /\ conn'[c].reused = conn[c].reused /\ conn'[c].renamed = conn[c].renamed
    BY <1>2 DEF TypeOK, ConnType
  <2>3. /\ index'.conns = index.conns \cup {c}
        /\ index'.list[c] = channels
        /\ \A d \in Conns \ {c} :
               /\ index'.list[d] = index.list[d]
               /\ \A v \in Users : d \in index'.user[v] <=> d \in index.user[v]
               /\ \A k \in Channels : d \in index'.channel[k] <=> d \in index.channel[k]
        /\ \A v \in Users : c \in index'.user[v] <=> c \in index.user[v] \/ v = u
        /\ \A k \in Channels :
               c \in index'.channel[k] <=> c \in index.channel[k] \/ k \in channels
        /\ index'.id[conn[c].id] = c
        /\ \A i \in Conns \ {conn[c].id} : index'.id[i] = index.id[i]
    BY <1>2 DEF Added, TypeOK, IndexType, IndexMaps, ConnType
  <2>4. /\ index \in IndexType /\ index' \in IndexType /\ conn[c].id \in Conns
        /\ index.conns \subseteq Conns /\ index'.conns \subseteq Conns
    BY <1>1, <1>2, AddedType DEF TypeOK, IndexType, IndexMaps, ConnType
  <2> HIDE DEF u, channels, opened
  <2>5. TypeOK'
    BY <1>2, <2>1, <2>4 DEF TypeOK, database
  <2>6. NewIsOutside'
    BY <1>1, <1>2, <2>2, <2>3 DEF NewIsOutside, NotYetIn, Outside
  <2>7. UserIndexExact'
    BY <1>1, <1>2, <2>2, <2>3 DEF UserIndexExact, Outside
  <2>8. RoutingComplete'
    <3>1. \A d \in Conns : index.list[d] \subseteq Channels
      BY <2>4 DEF IndexType, IndexMaps
    <3> QED
      BY <1>1, <1>2, <2>2, <2>3, <2>4, <3>1 DEF RoutingComplete
  <2>9. NoRoutingLeak'
    <3>1. \A k \in Channels : index'.channel[k] \subseteq Conns
      BY <2>4 DEF IndexType, IndexMaps
    <3> QED
      BY <1>1, <1>2, <2>3, <3>1 DEF NoRoutingLeak, Outside
  <2>10. RoutingFollowsMembership'
    BY <1>1, <1>2, <2>2, <2>3, <2>4 DEF RoutingFollowsMembership, database, u, channels
  <2>11. OpenInIndex'
    BY <1>1, <1>2, <2>2, <2>3, <2>4 DEF OpenInIndex
  <2>12. FreshIds'
    BY <1>1, <2>2 DEF FreshIds
  <2>13. IdsDistinct'
    BY <1>1, <1>2, <2>2, <2>3 DEF IdsDistinct, Dead
  <2>14. Lifecycle'
    BY <1>1, <1>2, <2>2, <2>3, <2>4 DEF Lifecycle
  <2>15. IdIndexExact'
    BY <1>1, <1>2, <2>2, <2>3, <2>4 DEF IdIndexExact, IdsDistinct, Dead, Outside
  <2> QED
    BY <2>5, <2>6, <2>7, <2>8, <2>9, <2>10, <2>11, <2>12, <2>13, <2>14, <2>15
<1>3. CASE conn[c].closed /\ Panics([opened EXCEPT ![c].stage = "closing"])
  <2>1. conn' = [conn EXCEPT ![c].stage = "closing", ![c].active = TRUE]
    BY <1>3 DEF Panics, TypeOK, ConnType
  <2>2. conn' \in [Conns -> ConnType]
    BY <2>1, StageNames, StageUpdateType DEF TypeOK
  <2>3. OnlyCloses({})
    BY <1>1, <2>1 DEF OnlyCloses, TypeOK, ConnType
  <2>4. /\ index' = EmptyIndex /\ UNCHANGED <<database, pending, rejoined, misread>>
        /\ pending' \in [Users -> Nat]
    BY <1>3 DEF Panics, TypeOK
  <2> QED
    BY <2>2, <2>3, <2>4, EmptiedKeeps
<1> QED
  BY <1>2, <1>3 DEF Register, ReadFor

LEMMA InvalidateUserKeeps ==
    ASSUME IndexInv, NEW u \in Users, InvalidateUser(u)
    PROVE  IndexInv'
<1> USE DEF IndexInv
<1> DEFINE channels == replica[u]
           known == index.user[u] \cap index.conns
<1>1. /\ UNCHANGED <<database, conn, rejoined>>
      /\ \A v \in Users \ {u} : pending'[v] = pending[v]
      /\ pending' \in [Users -> Nat]
      /\ misread' = IF replica[u] = members[u] THEN misread \ index.user[u]
                                                ELSE misread \cup index.user[u]
  BY DEF InvalidateUser, ReadFor, TypeOK
<1>2. /\ channels \in SUBSET Channels
      /\ index \in IndexType /\ index.user[u] \in SUBSET Conns
      /\ index' = Rerouted(u, channels)
  BY DEF InvalidateUser, TypeOK, IndexType, IndexMaps
<1>3. /\ index' \in IndexType /\ index.conns \subseteq Conns
      /\ \A c \in Conns : index.list[c] \subseteq Channels
      /\ \A k \in Channels : index'.channel[k] \subseteq Conns
  <2>1. index' \in IndexType
    BY <1>2, ReroutedType
  <2> QED
    BY <1>2, <2>1 DEF IndexType, IndexMaps
<1>4. /\ index'.conns = index.conns /\ index'.user = index.user /\ index'.id = index.id
      /\ \A c \in Conns : index'.list[c] = IF c \in known THEN channels ELSE index.list[c]
      /\ \A k \in Channels : \A c \in Conns :
             c \in index'.channel[k] <=>
                 \/ c \in index.channel[k] /\ ~(c \in known /\ k \in index.list[c])
                 \/ k \in channels /\ c \in index.user[u]
  BY <1>2 DEF Rerouted, IndexType, IndexMaps
<1>5. TypeOK'
  <2>1. misread' \subseteq Conns
    BY <1>1, <1>2 DEF TypeOK
  <2> QED
    BY <1>1, <1>3, <2>1 DEF TypeOK, database
<1>6. NewIsOutside'
  <2>1. ASSUME NEW c \in Conns, Outside(c)
        PROVE  Outside(c)'
    BY <1>4, <2>1 DEF Outside
  <2> QED
    BY <1>1, <2>1 DEF NewIsOutside, NotYetIn
<1>7. UserIndexExact'
  BY <1>1, <1>4 DEF UserIndexExact
<1>8. RoutingComplete'
  BY <1>1, <1>2, <1>3, <1>4 DEF RoutingComplete
<1>9. NoRoutingLeak'
  BY <1>1, <1>3, <1>4 DEF NoRoutingLeak, UserIndexExact
<1>10. RoutingFollowsMembership'
  <2>1. ASSUME NEW c \in index'.conns \ (misread' \cup rejoined'),
               pending'[conn'[c].user] = 0
        PROVE  index'.list[c] = members'[conn'[c].user]
    <3>1. c \in Conns /\ c \in index.conns \ rejoined /\ conn[c].user \in Users
      BY <1>1, <1>4, KnownUser
    <3>2. CASE conn[c].user = u
      BY <1>1, <1>4, <3>1, <3>2 DEF UserIndexExact, database
    <3>3. CASE conn[c].user # u
      BY <1>1, <1>4, <2>1, <3>1, <3>3
         DEF UserIndexExact, RoutingFollowsMembership, database
    <3> QED
      BY <3>2, <3>3
  <2> QED
    BY <2>1 DEF RoutingFollowsMembership
<1>11. OpenInIndex' /\ FreshIds' /\ IdsDistinct' /\ Lifecycle' /\ IdIndexExact'
  BY <1>1, <1>4 DEF OpenInIndex, FreshIds, IdsDistinct, Dead, Lifecycle, IdIndexExact
<1> QED
  BY <1>5, <1>6, <1>7, <1>8, <1>9, <1>10, <1>11

LEMMA InvalidateAllKeeps ==
    ASSUME IndexInv, InvalidateAll
    PROVE  IndexInv'
<1> USE DEF IndexInv
<1>1. /\ UNCHANGED <<database, pending, rejoined, misread>>
      /\ index \in IndexType /\ index.conns \subseteq Conns
      /\ index' = [index EXCEPT !.channel = [k \in Channels |-> {}]]
  BY DEF InvalidateAll, TypeOK, IndexType, IndexMaps
<1>2. /\ index' \in IndexType
      /\ index'.conns = index.conns /\ index'.list = index.list
      /\ index'.user = index.user /\ index'.id = index.id
      /\ \A k \in Channels : index'.channel[k] = {}
  BY <1>1 DEF IndexType, IndexMaps
<1>3. \A c \in Conns : conn'[c] = IF c \in index.conns
                                  THEN [conn[c] EXCEPT !.token = FALSE] ELSE conn[c]
  BY DEF InvalidateAll
<1>4. ASSUME NEW c \in Conns
      PROVE  /\ conn'[c] \in ConnType
             /\ conn'[c].stage = conn[c].stage /\ conn'[c].user = conn[c].user
             /\ conn'[c].id = conn[c].id /\ conn'[c].active = conn[c].active
             /\ conn'[c].closed = conn[c].closed
             /\ conn'[c].reused = conn[c].reused /\ conn'[c].renamed = conn[c].renamed
             /\ c \in index.conns => ~conn'[c].token
  <2>1. conn[c] \in ConnType
    BY DEF TypeOK
  <2>2. CASE c \in index.conns
    <3>1. conn'[c] = [conn[c] EXCEPT !.token = FALSE]
      BY <1>3, <2>2
    <3> QED
      BY <2>1, <3>1 DEF ConnType
  <2>3. CASE c \notin index.conns
    BY <1>3, <2>1, <2>3
  <2> QED
    BY <2>2, <2>3
<1>5. TypeOK'
  <2>1. conn' = [c \in Conns |-> conn'[c]]
    BY DEF InvalidateAll
  <2> QED
    BY <1>1, <1>2, <1>4, <2>1 DEF TypeOK, database
<1>6. NewIsOutside'
  BY <1>1, <1>2, <1>4 DEF NewIsOutside, NotYetIn, Outside
<1>7. UserIndexExact'
  BY <1>1, <1>2, <1>4 DEF UserIndexExact
<1>8. RoutingComplete' /\ NoRoutingLeak'
  BY <1>1, <1>2, <1>4 DEF RoutingComplete, NoRoutingLeak
<1>9. RoutingFollowsMembership'
  BY <1>1, <1>2, <1>4 DEF RoutingFollowsMembership, database
<1>10. OpenInIndex' /\ FreshIds' /\ IdsDistinct'
  BY <1>1, <1>2, <1>4 DEF OpenInIndex, FreshIds, IdsDistinct, Dead
<1>11. Lifecycle'
  BY <1>1, <1>2, <1>4 DEF Lifecycle
<1>12. IdIndexExact'
  BY <1>1, <1>2, <1>4 DEF IdIndexExact
<1> QED
  BY <1>5, <1>6, <1>7, <1>8, <1>9, <1>10, <1>11, <1>12

-----------------------------------------------------------------------------
\* Steps of the database

LEMMA ChangeMembershipKeeps ==
    ASSUME IndexInv, NEW u \in Users, ChangeMembership(u)
    PROVE  IndexInv'
<1> USE DEF IndexInv
<1>1. UNCHANGED <<replica, conn, index, rejoined, misread>>
  BY DEF ChangeMembership
<1>2. TypeOK'
  BY <1>1 DEF ChangeMembership, TypeOK
<1>3. /\ pending'[u] > 0
      /\ \A v \in Users \ {u} : pending'[v] = pending[v] /\ members'[v] = members[v]
  BY DEF ChangeMembership, TypeOK
<1>4. RoutingFollowsMembership'
  BY <1>1, <1>3, KnownUser DEF RoutingFollowsMembership
<1>5. NewIsOutside' /\ UserIndexExact' /\ RoutingComplete' /\ NoRoutingLeak'
  BY <1>1 DEF NewIsOutside, NotYetIn, Outside, UserIndexExact, RoutingComplete, NoRoutingLeak
<1>6. OpenInIndex' /\ FreshIds' /\ IdsDistinct' /\ Lifecycle' /\ IdIndexExact'
  BY <1>1 DEF OpenInIndex, FreshIds, IdsDistinct, Dead, Lifecycle, IdIndexExact
<1> QED
  BY <1>2, <1>4, <1>5, <1>6

LEMMA ReplicaCatchesUpKeeps ==
    ASSUME IndexInv, ReplicaCatchesUp
    PROVE  IndexInv'
<1> USE DEF IndexInv
<1>1. UNCHANGED <<members, changes, pending, conn, index, rejoined, misread>>
  BY DEF ReplicaCatchesUp
<1>2. TypeOK'
  BY <1>1 DEF ReplicaCatchesUp, TypeOK
<1>3. NewIsOutside' /\ UserIndexExact' /\ RoutingComplete' /\ NoRoutingLeak'
  BY <1>1 DEF NewIsOutside, NotYetIn, Outside, UserIndexExact, RoutingComplete, NoRoutingLeak
<1>4. RoutingFollowsMembership' /\ OpenInIndex' /\ FreshIds'
  BY <1>1 DEF RoutingFollowsMembership, OpenInIndex, FreshIds
<1>5. IdsDistinct' /\ Lifecycle' /\ IdIndexExact'
  BY <1>1 DEF IdsDistinct, Dead, Lifecycle, IdIndexExact
<1> QED
  BY <1>2, <1>3, <1>4, <1>5

-----------------------------------------------------------------------------
\* The theorems

LEMMA InitIndexInv == Init => IndexInv
<1> SUFFICES ASSUME Init PROVE IndexInv
  OBVIOUS
<1> USE NoneAssumption DEF Init
<1>1. /\ index.conns = {} /\ \A i \in Conns : index.id[i] = NoConn
      /\ \A u \in Users : index.user[u] = {}
      /\ \A k \in Channels : index.channel[k] = {}
  BY DEF EmptyIndex
<1>2. \A c \in Conns : conn[c] = Unused(c)
  OBVIOUS
<1>3. \A c \in Conns :
          /\ conn[c].stage = "unused" /\ conn[c].user = NoUser /\ conn[c].id = c
          /\ ~conn[c].closed /\ ~conn[c].reused /\ ~conn[c].renamed
  BY <1>2 DEF Unused
<1>4. TypeOK
  <2>1. \A c \in Conns : Unused(c) \in ConnType
    BY StageNames DEF Unused, ConnType
  <2> QED
    BY <2>1, EmptyIndexType DEF TypeOK
<1>5. NewIsOutside /\ UserIndexExact /\ RoutingComplete /\ NoRoutingLeak
  BY <1>1, <1>3 DEF NewIsOutside, Outside, UserIndexExact, RoutingComplete, NoRoutingLeak
<1>6. RoutingFollowsMembership /\ OpenInIndex /\ FreshIds /\ IdsDistinct
  BY <1>1, <1>3 DEF RoutingFollowsMembership, OpenInIndex, FreshIds, IdsDistinct
<1>7. Lifecycle /\ IdIndexExact
  BY <1>1, <1>3 DEF Lifecycle, IdIndexExact
<1> QED
  BY <1>4, <1>5, <1>6, <1>7 DEF IndexInv

LEMMA NextKeepsIndexInv == IndexInv /\ [Next]_vars => IndexInv'
<1> SUFFICES ASSUME IndexInv, [Next]_vars PROVE IndexInv'
  OBVIOUS
<1>1. ASSUME NEW u \in Users, ChangeMembership(u) PROVE IndexInv'
  BY <1>1, ChangeMembershipKeeps
<1>2. ASSUME NEW u \in Users, InvalidateUser(u) PROVE IndexInv'
  BY <1>2, InvalidateUserKeeps
<1>3. ASSUME NEW u \in Users, InvalidateUserFails(u) PROVE IndexInv'
  BY <1>3, InvalidateUserFailsKeeps
<1>4. ASSUME NEW c \in Conns, NEW u \in Users, Connect(c, u) PROVE IndexInv'
  BY <1>4, ConnectKeeps
<1>5. ASSUME NEW c \in Conns, NEW u \in Users, Challenge(c, u) PROVE IndexInv'
  BY <1>5, ChallengeKeeps
<1>6. ASSUME NEW c \in Conns, NEW u \in Users, NEW d \in Conns, Resume(c, d, u)
      PROVE  IndexInv'
  BY <1>6, ResumeKeeps
<1>7. ASSUME NEW c \in Conns,
             ConnectAnonymously(c) \/ Register(c) \/ RegisterFails(c) \/ Rename(c)
      PROVE  IndexInv'
  BY <1>7, ConnectAnonymouslyKeeps, RegisterKeeps, RegisterFailsKeeps, RenameKeeps
<1>8. ASSUME NEW c \in Conns, Expire(c) \/ Break(c) \/ Unregister(c) \/ Overflow(c)
      PROVE  IndexInv'
  BY <1>8, ExpireKeeps, BreakKeeps, UnregisterKeeps, OverflowKeeps
<1>9. CASE ReplicaCatchesUp \/ InvalidateAll \/ Reap \/ HubPanic
  BY <1>9, ReplicaCatchesUpKeeps, InvalidateAllKeeps, ReapKeeps, HubPanicKeeps
<1>10. CASE UNCHANGED vars
  <2>1. UNCHANGED <<members, replica, changes, pending, conn, index, rejoined, misread>>
    BY <1>10 DEF vars, database
  <2>2. (TypeOK /\ NewIsOutside /\ UserIndexExact /\ RoutingComplete /\ NoRoutingLeak)'
    BY <2>1 DEF IndexInv, TypeOK, NewIsOutside, NotYetIn, Outside, UserIndexExact,
                RoutingComplete, NoRoutingLeak
  <2>3. (RoutingFollowsMembership /\ OpenInIndex /\ FreshIds)'
    BY <2>1 DEF IndexInv, RoutingFollowsMembership, OpenInIndex, FreshIds
  <2>4. (IdsDistinct /\ Lifecycle /\ IdIndexExact)'
    BY <2>1 DEF IndexInv, IdsDistinct, Dead, Lifecycle, IdIndexExact
  <2> QED
    BY <2>2, <2>3, <2>4 DEF IndexInv
<1> QED
  BY <1>1, <1>2, <1>3, <1>4, <1>5, <1>6, <1>7, <1>8, <1>9, <1>10 DEF Next

\* The invariant of the index (hubConnectionIndex and the WebConns it holds).
THEOREM IndexInvariant == Spec => []IndexInv
BY InitIndexInv, NextKeepsIndexInv, PTL DEF Spec

\* Type correctness of the index, its connections and the memberships.
THEOREM TypeCorrect == Spec => []TypeOK
<1>1. IndexInv => TypeOK
  BY DEF IndexInv
<1> QED
  BY IndexInvariant, <1>1, PTL

\* Events for a user reach exactly the user's connections in the hub (byUserId and
\* byConnection agree), but for connections that authenticated again.
THEOREM UserIndexIsExact == Spec => []UserIndexExact
<1>1. IndexInv => UserIndexExact
  BY DEF IndexInv
<1> QED
  BY IndexInvariant, <1>1, PTL

\* Events for a channel reach every authenticated connection that lists the channel
\* (byChannelKey has what byConnection lists).
THEOREM RoutingIsComplete == Spec => []RoutingComplete
<1>1. IndexInv => RoutingComplete
  BY DEF IndexInv
<1> QED
  BY IndexInvariant, <1>1, PTL

\* Events for a channel reach no connection that left it or the hub (byChannelKey has
\* nothing byConnection does not list), but for connections that authenticated again.
THEOREM RoutingDoesNotLeak == Spec => []NoRoutingLeak
<1>1. IndexInv => NoRoutingLeak
  BY DEF IndexInv
<1> QED
  BY IndexInvariant, <1>1, PTL

\* No order of handshakes, changes of membership and invalidations leaves a
\* connection routed by channels its user left (InvalidateCMCacheForUser, Add), unless
\* the read replica was behind when they were read.
THEOREM RoutingCatchesUp == Spec => []RoutingFollowsMembership
<1>1. IndexInv => RoutingFollowsMembership
  BY DEF IndexInv
<1> QED
  BY IndexInvariant, <1>1, PTL

\* A lookup by connection id finds the connection, as long as its write pump gave it
\* no new id (byConnectionId).
THEOREM IdIndexIsExact == Spec => []IdIndexExact
<1>1. IndexInv => IdIndexExact
  BY DEF IndexInv
<1> QED
  BY IndexInvariant, <1>1, PTL

\* The hub never has a connection in its index whose send queue it closed, and so never
\* panics by a send or a second close, but for connections that authenticated again.
THEOREM IndexedQueuesAreOpen == Spec => []OpenInIndex
<1>1. IndexInv => OpenInIndex
  BY DEF IndexInv
<1> QED
  BY IndexInvariant, <1>1, PTL
=============================================================================
