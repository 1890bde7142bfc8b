------------------------- MODULE ChannelPosts_proofs -------------------------
(***************************************************************************)
(* Proofs about the posts of the web client, for any number of posts,      *)
(* calls and events.                                                       *)
(*                                                                         *)
(* First the copies: that one is neither outdated nor a ghost unless an    *)
(* event was lost.  The blocks are not needed for this: a step changes     *)
(* them as it likes, and a reducer that throws leaves a copy as it was.    *)
(*                                                                         *)
(* Then the blocks, with ChannelInv: it needs the copies, the order in     *)
(* which the client is told of posts, and what a page on its way can be.   *)
(***************************************************************************)
EXTENDS ChannelPosts, PostBlocks_proofs

\* The versions of a post that may still reach the client: what the server has, what
\* posted events carry, and what answers on their way carry.
Original(p) == [at |-> log[p].at, upd |-> log[p].at, deleted |-> FALSE]
Answered(p) == {call.page.posts[p] : call \in {c \in calls : p \in DOMAIN c.page.posts}}
Created(p) == IF create.id = p THEN {create.post} ELSE {}
Versions(p) == {log[p], Original(p)} \cup Answered(p) \cup Created(p)

\* The events of its changes that are still to come, and whether one was lost, or the
\* mark it left was
Events(type, p) == {e \in ToSet(events) : e.type = type /\ e.id = p}
Lost(type, p) ==
    [type |-> type, id |-> p] \in missed \/ (type = "post_deleted" /\ p \in revived)

\* What holds between a post, the versions on their way, the client's copy, and the
\* edits and deletions still to be told or lost.
Dated(post, versions, copy, edits, deletions) ==
    /\ post.at \in Nat /\ post.upd \in Nat /\ post.deleted \in BOOLEAN /\ post.at <= post.upd
    /\ copy.upd \in Nat
    /\ \A v \in versions \cup edits : v.upd \in Nat /\ post.at <= v.upd /\ v.upd <= post.upd
    /\ \A v \in versions : v.at \in Nat /\ v.deleted \in BOOLEAN
    /\ \A d \in deletions : d.upd \in Nat
    /\ copy.st # "none" => post.at <= copy.upd /\ copy.upd <= post.upd

\* The last edit that is still to be told is as new as every live version; when all
\* were told the copy is, and without a copy there was no edit.
Covered(post, versions, copy, edits, editLost) ==
    /\ edits # {} => \E e \in edits : \A v \in versions : ~v.deleted => v.upd <= e.upd
    /\ edits = {} /\ ~editLost =>
          \A v \in versions : ~v.deleted =>
              v.upd <= IF copy.st = "none" THEN post.at ELSE copy.upd

\* The deletion is told last, and then the copy is marked, and stays so unless a version
\* of the same update_at is taken for another.
Marked(post, copy, edits, deletions, editLost, deletionLost) ==
    /\ deletions # {} => post.deleted
    /\ post.deleted /\ edits # {} => deletions # {}
    /\ \A e \in edits, d \in deletions : e.upd < d.upd
    /\ post.deleted /\ edits = {} /\ deletions = {} /\ ~editLost /\ ~deletionLost
          => copy.st = "deleted"

Consistent(post, versions, copy, edits, deletions, editLost, deletionLost) ==
    /\ Dated(post, versions, copy, edits, deletions)
    /\ Covered(post, versions, copy, edits, editLost)
    /\ Marked(post, copy, edits, deletions, editLost, deletionLost)

PostConsistent(p) ==
    Consistent(log[p], Versions(p), stored[p], Events("post_edited", p),
               Events("post_deleted", p), Lost("post_edited", p), Lost("post_deleted", p))

\* The server's posts, and the client's copies of them
PostType == [at : Nat, upd : Nat, deleted : BOOLEAN, own : BOOLEAN, hidden : BOOLEAN]
CopyType == [at : Nat, upd : Nat, st : {"none", "live", "deleted", "failed"}]
LogInv ==
    /\ now \in Nat
    /\ log \in Seq(PostType) /\ Len(log) <= MaxPosts
    /\ \A p \in DOMAIN log : log[p].upd <= now
StoredInv ==
    /\ stored \in [Ids -> CopyType]
    /\ \A p \in PostIds \ DOMAIN log : stored[p].st = "none"

\* Events come in the order of what they tell; those that are held tell of new posts.
EventType == [type : {"posted", "post_edited", "post_deleted"}, id : PostIds, upd : Nat]
EventOk(e) ==
    /\ e \in EventType /\ e.id \in DOMAIN log /\ e.upd <= now
    /\ e.type = "posted" => e.upd = log[e.id].at
EventsInv ==
    /\ events \in Seq(EventType)
    /\ \A e \in ToSet(events) : EventOk(e)
    /\ \A i, j \in DOMAIN events : i < j => events[i].upd < events[j].upd
HeldInv ==
    /\ held \in Seq(EventType)
    /\ \A e \in ToSet(held) : EventOk(e) /\ e.type = "posted"

\* The calls in flight, and createPost
Kinds == {"latest", "newest", "unread", "after", "before", "around", "since"}
IsCall(c) ==
    /\ c.kind \in Kinds
    /\ c = [kind |-> c.kind, anchor |-> c.anchor, since |-> c.since, time |-> c.time,
            page |-> c.page]
CallsInv == \A c \in calls : IsCall(c) /\ DOMAIN c.page.posts \subseteq DOMAIN log
CreateInv ==
    /\ create = [st |-> create.st, at |-> create.at, id |-> create.id, post |-> create.post]
    /\ create.at \in Nat
    /\ create.st \in {"created", "found"} => create.id \in DOMAIN log
    /\ create.st \notin {"created", "found"} => create.id = PendingId

\* The copy was marked deleted, and is replaced by the version it was a copy of.
Revives(copy, v, differs) ==
    differs /\ copy.st = "deleted" /\ copy.upd = v.upd /\ ~v.deleted

\* A copy stays or becomes one of the versions, and a mark that goes is known to.
Becomes(copy, next, versions, lost) ==
    \/ next = copy
    \/ \E v \in versions, d \in BOOLEAN :
           next = Receive(copy, v, d) /\ (Revives(copy, v, d) => lost)

\* No event of a change is lost, but versions may be taken for others.
LostNow ==
    /\ revived \subseteq revived'
    /\ \A p, type : type # "posted" =>
           ([type |-> type, id |-> p] \in missed' <=> [type |-> type, id |-> p] \in missed)

\* The client's copy of a post stays, or becomes one of its versions.
CopyStep(p) ==
    \/ stored'[p] = stored[p]
    \/ p \in DOMAIN log /\ Becomes(stored[p], stored'[p], Versions(p), p \in revived')

CopiesInv ==
    /\ LogInv /\ StoredInv /\ EventsInv /\ HeldInv /\ CallsInv /\ CreateInv
    /\ \A p \in DOMAIN log : PostConsistent(p)

-----------------------------------------------------------------------------
\* What happens to one post

\* The client receives a version of the post, or nothing, or calls end.
LEMMA VersionReceived ==
    ASSUME NEW post, NEW V, NEW copy, NEW E, NEW D, NEW el \in BOOLEAN, NEW dl \in BOOLEAN,
           Consistent(post, V, copy, E, D, el, dl),
           NEW W \in SUBSET V, NEW next, NEW lost \in BOOLEAN, dl => lost,
           Becomes(copy, next, V, lost)
    PROVE  Consistent(post, W, next, E, D, el, lost)
<1>1. Dated(post, W, next, E, D)
  BY DEF Consistent, Dated, Becomes, Receive, Newer
<1>2. Covered(post, W, next, E, el)
  BY DEF Consistent, Dated, Covered, Becomes, Receive, Newer
<1>3. Marked(post, next, E, D, el, lost)
  BY DEF Consistent, Dated, Covered, Marked, Becomes, Receive, Newer, Revives
<1> QED
  BY <1>1, <1>2, <1>3 DEF Consistent

\* The server edits it.
LEMMA PostEdited ==
    ASSUME NEW post, NEW V, NEW copy, NEW E, NEW D, NEW el \in BOOLEAN, NEW dl \in BOOLEAN,
           Consistent(post, V, copy, E, D, el, dl),
           ~post.deleted, NEW t \in Nat, post.upd < t,
           NEW next, next.at = post.at, next.upd = t, next.deleted \in BOOLEAN, ~next.deleted,
           NEW W \in SUBSET (V \cup {next}), NEW e, e.upd = t
    PROVE  Consistent(next, W, copy, E \cup {e}, D, el, dl)
<1>1. Dated(next, W, copy, E \cup {e}, D)
  BY DEF Consistent, Dated
<1>2. Covered(next, W, copy, E \cup {e}, el)
  <2>1. \A v \in W : v.upd <= e.upd
    BY DEF Consistent, Dated
  <2> QED
    BY <2>1 DEF Covered
<1>3. Marked(next, copy, E \cup {e}, D, el, dl)
  BY DEF Consistent, Marked
<1> QED
  BY <1>1, <1>2, <1>3 DEF Consistent

\* The server deletes it.
LEMMA PostDeleted ==
    ASSUME NEW post, NEW V, NEW copy, NEW E, NEW D, NEW el \in BOOLEAN, NEW dl \in BOOLEAN,
           Consistent(post, V, copy, E, D, el, dl),
           ~post.deleted, NEW t \in Nat, post.upd < t,
           NEW next, next.at = post.at, next.upd = t, next.deleted \in BOOLEAN, ~(~next.deleted),
           NEW W \in SUBSET (V \cup {next}), NEW d, d.upd = t
    PROVE  Consistent(next, W, copy, E, D \cup {d}, el, dl)
<1>1. Dated(next, W, copy, E, D \cup {d})
  <2>1. next.deleted \in BOOLEAN
    OBVIOUS
  <2>2. \A v \in W : v.deleted \in BOOLEAN
    BY <2>1 DEF Consistent, Dated
  <2> QED
    BY <2>1, <2>2 DEF Consistent, Dated
<1>2. Covered(next, W, copy, E, el)
  BY DEF Consistent, Covered, Dated
<1>3. Marked(next, copy, E, D \cup {d}, el, dl)
  <2>1. \A e \in E : e.upd < t
    BY DEF Consistent, Dated
  <2> QED
    BY <2>1 DEF Consistent, Marked
<1> QED
  BY <1>1, <1>2, <1>3 DEF Consistent

\* The client is told of the edit that comes first.
LEMMA EditTold ==
    ASSUME NEW post, NEW V, NEW copy, NEW E, NEW D, NEW el \in BOOLEAN, NEW dl \in BOOLEAN,
           Consistent(post, V, copy, E, D, el, dl),
           NEW e \in E, \A f \in E \ {e} : e.upd < f.upd,
           NEW W \in SUBSET V,
           NEW v, v.at = post.at, v.upd = e.upd, ~v.deleted,
           NEW differs \in BOOLEAN, NEW lost \in BOOLEAN, dl => lost,
           Revives(copy, v, differs) => lost
    PROVE  Consistent(post, W, Receive(copy, v, differs), E \ {e}, D, el, lost)
<1> DEFINE next == Receive(copy, v, differs)
<1>1. /\ next.st # "none" /\ next.upd \in Nat
      /\ e.upd <= next.upd
      /\ copy.st # "none" => copy.upd <= next.upd
      /\ next.upd = e.upd \/ (copy.st # "none" /\ next.upd = copy.upd)
  BY DEF Consistent, Dated, Receive, Newer
<1>2. Dated(post, W, next, E \ {e}, D)
  BY <1>1 DEF Consistent, Dated
<1>3. Covered(post, W, next, E \ {e}, el)
  <2>1. PICK f \in E : \A w \in V : ~w.deleted => w.upd <= f.upd
    BY DEF Consistent, Covered
  <2>2. CASE E \ {e} = {}
    <3>1. f = e
      BY <2>2
    <3>2. \A w \in W : ~w.deleted => w.upd <= next.upd
      BY <1>1, <2>1, <3>1 DEF Consistent, Dated
    <3> HIDE DEF next
    <3> QED
      BY <1>1, <2>2, <3>2 DEF Covered
  <2>3. CASE E \ {e} # {}
    <3>1. PICK g \in E \ {e} : f.upd <= g.upd
      BY <2>3 DEF Consistent, Dated
    <3> QED
      BY <2>1, <2>3, <3>1 DEF Consistent, Dated, Covered
  <2> QED
    BY <2>2, <2>3
<1>4. Marked(post, next, E \ {e}, D, el, lost)
  BY DEF Consistent, Marked
<1> QED
  BY <1>2, <1>3, <1>4 DEF Consistent

\* The client is told of the deletion.
LEMMA DeletionTold ==
    ASSUME NEW post, NEW V, NEW copy, NEW E, NEW D, NEW el \in BOOLEAN, NEW dl \in BOOLEAN,
           Consistent(post, V, copy, E, D, el, dl),
           NEW d \in D, \A e \in E : d.upd < e.upd,
           NEW C \in SUBSET D, NEW next, next.upd = copy.upd,
           next.st = IF copy.st = "none" THEN "none" ELSE "deleted",
           NEW lost \in BOOLEAN, dl \/ copy.st = "none" => lost
    PROVE  Consistent(post, V, next, E, C, el, lost)
<1>1. E = {}
  BY DEF Consistent, Dated, Marked
<1>2. Dated(post, V, next, E, C)
  BY DEF Consistent, Dated
<1>3. Covered(post, V, next, E, el)
  BY DEF Consistent, Covered
<1>4. Marked(post, next, E, C, el, lost)
  BY <1>1 DEF Consistent, Marked
<1> QED
  BY <1>2, <1>3, <1>4 DEF Consistent

\* The events of its changes are lost.
LEMMA EventsLost ==
    ASSUME NEW post, NEW V, NEW copy, NEW E, NEW D, NEW el \in BOOLEAN, NEW dl \in BOOLEAN,
           Consistent(post, V, copy, E, D, el, dl),
           NEW W \in SUBSET V, NEW em \in BOOLEAN, NEW dm \in BOOLEAN,
           em <=> el \/ E # {}, dm <=> dl \/ D # {}
    PROVE  Consistent(post, W, copy, {}, {}, em, dm)
<1>1. Dated(post, W, copy, {}, {})
  BY DEF Consistent, Dated
<1>2. Covered(post, W, copy, {}, em)
  BY DEF Consistent, Covered
<1>3. Marked(post, copy, {}, {}, em, dm)
  BY DEF Consistent, Marked
<1> QED
  BY <1>1, <1>2, <1>3 DEF Consistent

-----------------------------------------------------------------------------
\* Parts of the state

LEMMA LogFacts ==
    ASSUME LogInv
    PROVE  /\ DOMAIN log = 1 .. Len(log) /\ Len(log) \in Nat
           /\ DOMAIN log \subseteq PostIds /\ PendingId \notin DOMAIN log
           /\ PostIds \subseteq Ids /\ PendingId \in Ids /\ PendingId \notin PostIds
           /\ \A p \in DOMAIN log : log[p] \in PostType
BY ChannelPostsAssumption DEF LogInv, PostIds, Ids, PendingId

LEMMA UntoldIs ==
    ASSUME CopiesInv, NEW p, NEW type \in {"post_edited", "post_deleted"}
    PROVE  Untold(type, p) \/ (type = "post_deleted" /\ p \in revived)
               <=> Lost(type, p) \/ Events(type, p) # {}
<1>1. ASSUME NEW e \in ToSet(held) PROVE [type |-> e.type, id |-> e.id] # [type |-> type, id |-> p]
  BY <1>1 DEF CopiesInv, HeldInv
<1>2. [type |-> type, id |-> p] \in Coming <=>
          \E e \in ToSet(events) : [type |-> type, id |-> p] = [type |-> e.type, id |-> e.id]
  BY <1>1 DEF Coming, News
<1>3. \A e : [type |-> type, id |-> p] = [type |-> e.type, id |-> e.id]
                 <=> e.type = type /\ e.id = p
  OBVIOUS
<1> QED
  BY <1>2, <1>3 DEF Untold, Lost, Events

\* Calls start, end, or are left alone.
LEMMA CallsKept ==
    ASSUME CallsInv, log' = log,
           \A c \in calls' : c \in calls \/ (IsCall(c) /\ c.page = NoPage)
    PROVE  CallsInv' /\ \A p \in DOMAIN log : Answered(p)' \subseteq Answered(p)
<1>1. DOMAIN NoPage.posts = {}
  BY DEF NoPage
<1>2. CallsInv'
  BY <1>1 DEF CallsInv, IsCall
<1>3. \A p \in DOMAIN log : Answered(p)' \subseteq Answered(p)
  BY <1>1 DEF Answered
<1> QED
  BY <1>2, <1>3

LEMMA CallIs ==
    ASSUME NEW kind \in Kinds, NEW anchor, NEW since
    PROVE  LET c == Call(kind, anchor, since)
           IN /\ IsCall(c) /\ c.page = NoPage
              /\ IsCall([c EXCEPT !.time = 0]) /\ [c EXCEPT !.time = 0].page = NoPage
BY DEF Call, IsCall

\* The queues keep their order while time passes.
LEMMA EventsKept ==
    ASSUME LogInv, EventsInv, log' = log, events' = events, now' \in Nat, now <= now'
    PROVE  EventsInv'
BY LogFacts DEF LogInv, EventsInv, EventOk, EventType

LEMMA HeldKept ==
    ASSUME LogInv, HeldInv, log' = log, held' = held, now' \in Nat, now <= now'
    PROVE  HeldInv'
BY LogFacts DEF LogInv, HeldInv, EventOk, EventType

LEMMA ToSetAppend ==
    ASSUME NEW S, NEW s \in Seq(S), NEW e \in S
    PROVE  ToSet(Append(s, e)) = ToSet(s) \cup {e}
<1> DEFINE t == Append(s, e)
<1>1. /\ DOMAIN t = DOMAIN s \cup {Len(s) + 1} /\ t[Len(s) + 1] = e
      /\ \A i \in DOMAIN s : t[i] = s[i]
  OBVIOUS
<1> HIDE DEF t
<1>2. \A x : (\E i \in DOMAIN t : x = t[i]) <=> (x = e \/ \E i \in DOMAIN s : x = s[i])
  BY <1>1
<1>3. ToSet(t) = ToSet(s) \cup {e}
  BY <1>2 DEF ToSet
<1> QED
  BY <1>3 DEF t

LEMMA ToSetTail ==
    ASSUME NEW S, NEW s \in Seq(S), s # << >>
    PROVE  ToSet(s) = ToSet(Tail(s)) \cup {Head(s)}
<1>1. DOMAIN s = 1 .. Len(s) /\ DOMAIN Tail(s) = 1 .. Len(s) - 1 /\ Len(s) \in Nat \ {0}
  OBVIOUS
<1>2. Head(s) = s[1] /\ \A i \in DOMAIN Tail(s) : Tail(s)[i] = s[i + 1]
  OBVIOUS
<1>3. \A i \in DOMAIN s : i = 1 \/ (i - 1 \in DOMAIN Tail(s) /\ Tail(s)[i - 1] = s[i])
  BY <1>1, <1>2
<1>4. \A x : (\E i \in DOMAIN s : x = s[i])
               <=> (x = Head(s) \/ \E i \in DOMAIN Tail(s) : x = Tail(s)[i])
  BY <1>1, <1>2, <1>3
<1> QED
  BY <1>4 DEF ToSet

\* The next event is taken: it is the oldest.
LEMMA EventTaken ==
    ASSUME LogInv, EventsInv, events # << >>, events' = Tail(events), log' = log, now' = now
    PROVE  /\ EventsInv'
           /\ EventOk(Head(events))
           /\ ToSet(events) = ToSet(events') \cup {Head(events)}
           /\ \A e \in ToSet(events') : Head(events).upd < e.upd
<1>1. ToSet(events) = ToSet(events') \cup {Head(events)}
  BY ToSetTail DEF EventsInv
<1>2. /\ events' \in Seq(EventType) /\ Head(events) = events[1] /\ 1 \in DOMAIN events
      /\ \A i \in DOMAIN events' :
             i + 1 \in DOMAIN events /\ events'[i] = events[i + 1] /\ 1 < i + 1
      /\ \A i, j \in DOMAIN events' : i < j => i + 1 < j + 1
  BY DEF EventsInv
<1>3. \A e \in ToSet(events') : Head(events).upd < e.upd
  BY <1>2 DEF EventsInv, ToSet
<1>4. \A i, j \in DOMAIN events' : i < j => events'[i].upd < events'[j].upd
  BY <1>2 DEF EventsInv
<1>5. \A e \in ToSet(events') : EventOk(e)'
  BY <1>1 DEF EventsInv, EventOk
<1> QED
  BY <1>1, <1>2, <1>3, <1>4, <1>5 DEF EventsInv

-----------------------------------------------------------------------------
\* Steps of the client that take no event of a change, and those of calls

\* The versions on their way are some of those that were, and a copy becomes one of
\* them, or stays as it is.
LEMMA ClientKeeps ==
    ASSUME CopiesInv, log' = log, now' \in Nat, now <= now',
           EventsInv', HeldInv', CallsInv', CreateInv',
           stored' \in [Ids -> CopyType],
           \A p \in PostIds : CopyStep(p),
           \A p \in DOMAIN log : Versions(p)' \subseteq Versions(p),
           \A p \in DOMAIN log, type \in {"post_edited", "post_deleted"} :
               Events(type, p)' = Events(type, p),
           LostNow
    PROVE  CopiesInv'
<1>1. LogInv'
  BY LogFacts DEF CopiesInv, LogInv, PostType
<1>2. StoredInv'
  BY DEF CopiesInv, StoredInv, CopyStep
<1>3. ASSUME NEW p \in DOMAIN log PROVE PostConsistent(p)'
  <2>1. p \in PostIds
    BY LogFacts DEF CopiesInv
  <2> DEFINE V == Versions(p)
             W == Versions(p)'
             E == Events("post_edited", p)
             D == Events("post_deleted", p)
             el == Lost("post_edited", p)
             dl == Lost("post_deleted", p)
             lost == Lost("post_deleted", p)'
  <2>2. /\ el \in BOOLEAN /\ dl \in BOOLEAN /\ lost \in BOOLEAN
        /\ Lost("post_edited", p)' = el /\ (dl => lost) /\ (p \in revived' => lost)
    <3>1. Lost("post_edited", p)' <=> el
      BY DEF LostNow, Lost
    <3> QED
      BY <3>1 DEF LostNow, Lost
  <2>3. Becomes(stored[p], stored'[p], V, lost)
    BY <2>1, <2>2 DEF CopyStep, Becomes
  <2>4. W \in SUBSET V /\ Consistent(log[p], V, stored[p], E, D, el, dl)
    BY DEF CopiesInv, PostConsistent
  <2>5. PostConsistent(p)' <=> Consistent(log[p], W, stored'[p], E, D, el, lost)
    BY <2>2 DEF PostConsistent
  <2> HIDE DEF V, W, E, D, el, dl, lost
  <2>6. /\ el \in BOOLEAN /\ dl \in BOOLEAN /\ lost \in BOOLEAN
        /\ dl => lost
    BY <2>2
  <2>7. Consistent(log[p], W, stored'[p], E, D, el, lost)
    BY <2>3, <2>4, <2>6, VersionReceived
  <2> QED
    BY <2>5, <2>7
<1> QED
  BY <1>1, <1>2, <1>3 DEF CopiesInv

\* A version is received as a copy.
LEMMA ReceivedType ==
    ASSUME CopiesInv, NEW p \in DOMAIN log, NEW v \in Versions(p), NEW differs
    PROVE  Receive(stored[p], v, differs) \in CopyType
<1>1. v.at \in Nat /\ v.upd \in Nat
  BY DEF CopiesInv, PostConsistent, Consistent, Dated
<1>2. stored[p] \in CopyType
  BY LogFacts DEF CopiesInv, StoredInv
<1> QED
  BY <1>1, <1>2 DEF Receive, CopyType

\* Calls are started or end, and nothing else changes but what no copy depends on.
LEMMA CallsStep ==
    ASSUME CopiesInv, NEW c, IsCall(c), c.page = NoPage, calls' \subseteq calls \cup {c},
           now' \in Nat, now <= now',
           UNCHANGED <<log, events, held, create, stored, missed, revived>>
    PROVE  CopiesInv'
<1>1. CallsInv' /\ \A p \in DOMAIN log : Answered(p)' \subseteq Answered(p)
  BY CallsKept DEF CopiesInv
<1>2. EventsInv' /\ HeldInv'
  BY EventsKept, HeldKept DEF CopiesInv
<1>3. CreateInv' /\ stored' \in [Ids -> CopyType]
  BY DEF CopiesInv, CreateInv, StoredInv
<1>4. \A p \in DOMAIN log : Versions(p)' \subseteq Versions(p)
  BY <1>1 DEF Versions, Original, Created
<1>5. LostNow /\ \A p \in DOMAIN log, type \in {"post_edited", "post_deleted"} :
          Events(type, p)' = Events(type, p)
  BY DEF Events, LostNow
<1>6. \A p \in PostIds : CopyStep(p)
  BY DEF CopyStep
<1> QED
  BY <1>1, <1>2, <1>3, <1>4, <1>5, <1>6, ClientKeeps

LEMMA StartKeeps ==
    ASSUME CopiesInv, NEW kind \in Kinds, NEW anchor, NEW since,
           Start(Call(kind, anchor, since))
    PROVE  CopiesInv'
<1> DEFINE c == Call(kind, anchor, since)
<1>1. IsCall(c) /\ c.page = NoPage
  BY CallIs
<1>2. /\ calls' = calls \cup {c} /\ now' = now
      /\ UNCHANGED <<log, events, held, create, stored, missed, revived>>
  BY DEF Start, client, queue, history
<1>3. now' \in Nat /\ now <= now'
  BY <1>2 DEF CopiesInv, LogInv
<1> HIDE DEF c
<1> QED
  BY <1>1, <1>2, <1>3, CallsStep

LEMMA OpenChannelKeeps == CopiesInv /\ OpenChannel => CopiesInv'
<1>1. OpenChannel => \E since : \E kind \in Kinds : Start(Call(kind, PendingId, since))
  BY DEF OpenChannel, SyncPostsInChannel, Kinds
<1> QED
  BY <1>1, StartKeeps

LEMMA FetchNewestKeeps ==
    ASSUME CopiesInv, NEW call, FetchNewest(call) PROVE CopiesInv'
BY StartKeeps DEF FetchNewest, Kinds

LEMMA OpenPermalinkKeeps ==
    ASSUME CopiesInv, NEW p, OpenPermalink(p) PROVE CopiesInv'
BY StartKeeps DEF OpenPermalink, Kinds

LEMMA LoadMoreKeeps ==
    ASSUME CopiesInv, NEW block, LoadMore(block) PROVE CopiesInv'
BY StartKeeps DEF LoadMore, Kinds

\* Only calls end, or time passes.
LEMMA QuietKeeps ==
    ASSUME CopiesInv, calls' \subseteq calls, now' \in Nat, now <= now',
           UNCHANGED <<log, events, held, create, stored, missed, revived>>
    PROVE  CopiesInv'
<1>1. "around" \in Kinds
  BY DEF Kinds
<1> QED
  BY <1>1, CallIs, CallsStep

LEMMA CallFailsKeeps ==
    ASSUME CopiesInv, NEW call, CallFails(call) PROVE CopiesInv'
<1>1. now' = now /\ now \in Nat
  BY DEF CallFails, CopiesInv, LogInv
<1> QED
  BY <1>1, QuietKeeps DEF CallFails, client, queue, history

LEMMA ResetKeeps == CopiesInv /\ ResetChannel => CopiesInv'
<1>1. ResetChannel /\ CopiesInv => now' = now /\ now \in Nat
  BY DEF ResetChannel, CopiesInv, LogInv
<1> QED
  BY <1>1, QuietKeeps DEF ResetChannel, queue

LEMMA DisconnectKeeps == CopiesInv /\ Disconnect => CopiesInv'
<1>1. Disconnect /\ CopiesInv => now' = now + 1 /\ now \in Nat
  BY DEF Disconnect, CopiesInv, LogInv
<1> QED
  BY <1>1, QuietKeeps DEF Disconnect, client, queue, history

\* An answer carries posts as the server has them.
LEMMA PagePosts ==
    ASSUME NEW call, call.kind \in Kinds, NEW page \in Pages(call)
    PROVE  /\ DOMAIN page.posts \subseteq DOMAIN log
           /\ \A p \in DOMAIN page.posts : page.posts[p] = log[p]
<1> DEFINE Honest(x) == /\ DOMAIN x.posts \subseteq DOMAIN log
                        /\ \A p \in DOMAIN x.posts : x.posts[p] = log[p]
<1>1. ASSUME NEW S \in SUBSET DOMAIN log, NEW recent, NEW oldest, NEW denies
      PROVE  Honest(Page(S, recent, oldest, denies))
  BY DEF Page, Kept
<1>2. Live \subseteq DOMAIN log
  BY DEF Live
<1> HIDE DEF Honest
<1>3. Honest(LatestPage)
  BY <1>1, <1>2 DEF LatestPage, Nearest
<1>4. \A p : Honest(AfterPage(p)) /\ Honest(BeforePage(p))
  BY <1>1, <1>2 DEF AfterPage, BeforePage, Nearest, Farthest, Above, Below
<1>5. \A p \in Live : Honest(AroundPage(p)) /\ Honest(CursorPage(Around(p)))
  <2> SUFFICES ASSUME NEW p \in Live PROVE Honest(AroundPage(p)) /\ Honest(CursorPage(Around(p)))
    OBVIOUS
  <2>1. Around(p) \subseteq DOMAIN log
    BY <1>2 DEF Around, Nearest, Farthest, Above, Below
  <2>2. PICK page_ : page_ = Page(Around(p), AfterPage(p).recent, BeforePage(p).oldest, {})
    OBVIOUS
  <2>3. Honest(page_)
    BY <1>1, <2>1, <2>2
  <2>4. AroundPage(p).posts = page_.posts
    BY <2>2 DEF AroundPage, Page
  <2>5. Honest(AroundPage(p))
    BY <2>3, <2>4 DEF Honest
  <2>6. Honest(CursorPage(Around(p)))
    BY <1>1, <2>1 DEF CursorPage
  <2> QED
    BY <2>5, <2>6
<1>6. (\A t : Honest(SincePage(t))) /\ Honest(CursorPage(Nearest(Live, PerPage)))
  BY <1>1, <1>2 DEF SincePage, CursorPage, Nearest
<1>7. Honest(page)
  <2>1. CASE call.kind = "latest"
    BY <1>3, <2>1 DEF Pages
  <2>2. CASE call.kind = "unread"
    BY <1>5, <1>6, <2>2 DEF Pages
  <2>3. CASE call.kind = "after"
    BY <1>4, <2>3 DEF Pages
  <2>4. CASE call.kind = "before"
    BY <1>4, <2>4 DEF Pages
  <2>5. CASE call.kind = "around"
    BY <1>5, <2>5 DEF Pages
  <2>6. CASE call.kind = "since"
    BY <1>6, <2>6 DEF Pages
  <2>7. CASE call.kind = "newest"
    BY <1>6, <2>7 DEF Pages
  <2> QED
    BY <2>1, <2>2, <2>3, <2>4, <2>5, <2>6, <2>7 DEF Kinds
<1> QED
  BY <1>7 DEF Honest

LEMMA AnswerKeeps ==
    ASSUME CopiesInv, NEW call \in calls, Answer(call) PROVE CopiesInv'
<1>1. IsCall(call)
  BY DEF CopiesInv, CallsInv
<1>2. PICK page \in Pages(call) : calls' = (calls \ {call}) \cup {[call EXCEPT !.page = page]}
  BY DEF Answer
<1> DEFINE answered == [call EXCEPT !.page = page]
<1>3. answered.page = page /\ IsCall(answered)
  BY <1>1 DEF IsCall
<1>4. /\ DOMAIN page.posts \subseteq DOMAIN log
      /\ \A p \in DOMAIN page.posts : page.posts[p] = log[p]
  BY <1>1, PagePosts DEF IsCall
<1>5. UNCHANGED <<now, log, events, held, create, stored, missed, revived>>
  BY DEF Answer, client, queue, history
<1> HIDE DEF answered
<1>6. CallsInv'
  BY <1>2, <1>3, <1>4, <1>5 DEF answered, CopiesInv, CallsInv, IsCall
<1>7. \A p \in DOMAIN log : Versions(p)' \subseteq Versions(p)
  <2>1. \A p \in DOMAIN log : Answered(p)' \subseteq Answered(p) \cup {log[p]}
    BY <1>2, <1>3, <1>4 DEF answered, Answered
  <2> QED
    BY <2>1, <1>5 DEF Versions, Original, Created
<1>8. now' \in Nat /\ now <= now'
  BY <1>5 DEF CopiesInv, LogInv
<1>9. EventsInv' /\ HeldInv' /\ CreateInv' /\ stored' \in [Ids -> CopyType]
  BY <1>5, <1>8, EventsKept, HeldKept DEF CopiesInv, CreateInv, StoredInv
<1>10. LostNow /\ \A p \in DOMAIN log, type \in {"post_edited", "post_deleted"} :
          Events(type, p)' = Events(type, p)
  BY <1>5 DEF Events, LostNow
<1>11. \A p \in PostIds : CopyStep(p)
  BY <1>5 DEF CopyStep
<1> QED
  BY <1>5, <1>6, <1>7, <1>8, <1>9, <1>10, <1>11, ClientKeeps

\* Received posts are versions of theirs.
LEMMA ReceivePostsKeeps ==
    ASSUME CopiesInv, NEW posts, DOMAIN posts \subseteq DOMAIN log,
           \A p \in DOMAIN posts : posts[p] \in Versions(p), NEW D
    PROVE  /\ ReceivePosts(posts, D) \in [Ids -> CopyType]
           /\ \A p \in PostIds :
                  \/ ReceivePosts(posts, D)[p] = stored[p]
                  \/ /\ p \in DOMAIN log
                     /\ \E v \in Versions(p), d \in BOOLEAN :
                            /\ ReceivePosts(posts, D)[p] = Receive(stored[p], v, d)
                            /\ Revives(stored[p], v, d) => p \in Revived(posts, D)
<1>1. \A id \in Ids : id \in DOMAIN posts => Receive(stored[id], posts[id], id \in D) \in CopyType
  BY ReceivedType
<1>2. \A id \in Ids : stored[id] \in CopyType
  BY DEF CopiesInv, StoredInv
<1>3. PostIds \subseteq Ids
  BY LogFacts DEF CopiesInv
<1>4. ReceivePosts(posts, D) \in [Ids -> CopyType]
  BY <1>1, <1>2 DEF ReceivePosts
<1>5. ASSUME NEW p \in DOMAIN posts, Revives(stored[p], posts[p], p \in D)
      PROVE  p \in Revived(posts, D)
  <2>1. p \in D /\ stored[p].st = "deleted" /\ stored[p].upd = posts[p].upd /\ ~posts[p].deleted
    BY <1>5 DEF Revives
  <2>2. Stored(stored, p)
    BY <2>1 DEF Stored
  <2> QED
    BY <2>1, <2>2 DEF Revived, Same
<1>6. \A p \in PostIds : ReceivePosts(posts, D)[p] = IF p \in DOMAIN posts
                                                    THEN Receive(stored[p], posts[p], p \in D)
                                                    ELSE stored[p]
  BY <1>3 DEF ReceivePosts
<1>7. ASSUME NEW p \in PostIds, p \in DOMAIN posts
      PROVE  /\ p \in DOMAIN log
             /\ \E v \in Versions(p), d \in BOOLEAN :
                    /\ ReceivePosts(posts, D)[p] = Receive(stored[p], v, d)
                    /\ Revives(stored[p], v, d) => p \in Revived(posts, D)
  <2>1. (p \in D) \in BOOLEAN
    OBVIOUS
  <2> QED
    BY <1>5, <1>6, <1>7, <2>1
<1> QED
  BY <1>4, <1>6, <1>7

LEMMA ReceiveAnswerKeeps ==
    ASSUME CopiesInv, NEW call \in calls, ReceiveAnswer(call) PROVE CopiesInv'
<1>1. PICK D : /\ calls' \subseteq calls
               /\ UNCHANGED <<now, log, events, held, create>>
               /\ \/ stored' = stored /\ revived \subseteq revived'
                  \/ /\ stored' = ReceivePosts(call.page.posts, D)
                     /\ revived' = revived \cup Revived(call.page.posts, D)
  BY DEF ReceiveAnswer, Dispatch, client, queue
<1> DEFINE posts == ReceivePosts(call.page.posts, D)
<1>2. /\ revived \subseteq revived'
      /\ \A p, type : type # "posted" =>
           ([type |-> type, id |-> p] \in missed' <=> [type |-> type, id |-> p] \in missed)
  BY <1>1 DEF ReceiveAnswer, Posted
<1>3. /\ DOMAIN call.page.posts \subseteq DOMAIN log
      /\ \A p \in DOMAIN call.page.posts : call.page.posts[p] \in Versions(p)
  BY DEF CopiesInv, CallsInv, Versions, Answered
<1>4. stored' \in [Ids -> CopyType] /\ \A p \in PostIds : CopyStep(p)
  <2>1. CASE stored' = stored
    BY <2>1 DEF CopiesInv, StoredInv, CopyStep
  <2>2. CASE stored' = posts /\ revived' = revived \cup Revived(call.page.posts, D)
    <3> HIDE DEF posts
    <3>1. /\ posts \in [Ids -> CopyType]
          /\ \A p \in PostIds :
                 \/ posts[p] = stored[p]
                 \/ /\ p \in DOMAIN log
                    /\ \E v \in Versions(p), d \in BOOLEAN :
                           /\ posts[p] = Receive(stored[p], v, d)
                           /\ Revives(stored[p], v, d) => p \in Revived(call.page.posts, D)
      BY <1>3, ReceivePostsKeeps DEF posts
    <3> QED
      BY <2>2, <3>1 DEF CopyStep, Becomes
  <2> QED
    BY <1>1, <2>1, <2>2
<1>5. CallsInv' /\ \A p \in DOMAIN log : Answered(p)' \subseteq Answered(p)
  BY <1>1, CallsKept DEF CopiesInv
<1>6. now' \in Nat /\ now <= now'
  BY <1>1 DEF CopiesInv, LogInv
<1>7. EventsInv' /\ HeldInv' /\ CreateInv'
  BY <1>1, <1>6, EventsKept, HeldKept DEF CopiesInv, CreateInv
<1>8. \A p \in DOMAIN log : Versions(p)' \subseteq Versions(p)
  BY <1>1, <1>5 DEF Versions, Original, Created
<1>9. LostNow /\ \A p \in DOMAIN log, type \in {"post_edited", "post_deleted"} :
          Events(type, p)' = Events(type, p)
  BY <1>1, <1>2 DEF Events, LostNow
<1> QED
  BY <1>1, <1>4, <1>5, <1>6, <1>7, <1>8, <1>9, ClientKeeps

\* A batch of posted events brings the posts as they were created.
LEMMA NewPostsKeeps ==
    ASSUME CopiesInv, NEW batch, NEW D, NewPosts(batch, D),
           \A e \in ToSet(batch) : EventOk(e) /\ e.type = "posted"
    PROVE  /\ stored' \in [Ids -> CopyType] /\ revived \subseteq revived'
           /\ \A p \in PostIds : CopyStep(p)
<1> DEFINE es == ToSet(batch)
           new == Brought(batch)
           received == ReceivePosts(new, D)
<1>1. ASSUME NEW p \in {e.id : e \in es}
      PROVE  p \in DOMAIN log /\ new[p] = Original(p)
  <2>1. /\ (CHOOSE e \in es : e.id = p) \in es
        /\ (CHOOSE e \in es : e.id = p).id = p
    BY <1>1
  <2>2. new[p] = Version(CHOOSE e \in es : e.id = p)
    BY <1>1 DEF Brought
  <2> QED
    BY <2>1, <2>2 DEF EventOk, Version, Original
<1>2. DOMAIN new = {e.id : e \in es}
  BY DEF Brought
<1>3. DOMAIN new \subseteq DOMAIN log /\ \A p \in DOMAIN new : new[p] \in Versions(p)
  BY <1>1, <1>2 DEF Versions
<1>4. /\ received \in [Ids -> CopyType]
      /\ \A p \in PostIds :
             \/ received[p] = stored[p]
             \/ /\ p \in DOMAIN log
                /\ \E v \in Versions(p), d \in BOOLEAN :
                       /\ received[p] = Receive(stored[p], v, d)
                       /\ Revives(stored[p], v, d) => p \in Revived(new, D)
  <2> HIDE DEF new
  <2> QED
    BY <1>3, ReceivePostsKeeps
<1>5. \/ stored' = stored /\ revived \subseteq revived'
      \/ /\ \/ stored' = [received EXCEPT ![PendingId] = NoPost]
            \/ stored' = [received EXCEPT ![PendingId] = @]
         /\ revived' = revived \cup Revived(new, D)
  BY DEF NewPosts, BatchPosts, Dispatch, client
<1> HIDE DEF received, new
<1>6. NoPost \in CopyType
  BY DEF NoPost, CopyType
<1>7. PostIds \subseteq Ids /\ PendingId \in Ids /\ PendingId \notin PostIds
  BY LogFacts DEF CopiesInv
<1>8. stored \in [Ids -> CopyType]
  BY DEF CopiesInv, StoredInv
<1>9. stored' \in [Ids -> CopyType] /\ revived \subseteq revived'
  BY <1>4, <1>5, <1>6, <1>7, <1>8
<1>10. \A p \in PostIds : \/ stored'[p] = stored[p]
                          \/ stored'[p] = received[p] /\ Revived(new, D) \subseteq revived'
  BY <1>4, <1>5, <1>7, <1>8
<1>11. \A p \in PostIds : CopyStep(p)
  BY <1>4, <1>10 DEF CopyStep, Becomes
<1> QED
  BY <1>9, <1>11

LEMMA BurstEndsKeeps == CopiesInv /\ BurstEnds => CopiesInv'
<1> SUFFICES ASSUME CopiesInv, BurstEnds PROVE CopiesInv'
  OBVIOUS
<1>1. PICK D : /\ NewPosts(held, D) /\ (held' = << >> \/ held' = held)
               /\ UNCHANGED <<now, log, events, calls, create, missed>>
  BY DEF BurstEnds
<1>2. /\ stored' \in [Ids -> CopyType] /\ revived \subseteq revived'
      /\ \A p \in PostIds : CopyStep(p)
  BY <1>1, NewPostsKeeps DEF CopiesInv, HeldInv
<1>3. now' \in Nat /\ now <= now'
  BY <1>1 DEF CopiesInv, LogInv
<1>4. EventsInv' /\ CallsInv' /\ CreateInv'
  BY <1>1, <1>3, EventsKept DEF CopiesInv, CallsInv, CreateInv
<1>5. HeldInv'
  <2>1. CASE held' = << >>
    BY <2>1 DEF HeldInv, ToSet
  <2>2. CASE held' = held
    BY <1>1, <1>3, <2>2, HeldKept DEF CopiesInv
  <2> QED
    BY <1>1, <2>1, <2>2
<1>6. \A p \in DOMAIN log : Versions(p)' \subseteq Versions(p)
  BY <1>1 DEF Versions, Original, Answered, Created
<1>7. LostNow /\ \A p \in DOMAIN log, type \in {"post_edited", "post_deleted"} :
          Events(type, p)' = Events(type, p)
  BY <1>1, <1>2 DEF Events, LostNow
<1> QED
  BY <1>1, <1>2, <1>3, <1>4, <1>5, <1>6, <1>7, ClientKeeps

\* The user's post, and the copy of the pending one
LEMMA PendingKeeps ==
    ASSUME CopiesInv, now' \in Nat, now <= now',
           UNCHANGED <<log, events, held, calls, missed, revived>>,
           CreateInv', create'.id = PendingId,
           NEW copy \in CopyType, stored' = [stored EXCEPT ![PendingId] = copy]
    PROVE  CopiesInv'
<1>1. PostIds \subseteq Ids /\ PendingId \in Ids /\ PendingId \notin PostIds
      /\ DOMAIN log \subseteq PostIds
  BY LogFacts DEF CopiesInv
<1>2. stored' \in [Ids -> CopyType] /\ \A p \in PostIds : stored'[p] = stored[p]
  BY <1>1 DEF CopiesInv, StoredInv
<1>3. EventsInv' /\ HeldInv' /\ CallsInv'
  BY EventsKept, HeldKept DEF CopiesInv, CallsInv
<1>4. \A p \in DOMAIN log : Versions(p)' \subseteq Versions(p)
  BY <1>1 DEF Versions, Original, Answered, Created
<1>5. LostNow /\ \A p \in DOMAIN log, type \in {"post_edited", "post_deleted"} :
          Events(type, p)' = Events(type, p)
  BY DEF Events, LostNow
<1>6. \A p \in PostIds : CopyStep(p)
  BY <1>2 DEF CopyStep
<1> QED
  BY <1>2, <1>3, <1>4, <1>5, <1>6, ClientKeeps

LEMMA RequestType ==
    ASSUME NEW st \in {"none", "sent", "ended"}, NEW at \in Nat, create' = Request(st, at)
    PROVE  CreateInv' /\ create'.id = PendingId
BY DEF Request, CreateInv

LEMMA SubmitPostKeeps ==
    ASSUME CopiesInv, NEW again \in BOOLEAN, SubmitPost(again) PROVE CopiesInv'
<1>1. /\ now' = now + 1 /\ create' = Request("sent", now')
      /\ UNCHANGED <<log, events, held, calls, missed, revived>>
  BY DEF SubmitPost, queue, history
<1>2. now' \in Nat /\ now <= now'
  BY <1>1 DEF CopiesInv, LogInv
<1>3. CreateInv' /\ create'.id = PendingId
  BY <1>1, <1>2, RequestType
<1>4. PICK st \in {"failed", "live"} :
          \/ stored' = [stored EXCEPT ![PendingId] = [at |-> now', upd |-> now', st |-> st]]
          \/ stored' = stored
  BY DEF SubmitPost, Dispatch, client
<1>5. stored \in [Ids -> CopyType] /\ PendingId \in Ids
  BY LogFacts DEF CopiesInv, StoredInv
<1>6. \E copy \in CopyType : stored' = [stored EXCEPT ![PendingId] = copy]
  <2>1. [at |-> now', upd |-> now', st |-> st] \in CopyType
    BY <1>2 DEF CopyType
  <2>2. stored[PendingId] \in CopyType /\ stored = [stored EXCEPT ![PendingId] = stored[PendingId]]
    BY <1>5
  <2> QED
    BY <1>4, <2>1, <2>2
<1> QED
  BY <1>1, <1>2, <1>3, <1>6, PendingKeeps

LEMMA PostFailsKeeps == CopiesInv /\ PostFails => CopiesInv'
<1> SUFFICES ASSUME CopiesInv, PostFails PROVE CopiesInv'
  OBVIOUS
<1>1. /\ create' = Request("ended", create.at) /\ UNCHANGED <<log, events, held, calls, missed, revived>>
      /\ \/ /\ now' = now + 1
            /\ stored' = [stored EXCEPT ![PendingId] =
                              [at |-> create.at, upd |-> now', st |-> "failed"]]
         \/ now' = now /\ stored' = [stored EXCEPT ![PendingId] = NoPost]
  BY DEF PostFails, queue, history
<1>2. now' \in Nat /\ now <= now' /\ create.at \in Nat
  BY <1>1 DEF CopiesInv, LogInv, CreateInv
<1>3. CreateInv' /\ create'.id = PendingId
  BY <1>1, <1>2, RequestType
<1>4. /\ [at |-> create.at, upd |-> now', st |-> "failed"] \in CopyType
      /\ NoPost \in CopyType
  BY <1>2 DEF CopyType, NoPost
<1> QED
  BY <1>1, <1>2, <1>3, <1>4, PendingKeeps

LEMMA RemoveFailedKeeps == CopiesInv /\ RemoveFailed => CopiesInv'
<1> SUFFICES ASSUME CopiesInv, RemoveFailed PROVE CopiesInv'
  OBVIOUS
<1>1. /\ UNCHANGED <<now, log, events, held, calls, create, missed, revived>>
      /\ stored' = [stored EXCEPT ![PendingId] = NoPost]
  BY DEF RemoveFailed, queue, history
<1>2. PostIds \subseteq Ids /\ PendingId \in Ids /\ PendingId \notin PostIds
  BY LogFacts DEF CopiesInv
<1>3. stored' \in [Ids -> CopyType] /\ \A p \in PostIds : stored'[p] = stored[p]
  <2>1. NoPost \in CopyType
    BY DEF NoPost, CopyType
  <2> QED
    BY <1>1, <1>2, <2>1 DEF CopiesInv, StoredInv
<1>4. now' \in Nat /\ now <= now'
  BY <1>1 DEF CopiesInv, LogInv
<1>5. EventsInv' /\ HeldInv' /\ CallsInv' /\ CreateInv'
  BY <1>1, <1>4, EventsKept, HeldKept DEF CopiesInv, CallsInv, CreateInv
<1>6. \A p \in DOMAIN log : Versions(p)' \subseteq Versions(p)
  BY <1>1 DEF Versions, Original, Answered, Created
<1>7. LostNow /\ \A p \in DOMAIN log, type \in {"post_edited", "post_deleted"} :
          Events(type, p)' = Events(type, p)
  BY <1>1 DEF Events, LostNow
<1>8. \A p \in PostIds : CopyStep(p)
  BY <1>3 DEF CopyStep
<1> QED
  BY <1>1, <1>3, <1>4, <1>5, <1>6, <1>7, <1>8, ClientKeeps

LEMMA PostCreatedKeeps == CopiesInv /\ PostCreated => CopiesInv'
<1> SUFFICES ASSUME CopiesInv, PostCreated PROVE CopiesInv'
  OBVIOUS
<1> DEFINE p0 == create.id
<1>1. PICK D, own :
          /\ UNCHANGED <<now, log, events, held, calls, missed>>
          /\ create' = Request("ended", create.at)
          /\ stored' = ReceiveCreated(p0, create.post, own, p0 \in D)
          /\ revived' = revived \cup Revived([p \in {p0} |-> create.post], D)
  BY DEF PostCreated, queue
<1>2. p0 \in DOMAIN log /\ create.at \in Nat
  BY DEF PostCreated, CopiesInv, CreateInv
<1>3. create.post \in Versions(p0)
  BY DEF Versions, Created
<1>4. PostIds \subseteq Ids /\ PendingId \in Ids /\ PendingId \notin PostIds
      /\ DOMAIN log \subseteq PostIds
  BY LogFacts DEF CopiesInv
<1>5. stored \in [Ids -> CopyType] /\ NoPost \in CopyType
      /\ Receive(stored[p0], create.post, p0 \in D) \in CopyType
  BY <1>2, <1>3, ReceivedType DEF CopiesInv, StoredInv, NoPost, CopyType
<1> HIDE DEF p0
<1>6. /\ stored' \in [Ids -> CopyType]
      /\ stored'[p0] = Receive(stored[p0], create.post, p0 \in D)
      /\ \A p \in PostIds \ {p0} : stored'[p] = stored[p]
  BY <1>1, <1>2, <1>4, <1>5 DEF ReceiveCreated
<1>7. now' \in Nat /\ now <= now'
  BY <1>1 DEF CopiesInv, LogInv
<1>8. CreateInv' /\ create'.id = PendingId
  BY <1>1, <1>2, RequestType
<1>9. EventsInv' /\ HeldInv' /\ CallsInv'
  BY <1>1, <1>7, EventsKept, HeldKept DEF CopiesInv, CallsInv
<1>10. \A p \in DOMAIN log : Versions(p)' \subseteq Versions(p)
  BY <1>1, <1>4, <1>8 DEF Versions, Original, Answered, Created
<1>11. LostNow /\ \A p \in DOMAIN log, type \in {"post_edited", "post_deleted"} :
          Events(type, p)' = Events(type, p)
  BY <1>1 DEF Events, LostNow
<1>12. \A p \in PostIds : CopyStep(p)
  <2>1. Revives(stored[p0], create.post, p0 \in D) => p0 \in revived'
    BY <1>1 DEF Revives, Revived, Same, Stored
  <2>2. (p0 \in D) \in BOOLEAN
    OBVIOUS
  <2> QED
    BY <1>2, <1>3, <1>6, <2>1, <2>2 DEF CopyStep, Becomes
<1> QED
  BY <1>1, <1>6, <1>7, <1>8, <1>9, <1>10, <1>11, <1>12, ClientKeeps

-----------------------------------------------------------------------------
\* Steps that take events

\* A posted event is received, or held, or dropped with those that are held.
LEMMA PostedKeeps ==
    ASSUME CopiesInv, events # << >>, events' = Tail(events),
           NEW e, e = Head(events), e.type = "posted", HandlePosted(e),
           UNCHANGED <<now, log, calls, create>>
    PROVE  CopiesInv'
<1>1. /\ EventsInv' /\ EventOk(e)
      /\ ToSet(events) = ToSet(events') \cup {e}
  BY EventTaken DEF CopiesInv
<1>2. held \in Seq(EventType) /\ \A h \in ToSet(held) : EventOk(h) /\ h.type = "posted"
  BY DEF CopiesInv, HeldInv
<1>3. /\ stored' \in [Ids -> CopyType] /\ revived \subseteq revived'
      /\ \A p \in PostIds : CopyStep(p)
  <2>1. CASE \E D : NewPosts(<<e>>, D)
    <3>1. ToSet(<<e>>) = {e}
      BY DEF ToSet
    <3> QED
      BY <1>1, <2>1, <3>1, NewPostsKeeps
  <2>2. CASE stored' = stored /\ revived' = revived
    BY <2>2 DEF CopiesInv, StoredInv, CopyStep
  <2> QED
    BY <2>1, <2>2 DEF HandlePosted, client
<1>4. held' = held \/ held' = << >> \/ held' = Append(held, e)
  BY DEF HandlePosted, Hold
<1>5. HeldInv'
  <2>1. \A h : EventOk(h)' <=> EventOk(h)
    BY DEF EventOk
  <2>2. CASE held' = held
    BY <1>2, <2>1, <2>2 DEF HeldInv
  <2>3. CASE held' = << >>
    BY <2>3 DEF HeldInv, ToSet
  <2>4. CASE held' = Append(held, e)
    <3>1. e \in EventType
      BY <1>1 DEF EventOk
    <3>2. held' \in Seq(EventType) /\ ToSet(held') = ToSet(held) \cup {e}
      BY <1>2, <2>4, <3>1, ToSetAppend
    <3> QED
      BY <1>1, <1>2, <2>1, <3>2 DEF HeldInv
  <2> QED
    BY <1>4, <2>2, <2>3, <2>4
<1>6. \A p, type : type # "posted" =>
          ([type |-> type, id |-> p] \in missed' <=> [type |-> type, id |-> p] \in missed)
  <2>1. missed' = missed \/ missed' = missed \cup News({e} \cup ToSet(held))
    BY DEF HandlePosted, Hold
  <2>2. \A n \in News({e} \cup ToSet(held)) : n.type = "posted"
    BY <1>2 DEF News
  <2>3. \A p, type : type # "posted" =>
            [type |-> type, id |-> p] \notin News({e} \cup ToSet(held))
    BY <2>2
  <2> QED
    BY <2>1, <2>3
<1>7. now' \in Nat /\ now <= now' /\ CallsInv' /\ CreateInv'
  BY DEF CopiesInv, LogInv, CallsInv, CreateInv
<1>8. \A p \in DOMAIN log : Versions(p)' \subseteq Versions(p)
  BY DEF Versions, Original, Answered, Created
<1>9. LostNow /\ \A p \in DOMAIN log, type \in {"post_edited", "post_deleted"} :
          Events(type, p)' = Events(type, p)
  BY <1>1, <1>3, <1>6 DEF Events, LostNow
<1> QED
  BY <1>1, <1>3, <1>5, <1>7, <1>8, <1>9, ClientKeeps

\* What remains of the proof for a step that changes one post or its copy.
LEMMA OnePostKeeps ==
    ASSUME CopiesInv, DOMAIN log \subseteq DOMAIN log',
           LogInv', StoredInv', EventsInv', HeldInv', CallsInv', CreateInv',
           NEW p0, \A p \in DOMAIN log' \ {p0} :
               /\ p \in DOMAIN log /\ log'[p] = log[p] /\ stored'[p] = stored[p]
               /\ Versions(p)' \subseteq Versions(p)
               /\ \A type \in {"post_edited", "post_deleted"} :
                      Events(type, p)' = Events(type, p) /\ Lost(type, p)' = Lost(type, p),
           p0 \in DOMAIN log' => PostConsistent(p0)'
    PROVE  CopiesInv'
<1>1. ASSUME NEW p \in DOMAIN log' PROVE PostConsistent(p)'
  <2>1. CASE p = p0
    BY <2>1
  <2>2. CASE p # p0
    <3>1. \A type \in {"post_edited", "post_deleted"} : Lost(type, p) \in BOOLEAN
      BY DEF Lost
    <3>2. p \in DOMAIN log
      BY <2>2
    <3>3. Consistent(log[p], Versions(p)', stored[p], Events("post_edited", p),
                     Events("post_deleted", p), Lost("post_edited", p), Lost("post_deleted", p))
      <4> DEFINE V == Versions(p)
                 W == Versions(p)'
                 E == Events("post_edited", p)
                 D == Events("post_deleted", p)
                 el == Lost("post_edited", p)
                 dl == Lost("post_deleted", p)
      <4>1. Consistent(log[p], V, stored[p], E, D, el, dl)
        BY <3>2 DEF CopiesInv, PostConsistent
      <4>2. W \in SUBSET V /\ el \in BOOLEAN /\ dl \in BOOLEAN
        BY <2>2, <3>1
      <4>3. Becomes(stored[p], stored[p], V, dl)
        BY DEF Becomes
      <4> HIDE DEF V, W, E, D, el, dl
      <4>4. Consistent(log[p], W, stored[p], E, D, el, dl)
        BY <4>1, <4>2, <4>3, VersionReceived
      <4> QED
        BY <4>4 DEF W, E, D, el, dl
    <3> QED
      BY <2>2, <3>3 DEF PostConsistent
  <2> QED
    BY <2>1, <2>2
<1> QED
  BY <1>1 DEF CopiesInv

\* What one event brings
LEMMA BroughtOne ==
    ASSUME NEW e PROVE DOMAIN Brought(<<e>>) = {e.id} /\ Brought(<<e>>)[e.id] = Version(e)
<1>1. ToSet(<<e>>) = {e}
  BY DEF ToSet
<1>2. (CHOOSE f \in {e} : f.id = e.id) = e
  OBVIOUS
<1> QED
  BY <1>1, <1>2 DEF Brought

\* The client is told of an edit.
LEMMA EditedKeeps ==
    ASSUME CopiesInv, events # << >>, events' = Tail(events),
           NEW e, e = Head(events), e.type = "post_edited", HandleEdited(e),
           UNCHANGED <<now, log, create, held, missed>>
    PROVE  CopiesInv'
<1> DEFINE p0 == e.id
<1>1. /\ EventsInv' /\ EventOk(e)
      /\ ToSet(events) = ToSet(events') \cup {e}
      /\ \A f \in ToSet(events') : e.upd < f.upd
  BY EventTaken DEF CopiesInv
<1>2. p0 \in DOMAIN log /\ e.upd \in Nat
  BY <1>1 DEF EventOk, EventType
<1>3. PICK D : /\ stored' = ReceivePosts(Brought(<<e>>), D)
               /\ revived' = revived \cup Revived(Brought(<<e>>), D)
  BY DEF HandleEdited
<1>v. DOMAIN Brought(<<e>>) = {p0} /\ Brought(<<e>>)[p0] = Version(e)
  BY BroughtOne
<1>r. Revives(stored[p0], Version(e), p0 \in D) => p0 \in revived'
  BY <1>3, <1>v DEF Revives, Revived, Same, Stored
<1>4. \A c \in calls' : c \in calls \/ (IsCall(c) /\ c.page = NoPage)
  <2>1. \A c \in calls' : c \in calls \/ c = Call("around", p0, 0)
    BY DEF HandleEdited
  <2>2. IsCall(Call("around", p0, 0)) /\ Call("around", p0, 0).page = NoPage
    <3>1. "around" \in Kinds
      BY DEF Kinds
    <3> QED
      BY <3>1, CallIs
  <2> QED
    BY <2>1, <2>2
<1>5. CallsInv' /\ \A p \in DOMAIN log : Answered(p)' \subseteq Answered(p)
  BY <1>4, CallsKept DEF CopiesInv
<1>6. \A p \in DOMAIN log : Versions(p)' \subseteq Versions(p)
  BY <1>5 DEF Versions, Original, Created
<1>7. /\ Version(e).at = log[p0].at /\ Version(e).upd = e.upd /\ Version(e).deleted = FALSE
  BY DEF Version
<1>8. e \in Events("post_edited", p0)
  BY <1>1 DEF Events
<1>9. \A f \in Events("post_edited", p0) \ {e} : e.upd < f.upd
  BY <1>1 DEF Events
<1>10. /\ Events("post_edited", p0)' = Events("post_edited", p0) \ {e}
       /\ Events("post_deleted", p0)' = Events("post_deleted", p0)
  <2>1. e \notin ToSet(events')
    BY <1>1, <1>2
  <2> QED
    BY <1>1, <2>1 DEF Events
<1>11. /\ \A p, type : Lost(type, p) \in BOOLEAN /\ Lost(type, p)' \in BOOLEAN
       /\ \A p : Lost("post_edited", p)' = Lost("post_edited", p)
       /\ \A p \in DOMAIN log \ {p0} : Lost("post_deleted", p)' = Lost("post_deleted", p)
       /\ Lost("post_deleted", p0) => Lost("post_deleted", p0)'
       /\ p0 \in revived' => Lost("post_deleted", p0)'
  <2>1. revived \subseteq revived' /\ revived' \subseteq revived \cup {p0}
    BY <1>3, <1>v DEF Revived, Same
  <2> QED
    BY <2>1 DEF Lost
<1>12. PostIds \subseteq Ids /\ DOMAIN log \subseteq PostIds /\ log[p0] \in PostType
  BY <1>2, LogFacts DEF CopiesInv
<1>13. Receive(stored[p0], Version(e), p0 \in D) \in CopyType
  BY <1>2, <1>7, <1>12 DEF CopiesInv, StoredInv, Receive, CopyType, PostType
<1>14. PostConsistent(p0)'
  <2>1. PostConsistent(p0)
    BY <1>2 DEF CopiesInv
  <2>2. Consistent(log[p0], Versions(p0)', Receive(stored[p0], Version(e), p0 \in D),
                   Events("post_edited", p0) \ {e}, Events("post_deleted", p0),
                   Lost("post_edited", p0), Lost("post_deleted", p0)')
    <3> DEFINE E == Events("post_edited", p0)
               F == Events("post_deleted", p0)
               el == Lost("post_edited", p0)
               dl == Lost("post_deleted", p0)
               lost == Lost("post_deleted", p0)'
               v == Version(e)
               differs == p0 \in D
               V == Versions(p0)
               W == Versions(p0)'
    <3>1. /\ W \in SUBSET V /\ el \in BOOLEAN /\ dl \in BOOLEAN /\ lost \in BOOLEAN
          /\ differs \in BOOLEAN /\ (dl => lost)
      BY <1>2, <1>6, <1>11
    <3>2. Consistent(log[p0], V, stored[p0], E, F, el, dl)
      BY <2>1 DEF PostConsistent
    <3>3. e \in E /\ \A f \in E \ {e} : e.upd < f.upd
      BY <1>8, <1>9
    <3>4. v.at = log[p0].at /\ v.upd = e.upd /\ ~v.deleted
      BY <1>7
    <3>5. Revives(stored[p0], v, differs) => lost
      BY <1>r, <1>11
    <3> HIDE DEF p0, E, F, el, dl, lost, v, V, W, differs
    <3>6. Consistent(log[p0], W, Receive(stored[p0], v, differs), E \ {e}, F, el, lost)
      BY <3>1, <3>2, <3>3, <3>4, <3>5, EditTold
    <3> QED
      BY <3>6 DEF E, F, el, lost, v, W, differs
  <2>3. stored'[p0] = Receive(stored[p0], Version(e), p0 \in D)
    BY <1>2, <1>3, <1>v, <1>12 DEF ReceivePosts
  <2> QED
    BY <1>10, <1>11, <2>2, <2>3 DEF PostConsistent
<1>15. LogInv' /\ HeldInv' /\ CreateInv'
  BY DEF CopiesInv, LogInv, HeldInv, EventOk, CreateInv
<1> HIDE DEF p0
<1>16. StoredInv'
  <2>1. \A p \in Ids \ {p0} : stored'[p] = stored[p]
    BY <1>3, <1>v DEF ReceivePosts, p0
  <2>2. stored'[p0] \in CopyType
    BY <1>2, <1>3, <1>v, <1>12, <1>13 DEF ReceivePosts, p0
  <2>3. stored' \in [Ids -> CopyType]
    BY <1>3, <2>1, <2>2 DEF CopiesInv, StoredInv, ReceivePosts
  <2> QED
    BY <1>2, <1>12, <2>1, <2>3 DEF CopiesInv, StoredInv
<1>17. ASSUME NEW p \in DOMAIN log' \ {p0}
       PROVE  /\ p \in DOMAIN log /\ log'[p] = log[p] /\ stored'[p] = stored[p]
              /\ Versions(p)' \subseteq Versions(p)
              /\ \A type \in {"post_edited", "post_deleted"} :
                     Events(type, p)' = Events(type, p) /\ Lost(type, p)' = Lost(type, p)
  <2>1. stored'[p] = stored[p]
    BY <1>3, <1>v, <1>12 DEF ReceivePosts, p0
  <2>2. \A type : Events(type, p)' = Events(type, p)
    BY <1>1 DEF Events, p0
  <2> QED
    BY <1>6, <1>11, <2>1, <2>2
<1> QED
  BY <1>1, <1>5, <1>14, <1>15, <1>16, <1>17, OnePostKeeps

\* The client is told of a deletion.
LEMMA DeletedKeeps ==
    ASSUME CopiesInv, events # << >>, events' = Tail(events),
           NEW e, e = Head(events), e.type = "post_deleted", HandleDeleted(e),
           UNCHANGED <<now, log, create, held>>
    PROVE  CopiesInv'
<1> DEFINE p0 == e.id
<1>1. /\ EventsInv' /\ EventOk(e)
      /\ ToSet(events) = ToSet(events') \cup {e}
      /\ \A f \in ToSet(events') : e.upd < f.upd
  BY EventTaken DEF CopiesInv
<1>2. p0 \in DOMAIN log /\ e.upd \in Nat
  BY <1>1 DEF EventOk, EventType
<1>3. /\ stored' = [stored EXCEPT ![p0].st = IF @ = "none" THEN @ ELSE "deleted"]
      /\ missed' = IF Stored(stored, p0) THEN missed ELSE missed \cup News({e})
      /\ calls' = calls /\ revived' = revived
  BY DEF HandleDeleted
<1>4. \A p \in DOMAIN log : Versions(p)' = Versions(p)
  BY <1>3 DEF Versions, Original, Answered, Created
<1>5. /\ e \in Events("post_deleted", p0)
      /\ \A f \in Events("post_edited", p0) : e.upd < f.upd
  BY <1>1 DEF Events
<1>6. /\ Events("post_edited", p0)' = Events("post_edited", p0)
      /\ Events("post_deleted", p0)' \subseteq Events("post_deleted", p0)
  BY <1>1 DEF Events
<1>7. \A p, type : Lost(type, p) \in BOOLEAN /\ Lost(type, p)' \in BOOLEAN
  BY DEF Lost
<1>8. News({e}) = {[type |-> "post_deleted", id |-> p0]}
  BY DEF News
<1>9. /\ \A p : Lost("post_edited", p)' = Lost("post_edited", p)
      /\ \A p : p # p0 => Lost("post_deleted", p)' = Lost("post_deleted", p)
      /\ Lost("post_deleted", p0) \/ stored[p0].st = "none" => Lost("post_deleted", p0)'
  <2>1. \A p, type : [type |-> type, id |-> p] \in News({e}) <=> type = "post_deleted" /\ p = p0
    BY <1>8
  <2>2. \A n : n \in missed' <=> n \in missed \/ (stored[p0].st = "none" /\ n \in News({e}))
    BY <1>3 DEF Stored
  <2>3. ASSUME NEW x, x \notin News({e}) PROVE x \in missed' <=> x \in missed
    BY <2>2, <2>3
  <2>4. ASSUME NEW p PROVE [type |-> "post_edited", id |-> p] \notin News({e})
    BY <1>8
  <2>5. ASSUME NEW p, p # p0 PROVE [type |-> "post_deleted", id |-> p] \notin News({e})
    BY <1>8, <2>5
  <2>6. [type |-> "post_deleted", id |-> p0] \in News({e})
    BY <1>8
  <2>7. [type |-> "post_deleted", id |-> p0] \in missed \/ stored[p0].st = "none"
            => [type |-> "post_deleted", id |-> p0] \in missed'
    BY <2>2, <2>6
  <2>8. \A p : Lost("post_edited", p)' <=> Lost("post_edited", p)
    BY <2>3, <2>4, <1>3, Zenon DEF Lost
  <2>9. \A p : p # p0 => (Lost("post_deleted", p)' <=> Lost("post_deleted", p))
    BY <2>3, <2>5, <1>3, Zenon DEF Lost
  <2> QED
    BY <1>3, <1>7, <2>7, <2>8, <2>9 DEF Lost
<1>10. PostIds \subseteq Ids /\ DOMAIN log \subseteq PostIds /\ stored \in [Ids -> CopyType]
  BY LogFacts DEF CopiesInv, StoredInv
<1>11. /\ stored'[p0] \in CopyType /\ stored'[p0].upd = stored[p0].upd
       /\ stored'[p0].st = IF stored[p0].st = "none" THEN "none" ELSE "deleted"
       /\ \A p \in Ids \ {p0} : stored'[p] = stored[p]
       /\ stored' \in [Ids -> CopyType]
  BY <1>2, <1>3, <1>10 DEF CopyType
<1>12. PostConsistent(p0)'
  <2>1. PostConsistent(p0)
    BY <1>2 DEF CopiesInv
  <2>2. Consistent(log[p0], Versions(p0), stored'[p0], Events("post_edited", p0),
                   Events("post_deleted", p0)', Lost("post_edited", p0), Lost("post_deleted", p0)')
    BY <1>5, <1>6, <1>7, <1>9, <1>11, <2>1, DeletionTold DEF PostConsistent
  <2> QED
    BY <1>2, <1>4, <1>6, <1>9, <2>2 DEF PostConsistent
<1> HIDE DEF p0
<1>13. LogInv' /\ HeldInv' /\ CreateInv' /\ CallsInv'
  BY <1>3 DEF CopiesInv, LogInv, HeldInv, EventOk, CreateInv, CallsInv
<1>14. StoredInv'
  BY <1>2, <1>10, <1>11 DEF CopiesInv, StoredInv
<1>15. ASSUME NEW p \in DOMAIN log' \ {p0}
       PROVE  /\ p \in DOMAIN log /\ log'[p] = log[p] /\ stored'[p] = stored[p]
              /\ Versions(p)' \subseteq Versions(p)
              /\ \A type \in {"post_edited", "post_deleted"} :
                     Events(type, p)' = Events(type, p) /\ Lost(type, p)' = Lost(type, p)
  <2>1. stored'[p] = stored[p]
    BY <1>10, <1>11
  <2>2. \A type : Events(type, p)' = Events(type, p)
    BY <1>1 DEF Events, p0
  <2> QED
    BY <1>4, <1>9, <2>1, <2>2
<1> QED
  BY <1>1, <1>12, <1>13, <1>14, <1>15, OnePostKeeps

LEMMA HandleEventKeeps == CopiesInv /\ HandleEvent => CopiesInv'
<1> SUFFICES ASSUME CopiesInv, HandleEvent PROVE CopiesInv'
  OBVIOUS
<1> DEFINE e == Head(events)
<1>1. events # << >> /\ events' = Tail(events) /\ UNCHANGED <<now, log, create>>
  BY DEF HandleEvent
<1>2. \/ e.type = "posted" /\ HandlePosted(e) /\ UNCHANGED calls
      \/ e.type = "post_deleted" /\ HandleDeleted(e) /\ held' = held
      \/ e.type = "post_edited" /\ HandleEdited(e) /\ UNCHANGED <<held, missed>>
  BY DEF HandleEvent, queue
<1> QED
  BY <1>1, <1>2, PostedKeeps, DeletedKeeps, EditedKeeps

\* The client connects anew, and what was on its way may be gone.
LEMMA ReconnectKeeps == CopiesInv /\ Reconnect => CopiesInv'
<1> SUFFICES ASSUME CopiesInv, Reconnect PROVE CopiesInv'
  OBVIOUS
<1>1. UNCHANGED <<now, log, create, stored, held, revived>>
  BY DEF Reconnect, client, queue
<1>2. PICK c : IsCall(c) /\ c.page = NoPage /\ calls' = calls \cup {c}
  <2>1. \A since : IsCall(Call("since", PendingId, since)) /\ Call("since", PendingId, since).page = NoPage
    BY CallIs DEF Kinds
  <2> DEFINE latest == [Call("latest", PendingId, 0) EXCEPT !.time = 0]
  <2>2. IsCall(latest) /\ latest.page = NoPage
    BY CallIs DEF Kinds
  <2>3. PICK newest : calls' = calls \cup {SyncPostsInChannel(newest)} \/ calls' = calls \cup {latest}
    BY DEF Reconnect
  <2>4. \E since : SyncPostsInChannel(newest) = Call("since", PendingId, since)
    BY DEF SyncPostsInChannel
  <2> HIDE DEF latest
  <2> QED
    BY <2>1, <2>2, <2>3, <2>4
<1>3. CASE UNCHANGED <<events, missed>>
  <2>1. now' \in Nat /\ now <= now'
    BY <1>1 DEF CopiesInv, LogInv
  <2> QED
    BY <1>1, <1>2, <1>3, <2>1, CallsStep
<1>4. CASE events' = << >> /\ missed' = missed \cup News(ToSet(events))
  <2>1. CallsInv' /\ \A p \in DOMAIN log : Answered(p)' \subseteq Answered(p)
    BY <1>1, <1>2, CallsKept DEF CopiesInv
  <2>2. \A p \in DOMAIN log : Versions(p)' \subseteq Versions(p)
    BY <1>1, <2>1 DEF Versions, Original, Created
  <2>3. \A type, p : Events(type, p)' = {}
    BY <1>4 DEF Events, ToSet
  <2>4. \A type, p : Lost(type, p)' <=> Lost(type, p) \/ Events(type, p) # {}
    <3>1. \A type, p : [type |-> type, id |-> p] \in News(ToSet(events))
                           <=> \E e \in ToSet(events) : e.type = type /\ e.id = p
      <4>1. \A type, p, e : [type |-> type, id |-> p] = [type |-> e.type, id |-> e.id]
                                <=> e.type = type /\ e.id = p
        OBVIOUS
      <4> QED
        BY <4>1 DEF News
    <3>2. \A type, p : Events(type, p) # {} <=> \E e \in ToSet(events) : e.type = type /\ e.id = p
      BY DEF Events
    <3>3. \A type, p : [type |-> type, id |-> p] \in missed'
               <=> [type |-> type, id |-> p] \in missed \/ Events(type, p) # {}
      BY <1>4, <3>1, <3>2
    <3> QED
      BY <1>1, <3>3 DEF Lost
  <2>5. ASSUME NEW p \in DOMAIN log PROVE PostConsistent(p)'
    <3>1. \A type : Lost(type, p) \in BOOLEAN /\ Lost(type, p)' \in BOOLEAN
      BY DEF Lost
    <3>2. PostConsistent(p)
      BY DEF CopiesInv
    <3>3. Consistent(log[p], Versions(p)', stored[p], {}, {},
                     Lost("post_edited", p)', Lost("post_deleted", p)')
      <4> DEFINE E == Events("post_edited", p)
                 D == Events("post_deleted", p)
                 el == Lost("post_edited", p)
                 dl == Lost("post_deleted", p)
                 em == Lost("post_edited", p)'
                 dm == Lost("post_deleted", p)'
                 V == Versions(p)
                 W == Versions(p)'
      <4>1. /\ W \in SUBSET V /\ Consistent(log[p], V, stored[p], E, D, el, dl)
            /\ el \in BOOLEAN /\ dl \in BOOLEAN /\ em \in BOOLEAN /\ dm \in BOOLEAN
        BY <2>2, <3>1, <3>2 DEF PostConsistent
      <4>2. (em <=> el \/ E # {}) /\ (dm <=> dl \/ D # {})
        BY <2>4
      <4> HIDE DEF E, D, el, dl, em, dm, V, W
      <4>3. Consistent(log[p], W, stored[p], {}, {}, em, dm)
        BY <4>1, <4>2, EventsLost
      <4> QED
        BY <4>3 DEF em, dm, W
    <3> QED
      BY <1>1, <2>3, <3>3 DEF PostConsistent
  <2>6. LogInv' /\ HeldInv' /\ CreateInv' /\ StoredInv'
    BY <1>1 DEF CopiesInv, LogInv, HeldInv, EventOk, CreateInv, StoredInv
  <2>7. EventsInv'
    BY <1>4 DEF EventsInv, ToSet
  <2> QED
    BY <1>1, <2>1, <2>5, <2>6, <2>7 DEF CopiesInv
<1> QED
  BY <1>3, <1>4 DEF Reconnect

-----------------------------------------------------------------------------
\* Steps of the server, and the beginning

\* A post nobody was told of
LEMMA PostNew ==
    ASSUME NEW t \in Nat, NEW post, post.at = t, post.upd = t, post.deleted \in BOOLEAN,
           ~post.deleted,
           NEW V, \A v \in V : v.at = t /\ v.upd = t /\ v.deleted \in BOOLEAN,
           NEW copy \in CopyType, copy.st = "none",
           NEW el \in BOOLEAN, NEW dl \in BOOLEAN
    PROVE  Consistent(post, V, copy, {}, {}, el, dl)
<1>1. Dated(post, V, copy, {}, {})
  BY DEF Dated, CopyType
<1>2. Covered(post, V, copy, {}, el)
  BY DEF Covered
<1>3. Marked(post, copy, {}, {}, el, dl)
  BY DEF Marked
<1> QED
  BY <1>1, <1>2, <1>3 DEF Consistent

\* The server writes a post, and tells of it.
LEMMA Published ==
    ASSUME CopiesInv, now' = now + 1, LogInv', held' = held,
           DOMAIN log \subseteq DOMAIN log', \A p \in DOMAIN log : log'[p].at = log[p].at,
           NEW type \in {"posted", "post_edited", "post_deleted"}, NEW p0 \in DOMAIN log',
           type = "posted" => log'[p0].at = now', Publish(type, p0, now')
    PROVE  /\ EventsInv' /\ HeldInv'
           /\ ToSet(events') = ToSet(events) \cup {[type |-> type, id |-> p0, upd |-> now']}
<1>0. PICK e : e = [type |-> type, id |-> p0, upd |-> now']
  OBVIOUS
<1>1. now \in Nat /\ p0 \in PostIds
  <2>1. DOMAIN log' \subseteq PostIds
    BY LogFacts, ChannelPostsAssumption DEF LogInv, PostIds
  <2> QED
    BY <2>1 DEF CopiesInv, LogInv
<1>2. events \in Seq(EventType) /\ e \in EventType
  BY <1>0, <1>1 DEF CopiesInv, EventsInv, EventType
<1>3. ToSet(events') = ToSet(events) \cup {e}
  BY <1>0, <1>2, ToSetAppend DEF Publish
<1>4. \A x : EventOk(x) => EventOk(x)' /\ x.upd < now'
  BY <1>1 DEF EventOk, EventType
<1>5. EventOk(e)'
  BY <1>0, <1>1, <1>2 DEF EventOk
<1>6. events' = Append(events, e)
  BY <1>0 DEF Publish
<1>7. \A i \in DOMAIN events : EventOk(events[i]) /\ events[i].upd < now'
  BY <1>4 DEF CopiesInv, EventsInv, ToSet
<1>8. \A i, j \in DOMAIN events' : i < j => events'[i].upd < events'[j].upd
  <2>1. /\ DOMAIN events' = 1 .. Len(events) + 1 /\ events'[Len(events) + 1] = e
        /\ \A i \in DOMAIN events : events'[i] = events[i]
        /\ DOMAIN events = 1 .. Len(events) /\ Len(events) \in Nat
    BY <1>2, <1>6
  <2>2. ASSUME NEW i \in DOMAIN events', NEW j \in DOMAIN events', i < j
        PROVE  events'[i].upd < events'[j].upd
    <3>1. CASE j \in DOMAIN events
      BY <2>1, <2>2, <3>1 DEF CopiesInv, EventsInv
    <3>2. CASE j = Len(events) + 1
      <4>1. i \in DOMAIN events
        BY <2>1, <2>2, <3>2
      <4> QED
        BY <1>0, <1>7, <2>1, <3>2, <4>1
    <3> QED
      BY <2>1, <3>1, <3>2
  <2> QED
    BY <2>2
<1>9. EventsInv'
  <2>1. events' \in Seq(EventType)
    BY <1>2, <1>6
  <2>2. \A x \in ToSet(events') : EventOk(x)'
    BY <1>3, <1>4, <1>5 DEF CopiesInv, EventsInv
  <2> QED
    BY <1>8, <2>1, <2>2 DEF EventsInv
<1>10. HeldInv'
  BY <1>4 DEF CopiesInv, HeldInv
<1> QED
  BY <1>0, <1>3, <1>9, <1>10

\* A post is saved for another user, or for createPost.
LEMMA SavePostKeeps ==
    ASSUME CopiesInv, NEW own \in BOOLEAN, SavePost(own),
           UNCHANGED <<held, calls, stored, missed, revived>>, CreateInv',
           create' = create \/ (create'.id = Len(log') /\ create'.post = log'[Len(log')])
    PROVE  CopiesInv'
<1> DEFINE hid == ~own /\ Len(log) + 1 \in left.bots
           post == [at |-> now', upd |-> now', deleted |-> FALSE, own |-> own, hidden |-> hid]
<1>0. PICK p0 : p0 = Len(log) + 1
  OBVIOUS
<1>1. /\ now \in Nat /\ now' = now + 1 /\ Len(log) < MaxPosts
      /\ log' = Append(log, post) /\ log \in Seq(PostType) /\ post \in PostType
  <2>1. hid \in BOOLEAN
    OBVIOUS
  <2> QED
    BY <2>1 DEF SavePost, CopiesInv, LogInv, PostType
<1>2. /\ Len(log') = p0 /\ DOMAIN log' = DOMAIN log \cup {p0} /\ p0 \notin DOMAIN log
      /\ log'[p0] = post /\ \A p \in DOMAIN log : log'[p] = log[p]
      /\ p0 \in PostIds /\ DOMAIN log \subseteq PostIds /\ log' \in Seq(PostType)
  BY <1>0, <1>1, LogFacts, ChannelPostsAssumption DEF CopiesInv, PostIds
<1>3. LogInv'
  <2>1. \A p \in DOMAIN log : log[p].upd <= now /\ log[p].upd \in Nat
    BY LogFacts DEF CopiesInv, LogInv, PostType
  <2>2. Len(log') <= MaxPosts
    BY <1>0, <1>1, <1>2, ChannelPostsAssumption DEF CopiesInv, LogInv
  <2> QED
    BY <1>1, <1>2, <2>1, <2>2 DEF LogInv, PostType
<1> HIDE DEF post
<1>4. Publish("posted", p0, now')
  BY <1>0 DEF SavePost
<1>5. /\ EventsInv' /\ HeldInv'
      /\ ToSet(events') = ToSet(events) \cup {[type |-> "posted", id |-> p0, upd |-> now']}
  BY <1>1, <1>2, <1>3, <1>4, Published DEF post
<1>6. \A p : \A type \in {"post_edited", "post_deleted"} : Events(type, p)' = Events(type, p)
  BY <1>5 DEF Events
<1>7. \A type, p : Lost(type, p)' = Lost(type, p) /\ Lost(type, p) \in BOOLEAN
  BY DEF Lost
<1>8. StoredInv' /\ CallsInv'
  BY <1>2 DEF CopiesInv, StoredInv, CallsInv
<1>9. ASSUME NEW p \in DOMAIN log' \ {p0}
      PROVE  /\ p \in DOMAIN log /\ log'[p] = log[p] /\ stored'[p] = stored[p]
             /\ Versions(p)' \subseteq Versions(p)
             /\ \A type \in {"post_edited", "post_deleted"} :
                    Events(type, p)' = Events(type, p) /\ Lost(type, p)' = Lost(type, p)
  <2>1. p \in DOMAIN log /\ log'[p] = log[p]
    BY <1>2
  <2>2. Versions(p)' \subseteq Versions(p)
    BY <1>2, <2>1 DEF Versions, Original, Answered, Created
  <2> QED
    BY <1>6, <1>7, <2>1, <2>2
<1>10. PostConsistent(p0)'
  <2>1. Events("post_edited", p0)' = {} /\ Events("post_deleted", p0)' = {}
    <3>1. \A e \in ToSet(events) : e.id # p0
      BY <1>2 DEF CopiesInv, EventsInv, EventOk
    <3>2. Events("post_edited", p0) = {} /\ Events("post_deleted", p0) = {}
      BY <3>1 DEF Events
    <3> QED
      BY <1>6, <3>2
  <2>2. \A v \in Versions(p0)' : v = post \/ v = [at |-> now', upd |-> now', deleted |-> FALSE]
    <3>1. Answered(p0)' = {}
      BY <1>2 DEF Answered, CopiesInv, CallsInv
    <3>2. Created(p0)' \subseteq {post}
      <4>1. create.id # p0
        BY <1>2, LogFacts DEF CopiesInv, CreateInv
      <4> QED
        BY <1>2, <4>1 DEF Created
    <3> QED
      BY <1>2, <3>1, <3>2 DEF Versions, Original, post
  <2>3. stored[p0] \in CopyType /\ stored[p0].st = "none"
    BY <1>2, LogFacts DEF CopiesInv, StoredInv
  <2>4. /\ post.at = now' /\ post.upd = now' /\ now' \in Nat
        /\ post.deleted \in BOOLEAN /\ ~post.deleted
    BY <1>1 DEF post
  <2>5. \A v \in Versions(p0)' : v.at = now' /\ v.upd = now' /\ v.deleted \in BOOLEAN
    <3>1. ASSUME NEW v, v = [at |-> now', upd |-> now', deleted |-> FALSE]
          PROVE  v.at = now' /\ v.upd = now' /\ v.deleted \in BOOLEAN
      BY <3>1
    <3> QED
      BY <2>2, <2>4, <3>1
  <2>6. Consistent(post, Versions(p0)', stored[p0], {}, {},
                   Lost("post_edited", p0), Lost("post_deleted", p0))
    BY <1>7, <2>3, <2>4, <2>5, PostNew
  <2> QED
    BY <1>2, <1>7, <2>1, <2>6 DEF PostConsistent
<1> QED
  BY <1>2, <1>3, <1>5, <1>8, <1>9, <1>10, OnePostKeeps

LEMMA OthersPostKeeps == CopiesInv /\ OthersPost => CopiesInv'
<1> SUFFICES ASSUME CopiesInv, OthersPost PROVE CopiesInv'
  OBVIOUS
<1>1. SavePost(FALSE) /\ UNCHANGED <<held, calls, stored, missed, revived, create>>
  BY DEF OthersPost, client, queue, history
<1>2. CreateInv'
  <2>1. DOMAIN log \subseteq DOMAIN log'
    BY <1>1 DEF SavePost, CopiesInv, LogInv, PostType
  <2> QED
    BY <1>1, <2>1 DEF CopiesInv, CreateInv
<1> QED
  BY <1>1, <1>2, SavePostKeeps

LEMMA CreatePostKeeps == CopiesInv /\ CreatePost => CopiesInv'
<1> SUFFICES ASSUME CopiesInv, CreatePost PROVE CopiesInv'
  OBVIOUS
<1>1. UNCHANGED <<held, calls, stored, missed, revived>>
  BY DEF CreatePost, client, queue, history
<1>2. CASE /\ SavePost(TRUE)
           /\ create' = [create EXCEPT !.st = "created", !.id = Len(log'),
                                       !.post = log'[Len(log')]]
  <2>1. /\ create' = [st |-> "created", at |-> create.at, id |-> Len(log'), post |-> log'[Len(log')]]
        /\ create.at \in Nat
    BY <1>2 DEF CopiesInv, CreateInv
  <2>2. Len(log') \in DOMAIN log'
    BY <1>2 DEF SavePost, CopiesInv, LogInv, PostType
  <2>3. CreateInv'
    BY <2>1, <2>2 DEF CreateInv
  <2> QED
    BY <1>1, <1>2, <2>1, <2>3, SavePostKeeps
<1>3. CASE /\ \E p \in Live : create' = [create EXCEPT !.st = "found", !.id = p, !.post = log[p]]
           /\ UNCHANGED <<now, log, events>>
  <2>1. PICK p0 \in Live : create' = [create EXCEPT !.st = "found", !.id = p0, !.post = log[p0]]
    BY <1>3
  <2>2. /\ create' = [st |-> "found", at |-> create.at, id |-> p0, post |-> log[p0]]
        /\ create.at \in Nat /\ p0 \in DOMAIN log
    BY <2>1 DEF CopiesInv, CreateInv, Live
  <2>3. CreateInv'
    BY <1>3, <2>2 DEF CreateInv
  <2>4. now' \in Nat /\ now <= now' /\ CallsInv' /\ stored' \in [Ids -> CopyType]
    BY <1>1, <1>3 DEF CopiesInv, LogInv, CallsInv, StoredInv
  <2>5. EventsInv' /\ HeldInv'
    BY <1>1, <1>3, <2>4, EventsKept, HeldKept DEF CopiesInv
  <2>6. \A p \in DOMAIN log : Versions(p)' \subseteq Versions(p)
    BY <1>1, <1>3, <2>2 DEF Versions, Original, Answered, Created
  <2>7. LostNow /\ \A p \in DOMAIN log, type \in {"post_edited", "post_deleted"} :
            Events(type, p)' = Events(type, p)
    BY <1>1, <1>3 DEF Events, LostNow
  <2>8. \A p \in PostIds : CopyStep(p)
    BY <1>1 DEF CopyStep
  <2> QED
    BY <1>1, <1>3, <2>3, <2>4, <2>5, <2>6, <2>7, <2>8, ClientKeeps
<1> QED
  BY <1>2, <1>3 DEF CreatePost

LEMMA ChangePostKeeps ==
    ASSUME CopiesInv, NEW p0 \in PostIds, NEW type \in {"post_edited", "post_deleted"},
           ChangePost(p0, type)
    PROVE  CopiesInv'
<1>1. PICK post : post = [log[p0] EXCEPT !.upd = now', !.deleted = (type = "post_deleted")]
  OBVIOUS
<1>2. PICK e : e = [type |-> type, id |-> p0, upd |-> now']
  OBVIOUS
<1>3. /\ now \in Nat /\ now' = now + 1 /\ p0 \in DOMAIN log /\ ~log[p0].deleted
      /\ log' = [log EXCEPT ![p0] = post] /\ log \in Seq(PostType)
      /\ log[p0] \in PostType /\ log[p0].upd <= now
      /\ UNCHANGED <<calls, create, stored, held, missed, revived>>
  BY <1>1, LogFacts DEF ChangePost, Live, CopiesInv, LogInv, client, queue, history
<1>4. /\ post \in PostType /\ post.at = log[p0].at /\ post.upd = now'
      /\ (post.deleted <=> type = "post_deleted")
  <2>1. log[p0] = [at |-> log[p0].at, upd |-> log[p0].upd, deleted |-> log[p0].deleted,
                   own |-> log[p0].own, hidden |-> log[p0].hidden]
        /\ log[p0].at \in Nat /\ log[p0].own \in BOOLEAN /\ log[p0].hidden \in BOOLEAN
    BY <1>3 DEF PostType
  <2>2. PICK d \in BOOLEAN : d <=> type = "post_deleted"
    OBVIOUS
  <2>3. (type = "post_deleted") = d
    BY <2>2
  <2>4. post = [at |-> log[p0].at, upd |-> now', deleted |-> d, own |-> log[p0].own,
                hidden |-> log[p0].hidden]
    BY <1>1, <2>1, <2>3
  <2> QED
    BY <1>3, <2>1, <2>2, <2>4 DEF PostType
<1>5. /\ log' \in Seq(PostType) /\ DOMAIN log' = DOMAIN log /\ Len(log') = Len(log)
      /\ log'[p0] = post /\ \A p \in DOMAIN log \ {p0} : log'[p] = log[p]
  BY <1>3, <1>4
<1>6. LogInv'
  <2>1. \A p \in DOMAIN log : log[p].upd <= now /\ log[p].upd \in Nat
    BY LogFacts DEF CopiesInv, LogInv, PostType
  <2> QED
    BY <1>3, <1>4, <1>5, <2>1 DEF CopiesInv, LogInv
<1>7. EventsInv' /\ HeldInv' /\ ToSet(events') = ToSet(events) \cup {e}
  <2>1. Publish(type, p0, now')
    BY DEF ChangePost
  <2> QED
    BY <1>2, <1>3, <1>4, <1>5, <1>6, <2>1, Published
<1>8. StoredInv' /\ CallsInv' /\ CreateInv'
  BY <1>3, <1>5 DEF CopiesInv, StoredInv, CallsInv, CreateInv
<1>9. \A t, p : Lost(t, p)' = Lost(t, p) /\ Lost(t, p) \in BOOLEAN
  BY <1>3 DEF Lost
<1>10. ASSUME NEW p \in DOMAIN log' \ {p0}
       PROVE  /\ p \in DOMAIN log /\ log'[p] = log[p] /\ stored'[p] = stored[p]
              /\ Versions(p)' \subseteq Versions(p)
              /\ \A t \in {"post_edited", "post_deleted"} :
                     Events(t, p)' = Events(t, p) /\ Lost(t, p)' = Lost(t, p)
  <2>1. Versions(p)' \subseteq Versions(p)
    BY <1>3, <1>5 DEF Versions, Original, Answered, Created
  <2>2. \A t : Events(t, p)' = Events(t, p)
    BY <1>2, <1>7 DEF Events
  <2> QED
    BY <1>3, <1>5, <1>9, <2>1, <2>2
<1>11. PostConsistent(p0)'
  <2> DEFINE E == Events("post_edited", p0)
             D == Events("post_deleted", p0)
             el == Lost("post_edited", p0)
             dl == Lost("post_deleted", p0)
             V == Versions(p0)
             W == Versions(p0)'
  <2>0. PostConsistent(p0)' <=>
            Consistent(post, W, stored[p0], Events("post_edited", p0)', Events("post_deleted", p0)', el, dl)
    <3>1. log'[p0] = post /\ stored'[p0] = stored[p0]
      BY <1>3, <1>5
    <3>2. Lost("post_edited", p0)' = el /\ Lost("post_deleted", p0)' = dl
      BY <1>9
    <3> HIDE DEF el, dl, W
    <3> QED
      BY <3>1, <3>2 DEF PostConsistent, W
  <2>1. el \in BOOLEAN /\ dl \in BOOLEAN /\ Consistent(log[p0], V, stored[p0], E, D, el, dl)
    BY <1>3, <1>9 DEF CopiesInv, PostConsistent
  <2>2. W \in SUBSET (V \cup {post})
    BY <1>3, <1>4, <1>5 DEF Versions, Original, Answered, Created
  <2>3. /\ ~log[p0].deleted /\ now' \in Nat /\ log[p0].upd < now' /\ e.upd = now'
        /\ post.at = log[p0].at /\ post.upd = now' /\ post.deleted \in BOOLEAN
    BY <1>2, <1>3, <1>4 DEF PostType
  <2>4. CASE type = "post_edited"
    <3>1. ~post.deleted
      BY <1>4, <2>4
    <3>2. Events("post_edited", p0)' = E \cup {e} /\ Events("post_deleted", p0)' = D
      BY <1>2, <1>7, <2>4 DEF Events
    <3> HIDE DEF E, D, el, dl, V, W
    <3>3. Consistent(post, W, stored[p0], E \cup {e}, D, el, dl)
      BY <2>1, <2>2, <2>3, <3>1, PostEdited, SMTT(30)
    <3> QED
      BY <2>0, <3>2, <3>3
  <2>5. CASE type = "post_deleted"
    <3>1. ~(~post.deleted)
      BY <1>4, <2>3, <2>5
    <3>2. Events("post_edited", p0)' = E /\ Events("post_deleted", p0)' = D \cup {e}
      BY <1>2, <1>7, <2>5 DEF Events
    <3> HIDE DEF E, D, el, dl, V, W
    <3>3. Consistent(post, W, stored[p0], E, D \cup {e}, el, dl)
      BY <2>1, <2>2, <2>3, <3>1, PostDeleted, SMTT(30)
    <3> QED
      BY <2>0, <3>2, <3>3
  <2> QED
    BY <2>4, <2>5
<1> QED
  BY <1>5, <1>6, <1>7, <1>8, <1>10, <1>11, OnePostKeeps

LEMMA CopiesInit == Init => CopiesInv
<1> SUFFICES ASSUME Init PROVE CopiesInv
  OBVIOUS
<1>1. /\ now = InitPosts + 1 /\ events = << >> /\ held = << >> /\ calls = {}
      /\ create = Request("none", 0) /\ stored = [id \in Ids |-> NoPost]
      /\ missed = {} /\ revived = {}
      /\ log = [p \in 1 .. InitPosts |-> [at |-> p, upd |-> p, deleted |-> FALSE, own |-> FALSE,
                                         hidden |-> p \in left.bots]]
      /\ InitPosts \in Nat /\ MaxPosts \in Nat /\ InitPosts <= MaxPosts
  BY ChannelPostsAssumption DEF Init
<1>2. LogInv
  <2>1. ASSUME NEW p \in 1 .. InitPosts PROVE log[p] \in PostType /\ log[p].upd <= now
    <3>1. (p \in left.bots) \in BOOLEAN
      OBVIOUS
    <3> QED
      BY <1>1, <3>1 DEF PostType
  <2>2. log \in Seq(PostType) /\ Len(log) = InitPosts /\ DOMAIN log = 1 .. InitPosts
    BY <1>1, <2>1
  <2> QED
    BY <1>1, <2>1, <2>2 DEF LogInv
<1>3. StoredInv
  BY <1>1, LogFacts, <1>2 DEF StoredInv, NoPost, CopyType
<1>4. EventsInv /\ HeldInv /\ CallsInv /\ CreateInv
  BY <1>1 DEF EventsInv, HeldInv, CallsInv, CreateInv, Request, ToSet
<1>5. ASSUME NEW p \in DOMAIN log PROVE PostConsistent(p)
  <2>1. /\ log[p].at = p /\ log[p].upd = p /\ ~log[p].deleted /\ log[p].deleted \in BOOLEAN
        /\ p \in Nat
    <3>1. p \in 1 .. InitPosts
      BY <1>1
    <3>2. log[p] = [at |-> p, upd |-> p, deleted |-> FALSE, own |-> FALSE, hidden |-> p \in left.bots]
      BY <1>1, <3>1
    <3>3. log[p].deleted = FALSE
      BY <3>2
    <3>4. log[p].at = p /\ log[p].upd = p /\ p \in Nat
      BY <1>1, <3>1, <3>2
    <3> QED
      BY <3>3, <3>4
  <2>2. \A v \in Versions(p) : v = log[p] \/ v = Original(p)
    <3>1. create.id # p
      BY <1>1, <1>2, LogFacts DEF Request
    <3> QED
      BY <1>1, <3>1 DEF Versions, Answered, Created
  <2>3. Original(p).at = p /\ Original(p).upd = p /\ Original(p).deleted \in BOOLEAN
    BY <2>1 DEF Original
  <2>4. \A v \in Versions(p) : v.at = p /\ v.upd = p /\ v.deleted \in BOOLEAN
    BY <2>1, <2>2, <2>3
  <2>5. stored[p] \in CopyType /\ stored[p].st = "none"
    BY <1>1, <1>2, <1>3, LogFacts DEF StoredInv, NoPost
  <2>6. \A type : Events(type, p) = {} /\ Lost(type, p) \in BOOLEAN
    BY <1>1 DEF Events, Lost, ToSet
  <2>7. Consistent(log[p], Versions(p), stored[p], {}, {},
                   Lost("post_edited", p), Lost("post_deleted", p))
    BY <2>1, <2>4, <2>5, <2>6, PostNew
  <2> QED
    BY <2>6, <2>7 DEF PostConsistent
<1> QED
  BY <1>2, <1>3, <1>4, <1>5 DEF CopiesInv

LEMMA StutterKeeps == CopiesInv /\ UNCHANGED vars => CopiesInv'
<1> SUFFICES ASSUME CopiesInv, UNCHANGED vars PROVE CopiesInv'
  OBVIOUS
<1>1. UNCHANGED <<now, log, events, held, calls, create, stored, missed, revived>>
  BY DEF vars, client, queue, history
<1>2. now' \in Nat /\ now <= now'
  BY <1>1 DEF CopiesInv, LogInv
<1> QED
  BY <1>1, <1>2, QuietKeeps

LEMMA NextKeeps == CopiesInv /\ [Next]_vars => CopiesInv'
<1> SUFFICES ASSUME CopiesInv, [Next]_vars PROVE CopiesInv'
  OBVIOUS
<1>1. ASSUME NEW call \in calls,
             Answer(call) \/ FetchNewest(call) \/ ReceiveAnswer(call) \/ CallFails(call)
      PROVE  CopiesInv'
  BY <1>1, AnswerKeeps, FetchNewestKeeps, ReceiveAnswerKeeps, CallFailsKeeps
<1>2. CASE OthersPost \/ CreatePost \/ \E p \in PostIds, type \in {"post_edited", "post_deleted"} :
                                            ChangePost(p, type)
  BY <1>2, OthersPostKeeps, CreatePostKeeps, ChangePostKeeps
<1>3. CASE OpenChannel \/ ResetChannel \/ (\E p \in PostIds : OpenPermalink(p))
           \/ \E block \in ToSet(blocks) : LoadMore(block)
  BY <1>3, OpenChannelKeeps, ResetKeeps, OpenPermalinkKeeps, LoadMoreKeeps
<1>4. CASE HandleEvent \/ BurstEnds \/ Disconnect \/ Reconnect
  BY <1>4, HandleEventKeeps, BurstEndsKeeps, DisconnectKeeps, ReconnectKeeps
<1>5. CASE (\E again \in BOOLEAN : SubmitPost(again)) \/ PostCreated \/ PostFails \/ RemoveFailed
  BY <1>5, SubmitPostKeeps, PostCreatedKeeps, PostFailsKeeps, RemoveFailedKeeps
<1> QED
  BY <1>1, <1>2, <1>3, <1>4, <1>5, StutterKeeps DEF Next

-----------------------------------------------------------------------------
\* Every post, its versions on their way and the client's copy of it are consistent in
\* every reachable state, whatever events, answers and submissions overtake one another.
THEOREM CopiesConsistent == Spec => []CopiesInv
<1> QED
  BY CopiesInit, NextKeeps, PTL DEF Spec

\* A post that was deleted is not shown as a live one, whatever overtook the deletion,
\* unless the client was not told of the deletion or of an edit, or the version it had
\* marked came again with other thread fields or metadata (handlePostReceived,
\* shouldUpdatePost, POST_DELETED).
THEOREM NoGhosts == Spec => []NoGhost
<1>1. CopiesInv => NoGhost
  <2> SUFFICES ASSUME CopiesInv, NEW p \in DOMAIN log, log[p].deleted, stored[p].st = "live"
               PROVE  Untold("post_deleted", p) \/ Untold("post_edited", p) \/ p \in revived
    BY DEF NoGhost
  <2>1. Marked(log[p], stored[p], Events("post_edited", p), Events("post_deleted", p),
               Lost("post_edited", p), Lost("post_deleted", p))
    BY DEF CopiesInv, PostConsistent, Consistent
  <2>2. \/ Lost("post_edited", p) \/ Events("post_edited", p) # {}
        \/ Lost("post_deleted", p) \/ Events("post_deleted", p) # {}
    BY <2>1 DEF Marked
  <2> QED
    BY <2>2, UntoldIs
<1> QED
  BY <1>1, CopiesConsistent, PTL

\* A post is shown as it was edited last, unless the client was not told of an edit
\* (handlePostReceived, shouldUpdatePost).
THEOREM CopiesAreCurrent == Spec => []CopiesCurrent
<1>1. CopiesInv => CopiesCurrent
  <2> SUFFICES ASSUME CopiesInv, NEW p \in Live, stored[p].st # "none",
                      stored[p].upd # log[p].upd, ~Untold("post_edited", p)
               PROVE  FALSE
    BY DEF CopiesCurrent
  <2>1. p \in DOMAIN log /\ ~log[p].deleted /\ log[p] \in Versions(p)
    BY DEF Live, Versions
  <2>2. ~Lost("post_edited", p) /\ Events("post_edited", p) = {}
    BY UntoldIs
  <2>3. /\ Dated(log[p], Versions(p), stored[p], Events("post_edited", p), Events("post_deleted", p))
        /\ Covered(log[p], Versions(p), stored[p], Events("post_edited", p), Lost("post_edited", p))
    BY <2>1 DEF CopiesInv, PostConsistent, Consistent
  <2> QED
    BY <2>1, <2>2, <2>3 DEF Dated, Covered
<1> QED
  BY <1>1, CopiesConsistent, PTL

-----------------------------------------------------------------------------
(* The blocks.  The lemmas about a reducer (PostBlocks_proofs) speak of a  *)
(* view: the ids and times of the posts, those stored, live and the user's *)
(* own, and those that are accounted for.  A block is sound in a view when *)
(* nothing but what is accounted for is missing between its ends.          *)

\* The channel as the lemmas about the reducers see it: the log, the time under which the
\* pending post is stored, the store, and the posts that are accounted for
AtOf(l, t) == [id \in DOMAIN l \cup {PendingId} |-> IF id = PendingId THEN t ELSE l[id].at]
KeptOf(l, posts) == {PendingId} \cup {p \in DOMAIN l : Stored(posts, p)}
LiveOf(l) == {p \in DOMAIN l : ~l[p].deleted}
OwnOf(l) == {p \in DOMAIN l : l[p].own}
View(l, t, posts, S) ==
    [ids |-> DOMAIN l \cup {PendingId}, at |-> AtOf(l, t), has |-> KeptOf(l, posts),
     live |-> LiveOf(l), own |-> OwnOf(l), sure |-> S]

\* A post is accounted for when a block shows it, its event is to come or was lost, it is
\* hidden, or a page denied it.
PostedEvent(p) == [type |-> "posted", id |-> p]
Reckoned(l, coming, lost, pages, bs, den) ==
    {p \in DOMAIN l : \/ PostedEvent(p) \in coming
                      \/ PostedEvent(p) \in lost /\ p \notin pages
                      \/ p \in Shows(bs)
                      \/ l[p].hidden \/ p \in den}
Accounted == Reckoned(log, Coming, missed, told, blocks, denied)

\* Posts get later times, and the store has them under these times.
Timed(l, t, posts) ==
    /\ \A p \in DOMAIN l : Stored(posts, p) => posts[p].at = l[p].at
    /\ Stored(posts, PendingId) => posts[PendingId].at = t
TimesInv ==
    /\ \A p, q \in DOMAIN log : p < q => log[p].at < log[q].at
    /\ create.at <= now
    /\ Timed(log, create.at, stored)

\* The post of createPost is the user's, and later than the pending one.
RequestInv ==
    /\ create.st \in {"none", "sent", "created", "found", "ended"}
    /\ create.st \in {"created", "found"} =>
           /\ log[create.id].own /\ create.post.at = log[create.id].at /\ ~create.post.deleted
    /\ create.st = "created" => create.at < log[create.id].at
    /\ create.st = "none" => OwnOf(log) = {}

\* The client is told of posts in their order, but for what it loses.
QueueInv ==
    /\ burst \in Nat /\ (held # << >> => burst > BurstLimit /\ timer)
    /\ \A e \in ToSet(held), f \in ToSet(events) : f.type = "posted" => e.id < f.id
    /\ \A p, q \in DOMAIN log :
           p < q /\ PostedEvent(p) \in Coming => PostedEvent(q) \in Coming \cup missed

\* What pages told the blocks they show.
ToldInv == told \subseteq DOMAIN log /\ told \cap LiveOf(log) \subseteq Shows(blocks)

\* What is newer than the pending post that is shown, is accounted for.  It is shown in the
\* recent block, or a page left it elsewhere.  Once the server has the post, it failed.
CoveredInv == PendingId \in Shows(blocks) => \A p \in LiveOf(log) : log[p].at > create.at => p \in Accounted
StraysInv == ~strayed => ~StraysIn(blocks)
FailedInv ==
    ~strayed /\ PendingId \in ToSet(RecentOrder(blocks)) /\ OwnOf(log) # {} /\ create.st # "created" =>
        stored[PendingId].st = "failed"

BlocksInv ==
    /\ AllSound(blocks, View(log, create.at, stored, Accounted))
    /\ EmptyIsRecent(blocks)
    /\ ~loaded => blocks = << >>

\* A page on its way: the posts it has are a stretch of the channel, up to the post that
\* was the last when the server answered, but for those that are hidden or denied.  It may
\* show the hidden post of a permalink without having it.
Ends(call) ==
    ToSet(call.page.order) \cup IF call.kind \in {"after", "before"} THEN {call.anchor} ELSE {}
Stretch(l, call) ==
    \A p \in LiveOf(l) :
        /\ ~l[p].hidden /\ p \notin call.page.denied
        /\ p <= call.page.upto
        /\ call.page.oldest \/ \E q \in Ends(call) : q <= p
        /\ call.page.recent \/ \E q \in Ends(call) : p <= q
        => p \in Ends(call)
PostsOk(l, call) ==
    \A p \in DOMAIN call.page.posts :
        /\ call.page.posts[p].at = l[p].at
        /\ call.page.posts[p].deleted => call.kind = "since" /\ p \notin LiveOf(l)
FlagsOk(call) ==
    /\ call.page.recent \in BOOLEAN /\ call.page.oldest \in BOOLEAN
    /\ call.kind = "before" => ~call.page.recent
    /\ call.kind = "after" => ~call.page.oldest
    /\ call.kind \in InChannel /\ call.page.order = << >> => call.page.recent /\ call.page.oldest
Linked(l, call) == {p \in DOMAIN l : l[p].hidden /\ call.kind = "around" /\ p = call.anchor}
OrderOk(l, call) ==
    /\ call.page.order \in Seq(DOMAIN l) /\ Once(call.page.order, {})
    /\ DOMAIN call.page.posts \subseteq ToSet(call.page.order)
    /\ ToSet(call.page.order) \subseteq DOMAIN call.page.posts \cup Linked(l, call)
    /\ call.page.denied \subseteq DOMAIN l
    /\ call.page.upto \in Nat /\ call.page.upto <= Len(l)
    /\ \A p \in Ends(call) : p <= call.page.upto
    /\ call.kind \in {"after", "before"} => call.anchor \notin DOMAIN call.page.posts
PageOk(l, call) ==
    /\ OrderOk(l, call) /\ PostsOk(l, call) /\ FlagsOk(call)
    /\ call.kind # "since" => Stretch(l, call)
CallOk(l, posts, call) ==
    /\ call.kind \in {"after", "before", "around"} => call.anchor \in DOMAIN l
    /\ call.kind \in {"after", "before"} => Stored(posts, call.anchor)
    /\ \A p \in Linked(l, call) : Stored(posts, p)
    /\ call.page # NoPage => PageOk(l, call)
PagesInv == \A c \in calls : CallOk(log, stored, c)

ChannelInv ==
    /\ CopiesInv /\ TimesInv /\ RequestInv /\ QueueInv /\ PagesInv
    /\ ToldInv /\ CoveredInv /\ StraysInv /\ FailedInv /\ BlocksInv

-----------------------------------------------------------------------------
\* Views of the channel

LEMMA ViewIs ==
    ASSUME NEW l \in Seq(PostType), NEW t \in Nat, NEW posts, NEW S
    PROVE  /\ IsView(View(l, t, posts, S)) /\ PendingId \notin OwnOf(l)
           /\ PendingId \notin DOMAIN l /\ LiveOf(l) \subseteq DOMAIN l
           /\ KeptOf(l, posts) \subseteq DOMAIN l \cup {PendingId}
           /\ AllButPending(View(l, t, posts, S), posts)
<1>1. DOMAIN l = 1 .. Len(l) /\ Len(l) \in Nat /\ \A p \in DOMAIN l : l[p] \in PostType
  OBVIOUS
<1>2. PendingId \notin DOMAIN l
  BY <1>1 DEF PendingId
<1>3. AtOf(l, t) \in [DOMAIN l \cup {PendingId} -> Nat]
  BY <1>1 DEF AtOf, PostType
<1>4. KeptOf(l, posts) \subseteq DOMAIN l \cup {PendingId} /\ LiveOf(l) \subseteq DOMAIN l
  BY DEF KeptOf, LiveOf
<1>5. AllButPending(View(l, t, posts, S), posts)
  BY DEF AllButPending, View, KeptOf
<1> QED
  BY <1>2, <1>3, <1>4, <1>5 DEF IsView, View, OwnOf

LEMMA AtIs ==
    ASSUME NEW l, PendingId \notin DOMAIN l, NEW t
    PROVE  AtOf(l, t)[PendingId] = t /\ \A p \in DOMAIN l : AtOf(l, t)[p] = l[p].at
BY DEF AtOf

LEMMA AgreesIs ==
    ASSUME NEW l \in Seq(PostType), DOMAIN l \subseteq Ids, NEW t \in Nat, NEW S,
           NEW posts \in [Ids -> CopyType], Timed(l, t, posts)
    PROVE  Agrees(posts, View(l, t, posts, S))
<1>1. PendingId \notin DOMAIN l /\ KeptOf(l, posts) \subseteq DOMAIN l \cup {PendingId}
  BY ViewIs
<1>2. AtOf(l, t)[PendingId] = t /\ \A p \in DOMAIN l : AtOf(l, t)[p] = l[p].at
  BY <1>1, AtIs
<1>3. \A id \in Ids : posts[id].at \in Nat
  BY DEF CopyType
<1>4. PendingId \in Ids
  BY DEF Ids
<1> QED
  BY <1>1, <1>2, <1>3, <1>4 DEF Agrees, View, Timed

\* The log goes on: posts are added and deleted.
Continues(l, m) ==
    /\ DOMAIN l \subseteq DOMAIN m /\ PendingId \notin DOMAIN m
    /\ \A p \in DOMAIN l : /\ m[p].at = l[p].at /\ (m[p].own <=> l[p].own)
                          /\ (~m[p].deleted => ~l[p].deleted) /\ (l[p].hidden <=> m[p].hidden)
\* The store keeps what it has.
KeepsStored(l, posts, next) == \A p \in DOMAIN l : Stored(posts, p) => Stored(next, p)
\* Posts that are not accounted for were not before.
StillSure(l, S, m, T) == \A p \in LiveOf(m) : p \in T \/ (p \in LiveOf(l) /\ p \notin S)

LEMMA SuitsIs ==
    ASSUME NEW l, NEW m, Continues(l, m), NEW t, NEW posts, NEW next, KeepsStored(l, posts, next),
           NEW S, NEW T, StillSure(l, S, m, T)
    PROVE  Suits(View(l, t, posts, S), View(m, t, next, T))
<1>1. /\ DOMAIN l \subseteq DOMAIN m /\ PendingId \notin DOMAIN m /\ PendingId \notin DOMAIN l
      /\ \A p \in DOMAIN l : m[p].at = l[p].at
  BY DEF Continues
<1>2. /\ AtOf(l, t)[PendingId] = t /\ AtOf(m, t)[PendingId] = t
      /\ \A p \in DOMAIN l : AtOf(l, t)[p] = l[p].at
      /\ \A p \in DOMAIN m : AtOf(m, t)[p] = m[p].at
  BY <1>1, AtIs
<1>3. KeptOf(l, posts) \subseteq KeptOf(m, next)
  BY <1>1 DEF KeptOf, KeepsStored
<1>4. OwnOf(l) \subseteq OwnOf(m)
  BY DEF OwnOf, Continues
<1>5. \A id \in KeptOf(l, posts) : AtOf(m, t)[id] = AtOf(l, t)[id]
  BY <1>1, <1>2 DEF KeptOf
<1>6. \A p \in LiveOf(m) : p \in T \/ (p \in LiveOf(l) /\ p \notin S /\ AtOf(m, t)[p] = AtOf(l, t)[p])
  BY <1>1, <1>2 DEF StillSure, LiveOf
<1> QED
  BY <1>3, <1>4, <1>5, <1>6 DEF Suits, View

LEMMA Reviewed ==
    ASSUME NEW l, NEW m, Continues(l, m), NEW t, NEW posts, NEW next, KeepsStored(l, posts, next),
           NEW S, NEW T, StillSure(l, S, m, T),
           NEW bs, AllSound(bs, View(l, t, posts, S))
    PROVE  AllSound(bs, View(m, t, next, T))
BY SuitsIs, ViewChange

-----------------------------------------------------------------------------
\* Steps that leave the blocks alone

LEMMA NewsIs ==
    ASSUME NEW es, NEW p
    PROVE  PostedEvent(p) \in News(es) <=> \E e \in es : e.type = "posted" /\ e.id = p
<1>1. \A e : PostedEvent(p) = [type |-> e.type, id |-> e.id] <=> e.type = "posted" /\ e.id = p
  BY DEF PostedEvent
<1> QED
  BY <1>1 DEF News

LEMMA ChannelFacts ==
    ASSUME LogInv
    PROVE  /\ log \in Seq(PostType) /\ DOMAIN log \subseteq Ids /\ LiveOf(log) \subseteq DOMAIN log
           /\ PendingId \notin DOMAIN log /\ Continues(log, log) /\ now \in Nat
           /\ \A p \in DOMAIN log : log[p].at \in Nat /\ p \in Nat
<1>1. log \in Seq(PostType) /\ now \in Nat
  BY DEF LogInv
<1>2. DOMAIN log \subseteq Ids /\ PendingId \notin DOMAIN log
  BY LogFacts
<1>3. \A p \in DOMAIN log : log[p].at \in Nat /\ p \in Nat
  BY <1>1, LogFacts DEF PostType
<1> QED
  BY <1>1, <1>2, <1>3 DEF LiveOf, Continues

\* What was accounted for is, while events are only lost, and blocks show what they did.
LEMMA StaysSure ==
    ASSUME LogInv, ToldInv, Continues(log, log'), missed \subseteq missed', told' = told,
           denied \subseteq denied',
           \A p \in DOMAIN log :
               PostedEvent(p) \in Coming => PostedEvent(p) \in Coming' \cup missed' \/ log[p].hidden,
           Shows(blocks) \ {PendingId} \subseteq Shows(blocks')
    PROVE  \A p \in LiveOf(log') \cap DOMAIN log : p \in LiveOf(log) /\ (p \in Accounted => p \in Accounted')
<1> SUFFICES ASSUME NEW p \in LiveOf(log') \cap DOMAIN log
             PROVE  p \in LiveOf(log) /\ (p \in Accounted => p \in Accounted')
  OBVIOUS
<1>1. p \in LiveOf(log) /\ p \in DOMAIN log'
  BY DEF LiveOf, Continues
<1>2. p # PendingId
  BY <1>1 DEF Continues
<1>3. p \in told => p \in Shows(blocks)
  BY <1>1 DEF ToldInv
<1>4. p \in Accounted => \/ PostedEvent(p) \in Coming
                         \/ PostedEvent(p) \in missed /\ p \notin told
                         \/ p \in Shows(blocks)
                         \/ log[p].hidden \/ p \in denied
  BY DEF Accounted, Reckoned
<1>5. \/ PostedEvent(p) \in Coming'
      \/ PostedEvent(p) \in missed' /\ p \notin told'
      \/ p \in Shows(blocks')
      \/ log'[p].hidden \/ p \in denied'
      => p \in Accounted'
  BY <1>1 DEF Accounted, Reckoned
<1>6. log[p].hidden => log'[p].hidden
  BY DEF Continues
<1> QED
  BY <1>1, <1>2, <1>3, <1>4, <1>5, <1>6

LEMMA SameBlocks ==
    ASSUME LogInv, ToldInv, CoveredInv, StraysInv, BlocksInv,
           UNCHANGED <<blocks, loaded, told, strayed>>, create'.at = create.at,
           Continues(log, log'), KeepsStored(log, stored, stored'),
           StillSure(log, Accounted, log', Accounted')
    PROVE  ToldInv' /\ CoveredInv' /\ StraysInv' /\ BlocksInv'
<1>1. ToldInv'
  <2>1. told \cap LiveOf(log') \subseteq LiveOf(log)
    BY DEF ToldInv, LiveOf, Continues
  <2> QED
    BY <2>1 DEF ToldInv, Continues
<1>2. CoveredInv'
  <2> SUFFICES ASSUME PendingId \in Shows(blocks), NEW p \in LiveOf(log'), log'[p].at > create.at,
                      p \notin Accounted'
               PROVE  FALSE
    BY DEF CoveredInv
  <2>1. p \in LiveOf(log) /\ p \notin Accounted
    BY DEF StillSure
  <2>2. log'[p].at = log[p].at
    BY <2>1 DEF LiveOf, Continues
  <2> QED
    BY <2>1, <2>2 DEF CoveredInv
<1>3. StraysInv'
  BY DEF StraysInv
<1>4. BlocksInv'
  <2>1. PICK S, T : S = Accounted /\ T = Accounted'
    OBVIOUS
  <2>2. AllSound(blocks, View(log, create.at, stored, S)) /\ StillSure(log, S, log', T)
    BY <2>1 DEF BlocksInv
  <2>3. AllSound(blocks, View(log', create.at, stored', T))
    BY <2>2, Reviewed
  <2> QED
    BY <2>1, <2>3 DEF BlocksInv
<1> QED
  BY <1>1, <1>2, <1>3, <1>4

-----------------------------------------------------------------------------
\* Pages on their way

LEMMA PageKept ==
    ASSUME NEW l \in Seq(PostType), NEW m \in Seq(PostType), Continues(l, m),
           NEW call, PageOk(l, call)
    PROVE  PageOk(m, call)
<1>1. DOMAIN l = 1 .. Len(l) /\ Len(l) \in Nat /\ DOMAIN m = 1 .. Len(m) /\ Len(m) \in Nat
  OBVIOUS
<1>2. DOMAIN l \subseteq DOMAIN m /\ Len(l) <= Len(m)
  <2>1. CASE Len(l) = 0
    BY <1>1, <2>1 DEF Continues
  <2>2. CASE Len(l) # 0
    <3>1. Len(l) \in DOMAIN l
      BY <1>1, <2>2
    <3> QED
      BY <1>1, <3>1 DEF Continues
  <2> QED
    BY <2>1, <2>2
<1>3. /\ OrderOk(l, call) /\ PostsOk(l, call) /\ FlagsOk(call)
      /\ call.kind # "since" => Stretch(l, call)
  BY DEF PageOk
<1>4. OrderOk(m, call) /\ DOMAIN call.page.posts \subseteq DOMAIN l
  <2>1. ToSet(call.page.order) \subseteq DOMAIN l
    BY <1>3, SeqFacts DEF OrderOk
  <2>2. Seq(DOMAIN l) \subseteq Seq(DOMAIN m)
    BY <1>2
  <2>3. call.page.upto <= Len(m)
    BY <1>1, <1>2, <1>3 DEF OrderOk
  <2>4. Linked(l, call) \subseteq Linked(m, call)
    BY <1>2 DEF Linked, Continues
  <2>5. /\ DOMAIN call.page.posts \subseteq ToSet(call.page.order)
        /\ ToSet(call.page.order) \subseteq DOMAIN call.page.posts \cup Linked(m, call)
        /\ call.page.denied \subseteq DOMAIN m
    BY <1>2, <1>3, <2>4 DEF OrderOk
  <2> QED
    BY <1>3, <2>1, <2>2, <2>3, <2>5 DEF OrderOk
<1>5. \A p \in LiveOf(m) : p \in DOMAIN l => p \in LiveOf(l)
  BY DEF LiveOf, Continues
<1>6. PostsOk(m, call)
  BY <1>3, <1>4, <1>5 DEF Continues, PostsOk
<1>7. Stretch(l, call) => Stretch(m, call)
  <2>1. \A p \in LiveOf(m) : p <= call.page.upto => p \in DOMAIN l
    BY <1>1, <1>3 DEF LiveOf, OrderOk
  <2>2. \A p \in DOMAIN l : ~m[p].hidden => ~l[p].hidden
    BY DEF Continues
  <2> QED
    BY <1>5, <2>1, <2>2 DEF Stretch
<1> QED
  BY <1>3, <1>4, <1>6, <1>7 DEF PageOk

\* Calls start, end, or are left alone.
LEMMA PagesKept ==
    ASSUME LogInv, LogInv', PagesInv, Continues(log, log'), KeepsStored(log, stored, stored'),
           \A c \in calls' : c \in calls \/ CallOk(log, stored, c) \/ CallOk(log', stored', c)
    PROVE  PagesInv'
<1> SUFFICES ASSUME NEW c \in calls', ~CallOk(log', stored', c) PROVE CallOk(log', stored', c)
  BY DEF PagesInv
<1>1. CallOk(log, stored, c)
  BY DEF PagesInv
<1>2. log \in Seq(PostType) /\ log' \in Seq(PostType)
  BY DEF LogInv
<1>3. PageOk(log, c) => PageOk(log', c)
  BY <1>2, PageKept
<1>4. \A p \in Linked(log', c) : p \in Linked(log, c)
  BY <1>1 DEF CallOk, Linked, Continues
<1> QED
  BY <1>1, <1>3, <1>4 DEF CallOk, Linked, Continues, KeepsStored

-----------------------------------------------------------------------------
\* Calls start and end.

LEMMA QuietChannel ==
    ASSUME ChannelInv, CopiesInv', PagesInv', now' \in Nat, now <= now',
           UNCHANGED <<log, events, queue, create, client, missed, told, strayed, denied>>
    PROVE  ChannelInv'
<1>1. /\ log' = log /\ events' = events /\ create' = create
      /\ held' = held /\ burst' = burst /\ timer' = timer
      /\ stored' = stored /\ loaded' = loaded /\ blocks' = blocks
      /\ missed' = missed /\ told' = told /\ strayed' = strayed /\ denied' = denied
  BY DEF client, queue
<1>2. Coming' = Coming /\ Accounted' = Accounted
  BY <1>1 DEF Coming, Accounted
<1>3. TimesInv'
  <2>1. create.at \in Nat /\ create.at <= now /\ now \in Nat
    BY DEF ChannelInv, CopiesInv, CreateInv, LogInv, TimesInv
  <2>2. create'.at <= now'
    BY <1>1, <2>1
  <2> QED
    BY <1>1, <2>2 DEF ChannelInv, TimesInv
<1>4. RequestInv' /\ QueueInv' /\ ToldInv' /\ StraysInv' /\ FailedInv'
  BY <1>1, <1>2 DEF ChannelInv, RequestInv, QueueInv, ToldInv, StraysInv, FailedInv
<1>5. CoveredInv' /\ BlocksInv'
  BY <1>1, <1>2 DEF ChannelInv, CoveredInv, BlocksInv
<1> QED
  BY <1>3, <1>4, <1>5 DEF ChannelInv

LEMMA StutterChannel == ChannelInv /\ UNCHANGED vars => ChannelInv'
<1> SUFFICES ASSUME ChannelInv, UNCHANGED vars PROVE ChannelInv'
  OBVIOUS
<1>1. /\ UNCHANGED <<log, events, queue, create, client, missed, told, strayed, denied>>
      /\ calls' = calls /\ stored' = stored /\ log' = log /\ now' = now
  BY DEF vars, client, queue, history
<1>2. CopiesInv' /\ now' \in Nat /\ now <= now'
  BY <1>1, StutterKeeps DEF ChannelInv, CopiesInv, LogInv
<1>3. PagesInv'
  BY <1>1 DEF ChannelInv, PagesInv
<1> QED
  BY <1>1, <1>2, <1>3, QuietChannel

LEMMA CallsChannel ==
    ASSUME ChannelInv, CopiesInv', now' = now,
           UNCHANGED <<log, events, queue, create, client, history>>,
           \A c \in calls' : c \in calls \/ CallOk(log, stored, c)
    PROVE  ChannelInv'
<1>1. /\ UNCHANGED <<log, events, queue, create, client, missed, told, strayed, denied>>
      /\ stored' = stored /\ log' = log
  BY DEF client, queue, history
<1>2. LogInv /\ LogInv' /\ now \in Nat /\ now' \in Nat /\ now <= now'
  BY DEF ChannelInv, CopiesInv, LogInv
<1>3. Continues(log, log') /\ KeepsStored(log, stored, stored')
  BY <1>1, <1>2, ChannelFacts DEF KeepsStored
<1>4. PagesInv'
  BY <1>2, <1>3, PagesKept DEF ChannelInv
<1> QED
  BY <1>1, <1>2, <1>4, QuietChannel

LEMMA StartChannel ==
    ASSUME ChannelInv, NEW kind \in Kinds, NEW anchor, NEW since, Start(Call(kind, anchor, since)),
           kind \in {"after", "before", "around"} => anchor \in DOMAIN log,
           kind \in {"after", "before"} \/ (kind = "around" /\ log[anchor].hidden) => Stored(stored, anchor)
    PROVE  ChannelInv'
<1> DEFINE c == Call(kind, anchor, since)
<1>1. CopiesInv'
  BY StartKeeps DEF ChannelInv
<1>2. /\ calls' = calls \cup {c} /\ now' = now
      /\ UNCHANGED <<log, events, queue, create, client, history>>
  BY DEF Start
<1>3. CallOk(log, stored, c)
  BY DEF CallOk, Call, Linked
<1> HIDE DEF c
<1> QED
  BY <1>1, <1>2, <1>3, CallsChannel

LEMMA OpenChannelIs == ChannelInv /\ OpenChannel => ChannelInv'
<1>1. OpenChannel => \E since : \E kind \in Kinds \ {"after", "before", "around"} :
                         Start(Call(kind, PendingId, since))
  BY DEF OpenChannel, SyncPostsInChannel, Kinds
<1> QED
  BY <1>1, StartChannel

LEMMA FetchNewestIs ==
    ASSUME ChannelInv, NEW call, FetchNewest(call) PROVE ChannelInv'
BY StartChannel DEF FetchNewest, Kinds

LEMMA OpenPermalinkIs ==
    ASSUME ChannelInv, NEW p, OpenPermalink(p) PROVE ChannelInv'
BY StartChannel DEF OpenPermalink, Kinds

\* A block goes on after a post that is stored, whatever of the block is listed.
LEMMA LoadMoreIs ==
    ASSUME ChannelInv, NEW block \in ToSet(blocks), LoadMore(block) PROVE ChannelInv'
<1>1. block.order \in Seq(KeptOf(log, stored))
  <2>1. PICK S : S = Accounted
    OBVIOUS
  <2>2. Sound(block, View(log, create.at, stored, S))
    BY <2>1 DEF ChannelInv, BlocksInv, AllSound
  <2> QED
    BY <2>2 DEF Sound, BlockType, View
<1>2. PICK list \in Lists(block.order) :
          /\ list # << >>
          /\ \/ ~block.oldest /\ Last(list) # PendingId
                /\ Start(Call("before", Last(list), 0))
             \/ ~block.recent /\ Head(list) # PendingId
                /\ Start(Call("after", Head(list), 0))
  BY DEF LoadMore
<1>3. list \in Seq(KeptOf(log, stored))
  BY <1>1, OnlyIs DEF Lists
<1>4. Last(list) \in KeptOf(log, stored) /\ Head(list) \in KeptOf(log, stored)
  BY <1>2, <1>3, SeqFacts
<1>5. \A id \in KeptOf(log, stored) : id # PendingId => id \in DOMAIN log /\ Stored(stored, id)
  BY DEF KeptOf
<1> QED
  BY <1>2, <1>4, <1>5, StartChannel DEF Kinds

LEMMA CallFailsIs ==
    ASSUME ChannelInv, NEW call, CallFails(call) PROVE ChannelInv'
<1>1. CopiesInv'
  BY CallFailsKeeps DEF ChannelInv
<1> QED
  BY <1>1, CallsChannel DEF CallFails

LEMMA DisconnectIs == ChannelInv /\ Disconnect => ChannelInv'
<1> SUFFICES ASSUME ChannelInv, Disconnect PROVE ChannelInv'
  OBVIOUS
<1>1. /\ UNCHANGED <<log, events, queue, create, client, missed, told, strayed, denied>>
      /\ stored' = stored /\ log' = log /\ calls' = calls /\ now' = now + 1
  BY DEF Disconnect, client, queue, history
<1>2. CopiesInv' /\ now' \in Nat /\ now <= now'
  BY <1>1, DisconnectKeeps DEF ChannelInv, CopiesInv, LogInv
<1>3. PagesInv'
  BY <1>1 DEF ChannelInv, PagesInv
<1> QED
  BY <1>1, <1>2, <1>3, QuietChannel

-----------------------------------------------------------------------------
\* The server answers: a page is a stretch of the channel.

LEMMA DescendingIs ==
    ASSUME NEW S, IsFiniteSet(S), S \subseteq Nat
    PROVE  Descending(S) \in Seq(S) /\ ToSet(Descending(S)) = S /\ Once(Descending(S), {})
<1> DEFINE R == {pq \in S \X S : pq[1] > pq[2]}
<1>1. \A p, q \in S : <<p, q>> \in R <=> p > q
  OBVIOUS
<1>2. PICK Q, f, n : Q = R /\ f = Arrange(S, Q) /\ n = Cardinality(S)
  OBVIOUS
<1>3. StrictOrder(S, Q)
  <2>1. \A p, q \in S : <<p, q>> \in Q <=> p > q
    BY <1>1, <1>2
  <2> HIDE DEF R
  <2>2. \A p, q, r \in S : p > q /\ q > r => p > r
    OBVIOUS
  <2>3. \A p, q \in S : p = q \/ p > q \/ q > p
    OBVIOUS
  <2>4. \A p \in S : ~(p > p)
    OBVIOUS
  <2> QED
    BY <2>1, <2>2, <2>3, <2>4, Zenon DEF StrictOrder
<1>4. Arranged(f, S, Q)
  BY <1>2, <1>3, ArrangeArranges
<1>5. /\ n \in Nat /\ f \in [1 .. n -> S] /\ \A i \in S : \E k \in 1 .. n : f[k] = i
      /\ \A k, l \in 1 .. n : f[k] = f[l] => k = l
  BY <1>2, <1>4 DEF Arranged
<1>6. Descending(S) = f
  BY <1>2 DEF Descending
<1>7. f \in Seq(S) /\ DOMAIN f = 1 .. n
  BY <1>5
<1>8. ToSet(f) = S
  <2>1. \A x : x \in ToSet(f) <=> \E k \in 1 .. n : f[k] = x
    BY <1>7, SeqFacts
  <2>2. ToSet(f) \subseteq S
    BY <1>7, SeqFacts
  <2>3. \A x \in S : x \in ToSet(f)
    BY <1>5, <2>1
  <2> QED
    BY <2>2, <2>3
<1>9. Once(f, {})
  BY <1>5, <1>7 DEF Once
<1> QED
  BY <1>6, <1>7, <1>8, <1>9

\* The posts at one end of a set are closed towards that end.
LEMMA NearestIs ==
    ASSUME NEW S, IsFiniteSet(S), S \subseteq Nat, NEW n \in Nat
    PROVE  /\ Nearest(S, n) \subseteq S /\ \A p \in Nearest(S, n), q \in S : p <= q => q \in Nearest(S, n)
           /\ Farthest(S, n) \subseteq S /\ \A p \in Farthest(S, n), q \in S : q <= p => q \in Farthest(S, n)
<1>1. ASSUME NEW A \in SUBSET S, NEW B \in SUBSET S, A \subseteq B, Cardinality(B) < n
      PROVE  Cardinality(A) < n
  <2>1. IsFiniteSet(B)
    BY FS_Subset
  <2>2. IsFiniteSet(A) /\ Cardinality(A) <= Cardinality(B)
    BY <1>1, <2>1, FS_Subset
  <2>3. Cardinality(A) \in Nat /\ Cardinality(B) \in Nat
    BY <2>1, <2>2, FS_CardinalityType
  <2> QED
    BY <1>1, <2>2, <2>3
<1>2. ASSUME NEW p \in Nearest(S, n), NEW q \in S, p <= q PROVE q \in Nearest(S, n)
  <2>1. PICK A, B : A = {r \in S : r > q} /\ B = {r \in S : r > p}
    OBVIOUS
  <2>2. p \in S /\ Cardinality(B) < n
    BY <2>1 DEF Nearest
  <2>3. A \in SUBSET S /\ B \in SUBSET S /\ A \subseteq B
    <3>1. p \in Nat /\ q \in Nat
      BY <2>2
    <3>2. \A r \in S : r > q => r > p
      BY <1>2, <3>1
    <3> QED
      BY <2>1, <3>2
  <2>4. Cardinality(A) < n
    BY <1>1, <2>2, <2>3
  <2>5. Cardinality({r \in S : r > q}) < n
    BY <2>1, <2>4
  <2> QED
    BY <2>5 DEF Nearest
<1>3. ASSUME NEW p \in Farthest(S, n), NEW q \in S, q <= p PROVE q \in Farthest(S, n)
  <2>1. PICK A, B : A = {r \in S : r < q} /\ B = {r \in S : r < p}
    OBVIOUS
  <2>2. p \in S /\ Cardinality(B) < n
    BY <2>1 DEF Farthest
  <2>3. A \in SUBSET S /\ B \in SUBSET S /\ A \subseteq B
    <3>1. p \in Nat /\ q \in Nat
      BY <2>2
    <3>2. \A r \in S : r < q => r < p
      BY <1>3, <3>1
    <3> QED
      BY <2>1, <3>2
  <2>4. Cardinality(A) < n
    BY <1>1, <2>2, <2>3
  <2>5. Cardinality({r \in S : r < q}) < n
    BY <2>1, <2>4
  <2> QED
    BY <2>5 DEF Farthest
<1>4. Nearest(S, n) \subseteq S /\ Farthest(S, n) \subseteq S
  BY DEF Nearest, Farthest
<1> QED
  BY <1>2, <1>3, <1>4

LEMMA NearestSome ==
    ASSUME NEW S, NEW m \in Nat, S \subseteq 0 .. m, S # {}, NEW n \in Nat \ {0}
    PROVE  Nearest(S, n) # {}
<1> DEFINE T == {m - p : p \in S}
<1>1. T \in SUBSET Nat /\ T # {}
  <2>1. \A p \in S : m - p \in Nat
    OBVIOUS
  <2>2. PICK p : p \in S
    OBVIOUS
  <2>3. m - p \in T
    BY <2>2
  <2> QED
    BY <2>1, <2>3
<1>2. PICK k \in T : \A j \in T : k <= j
  <2> HIDE DEF T
  <2> QED
    BY <1>1, MinOf
<1>3. PICK p \in S : k = m - p
  OBVIOUS
<1>4. \A q \in S : ~(q > p)
  <2> TAKE q \in S
  <2>1. k <= m - q
    BY <1>2
  <2>2. p \in Nat /\ q \in Nat
    OBVIOUS
  <2> HIDE DEF T
  <2> QED
    BY <1>3, <2>1, <2>2
<1>5. {q \in S : q > p} = {}
  BY <1>4
<1>6. Cardinality({q \in S : q > p}) = 0
  BY <1>5, FS_EmptySet
<1> QED
  BY <1>6 DEF Nearest

\* What a page has of the posts S, what it shows besides, its flags, and what these deny
PageOf(page, S, L, recent, oldest, denies) ==
    /\ page.order = Descending(Kept(S) \cup L) /\ DOMAIN page.posts = Kept(S)
    /\ \A p \in Kept(S) : page.posts[p] = log[p]
    /\ page.recent = recent /\ page.oldest = oldest
    /\ page.upto = Len(log) /\ page.denied = denies

LEMMA PageOfIs ==
    ASSUME NEW S, NEW recent, NEW oldest, NEW denies, NEW page, page = Page(S, recent, oldest, denies)
    PROVE  PageOf(page, S, {}, recent, oldest, Kept(denies))
<1>1. Kept(S) \cup {} = Kept(S)
  OBVIOUS
<1> QED
  BY <1>1 DEF PageOf, Page

\* An answer is a page of posts up to the last one.
LEMMA AnswerOrder ==
    ASSUME LogInv, NEW c, NEW S, S \subseteq DOMAIN log, NEW L, NEW recent, NEW oldest, NEW denies,
           PageOf(c.page, S, L, recent, oldest, denies), denies \subseteq DOMAIN log,
           L \subseteq Kept(S) \cup Linked(log, c),
           c.kind \in {"after", "before"} => c.anchor \in DOMAIN log /\ c.anchor \notin S,
           c.kind # "since" => S \subseteq LiveOf(log)
    PROVE  OrderOk(log, c) /\ PostsOk(log, c) /\ ToSet(c.page.order) = Kept(S) \cup L
<1>1. DOMAIN log = 1 .. Len(log) /\ Len(log) \in Nat /\ IsFiniteSet(DOMAIN log)
  <2>1. log \in Seq(PostType)
    BY DEF LogInv
  <2> QED
    BY <2>1, SeqFacts
<1> DEFINE T == Kept(S) \cup L
<1>2. Kept(S) \subseteq S /\ T \subseteq DOMAIN log
  BY DEF Kept, Linked
<1>3. IsFiniteSet(T) /\ T \subseteq Nat
  BY <1>1, <1>2, FS_Subset
<1>4. c.page.order = Descending(T)
  BY DEF PageOf
<1> HIDE DEF T
<1>5. Descending(T) \in Seq(T) /\ ToSet(Descending(T)) = T /\ Once(Descending(T), {})
  BY <1>3, DescendingIs
<1>6. Seq(T) \subseteq Seq(DOMAIN log)
  BY <1>2
<1>7. c.page.order \in Seq(DOMAIN log) /\ Once(c.page.order, {}) /\ ToSet(c.page.order) = T
  BY <1>4, <1>5, <1>6
<1>8. \A p \in Ends(c) : p \in DOMAIN log
  BY <1>2, <1>7 DEF Ends
<1>9. OrderOk(log, c)
  <2>1. DOMAIN c.page.posts = Kept(S) /\ Kept(S) \subseteq T /\ T \subseteq Kept(S) \cup Linked(log, c)
    BY DEF PageOf, T
  <2>2. c.page.denied = denies /\ c.page.upto = Len(log)
    BY DEF PageOf
  <2>3. \A p \in Ends(c) : p <= Len(log)
    BY <1>1, <1>8
  <2>4. c.kind \in {"after", "before"} => c.anchor \notin Kept(S)
    BY <1>2
  <2> QED
    BY <1>1, <1>7, <2>1, <2>2, <2>3, <2>4 DEF OrderOk
<1>10. \A p \in S : log[p].deleted => p \notin LiveOf(log)
  BY DEF LiveOf
<1>11. PostsOk(log, c)
  BY <1>2, <1>10 DEF PostsOk, PageOf
<1> QED
  BY <1>7, <1>9, <1>11 DEF T

\* Which ends of the channel a page that shows E reaches, and which posts it has all of
StretchOf(E, recent, oldest, denies) ==
    \A p \in Kept(Live) \ denies : /\ oldest \/ \E q \in E : q <= p
                                   /\ recent \/ \E q \in E : p <= q
                                   => p \in E
Convex(S) == \A p \in Live : \A q, r \in S : q <= p /\ p <= r => p \in S

LEMMA LiveFacts ==
    ASSUME LogInv
    PROVE  /\ Live = LiveOf(log) /\ Live \subseteq DOMAIN log /\ IsFiniteSet(Live)
           /\ Live \subseteq Nat /\ Len(log) \in Nat /\ Live \subseteq 0 .. Len(log)
           /\ \A p : /\ IsFiniteSet(Above(p)) /\ Above(p) \subseteq Live
                     /\ IsFiniteSet(Below(p)) /\ Below(p) \subseteq Live
<1>1. DOMAIN log = 1 .. Len(log) /\ Len(log) \in Nat /\ IsFiniteSet(DOMAIN log)
  <2>1. log \in Seq(PostType)
    BY DEF LogInv
  <2> QED
    BY <2>1, SeqFacts
<1>2. Live \subseteq DOMAIN log /\ Live = LiveOf(log)
  BY DEF Live, LiveOf
<1>3. IsFiniteSet(Live)
  BY <1>1, <1>2, FS_Subset
<1>4. \A p : Above(p) \in SUBSET Live /\ Below(p) \in SUBSET Live
  BY DEF Above, Below
<1>5. \A A \in SUBSET Live : IsFiniteSet(A)
  BY <1>3, FS_Subset
<1> QED
  BY <1>1, <1>2, <1>3, <1>4, <1>5

LEMMA LatestIs ==
    ASSUME LogInv, NEW S, S = Nearest(Live, PerPage)
    PROVE  S \subseteq Live /\ Convex(S) /\ \A p \in S, q \in Live : p <= q => q \in S
<1>1. PerPage \in Nat
  BY ChannelPostsAssumption
<1>2. S \subseteq Live /\ \A p \in S, q \in Live : p <= q => q \in S
  BY <1>1, LiveFacts, NearestIs
<1> QED
  BY <1>2 DEF Convex

\* What is not denied by a page of which nothing is kept is in it.
DeniedPast(S) == Kept(IF Kept(S) = {} THEN Live \ S ELSE {})
NonePrior(S) == Kept(S) = {} \/ \A p \in Live : \E q \in Kept(S) : q <= p
NoneLater(S) == Kept(S) = {} \/ \A p \in Live : \E q \in Kept(S) : p <= q

LEMMA CursorIs ==
    ASSUME LogInv, NEW S, S \subseteq Live, Convex(S)
    PROVE  StretchOf(Kept(S), NoneLater(S), NonePrior(S), DeniedPast(S))
<1> SUFFICES ASSUME NEW p \in Kept(Live) \ DeniedPast(S),
                    NonePrior(S) \/ \E q \in Kept(S) : q <= p,
                    NoneLater(S) \/ \E q \in Kept(S) : p <= q
             PROVE  p \in Kept(S)
  BY DEF StretchOf
<1>1. p \in Live /\ ~log[p].hidden
  BY DEF Kept
<1>2. CASE Kept(S) = {}
  <2>1. p \in S
    BY <1>1, <1>2 DEF DeniedPast, Kept
  <2> QED
    BY <1>1, <2>1 DEF Kept
<1>3. CASE Kept(S) # {}
  <2>1. PICK q, t \in Kept(S) : q <= p /\ p <= t
    BY <1>1, <1>3 DEF NonePrior, NoneLater
  <2>2. p \in S
    BY <1>1, <2>1 DEF Convex, Kept
  <2> QED
    BY <1>1, <2>2 DEF Kept
<1> QED
  BY <1>2, <1>3

LEMMA LatestStretch ==
    ASSUME LogInv, NEW S, S = Nearest(Live, PerPage)
    PROVE  StretchOf(Kept(S), TRUE, NonePrior(S), DeniedPast(S))
<1> SUFFICES ASSUME NEW p \in Kept(Live) \ DeniedPast(S), NonePrior(S) \/ \E q \in Kept(S) : q <= p
             PROVE  p \in Kept(S)
  BY DEF StretchOf
<1>1. p \in Live /\ ~log[p].hidden
  BY DEF Kept
<1>2. p \in S
  <2>1. CASE Kept(S) = {}
    BY <1>1, <2>1 DEF DeniedPast, Kept
  <2>2. CASE Kept(S) # {}
    <3>1. PICK q \in Kept(S) : q <= p
      BY <1>1, <2>2 DEF NonePrior
    <3> QED
      BY <1>1, <3>1, LatestIs DEF Kept
  <2> QED
    BY <2>1, <2>2
<1> QED
  BY <1>1, <1>2 DEF Kept

\* The posts next to one, on one side
LEMMA AboveIs ==
    ASSUME LogInv, NEW a \in DOMAIN log, NEW S, S = Farthest(Above(a), PerPage)
    PROVE  /\ S \subseteq Live /\ \A p \in S : a < p
           /\ \A p \in Live, q \in S : a < p /\ p <= q => p \in S
<1>1. PerPage \in Nat
  BY ChannelPostsAssumption
<1>2. IsFiniteSet(Above(a)) /\ Above(a) \subseteq Live /\ Above(a) \subseteq Nat
  BY LiveFacts
<1>3. S \subseteq Above(a) /\ \A p \in S, q \in Above(a) : q <= p => q \in S
  BY <1>1, <1>2, NearestIs
<1>4. a \in Nat
  BY ChannelFacts
<1>5. \A p : p \in Above(a) <=> p \in Live /\ p > a
  BY DEF Above
<1> QED
  BY <1>2, <1>3, <1>4, <1>5, LiveFacts

LEMMA BelowIs ==
    ASSUME LogInv, NEW a \in DOMAIN log, NEW S, S = Nearest(Below(a), PerPage)
    PROVE  /\ S \subseteq Live /\ \A p \in S : p < a
           /\ \A p \in Live, q \in S : p < a /\ q <= p => p \in S
<1>1. PerPage \in Nat
  BY ChannelPostsAssumption
<1>2. IsFiniteSet(Below(a)) /\ Below(a) \subseteq Live /\ Below(a) \subseteq Nat
  BY LiveFacts
<1>3. S \subseteq Below(a) /\ \A p \in S, q \in Below(a) : p <= q => q \in S
  BY <1>1, <1>2, NearestIs
<1>4. a \in Nat
  BY ChannelFacts
<1>5. \A p : p \in Below(a) <=> p \in Live /\ p < a
  BY DEF Below
<1> QED
  BY <1>2, <1>3, <1>4, <1>5, LiveFacts

\* What a page next to a post denies, when some of it is not kept
DeniedAbove(a) == Kept(LET S == Farthest(Above(a), PerPage)
                       IN IF Kept(S) # S THEN Above(a) \ S ELSE {})
DeniedBelow(a) == Kept(LET S == Nearest(Below(a), PerPage)
                       IN IF Kept(S) # S THEN Below(a) \ S ELSE {})

LEMMA AfterIs ==
    ASSUME LogInv, NEW a \in DOMAIN log, NEW S, S = Farthest(Above(a), PerPage)
    PROVE  /\ S \subseteq Live /\ a \notin S /\ DeniedAbove(a) \subseteq Live
           /\ Above(a) = S \/ Kept(S) # S => \A p \in Kept(Live) \ DeniedAbove(a) : a < p => p \in S
           /\ StretchOf(Kept(S) \cup {a}, Above(a) = S \/ Kept(S) # S, FALSE, DeniedAbove(a))
<1>1. /\ S \subseteq Live /\ \A p \in S : a < p
      /\ \A p \in Live, q \in S : a < p /\ p <= q => p \in S
  BY AboveIs
<1>2. a \in Nat /\ Live \subseteq Nat
  BY LiveFacts, ChannelFacts
<1>3. \A p : p \in Above(a) <=> p \in Live /\ p > a
  BY DEF Above
<1>4. /\ Kept(S) \subseteq S /\ \A p \in S \cap Kept(Live) : p \in Kept(S)
      /\ \A p \in Kept(Live) : p \in Live
  BY DEF Kept
<1>5. DeniedAbove(a) \subseteq Live
  BY <1>3 DEF DeniedAbove, Kept
<1>6. ASSUME Above(a) = S \/ Kept(S) # S, NEW p \in Kept(Live) \ DeniedAbove(a), a < p
      PROVE  p \in S
  <2>1. p \in Above(a) /\ ~log[p].hidden
    BY <1>2, <1>3, <1>6 DEF Kept
  <2>2. CASE Kept(S) # S
    BY <2>1, <2>2 DEF DeniedAbove, Kept
  <2> QED
    BY <1>6, <2>1, <2>2
<1>7. ASSUME NEW p \in Kept(Live) \ DeniedAbove(a), \E q \in Kept(S) \cup {a} : q <= p,
             (Above(a) = S \/ Kept(S) # S) \/ \E q \in Kept(S) \cup {a} : p <= q
      PROVE  p \in Kept(S) \cup {a}
  <2>0. PICK q \in Kept(S) \cup {a} : q <= p
    BY <1>7
  <2>a. p \in Live /\ p \in Nat /\ (q = a \/ q \in S) /\ q \in Nat
    BY <1>1, <1>2, <1>4, <2>0
  <2>1. a <= p /\ p \in Live
    BY <1>1, <1>2, <2>0, <2>a
  <2>2. p = a \/ a < p
    BY <1>2, <2>1
  <2>3. a < p => p \in S
    BY <1>1, <1>2, <1>4, <1>6, <1>7, <2>1
  <2> QED
    BY <1>4, <2>2, <2>3
<1> QED
  BY <1>1, <1>2, <1>5, <1>6, <1>7 DEF StretchOf

LEMMA BeforeIs ==
    ASSUME LogInv, NEW a \in DOMAIN log, NEW S, S = Nearest(Below(a), PerPage)
    PROVE  /\ S \subseteq Live /\ a \notin S /\ DeniedBelow(a) \subseteq Live
           /\ Below(a) = S \/ Kept(S) # S => \A p \in Kept(Live) \ DeniedBelow(a) : p < a => p \in S
           /\ StretchOf(Kept(S) \cup {a}, FALSE, Below(a) = S \/ Kept(S) # S, DeniedBelow(a))
<1>1. /\ S \subseteq Live /\ \A p \in S : p < a
      /\ \A p \in Live, q \in S : p < a /\ q <= p => p \in S
  BY BelowIs
<1>2. a \in Nat /\ Live \subseteq Nat
  BY LiveFacts, ChannelFacts
<1>3. \A p : p \in Below(a) <=> p \in Live /\ p < a
  BY DEF Below
<1>4. /\ Kept(S) \subseteq S /\ \A p \in S \cap Kept(Live) : p \in Kept(S)
      /\ \A p \in Kept(Live) : p \in Live
  BY DEF Kept
<1>5. DeniedBelow(a) \subseteq Live
  BY <1>3 DEF DeniedBelow, Kept
<1>6. ASSUME Below(a) = S \/ Kept(S) # S, NEW p \in Kept(Live) \ DeniedBelow(a), p < a
      PROVE  p \in S
  <2>1. p \in Below(a) /\ ~log[p].hidden
    BY <1>2, <1>3, <1>6 DEF Kept
  <2>2. CASE Kept(S) # S
    BY <2>1, <2>2 DEF DeniedBelow, Kept
  <2> QED
    BY <1>6, <2>1, <2>2
<1>7. ASSUME NEW p \in Kept(Live) \ DeniedBelow(a), \E q \in Kept(S) \cup {a} : p <= q,
             (Below(a) = S \/ Kept(S) # S) \/ \E q \in Kept(S) \cup {a} : q <= p
      PROVE  p \in Kept(S) \cup {a}
  <2>0. PICK q \in Kept(S) \cup {a} : p <= q
    BY <1>7
  <2>a. p \in Live /\ p \in Nat /\ (q = a \/ q \in S) /\ q \in Nat
    BY <1>1, <1>2, <1>4, <2>0
  <2>1. p <= a /\ p \in Live
    BY <1>1, <1>2, <2>0, <2>a
  <2>2. p = a \/ p < a
    BY <1>2, <2>1
  <2>3. p < a => p \in S
    BY <1>1, <1>2, <1>4, <1>6, <1>7, <2>1
  <2> QED
    BY <1>4, <2>2, <2>3
<1> QED
  BY <1>1, <1>2, <1>5, <1>6, <1>7 DEF StretchOf

LEMMA AroundIs ==
    ASSUME LogInv, NEW a \in Live, NEW S, S = Around(a)
    PROVE  /\ S \subseteq Live /\ Convex(S) /\ DeniedAbove(a) \cup DeniedBelow(a) \subseteq Live
           /\ LET F == Farthest(Above(a), PerPage)
                  N == Nearest(Below(a), PerPage)
              IN StretchOf(Kept(S) \cup {a}, Above(a) = F \/ Kept(F) # F, Below(a) = N \/ Kept(N) # N,
                           DeniedAbove(a) \cup DeniedBelow(a))
<1> DEFINE F == Farthest(Above(a), PerPage)
           N == Nearest(Below(a), PerPage)
           later == Above(a) = F \/ Kept(F) # F
           prior == Below(a) = N \/ Kept(N) # N
           denies == DeniedAbove(a) \cup DeniedBelow(a)
<1>0. a \in DOMAIN log /\ a \in Nat /\ Live \subseteq Nat /\ S = F \cup {a} \cup N
  BY LiveFacts DEF Around
<1>1. /\ F \subseteq Live /\ \A p \in F : a < p
      /\ \A p \in Live, q \in F : a < p /\ p <= q => p \in F
  BY <1>0, AboveIs
<1>2. /\ N \subseteq Live /\ \A p \in N : p < a
      /\ \A p \in Live, q \in N : p < a /\ q <= p => p \in N
  BY <1>0, BelowIs
<1>3. /\ later => \A p \in Kept(Live) \ denies : a < p => p \in F
      /\ prior => \A p \in Kept(Live) \ denies : p < a => p \in N
      /\ denies \subseteq Live
  BY <1>0, AfterIs, BeforeIs
<1> HIDE DEF F, N, later, prior, denies
<1>4. S \subseteq Live
  BY <1>0, <1>1, <1>2
<1>5. Convex(S)
  <2> SUFFICES ASSUME NEW p \in Live, NEW q \in S, NEW t \in S, q <= p, p <= t PROVE p \in S
    BY DEF Convex
  <2>1. CASE p > a
    <3>1. t \in F
      BY <1>0, <1>1, <1>2, <2>1
    <3> QED
      BY <1>0, <1>1, <2>1, <3>1
  <2>2. CASE p < a
    <3>1. q \in N
      BY <1>0, <1>1, <1>2, <2>2
    <3> QED
      BY <1>0, <1>2, <2>2, <3>1
  <2> QED
    BY <1>0, <2>1, <2>2
<1>6. /\ Kept(S) \subseteq S /\ \A p \in S \cap Kept(Live) : p \in Kept(S)
      /\ \A p \in Kept(Live) : p \in Live
  BY DEF Kept
<1>7. ASSUME NEW p \in Kept(Live) \ denies, prior \/ \E q \in Kept(S) \cup {a} : q <= p,
             later \/ \E q \in Kept(S) \cup {a} : p <= q
      PROVE  p \in Kept(S) \cup {a}
  <2>0. p \in Live /\ p \in Nat
    BY <1>0, <1>6
  <2>1. CASE p > a
    <3>1. CASE later
      BY <1>0, <1>3, <1>6, <2>0, <2>1, <3>1
    <3>2. CASE \E q \in Kept(S) \cup {a} : p <= q
      <4>1. PICK q \in S : p <= q
        BY <1>0, <1>6, <3>2
      <4>2. q \in F
        BY <1>0, <1>1, <1>2, <2>0, <2>1, <4>1
      <4>3. p \in F
        BY <1>0, <1>1, <2>0, <2>1, <4>1, <4>2
      <4> QED
        BY <1>0, <1>6, <4>3
    <3> QED
      BY <1>7, <3>1, <3>2
  <2>2. CASE p < a
    <3>1. CASE prior
      BY <1>0, <1>3, <1>6, <2>0, <2>2, <3>1
    <3>2. CASE \E q \in Kept(S) \cup {a} : q <= p
      <4>1. PICK q \in S : q <= p
        BY <1>0, <1>6, <3>2
      <4>2. q \in N
        BY <1>0, <1>1, <1>2, <2>0, <2>2, <4>1
      <4>3. p \in N
        BY <1>0, <1>2, <2>0, <2>2, <4>1, <4>2
      <4> QED
        BY <1>0, <1>6, <4>3
    <3> QED
      BY <1>7, <3>1, <3>2
  <2> QED
    BY <1>0, <2>0, <2>1, <2>2
<1>8. StretchOf(Kept(S) \cup {a}, later, prior, denies)
  BY <1>7 DEF StretchOf
<1> QED
  BY <1>3, <1>4, <1>5, <1>8 DEF F, N, later, prior, denies

\* A page of live posts is as it should be when its flags are right but for what it denies.
Fits(c, S, L, recent, oldest, denies, E) ==
    /\ c.kind \in Kinds /\ c.kind # "since" /\ S \cup denies \subseteq Live
    /\ c.kind \in {"after", "before"} => c.anchor \in DOMAIN log /\ c.anchor \notin S
    /\ c.kind = "before" => ~recent
    /\ c.kind = "after" => ~oldest
    /\ L \subseteq Kept(S) \cup Linked(log, c) /\ PageOf(c.page, S, L, recent, oldest, denies)
    /\ E = Kept(S) \cup L \cup IF c.kind \in {"after", "before"} THEN {c.anchor} ELSE {}
    /\ StretchOf(E, recent, oldest, denies)
    /\ E = {} => recent /\ oldest

LEMMA PageSound ==
    ASSUME LogInv, NEW recent \in BOOLEAN, NEW oldest \in BOOLEAN,
           NEW c, NEW S, NEW L, NEW denies, NEW E, Fits(c, S, L, recent, oldest, denies, E)
    PROVE  PageOk(log, c)
<1>a. /\ c.kind \in Kinds /\ c.kind # "since" /\ S \subseteq Live /\ denies \subseteq Live
      /\ c.kind \in {"after", "before"} => c.anchor \in DOMAIN log /\ c.anchor \notin S
      /\ c.kind = "before" => ~recent
      /\ c.kind = "after" => ~oldest
      /\ L \subseteq Kept(S) \cup Linked(log, c) /\ PageOf(c.page, S, L, recent, oldest, denies)
      /\ E = Kept(S) \cup L \cup IF c.kind \in {"after", "before"} THEN {c.anchor} ELSE {}
      /\ StretchOf(E, recent, oldest, denies)
      /\ E = {} => recent /\ oldest
  BY DEF Fits
<1>1. Live = LiveOf(log) /\ Live \subseteq DOMAIN log
  BY LiveFacts
<1>2. S \subseteq DOMAIN log /\ denies \subseteq DOMAIN log
  BY <1>a, <1>1
<1>3. OrderOk(log, c) /\ PostsOk(log, c) /\ ToSet(c.page.order) = Kept(S) \cup L
  BY <1>a, <1>1, <1>2, AnswerOrder
<1>4. Ends(c) = E
  BY <1>a, <1>3 DEF Ends
<1>5. c.page.recent = recent /\ c.page.oldest = oldest /\ c.page.denied = denies
  BY <1>a DEF PageOf
<1>6. Stretch(log, c)
  <2> SUFFICES ASSUME NEW p \in LiveOf(log), ~log[p].hidden, p \notin denies,
                      oldest \/ \E q \in E : q <= p, recent \/ \E q \in E : p <= q
               PROVE  p \in E
    BY <1>4, <1>5 DEF Stretch
  <2>1. p \in Kept(Live) \ denies
    BY <1>1 DEF Kept
  <2> QED
    BY <1>a, <2>1 DEF StretchOf
<1>7. c.kind \in InChannel /\ c.page.order = << >> => E = {}
  <2>1. ToSet(<< >>) = {}
    BY DEF ToSet
  <2>2. c.kind \in InChannel => c.kind \notin {"after", "before"}
    BY DEF InChannel
  <2> QED
    BY <1>a, <1>3, <2>1, <2>2
<1>8. FlagsOk(c)
  BY <1>a, <1>5, <1>7 DEF FlagsOk
<1> QED
  BY <1>a, <1>3, <1>6, <1>8 DEF PageOk

\* A page without a neighbour to go on from
LEMMA CursorOk ==
    ASSUME LogInv, NEW c, c.kind \in {"newest", "unread"}, NEW S, S \subseteq Live, Convex(S),
           c.page = CursorPage(S)
    PROVE  PageOk(log, c)
<1>1. PICK recent, oldest, denies : recent = NoneLater(S) /\ oldest = NonePrior(S) /\ denies = DeniedPast(S)
  OBVIOUS
<1>2. PageOf(c.page, S, {}, recent, oldest, denies)
  <2>1. c.page = Page(S, NoneLater(S), NonePrior(S), IF Kept(S) = {} THEN Live \ S ELSE {})
    BY DEF CursorPage, NoneLater, NonePrior
  <2> QED
    BY <1>1, <2>1, PageOfIs DEF DeniedPast
<1>3. recent \in BOOLEAN /\ oldest \in BOOLEAN /\ denies \subseteq Live
  <2>1. recent \in BOOLEAN /\ oldest \in BOOLEAN
    BY <1>1, Zenon DEF NoneLater, NonePrior
  <2> QED
    BY <1>1, <2>1 DEF DeniedPast, Kept
<1>4. StretchOf(Kept(S), recent, oldest, denies)
  BY <1>1, CursorIs
<1>5. Kept(S) = {} => recent /\ oldest
  BY <1>1 DEF NoneLater, NonePrior
<1>6. PICK E : E = Kept(S)
  OBVIOUS
<1>7. E = Kept(S) \cup {} \cup IF c.kind \in {"after", "before"} THEN {c.anchor} ELSE {}
  BY <1>6
<1>8. c.kind \in Kinds /\ c.kind # "since" /\ c.kind \notin {"after", "before"}
  BY DEF Kinds
<1>9. PICK L : L = {}
  OBVIOUS
<1>10. Fits(c, S, L, recent, oldest, denies, E)
  BY <1>2, <1>3, <1>4, <1>5, <1>6, <1>7, <1>8, <1>9 DEF Fits
<1> QED
  BY <1>3, <1>10, PageSound

\* Every page the server may answer with is as it should be.
LEMMA PagesOk ==
    ASSUME LogInv, NEW c, c.kind \in Kinds, NEW call, c.kind = call.kind,
           c.anchor = call.anchor, c.since = call.since,
           c.page \in Pages(call),
           c.kind \in {"after", "before"} => c.anchor \in DOMAIN log
    PROVE  PageOk(log, c)
<1>0. /\ Live = LiveOf(log) /\ Live \subseteq DOMAIN log
  BY LiveFacts
<1>1. ASSUME c.kind = "latest", c.page = LatestPage PROVE PageOk(log, c)
  <2>1. PICK S : S = Nearest(Live, PerPage)
    OBVIOUS
  <2>2. PICK oldest, denies : oldest = NonePrior(S) /\ denies = DeniedPast(S)
    OBVIOUS
  <2>3. S \subseteq Live /\ StretchOf(Kept(S), TRUE, oldest, denies)
    BY <2>1, <2>2, LatestIs, LatestStretch
  <2>4. PageOf(c.page, S, {}, TRUE, oldest, denies)
    <3>1. c.page = Page(S, TRUE, NonePrior(S), IF Kept(S) = {} THEN Live \ S ELSE {})
      BY <1>1, <2>1 DEF LatestPage, NonePrior
    <3> QED
      BY <2>2, <3>1, PageOfIs DEF DeniedPast
  <2>5. oldest \in BOOLEAN /\ denies \subseteq Live
    <3>1. oldest \in BOOLEAN
      BY <2>2, Zenon DEF NonePrior
    <3> QED
      BY <2>2, <3>1 DEF DeniedPast, Kept
  <2>6. PICK E : E = Kept(S)
    OBVIOUS
  <2>7. E = Kept(S) \cup {} \cup IF c.kind \in {"after", "before"} THEN {c.anchor} ELSE {}
    BY <1>1, <2>6
  <2>8. E = {} => oldest
    BY <2>2, <2>6 DEF NonePrior
  <2> QED
    <3>1. PICK L, recent : L = {} /\ recent = TRUE
      OBVIOUS
    <3>2. Fits(c, S, L, recent, oldest, denies, E)
      BY <1>1, <2>3, <2>4, <2>5, <2>6, <2>7, <2>8, <3>1 DEF Fits
    <3> QED
      BY <2>5, <3>1, <3>2, PageSound
<1>2. ASSUME c.kind = "around", NEW a \in Live, a = c.anchor, c.page = AroundPage(a) PROVE PageOk(log, c)
  <2>1. PICK S, F, N : S = Around(a) /\ F = Farthest(Above(a), PerPage) /\ N = Nearest(Below(a), PerPage)
    OBVIOUS
  <2>2. PICK recent, oldest, denies : /\ recent = (Above(a) = F \/ Kept(F) # F)
                                      /\ oldest = (Below(a) = N \/ Kept(N) # N)
                                      /\ denies = DeniedAbove(a) \cup DeniedBelow(a)
    OBVIOUS
  <2>3. recent \in BOOLEAN /\ oldest \in BOOLEAN
    BY <2>2, Zenon
  <2>4. S \subseteq Live /\ denies \subseteq Live /\ StretchOf(Kept(S) \cup {a}, recent, oldest, denies)
    BY <2>1, <2>2, AroundIs
  <2>5. /\ AfterPage(a).recent = recent /\ BeforePage(a).oldest = oldest
        /\ AfterPage(a).denied \cup BeforePage(a).denied = denies
    BY <2>1, <2>2 DEF AfterPage, BeforePage, Page, DeniedAbove, DeniedBelow
  <2>6. PageOf(c.page, S, {a}, recent, oldest, denies)
    BY <1>2, <2>1, <2>5 DEF AroundPage, Page, PageOf
  <2>7. a \in Kept(S) \cup Linked(log, c)
    <3>1. a \in S /\ a \in DOMAIN log
      BY <1>0, <2>1 DEF Around
    <3> QED
      BY <1>2, <3>1 DEF Kept, Linked
  <2>8. PICK E : E = Kept(S) \cup {a}
    OBVIOUS
  <2>9. E = Kept(S) \cup {a} \cup IF c.kind \in {"after", "before"} THEN {c.anchor} ELSE {}
    BY <1>2, <2>8
  <2>10. E # {} /\ StretchOf(E, recent, oldest, denies) /\ {a} \subseteq Kept(S) \cup Linked(log, c)
    BY <2>4, <2>7, <2>8
  <2> QED
    <3>1. PICK L : L = {a}
      OBVIOUS
    <3>2. Fits(c, S, L, recent, oldest, denies, E)
      BY <1>2, <2>3, <2>4, <2>6, <2>9, <2>10, <3>1 DEF Fits
    <3> QED
      BY <2>3, <3>2, PageSound
<1>3. ASSUME c.kind = "after", c.page = AfterPage(c.anchor) PROVE PageOk(log, c)
  <2>1. PICK a, S : a = c.anchor /\ S = Farthest(Above(a), PerPage)
    OBVIOUS
  <2>2. PICK recent, oldest, denies : /\ recent = (Above(a) = S \/ Kept(S) # S) /\ oldest = FALSE
                                      /\ denies = DeniedAbove(a)
    OBVIOUS
  <2>3. /\ a \in DOMAIN log /\ S \subseteq Live /\ a \notin S /\ denies \subseteq Live
        /\ StretchOf(Kept(S) \cup {a}, recent, oldest, denies)
    BY <1>3, <2>1, <2>2, AfterIs
  <2>4. recent \in BOOLEAN /\ oldest \in BOOLEAN /\ ~oldest
    BY <2>2, Zenon
  <2>5. PageOf(c.page, S, {}, recent, oldest, denies)
    <3>1. c.page = Page(S, Above(a) = S \/ Kept(S) # S, FALSE, IF Kept(S) # S THEN Above(a) \ S ELSE {})
      BY <1>3, <2>1 DEF AfterPage
    <3> QED
      BY <2>1, <2>2, <3>1, PageOfIs DEF DeniedAbove
  <2>6. PICK E : E = Kept(S) \cup {a}
    OBVIOUS
  <2>7. E = Kept(S) \cup {} \cup IF c.kind \in {"after", "before"} THEN {c.anchor} ELSE {}
    BY <1>3, <2>1, <2>6
  <2>8. E # {} /\ StretchOf(E, recent, oldest, denies) /\ {} \subseteq Kept(S) \cup Linked(log, c)
    BY <2>3, <2>6
  <2> QED
    <3>1. /\ c.kind # "since" /\ c.anchor \in DOMAIN log /\ c.anchor \notin S
          /\ c.kind = "before" => ~recent
          /\ c.kind = "after" => ~oldest
      BY <1>3, <2>1, <2>3, <2>4
    <3>2. PICK L : L = {}
      OBVIOUS
    <3>3. /\ PageOf(c.page, S, L, recent, oldest, denies) /\ L \subseteq Kept(S) \cup Linked(log, c)
          /\ E = Kept(S) \cup L \cup IF c.kind \in {"after", "before"} THEN {c.anchor} ELSE {}
      BY <2>5, <2>7, <3>2
    <3>4. Fits(c, S, L, recent, oldest, denies, E)
      BY <2>3, <2>4, <2>8, <3>1, <3>3 DEF Fits
    <3> QED
      BY <2>4, <3>4, PageSound
<1>4. ASSUME c.kind = "before", c.page = BeforePage(c.anchor) PROVE PageOk(log, c)
  <2>1. PICK a, S : a = c.anchor /\ S = Nearest(Below(a), PerPage)
    OBVIOUS
  <2>2. PICK recent, oldest, denies : /\ oldest = (Below(a) = S \/ Kept(S) # S) /\ recent = FALSE
                                      /\ denies = DeniedBelow(a)
    OBVIOUS
  <2>3. /\ a \in DOMAIN log /\ S \subseteq Live /\ a \notin S /\ denies \subseteq Live
        /\ StretchOf(Kept(S) \cup {a}, recent, oldest, denies)
    BY <1>4, <2>1, <2>2, BeforeIs
  <2>4. recent \in BOOLEAN /\ oldest \in BOOLEAN /\ ~recent
    BY <2>2, Zenon
  <2>5. PageOf(c.page, S, {}, recent, oldest, denies)
    <3>1. c.page = Page(S, FALSE, Below(a) = S \/ Kept(S) # S, IF Kept(S) # S THEN Below(a) \ S ELSE {})
      BY <1>4, <2>1 DEF BeforePage
    <3> QED
      BY <2>1, <2>2, <3>1, PageOfIs DEF DeniedBelow
  <2>6. PICK E : E = Kept(S) \cup {a}
    OBVIOUS
  <2>7. E = Kept(S) \cup {} \cup IF c.kind \in {"after", "before"} THEN {c.anchor} ELSE {}
    BY <1>4, <2>1, <2>6
  <2>8. E # {} /\ StretchOf(E, recent, oldest, denies) /\ {} \subseteq Kept(S) \cup Linked(log, c)
    BY <2>3, <2>6
  <2> QED
    <3>1. /\ c.kind # "since" /\ c.anchor \in DOMAIN log /\ c.anchor \notin S
          /\ c.kind = "before" => ~recent
          /\ c.kind = "after" => ~oldest
      BY <1>4, <2>1, <2>3, <2>4
    <3>2. PICK L : L = {}
      OBVIOUS
    <3>3. /\ PageOf(c.page, S, L, recent, oldest, denies) /\ L \subseteq Kept(S) \cup Linked(log, c)
          /\ E = Kept(S) \cup L \cup IF c.kind \in {"after", "before"} THEN {c.anchor} ELSE {}
      BY <2>5, <2>7, <3>2
    <3>4. Fits(c, S, L, recent, oldest, denies, E)
      BY <2>3, <2>4, <2>8, <3>1, <3>3 DEF Fits
    <3> QED
      BY <2>4, <3>4, PageSound
<1>5. ASSUME c.kind = "since", c.page = SincePage(c.since) PROVE PageOk(log, c)
  <2>1. PICK S : S = {p \in DOMAIN log : log[p].upd > c.since}
    OBVIOUS
  <2>2. c.page = Page(S, FALSE, FALSE, {}) /\ S \subseteq DOMAIN log
    BY <1>5, <2>1 DEF SincePage
  <2>3. PageOf(c.page, S, {}, FALSE, FALSE, Kept({})) /\ Kept({}) = {}
    BY <2>2, PageOfIs DEF Kept
  <2>4. OrderOk(log, c) /\ PostsOk(log, c)
    <3>1. Kept({}) \subseteq DOMAIN log /\ {} \subseteq Kept(S) \cup Linked(log, c)
      BY <2>3
    <3> QED
      BY <1>5, <2>2, <2>3, <3>1, AnswerOrder
  <2>5. FlagsOk(c)
    BY <1>5, <2>3 DEF FlagsOk, InChannel, PageOf
  <2> QED
    BY <1>5, <2>4, <2>5 DEF PageOk
<1>s. ASSUME c.kind \in {"newest", "unread"}, NEW S, S = Nearest(Live, PerPage), c.page = CursorPage(S)
      PROVE  PageOk(log, c)
  BY <1>s, LatestIs, CursorOk
<1>t. ASSUME c.kind = "unread", NEW a \in Live, NEW S, S = Around(a), c.page = CursorPage(S)
      PROVE  PageOk(log, c)
  <2>1. S \subseteq Live /\ Convex(S)
    BY <1>t, AroundIs
  <2> QED
    BY <1>t, <2>1, CursorOk
<1>6. CASE c.kind = "latest"
  BY <1>1, <1>6 DEF Pages
<1>7. CASE c.kind = "unread"
  BY <1>7, <1>s, <1>t DEF Pages
<1>8. CASE c.kind = "after"
  BY <1>3, <1>8 DEF Pages
<1>9. CASE c.kind = "before"
  BY <1>4, <1>9 DEF Pages
<1>10. CASE c.kind = "around"
  BY <1>2, <1>10 DEF Pages
<1>11. CASE c.kind = "since"
  BY <1>5, <1>11 DEF Pages
<1>12. CASE c.kind = "newest"
  BY <1>12, <1>s DEF Pages
<1> QED
  BY <1>6, <1>7, <1>8, <1>9, <1>10, <1>11, <1>12 DEF Kinds

LEMMA AnswerIs ==
    ASSUME ChannelInv, NEW call \in calls, Answer(call) PROVE ChannelInv'
<1>1. PICK page \in Pages(call) : calls' = (calls \ {call}) \cup {[call EXCEPT !.page = page]}
  BY DEF Answer
<1>2. PICK c : c = [call EXCEPT !.page = page]
  OBVIOUS
<1>3. IsCall(call) /\ CallOk(log, stored, call)
  BY DEF ChannelInv, CopiesInv, CallsInv, PagesInv
<1>4. /\ c.kind = call.kind /\ c.anchor = call.anchor /\ c.since = call.since /\ c.page = page
      /\ c.kind \in Kinds
  BY <1>2, <1>3 DEF IsCall
<1>5. c.kind \in {"after", "before"} => c.anchor \in DOMAIN log /\ Stored(stored, c.anchor)
  BY <1>3, <1>4 DEF CallOk
<1>6. LogInv
  BY DEF ChannelInv, CopiesInv
<1>7. PageOk(log, c)
  BY <1>4, <1>5, <1>6, PagesOk
<1>8. CallOk(log, stored, c)
  BY <1>3, <1>4, <1>7 DEF CallOk, Linked
<1>9. CopiesInv'
  BY AnswerKeeps DEF ChannelInv
<1> QED
  BY <1>1, <1>2, <1>8, <1>9, CallsChannel DEF Answer

-----------------------------------------------------------------------------
\* Steps of the server

\* No post is from the future.
LEMMA PastPosts ==
    ASSUME CopiesInv, NEW p \in DOMAIN log
    PROVE  log[p].at \in Nat /\ log[p].at <= now
<1>1. PostConsistent(p) /\ log[p].upd <= now /\ now \in Nat
  BY DEF CopiesInv, LogInv
<1>2. log[p].at \in Nat /\ log[p].upd \in Nat /\ log[p].at <= log[p].upd
  BY <1>1 DEF PostConsistent, Consistent, Dated
<1> QED
  BY <1>1, <1>2

LEMMA ComingIs ==
    ASSUME NEW p
    PROVE  PostedEvent(p) \in Coming <=>
               \E e \in ToSet(events) \cup ToSet(held) : e.type = "posted" /\ e.id = p
BY NewsIs DEF Coming

LEMMA ServerChannel ==
    ASSUME ChannelInv, CopiesInv', UNCHANGED <<calls, client, history>>, create'.at = create.at,
           Continues(log, log'),
           \A p \in LiveOf(log') : p \in DOMAIN log \/ PostedEvent(p) \in Coming',
           \A p \in DOMAIN log : PostedEvent(p) \in Coming => PostedEvent(p) \in Coming'
    PROVE  ToldInv' /\ CoveredInv' /\ StraysInv' /\ BlocksInv' /\ PagesInv'
<1>1. LogInv /\ LogInv' /\ ToldInv /\ CoveredInv /\ StraysInv /\ BlocksInv /\ PagesInv
  BY DEF ChannelInv, CopiesInv
<1>2. /\ stored' = stored /\ blocks' = blocks /\ loaded' = loaded
      /\ missed' = missed /\ told' = told /\ strayed' = strayed /\ denied' = denied
      /\ calls' = calls
  BY DEF client, history
<1>3. KeepsStored(log, stored, stored')
  BY <1>2 DEF KeepsStored
<1>4. \A p \in LiveOf(log') \cap DOMAIN log : p \in LiveOf(log) /\ (p \in Accounted => p \in Accounted')
  BY <1>1, <1>2, StaysSure
<1>5. \A p \in LiveOf(log') : p \in DOMAIN log \/ p \in Accounted'
  BY DEF Accounted, Reckoned, LiveOf
<1>6. StillSure(log, Accounted, log', Accounted')
  BY <1>4, <1>5 DEF StillSure
<1>7. ToldInv' /\ CoveredInv' /\ StraysInv' /\ BlocksInv'
  BY <1>1, <1>2, <1>3, <1>6, SameBlocks
<1>8. PagesInv'
  BY <1>1, <1>2, <1>3, PagesKept
<1> QED
  BY <1>7, <1>8

LEMMA SavedChannel ==
    ASSUME ChannelInv, CopiesInv', NEW own \in BOOLEAN, SavePost(own), RequestInv', FailedInv',
           UNCHANGED <<calls, client, queue, history>>, create'.at = create.at
    PROVE  ChannelInv'
<1>0. PICK n : n = Len(log) + 1
  OBVIOUS
<1>1. PICK post :
          /\ now \in Nat /\ now' = now + 1 /\ Len(log) < MaxPosts /\ log \in Seq(PostType)
          /\ log' = Append(log, post) /\ post.at = now'
  BY DEF SavePost, ChannelInv, CopiesInv, LogInv
<1>2. /\ DOMAIN log' = DOMAIN log \cup {n} /\ n \notin DOMAIN log /\ log'[n].at = now'
      /\ \A p \in DOMAIN log : log'[p] = log[p] /\ p \in Nat /\ p < n
      /\ n \in Nat /\ n \in PostIds /\ PendingId # n /\ PendingId \notin DOMAIN log
  <2>1. DOMAIN log = 1 .. Len(log) /\ Len(log) \in Nat
    BY <1>1
  <2>2. /\ DOMAIN log' = 1 .. Len(log) + 1 /\ log'[n].at = now'
        /\ \A p \in DOMAIN log : log'[p] = log[p]
    BY <1>0, <1>1, <2>1
  <2> QED
    BY <1>0, <1>1, <2>1, <2>2, ChannelPostsAssumption DEF PostIds, PendingId
<1>3. /\ stored' = stored /\ blocks' = blocks
      /\ held' = held /\ burst' = burst /\ timer' = timer
      /\ missed' = missed /\ create'.at = create.at
  BY DEF client, queue, history
<1>4. PICK e : e = [type |-> "posted", id |-> n, upd |-> now']
  OBVIOUS
<1>5. ToSet(events') = ToSet(events) \cup {e}
  <2>1. events \in Seq(EventType) /\ e \in EventType
    BY <1>1, <1>2, <1>4 DEF ChannelInv, CopiesInv, EventsInv, EventType
  <2> QED
    BY <1>0, <1>4, <2>1, ToSetAppend DEF SavePost, Publish
<1>6. \A p : PostedEvent(p) \in Coming' <=> PostedEvent(p) \in Coming \/ p = n
  <2>1. \A p : PostedEvent(p) \in Coming <=>
               \E x \in ToSet(events) \cup ToSet(held) : x.type = "posted" /\ x.id = p
    BY ComingIs
  <2>2. \A p : PostedEvent(p) \in Coming' <=>
               \E x \in ToSet(events') \cup ToSet(held') : x.type = "posted" /\ x.id = p
    BY NewsIs DEF Coming
  <2> QED
    BY <1>3, <1>4, <1>5, <2>1, <2>2
<1>7. Continues(log, log')
  BY <1>2 DEF Continues
<1>8. ToldInv' /\ CoveredInv' /\ StraysInv' /\ BlocksInv' /\ PagesInv'
  BY <1>2, <1>6, <1>7, ServerChannel DEF LiveOf
<1>9. TimesInv'
  <2>1. \A p \in DOMAIN log : log[p].at \in Nat /\ log[p].at <= now
    BY PastPosts DEF ChannelInv
  <2>2. \A p, q \in DOMAIN log' : p < q => log'[p].at < log'[q].at
    BY <1>1, <1>2, <2>1 DEF ChannelInv, TimesInv
  <2>3. create'.at <= now'
    BY <1>1, <1>3 DEF ChannelInv, TimesInv, CopiesInv, CreateInv
  <2>4. ~Stored(stored, n)
    BY <1>2 DEF ChannelInv, CopiesInv, StoredInv, Stored
  <2>5. Timed(log', create'.at, stored')
    BY <1>2, <1>3, <2>4 DEF ChannelInv, TimesInv, Timed
  <2> QED
    BY <2>2, <2>3, <2>5 DEF TimesInv
<1>10. QueueInv'
  <2>1. \A x \in ToSet(held) : x.id \in DOMAIN log
    BY DEF ChannelInv, CopiesInv, HeldInv, EventOk
  <2>2. \A x \in ToSet(held), f \in ToSet(events') : f.type = "posted" => x.id < f.id
    BY <1>2, <1>4, <1>5, <2>1 DEF ChannelInv, QueueInv
  <2>3. \A p, q \in DOMAIN log' :
           p < q /\ PostedEvent(p) \in Coming' => PostedEvent(q) \in Coming' \cup missed
    <3> SUFFICES ASSUME NEW p \in DOMAIN log', NEW q \in DOMAIN log', p < q,
                        PostedEvent(p) \in Coming', q # n
                 PROVE  PostedEvent(q) \in Coming' \cup missed
      BY <1>6
    <3>1. q \in DOMAIN log /\ p # n
      BY <1>2
    <3>2. PostedEvent(p) \in Coming /\ p \in DOMAIN log
      BY <1>2, <1>6, <3>1
    <3> QED
      BY <1>6, <3>1, <3>2 DEF ChannelInv, QueueInv
  <2> QED
    BY <1>3, <2>2, <2>3 DEF ChannelInv, QueueInv
<1> QED
  BY <1>8, <1>9, <1>10 DEF ChannelInv

LEMMA OthersPostIs == ChannelInv /\ OthersPost => ChannelInv'
<1> SUFFICES ASSUME ChannelInv, OthersPost PROVE ChannelInv'
  OBVIOUS
<1>1. /\ SavePost(FALSE) /\ UNCHANGED <<calls, client, queue, history>> /\ create' = create
      /\ stored' = stored /\ blocks' = blocks /\ strayed' = strayed
  BY DEF OthersPost, client, history
<1>2. CopiesInv'
  BY OthersPostKeeps DEF ChannelInv
<1>3. /\ DOMAIN log \subseteq DOMAIN log' /\ \A p \in DOMAIN log : log'[p] = log[p]
      /\ OwnOf(log') = OwnOf(log)
  <2>1. PICK post : log \in Seq(PostType) /\ log' = Append(log, post) /\ post.own = FALSE
    BY <1>1 DEF SavePost, ChannelInv, CopiesInv, LogInv
  <2>2. /\ DOMAIN log = 1 .. Len(log) /\ Len(log) \in Nat /\ DOMAIN log' = 1 .. Len(log) + 1
        /\ \A p \in DOMAIN log : log'[p] = log[p]
        /\ log'[Len(log) + 1].own = FALSE
    BY <2>1
  <2> QED
    BY <2>2 DEF OwnOf
<1>4. RequestInv'
  BY <1>1, <1>3 DEF ChannelInv, CopiesInv, CreateInv, RequestInv
<1>5. FailedInv'
  BY <1>1, <1>3 DEF ChannelInv, FailedInv
<1> QED
  BY <1>1, <1>2, <1>4, <1>5, SavedChannel

LEMMA CreatePostIs == ChannelInv /\ CreatePost => ChannelInv'
<1> SUFFICES ASSUME ChannelInv, CreatePost PROVE ChannelInv'
  OBVIOUS
<1>1. /\ UNCHANGED <<calls, client, queue, history>> /\ create.st = "sent"
      /\ stored' = stored /\ blocks' = blocks /\ strayed' = strayed
      /\ events' = events => Coming' = Coming
  BY DEF CreatePost, client, history, queue, Coming
<1>2. CopiesInv'
  BY CreatePostKeeps DEF ChannelInv
<1>3. CASE /\ SavePost(TRUE)
           /\ create' = [create EXCEPT !.st = "created", !.id = Len(log'),
                                       !.post = log'[Len(log')]]
  <2>1. create' = [st |-> "created", at |-> create.at, id |-> Len(log'), post |-> log'[Len(log')]]
    BY <1>3 DEF ChannelInv, CopiesInv, CreateInv
  <2>2. /\ log'[Len(log')].at = now' /\ log'[Len(log')].deleted = FALSE /\ log'[Len(log')].own = TRUE
        /\ now' = now + 1
    BY <1>3 DEF SavePost, ChannelInv, CopiesInv, LogInv
  <2>3. create.at < now'
    BY <2>2 DEF ChannelInv, CopiesInv, CreateInv, LogInv, TimesInv
  <2>4. RequestInv' /\ FailedInv'
    BY <2>1, <2>2, <2>3 DEF RequestInv, FailedInv
  <2> QED
    BY <1>1, <1>2, <1>3, <2>1, <2>4, SavedChannel
<1>4. CASE /\ \E p \in Live : log[p].own /\ create' = [create EXCEPT !.st = "found", !.id = p, !.post = log[p]]
           /\ UNCHANGED <<now, log, events>>
  <2>1. PICK p0 \in Live : log[p0].own /\ create' = [create EXCEPT !.st = "found", !.id = p0, !.post = log[p0]]
    BY <1>4
  <2>2. /\ create' = [st |-> "found", at |-> create.at, id |-> p0, post |-> log[p0]]
        /\ p0 \in DOMAIN log /\ ~log[p0].deleted
    BY <2>1 DEF ChannelInv, CopiesInv, CreateInv, Live
  <2>3. /\ log' = log /\ now' = now /\ events' = events
        /\ held' = held /\ burst' = burst /\ timer' = timer
        /\ create'.at = create.at /\ create'.st = "found" /\ Coming' = Coming /\ missed' = missed
    BY <1>1, <1>4, <2>2 DEF queue, history
  <2>4. RequestInv' /\ FailedInv'
    BY <1>1, <2>1, <2>2, <2>3 DEF ChannelInv, RequestInv, FailedInv
  <2>5. TimesInv' /\ QueueInv'
    BY <1>1, <2>3 DEF ChannelInv, TimesInv, QueueInv
  <2>6. Continues(log, log') /\ LiveOf(log) \subseteq DOMAIN log
    BY <2>3, ChannelFacts DEF ChannelInv, CopiesInv
  <2>7. ToldInv' /\ CoveredInv' /\ StraysInv' /\ BlocksInv' /\ PagesInv'
    BY <1>1, <1>2, <2>3, <2>6, ServerChannel
  <2> QED
    BY <1>2, <2>4, <2>5, <2>7 DEF ChannelInv
<1> QED
  BY <1>3, <1>4 DEF CreatePost

LEMMA ChangePostIs ==
    ASSUME ChannelInv, NEW p0 \in PostIds, NEW type \in {"post_edited", "post_deleted"},
           ChangePost(p0, type)
    PROVE  ChannelInv'
<1>0. CopiesInv'
  BY ChangePostKeeps DEF ChannelInv
<1>1. /\ UNCHANGED <<calls, client, queue, history>> /\ create' = create
      /\ stored' = stored /\ blocks' = blocks /\ strayed' = strayed /\ missed' = missed
      /\ held' = held /\ burst' = burst /\ timer' = timer
      /\ now' = now + 1 /\ p0 \in DOMAIN log
      /\ log' = [log EXCEPT ![p0].upd = now', ![p0].deleted = (type = "post_deleted")]
      /\ ~log[p0].deleted
  BY DEF ChangePost, client, history, queue, Live
<1>2. log \in Seq(PostType) /\ now \in Nat
  BY DEF ChannelInv, CopiesInv, LogInv
<1>3. /\ DOMAIN log' = DOMAIN log /\ PendingId \notin DOMAIN log
      /\ \A p \in DOMAIN log : /\ log'[p].at = log[p].at /\ log'[p].own = log[p].own
                              /\ log'[p].hidden = log[p].hidden
                              /\ (~log'[p].deleted => ~log[p].deleted)
  <2>1. DOMAIN log' = DOMAIN log /\ \A p \in DOMAIN log \ {p0} : log'[p] = log[p]
    BY <1>1, <1>2
  <2>2. log'[p0].at = log[p0].at /\ log'[p0].own = log[p0].own /\ log'[p0].hidden = log[p0].hidden
    BY <1>1, <1>2, LogFacts DEF ChannelInv, CopiesInv, PostType
  <2> QED
    BY <1>1, <2>1, <2>2, LogFacts DEF ChannelInv, CopiesInv
<1>4. Continues(log, log') /\ OwnOf(log') = OwnOf(log)
  BY <1>3 DEF Continues, OwnOf
<1>5. PICK e : e = [type |-> type, id |-> p0, upd |-> now']
  OBVIOUS
<1>6. ToSet(events') = ToSet(events) \cup {e}
  <2>1. events \in Seq(EventType) /\ e \in EventType
    BY <1>1, <1>2, <1>5 DEF ChannelInv, CopiesInv, EventsInv, EventType
  <2> QED
    BY <1>5, <2>1, ToSetAppend DEF ChangePost, Publish
<1>7. \A p : PostedEvent(p) \in Coming' <=> PostedEvent(p) \in Coming
  <2>1. \A p : PostedEvent(p) \in Coming <=>
               \E x \in ToSet(events) \cup ToSet(held) : x.type = "posted" /\ x.id = p
    BY ComingIs
  <2>2. \A p : PostedEvent(p) \in Coming' <=>
               \E x \in ToSet(events') \cup ToSet(held') : x.type = "posted" /\ x.id = p
    BY NewsIs DEF Coming
  <2> QED
    BY <1>1, <1>5, <1>6, <2>1, <2>2
<1>8. ToldInv' /\ CoveredInv' /\ StraysInv' /\ BlocksInv' /\ PagesInv'
  BY <1>0, <1>1, <1>3, <1>4, <1>7, ServerChannel DEF LiveOf
<1>9. TimesInv'
  <2>1. create'.at <= now'
    BY <1>1, <1>2 DEF ChannelInv, CopiesInv, CreateInv, TimesInv
  <2>2. Timed(log', create'.at, stored')
    BY <1>1, <1>3 DEF ChannelInv, TimesInv, Timed
  <2>3. \A p, q \in DOMAIN log' : p < q => log'[p].at < log'[q].at
    BY <1>3 DEF ChannelInv, TimesInv
  <2> QED
    BY <2>1, <2>2, <2>3 DEF TimesInv
<1>10. RequestInv'
  BY <1>1, <1>3, <1>4 DEF ChannelInv, CopiesInv, CreateInv, RequestInv
<1>11. QueueInv'
  <2>1. \A x \in ToSet(held), f \in ToSet(events') : f.type = "posted" => x.id < f.id
    BY <1>5, <1>6 DEF ChannelInv, QueueInv
  <2>2. \A p, q \in DOMAIN log' :
           p < q /\ PostedEvent(p) \in Coming' => PostedEvent(q) \in Coming' \cup missed
    BY <1>3, <1>7 DEF ChannelInv, QueueInv
  <2> QED
    BY <1>1, <2>1, <2>2 DEF ChannelInv, QueueInv
<1>12. FailedInv'
  BY <1>1, <1>4 DEF ChannelInv, FailedInv
<1> QED
  BY <1>0, <1>8, <1>9, <1>10, <1>11, <1>12 DEF ChannelInv

-----------------------------------------------------------------------------
\* The client is told of changes, and loses events.

LEMMA EmptyBlocks ==
    /\ Shows(<< >>) = {} /\ ~StraysIn(<< >>) /\ ToSet(RecentOrder(<< >>)) = {}
    /\ EmptyIsRecent(<< >>) /\ \A v : AllSound(<< >>, v)
<1>0. PICK bs : bs = << >>
  OBVIOUS
<1>1. bs = << >> /\ bs \in Seq({0})
  BY <1>0
<1>2. DOMAIN bs = {} /\ ToSet(bs) = {}
  BY <1>1 DEF ToSet
<1>3. RecentBlock(bs) = 0
  <2>1. PICK i : i = RecentBlock(bs)
    OBVIOUS
  <2> QED
    BY <1>1, <1>2, <2>1, RecentBlockIs
<1>4. RecentOrder(bs) = << >>
  BY <1>3 DEF RecentOrder
<1>5. ToSet(RecentOrder(bs)) = {} /\ ~StraysIn(bs) /\ Shows(bs) = {} /\ EmptyIsRecent(bs)
  BY <1>1, <1>2, <1>4 DEF StraysIn, Shows, EmptyIsRecent
<1>6. \A v : AllSound(bs, v)
  BY <1>1, <1>2 DEF AllSound
<1> QED
  BY <1>1, <1>5, <1>6

\* Nothing the client was to be told of is forgotten.
NoneForgotten ==
    /\ missed \subseteq missed'
    /\ \A p \in DOMAIN log : PostedEvent(p) \in Coming => PostedEvent(p) \in Coming' \cup missed'

LEMMA EventChannel ==
    ASSUME ChannelInv, CopiesInv', QueueInv', missed \subseteq missed',
           \A p \in DOMAIN log :
               PostedEvent(p) \in Coming => PostedEvent(p) \in Coming' \cup missed' \/ log[p].hidden,
           UNCHANGED <<now, log, create, blocks, loaded, told, strayed, denied>>,
           KeepsStored(log, stored, stored'), Timed(log, create.at, stored'),
           stored'[PendingId] = stored[PendingId],
           \A c \in calls' : c \in calls \/ CallOk(log, stored, c) \/ CallOk(log', stored', c)
    PROVE  ChannelInv'
<1>1. LogInv /\ LogInv' /\ ToldInv /\ CoveredInv /\ StraysInv /\ BlocksInv /\ PagesInv
  BY DEF ChannelInv, CopiesInv
<1>2. Continues(log, log') /\ LiveOf(log) \subseteq DOMAIN log
  BY <1>1, ChannelFacts
<1>3. denied \subseteq denied' /\ Shows(blocks) \ {PendingId} \subseteq Shows(blocks')
  OBVIOUS
<1>4. \A p \in LiveOf(log') \cap DOMAIN log : p \in LiveOf(log) /\ (p \in Accounted => p \in Accounted')
  BY <1>1, <1>2, <1>3, StaysSure
<1>5. StillSure(log, Accounted, log', Accounted')
  BY <1>2, <1>4 DEF StillSure
<1>6. ToldInv' /\ CoveredInv' /\ StraysInv' /\ BlocksInv'
  BY <1>1, <1>2, <1>5, SameBlocks
<1>7. PagesInv'
  BY <1>1, <1>2, PagesKept
<1>8. TimesInv' /\ RequestInv' /\ FailedInv'
  BY DEF ChannelInv, TimesInv, RequestInv, FailedInv
<1> QED
  BY <1>6, <1>7, <1>8 DEF ChannelInv

\* Events of posts come in the order of the posts.
LEMMA PostedOrder ==
    ASSUME ChannelInv, NEW e, EventOk(e), e.type = "posted",
           NEW f, EventOk(f), f.type = "posted", e.upd < f.upd
    PROVE  e.id < f.id
<1>1. /\ e.id \in DOMAIN log /\ f.id \in DOMAIN log
      /\ e.upd = log[e.id].at /\ f.upd = log[f.id].at
  BY DEF EventOk
<1>2. /\ e.id \in Nat /\ f.id \in Nat /\ log[e.id].at \in Nat /\ log[f.id].at \in Nat
  BY <1>1, ChannelFacts DEF ChannelInv, CopiesInv
<1>3. f.id < e.id => log[f.id].at < log[e.id].at
  BY <1>1 DEF ChannelInv, TimesInv
<1> QED
  BY <1>1, <1>2, <1>3

\* What the next event is
LEMMA NextEvent ==
    ASSUME ChannelInv, events # << >>, events' = Tail(events), log' = log, now' = now,
           NEW e, e = Head(events)
    PROVE  /\ EventOk(e) /\ ToSet(events) = ToSet(events') \cup {e}
           /\ \A f \in ToSet(events') : f.type = "posted" /\ e.type = "posted" => e.id < f.id
<1>1. /\ EventsInv' /\ EventOk(e) /\ ToSet(events) = ToSet(events') \cup {e}
      /\ \A f \in ToSet(events') : e.upd < f.upd
  BY EventTaken DEF ChannelInv, CopiesInv
<1>2. \A f \in ToSet(events') : EventOk(f)
  BY <1>1 DEF ChannelInv, CopiesInv, EventsInv
<1> QED
  BY <1>1, <1>2, PostedOrder

\* Lost events leave the queue in order.
LEMMA QueueLess ==
    ASSUME QueueInv, log' = log, NoneForgotten, burst' \in Nat,
           held' # << >> => burst' > BurstLimit /\ timer',
           \A e \in ToSet(held'), f \in ToSet(events') : f.type = "posted" => e.id < f.id,
           \A p \in DOMAIN log : PostedEvent(p) \in Coming' => PostedEvent(p) \in Coming
    PROVE  QueueInv'
<1>1. \A p, q \in DOMAIN log :
           p < q /\ PostedEvent(p) \in Coming' => PostedEvent(q) \in Coming' \cup missed'
  <2> SUFFICES ASSUME NEW p \in DOMAIN log, NEW q \in DOMAIN log, p < q, PostedEvent(p) \in Coming'
               PROVE  PostedEvent(q) \in Coming' \cup missed'
    OBVIOUS
  <2>1. PostedEvent(q) \in Coming \cup missed
    BY DEF QueueInv
  <2> QED
    BY <2>1 DEF NoneForgotten
<1> QED
  BY <1>1 DEF QueueInv

LEMMA ComingNext ==
    ASSUME NEW p
    PROVE  PostedEvent(p) \in Coming' <=>
               \E e \in ToSet(events') \cup ToSet(held') : e.type = "posted" /\ e.id = p
BY NewsIs DEF Coming

LEMMA HoldIs ==
    ASSUME ChannelInv, CopiesInv', events # << >>, events' = Tail(events),
           NEW e, e = Head(events), e.type = "posted", Hold(e), burst > BurstLimit, timer,
           UNCHANGED <<burst, timer, now, log, create, calls, client, told, strayed, denied>>
    PROVE  ChannelInv'
<1>1. /\ stored' = stored /\ blocks' = blocks /\ loaded' = loaded /\ log' = log /\ now' = now
  BY DEF client
<1>2. /\ EventOk(e) /\ ToSet(events) = ToSet(events') \cup {e}
      /\ \A f \in ToSet(events') : f.type = "posted" => e.id < f.id
  BY <1>1, NextEvent
<1>3. /\ held \in Seq(EventType) /\ e \in EventType /\ \A x \in ToSet(held) : x.type = "posted"
      /\ QueueInv
  BY <1>2 DEF ChannelInv, CopiesInv, HeldInv, EventOk
<1>4. \A x \in ToSet(held), f \in ToSet(events') : f.type = "posted" => x.id < f.id
  BY <1>2 DEF ChannelInv, QueueInv
<1>5. /\ \A p : PostedEvent(p) \in Coming <=>
               \E x \in ToSet(events) \cup ToSet(held) : x.type = "posted" /\ x.id = p
      /\ \A p : PostedEvent(p) \in Coming' <=>
               \E x \in ToSet(events') \cup ToSet(held') : x.type = "posted" /\ x.id = p
  BY ComingIs, ComingNext
<1>6. NoneForgotten /\ QueueInv'
  <2>1. CASE held' = Append(held, e) /\ missed' = missed
    <3>1. ToSet(held') = ToSet(held) \cup {e}
      BY <1>3, <2>1, ToSetAppend
    <3>2. \A p : PostedEvent(p) \in Coming' <=> PostedEvent(p) \in Coming
      BY <1>2, <1>5, <3>1
    <3>3. NoneForgotten
      BY <2>1, <3>2 DEF NoneForgotten
    <3>4. \A x \in ToSet(held'), f \in ToSet(events') : f.type = "posted" => x.id < f.id
      BY <1>2, <1>4, <3>1
    <3>5. burst' \in Nat /\ burst' > BurstLimit /\ timer'
      BY <1>3 DEF QueueInv
    <3> QED
      BY <1>1, <1>3, <3>2, <3>3, <3>4, <3>5, QueueLess
  <2>2. CASE held' = << >> /\ missed' = missed \cup News({e} \cup ToSet(held))
    <3>1. ToSet(held') = {}
      BY <2>2 DEF ToSet
    <3>2. \A p : PostedEvent(p) \in News({e} \cup ToSet(held)) <=>
                    \E x \in {e} \cup ToSet(held) : x.type = "posted" /\ x.id = p
      BY NewsIs
    <3>3. NoneForgotten
      BY <1>2, <1>5, <2>2, <3>2 DEF NoneForgotten
    <3>4. \A p : PostedEvent(p) \in Coming' => PostedEvent(p) \in Coming
      BY <1>2, <1>5, <3>1
    <3>5. burst' \in Nat
      BY <1>3 DEF QueueInv
    <3> QED
      BY <1>1, <1>3, <2>2, <3>1, <3>3, <3>4, <3>5, QueueLess
  <2> QED
    BY <2>1, <2>2 DEF Hold
<1>7. KeepsStored(log, stored, stored') /\ Timed(log, create.at, stored')
  BY <1>1 DEF KeepsStored, ChannelInv, TimesInv
<1> QED
  BY <1>1, <1>6, <1>7, EventChannel DEF NoneForgotten

\* The event of a change is taken: what is to be told of posts stays.
LEMMA ChangeTaken ==
    ASSUME ChannelInv, events # << >>, events' = Tail(events), log' = log, now' = now,
           Head(events).type # "posted", held' = held, burst' = burst, timer' = timer,
           missed \subseteq missed'
    PROVE  NoneForgotten /\ QueueInv'
<1>1. PICK e : e = Head(events)
  OBVIOUS
<1>2. /\ EventOk(e) /\ ToSet(events) = ToSet(events') \cup {e} /\ QueueInv
  BY <1>1, NextEvent DEF ChannelInv
<1>3. \A p : PostedEvent(p) \in Coming' <=> PostedEvent(p) \in Coming
  <2>1. /\ \A p : PostedEvent(p) \in Coming <=>
               \E x \in ToSet(events) \cup ToSet(held) : x.type = "posted" /\ x.id = p
        /\ \A p : PostedEvent(p) \in Coming' <=>
               \E x \in ToSet(events') \cup ToSet(held') : x.type = "posted" /\ x.id = p
    BY ComingIs, ComingNext
  <2> QED
    BY <1>1, <1>2, <2>1
<1>4. NoneForgotten
  BY <1>3 DEF NoneForgotten
<1>5. /\ burst' \in Nat /\ (held' # << >> => burst' > BurstLimit /\ timer')
      /\ \A x \in ToSet(held'), f \in ToSet(events') : f.type = "posted" => x.id < f.id
  BY <1>2 DEF QueueInv
<1> QED
  BY <1>2, <1>3, <1>4, <1>5, QueueLess

LEMMA DeletedIs ==
    ASSUME ChannelInv, CopiesInv', events # << >>, events' = Tail(events),
           NEW e, e = Head(events), e.type = "post_deleted", HandleDeleted(e),
           UNCHANGED <<now, log, create, queue, told, strayed, denied>>
    PROVE  ChannelInv'
<1>1. /\ stored' = [stored EXCEPT ![e.id].st = IF @ = "none" THEN @ ELSE "deleted"]
      /\ calls' = calls /\ loaded' = loaded /\ blocks' = blocks /\ missed \subseteq missed'
      /\ held' = held /\ burst' = burst /\ timer' = timer
  BY DEF HandleDeleted, queue
<1>2. NoneForgotten /\ QueueInv'
  BY <1>1, ChangeTaken
<1>3. e.id \in DOMAIN log
  BY NextEvent DEF EventOk
<1>4. stored \in [Ids -> CopyType] /\ e.id \in Ids /\ PendingId # e.id /\ PendingId \in Ids
  BY <1>3, LogFacts DEF ChannelInv, CopiesInv, StoredInv
<1>5. /\ stored'[PendingId] = stored[PendingId]
      /\ \A p \in Ids : stored'[p].at = stored[p].at /\ (Stored(stored', p) <=> Stored(stored, p))
  BY <1>1, <1>4 DEF Stored, CopyType
<1>6. DOMAIN log \subseteq Ids
  BY ChannelFacts DEF ChannelInv, CopiesInv
<1>7. KeepsStored(log, stored, stored') /\ Timed(log, create.at, stored')
  BY <1>4, <1>5, <1>6 DEF KeepsStored, ChannelInv, TimesInv, Timed
<1> QED
  BY <1>1, <1>2, <1>5, <1>7, EventChannel DEF NoneForgotten

\* A version of a post is received.
LEMMA ReceiveIs ==
    ASSUME NEW old, NEW v, NEW t, v.at = t, old.st # "none" => old.at = t,
           NEW differs, NEW next, next = Receive(old, v, differs)
    PROVE  (old.st # "none" => next.st # "none") /\ (next.st # "none" => next.at = t)
<1>1. CASE next = old
  BY <1>1
<1>2. CASE next = [at |-> v.at, upd |-> v.upd, st |-> IF v.deleted THEN "deleted" ELSE "live"]
  BY <1>2
<1> QED
  BY <1>1, <1>2 DEF Receive

LEMMA EditedIs ==
    ASSUME ChannelInv, CopiesInv', events # << >>, events' = Tail(events),
           NEW e, e = Head(events), e.type = "post_edited", HandleEdited(e),
           UNCHANGED <<now, log, create, queue, missed, told, strayed, denied>>
    PROVE  ChannelInv'
<1>0. PICK D : stored' = ReceivePosts(Brought(<<e>>), D)
  BY DEF HandleEdited
<1>1. /\ loaded' = loaded /\ blocks' = blocks
      /\ held' = held /\ burst' = burst /\ timer' = timer
  BY DEF HandleEdited, queue
<1>2. NoneForgotten /\ QueueInv'
  BY <1>1, ChangeTaken
<1>3. e.id \in DOMAIN log
  BY NextEvent DEF EventOk
<1>4. stored \in [Ids -> CopyType] /\ e.id \in Ids /\ PendingId # e.id /\ PendingId \in Ids
  BY <1>3, LogFacts DEF ChannelInv, CopiesInv, StoredInv
<1>5. /\ stored'[PendingId] = stored[PendingId]
      /\ stored'[e.id] = Receive(stored[e.id], Version(e), e.id \in D)
      /\ \A p \in Ids \ {e.id} : stored'[p] = stored[p]
  BY <1>0, <1>4, BroughtOne DEF ReceivePosts
<1>6. DOMAIN log \subseteq Ids
  BY ChannelFacts DEF ChannelInv, CopiesInv
<1>7. /\ Stored(stored, e.id) => Stored(stored', e.id)
      /\ Stored(stored', e.id) => stored'[e.id].at = log[e.id].at
      /\ Stored(stored', e.id)
  <2>1. Version(e).at = log[e.id].at /\ ~Version(e).deleted
    BY DEF Version
  <2>2. stored[e.id].st # "none" => stored[e.id].at = log[e.id].at
    BY <1>3 DEF ChannelInv, TimesInv, Timed, Stored
  <2>3. stored[e.id].st = "none" => stored'[e.id].st = "live"
    BY <1>5, <2>1 DEF Receive, Newer
  <2>4. (Stored(stored, e.id) => Stored(stored', e.id)) /\ (Stored(stored', e.id) => stored'[e.id].at = log[e.id].at)
    BY <1>5, <2>1, <2>2, ReceiveIs DEF Stored
  <2> QED
    BY <2>3, <2>4 DEF Stored
<1>8. KeepsStored(log, stored, stored') /\ Timed(log, create.at, stored')
  BY <1>3, <1>4, <1>5, <1>6, <1>7 DEF KeepsStored, ChannelInv, TimesInv, Timed, Stored
<1>9. \A c \in calls' : c \in calls \/ CallOk(log', stored', c)
  <2>1. CallOk(log', stored', Call("around", e.id, 0))
    BY <1>3, <1>7 DEF CallOk, Call, Linked
  <2>2. calls' \subseteq calls \cup {Call("around", e.id, 0)}
    BY DEF HandleEdited
  <2> QED
    BY <2>1, <2>2
<1> QED
  BY <1>1, <1>2, <1>5, <1>8, <1>9, EventChannel DEF NoneForgotten

LEMMA ReconnectIs == ChannelInv /\ Reconnect => ChannelInv'
<1> SUFFICES ASSUME ChannelInv, Reconnect PROVE ChannelInv'
  OBVIOUS
<1>0. CopiesInv'
  BY ReconnectKeeps DEF ChannelInv
<1>1. UNCHANGED <<now, log, create, blocks, loaded, told, strayed, denied, held, burst, timer, stored>>
  BY DEF Reconnect, client, queue
<1>2. \A c \in calls' : c \in calls \/ CallOk(log, stored, c)
  <2>1. PICK c : /\ \/ \E newest : c = SyncPostsInChannel(newest)
                    \/ c = [Call("latest", PendingId, 0) EXCEPT !.time = 0]
                 /\ calls' = calls \cup {c}
    BY DEF Reconnect
  <2>2. c.page = NoPage /\ c.kind \notin {"after", "before", "around"}
    BY <2>1 DEF SyncPostsInChannel, Call
  <2> QED
    BY <2>1, <2>2 DEF CallOk, Linked
<1>3. /\ \A p : PostedEvent(p) \in Coming <=>
             \E x \in ToSet(events) \cup ToSet(held) : x.type = "posted" /\ x.id = p
      /\ \A p : PostedEvent(p) \in Coming' <=>
             \E x \in ToSet(events') \cup ToSet(held') : x.type = "posted" /\ x.id = p
  BY ComingIs, ComingNext
<1>4. /\ NoneForgotten /\ ToSet(events') \subseteq ToSet(events)
  <2>1. CASE events' = events /\ missed' = missed
    BY <1>1, <1>3, <2>1 DEF NoneForgotten
  <2>2. CASE events' = << >> /\ missed' = missed \cup News(ToSet(events))
    <3>1. ToSet(events') = {}
      BY <2>2 DEF ToSet
    <3>2. \A p : PostedEvent(p) \in News(ToSet(events)) <=>
                    \E x \in ToSet(events) : x.type = "posted" /\ x.id = p
      BY NewsIs
    <3> QED
      BY <1>1, <1>3, <2>2, <3>1, <3>2 DEF NoneForgotten
  <2> QED
    BY <2>1, <2>2 DEF Reconnect
<1>5. QueueInv'
  <2>1. /\ QueueInv /\ burst' \in Nat /\ (held' # << >> => burst' > BurstLimit /\ timer')
        /\ \A x \in ToSet(held'), f \in ToSet(events') : f.type = "posted" => x.id < f.id
    BY <1>1, <1>4 DEF ChannelInv, QueueInv
  <2>2. \A p : PostedEvent(p) \in Coming' => PostedEvent(p) \in Coming
    BY <1>1, <1>3, <1>4
  <2> QED
    BY <1>1, <1>4, <2>1, <2>2, QueueLess
<1>6. KeepsStored(log, stored, stored') /\ Timed(log, create.at, stored')
  BY <1>1 DEF KeepsStored, ChannelInv, TimesInv
<1> QED
  BY <1>0, <1>1, <1>2, <1>4, <1>5, <1>6, EventChannel DEF NoneForgotten

LEMMA ResetIs == ChannelInv /\ ResetChannel => ChannelInv'
<1> SUFFICES ASSUME ChannelInv, ResetChannel PROVE ChannelInv'
  OBVIOUS
<1>1. /\ loaded' = FALSE /\ blocks' = << >> /\ told' = {} /\ strayed' = FALSE
      /\ UNCHANGED <<now, log, events, calls, create, stored, held, burst, timer, missed>>
  BY DEF ResetChannel, queue
<1>2. CopiesInv'
  BY ResetKeeps DEF ChannelInv
<1>3. Coming' = Coming
  BY <1>1 DEF Coming
<1>4. TimesInv' /\ RequestInv' /\ QueueInv' /\ PagesInv'
  BY <1>1, <1>3 DEF ChannelInv, TimesInv, RequestInv, QueueInv, PagesInv
<1>5. ToldInv' /\ CoveredInv' /\ StraysInv' /\ FailedInv'
  BY <1>1, EmptyBlocks DEF ToldInv, CoveredInv, StraysInv, FailedInv
<1>6. BlocksInv'
  BY <1>1, EmptyBlocks DEF BlocksInv
<1> QED
  BY <1>2, <1>4, <1>5, <1>6 DEF ChannelInv

-----------------------------------------------------------------------------
\* New posts come.

\* One more event of a post
OneAdded(done, e, posts) ==
    IF ~done.ok THEN done ELSE ReceivedNewPost(done.blocks, e.id, log[e.id].own, posts)

LEMMA AddedIs ==
    ASSUME NEW batch, NEW posts, Len(batch) \in Nat
    PROVE  Added(batch, posts) = [k \in 0 .. Len(batch) |->
               IF k = 0 THEN Ok(blocks) ELSE OneAdded(Added(batch, posts)[k - 1], batch[k], posts)]
<1> DEFINE n == Len(batch)
           Step(g, k) == IF k = 0 THEN Ok(blocks) ELSE OneAdded(g[k - 1], batch[k], posts)
           K == {k \in 0 .. n : \E g : g = [j \in 0 .. k |-> Step(g, j)]}
<1>1. 0 \in K
  <2> DEFINE g == [j \in 0 .. 0 |-> Ok(blocks)]
  <2>1. g = [j \in 0 .. 0 |-> Step(g, j)]
    OBVIOUS
  <2>2. \E e : e = [j \in 0 .. 0 |-> Step(e, j)]
    BY <2>1
  <2>3. 0 \in 0 .. n
    OBVIOUS
  <2> HIDE DEF Step
  <2> QED
    BY <2>2, <2>3
<1>2. ASSUME NEW k \in 0 .. n, k \in K, k < n PROVE k + 1 \in K
  <2>1. PICK g : g = [j \in 0 .. k |-> Step(g, j)]
    BY <1>2
  <2> DEFINE next == OneAdded(g[k], batch[k + 1], posts)
             h == [j \in 0 .. k + 1 |-> IF j = k + 1 THEN next ELSE g[j]]
  <2>2. ASSUME NEW j \in 0 .. k + 1 PROVE h[j] = Step(h, j)
    <3>1. CASE j = k + 1
      <4>1. h[j] = next /\ h[j - 1] = g[k] /\ j # 0
        BY <3>1
      <4> QED
        BY <3>1, <4>1
    <3>2. CASE j # k + 1
      <4>1. j \in 0 .. k /\ h[j] = g[j]
        BY <3>2
      <4>2. j # 0 => h[j - 1] = g[j - 1]
        BY <4>1
      <4>3. g[j] = Step(g, j)
        BY <2>1, <4>1
      <4> HIDE DEF h
      <4> QED
        BY <4>1, <4>2, <4>3
    <3> QED
      BY <3>1, <3>2
  <2> DEFINE f == [j \in 0 .. k + 1 |-> Step(h, j)]
  <2>3. h = f
    <3>1. DOMAIN h = 0 .. k + 1 /\ DOMAIN f = 0 .. k + 1
      OBVIOUS
    <3>2. \A j \in 0 .. k + 1 : h[j] = f[j]
      BY <2>2
    <3>3. h = [j \in 0 .. k + 1 |-> h[j]] /\ f = [j \in 0 .. k + 1 |-> f[j]]
      OBVIOUS
    <3> HIDE DEF h, f
    <3> QED
      BY <3>1, <3>2, <3>3
  <2>4. k + 1 \in 0 .. n
    BY <1>2
  <2>5. \E e : e = [j \in 0 .. k + 1 |-> Step(e, j)]
    BY <2>3
  <2> HIDE DEF Step
  <2> QED
    BY <2>4, <2>5
<1>3. n \in K
  <2>1. n \in Nat /\ n \in 0 .. n
    OBVIOUS
  <2> HIDE DEF K, n
  <2>2. \A k \in 0 .. n : k \in K
    BY <1>1, <1>2, <2>1, UpTo
  <2> QED
    BY <2>1, <2>2
<1>4. PICK g : g = [j \in 0 .. n |-> Step(g, j)]
  BY <1>3
<1> QED
  BY <1>4, Zenon DEF Added, OneAdded

\* What the blocks t show, after new posts came to the blocks s
NewShown(t, s, ids, own) ==
    /\ Shows(t) \subseteq Shows(s) \cup ids
    /\ (Shows(s) \cup ids) \ {PendingId} \subseteq Shows(t)
    /\ ToSet(RecentOrder(t)) \subseteq ToSet(RecentOrder(s)) \cup ids
    /\ own => PendingId \notin ToSet(RecentOrder(t))
    /\ StraysIn(t) => StraysIn(s)

LEMMA OneMoreShown ==
    ASSUME NEW s, NEW t, NEW u, NEW ids, NEW own, NewShown(t, s, ids, own),
           NEW id, id # PendingId, NEW o, ShowsNew(u, t, id, o),
           NEW more, more = ids \cup {id}, NEW either, either => own \/ o
    PROVE  NewShown(u, s, more, either)
<1>1. PICK A, B, C, D, E, F : /\ A = Shows(s) /\ B = Shows(t) /\ C = Shows(u)
                              /\ D = ToSet(RecentOrder(s)) /\ E = ToSet(RecentOrder(t))
                              /\ F = ToSet(RecentOrder(u))
  OBVIOUS
<1>2. /\ B \subseteq A \cup ids /\ (A \cup ids) \ {PendingId} \subseteq B
      /\ E \subseteq D \cup ids /\ (own => PendingId \notin E) /\ (StraysIn(t) => StraysIn(s))
  BY <1>1 DEF NewShown
<1>3. /\ C \subseteq B \cup {id} /\ (B \cup {id}) \ {PendingId} \subseteq C
      /\ F \subseteq E \cup {id} /\ (o => PendingId \notin F) /\ (StraysIn(u) => StraysIn(t))
  BY <1>1 DEF ShowsNew
<1>4. /\ C \subseteq A \cup more /\ (A \cup more) \ {PendingId} \subseteq C
      /\ F \subseteq D \cup more /\ (either => PendingId \notin F) /\ (StraysIn(u) => StraysIn(s))
  BY <1>2, <1>3
<1> QED
  BY <1>1, <1>4 DEF NewShown

BatchIds(batch, k) == {batch[j].id : j \in 1 .. k}
OwnAmong(batch, k) == \E j \in 1 .. k : log[batch[j].id].own
AddedOk(r, v, ids, own) ==
    r.ok = TRUE /\ AllSound(r.blocks, v) /\ EmptyIsRecent(r.blocks) /\ NewShown(r.blocks, blocks, ids, own)

LEMMA AddedSound ==
    ASSUME NEW v, IsView(v), NEW posts, Agrees(posts, v), PendingId \notin v.own,
           AllButPending(v, posts), AllSound(blocks, v), EmptyIsRecent(blocks),
           NEW batch, NEW n, n = Len(batch), n \in Nat,
           \A j \in 1 .. n : batch[j].id \in v.has /\ batch[j].id # PendingId /\ Tops(batch[j].id, v)
    PROVE  AddedOk(Added(batch, posts)[n], v, BatchIds(batch, n), OwnAmong(batch, n))
<1>0. PICK f : f = Added(batch, posts)
  OBVIOUS
<1>1. /\ f[0] = Ok(blocks)
      /\ \A k \in 1 .. n : f[k] = OneAdded(f[k - 1], batch[k], posts)
  <2>1. f = [k \in 0 .. n |-> IF k = 0 THEN Ok(blocks) ELSE OneAdded(f[k - 1], batch[k], posts)]
    BY <1>0, AddedIs
  <2> QED
    BY <2>1
<1> DEFINE K == {k \in 0 .. n : AddedOk(f[k], v, BatchIds(batch, k), OwnAmong(batch, k))}
<1>2. 0 \in K
  <2>1. BatchIds(batch, 0) = {} /\ ~OwnAmong(batch, 0)
    BY DEF BatchIds, OwnAmong
  <2>2. PICK ids, own : ids = BatchIds(batch, 0) /\ own = OwnAmong(batch, 0)
    OBVIOUS
  <2>3. NewShown(blocks, blocks, ids, own)
    BY <2>1, <2>2 DEF NewShown
  <2>4. f[0].ok = TRUE /\ f[0].blocks = blocks
    BY <1>1, OkIs
  <2>5. AddedOk(f[0], v, ids, own)
    BY <2>3, <2>4 DEF AddedOk
  <2> QED
    BY <2>2, <2>5
<1>3. ASSUME NEW k \in 0 .. n, k \in K, k < n PROVE k + 1 \in K
  <2>1. PICK done, e, r : done = f[k] /\ e = batch[k + 1] /\ r = f[k + 1]
    OBVIOUS
  <2>2. PICK ids, own : ids = BatchIds(batch, k) /\ own = OwnAmong(batch, k)
    OBVIOUS
  <2>3. PICK o : o = log[e.id].own
    OBVIOUS
  <2>4. /\ done.ok = TRUE /\ AllSound(done.blocks, v) /\ EmptyIsRecent(done.blocks)
        /\ NewShown(done.blocks, blocks, ids, own)
    BY <1>3, <2>1, <2>2 DEF AddedOk
  <2>5. k + 1 \in 1 .. n /\ k + 1 - 1 = k
    BY <1>3
  <2>6. r = ReceivedNewPost(done.blocks, e.id, o, posts)
    BY <1>1, <2>1, <2>3, <2>4, <2>5 DEF OneAdded
  <2>7. e.id \in v.has /\ e.id # PendingId /\ Tops(e.id, v)
    BY <2>1, <2>5
  <2>8. /\ r.ok = TRUE /\ AllSound(r.blocks, v) /\ EmptyIsRecent(r.blocks)
        /\ ShowsNew(r.blocks, done.blocks, e.id, o)
    BY <2>4, <2>6, <2>7, NewPostIsSound
  <2>9. PICK more, either : more = BatchIds(batch, k + 1) /\ either = OwnAmong(batch, k + 1)
    OBVIOUS
  <2>10. 1 .. k + 1 = (1 .. k) \cup {k + 1}
    BY <1>3
  <2>11. more = ids \cup {e.id}
    <3>1. more = {batch[j].id : j \in (1 .. k) \cup {k + 1}}
      BY <2>9, <2>10 DEF BatchIds
    <3> QED
      BY <2>1, <2>2, <3>1 DEF BatchIds
  <2>12. either => own \/ o
    <3>1. either <=> \E j \in (1 .. k) \cup {k + 1} : log[batch[j].id].own
      BY <2>9, <2>10 DEF OwnAmong
    <3> QED
      BY <2>1, <2>2, <2>3, <3>1 DEF OwnAmong
  <2>13. NewShown(r.blocks, blocks, more, either)
    BY <2>4, <2>7, <2>8, <2>11, <2>12, OneMoreShown
  <2>14. AddedOk(r, v, more, either)
    BY <2>8, <2>13 DEF AddedOk
  <2>15. k + 1 \in 0 .. n
    BY <1>3
  <2> QED
    BY <2>1, <2>9, <2>14, <2>15
<1>4. \A k \in 0 .. n : k \in K
  <2> HIDE DEF K
  <2> QED
    BY <1>2, <1>3, UpTo
<1>5. n \in 0 .. n
  OBVIOUS
<1> QED
  BY <1>0, <1>4, <1>5

\* Received posts are stored under their times.
LEMMA ReceivedStore ==
    ASSUME CopiesInv, TimesInv, NEW posts, DOMAIN posts \subseteq DOMAIN log,
           \A p \in DOMAIN posts : posts[p] \in Versions(p) /\ posts[p].at = log[p].at,
           NEW D, NEW next, next = ReceivePosts(posts, D)
    PROVE  /\ next \in [Ids -> CopyType] /\ next[PendingId] = stored[PendingId]
           /\ Timed(log, create.at, next) /\ KeepsStored(log, stored, next)
           /\ \A p \in DOMAIN posts : ~posts[p].deleted => Stored(next, p)
<1>1. next \in [Ids -> CopyType]
  BY ReceivePostsKeeps
<1>2. DOMAIN log \subseteq Ids /\ PendingId \in Ids /\ PendingId \notin DOMAIN log
  BY LogFacts DEF CopiesInv
<1>3. \A id \in Ids : next[id] = IF id \in DOMAIN posts THEN Receive(stored[id], posts[id], id \in D)
                                ELSE stored[id]
  BY DEF ReceivePosts
<1>4. next[PendingId] = stored[PendingId]
  BY <1>2, <1>3
<1>5. ASSUME NEW p \in DOMAIN log
      PROVE  /\ Stored(stored, p) => Stored(next, p)
             /\ Stored(next, p) => next[p].at = log[p].at
  <2>1. Stored(stored, p) => stored[p].at = log[p].at
    BY DEF TimesInv, Timed
  <2>2. CASE p \in DOMAIN posts
    <3>1. next[p] = Receive(stored[p], posts[p], p \in D) /\ posts[p].at = log[p].at
      BY <1>2, <1>3, <2>2
    <3> QED
      BY <2>1, <3>1, ReceiveIs DEF Stored
  <2>3. CASE p \notin DOMAIN posts
    BY <1>2, <1>3, <2>1, <2>3 DEF Stored
  <2> QED
    BY <2>2, <2>3
<1>6. Timed(log, create.at, next)
  BY <1>4, <1>5 DEF Timed, TimesInv, Stored
<1>7. ASSUME NEW p \in DOMAIN posts, ~posts[p].deleted PROVE Stored(next, p)
  <2>1. next[p] = Receive(stored[p], posts[p], p \in D)
    BY <1>2, <1>3
  <2>2. stored[p].st = "none" => next[p].st = "live"
    BY <1>7, <2>1 DEF Receive, Newer
  <2>3. Stored(stored, p) => Stored(next, p)
    BY <1>5
  <2> QED
    BY <2>2, <2>3 DEF Stored
<1> QED
  BY <1>1, <1>4, <1>5, <1>6, <1>7 DEF KeepsStored

\* The store after a batch of events of posts
CreatedIn(batch, D) ==
    \E p \in DOMAIN Brought(batch) : log[p].own /\ Newer(stored[p], Brought(batch)[p].upd, p \in D)
NewBatch(batch) ==
    batch \in Seq(EventType) /\ \A e \in ToSet(batch) : EventOk(e) /\ e.type = "posted"

LEMMA NewStoreIs ==
    ASSUME CopiesInv, TimesInv, NEW batch, NewBatch(batch), NEW D, NEW next, next = BatchPosts(batch, D)
    PROVE  /\ next \in [Ids -> CopyType]
           /\ Timed(log, create.at, next) /\ KeepsStored(log, stored, next)
           /\ \A e \in ToSet(batch) : e.id \in DOMAIN log /\ Stored(next, e.id)
           /\ next[PendingId] = stored[PendingId] \/ \E e \in ToSet(batch) : log[e.id].own
<1>1. PICK new, got : new = Brought(batch) /\ got = ReceivePosts(new, D)
  OBVIOUS
<1>2. DOMAIN new = {e.id : e \in ToSet(batch)}
  BY <1>1 DEF Brought
<1>3. ASSUME NEW p \in DOMAIN new
      PROVE  /\ p \in DOMAIN log /\ new[p] \in Versions(p) /\ new[p].at = log[p].at
             /\ ~new[p].deleted
  <2>1. PICK e : e = CHOOSE x \in ToSet(batch) : x.id = p
    OBVIOUS
  <2>2. e \in ToSet(batch) /\ e.id = p
    BY <1>2, <2>1
  <2>3. new[p] = Version(e)
    BY <1>1, <1>2, <2>1 DEF Brought
  <2>4. p \in DOMAIN log /\ new[p] = Original(p)
    BY <2>2, <2>3 DEF NewBatch, EventOk, Version, Original
  <2> QED
    BY <2>4 DEF Versions, Original
<1>4. /\ got \in [Ids -> CopyType] /\ got[PendingId] = stored[PendingId]
      /\ Timed(log, create.at, got) /\ KeepsStored(log, stored, got)
      /\ \A p \in DOMAIN new : Stored(got, p)
  BY <1>1, <1>3, ReceivedStore
<1>5. NoPost \in CopyType /\ NoPost.st = "none"
  BY DEF NoPost, CopyType
<1>6. PendingId \in Ids /\ PendingId \notin DOMAIN log /\ DOMAIN log \subseteq Ids
  BY LogFacts DEF CopiesInv
<1>7. /\ next \in [Ids -> CopyType] /\ \A id \in Ids \ {PendingId} : next[id] = got[id]
      /\ next[PendingId] = IF CreatedIn(batch, D) THEN NoPost ELSE got[PendingId]
  <2>1. next = [got EXCEPT ![PendingId] = IF CreatedIn(batch, D) THEN NoPost ELSE @]
    BY <1>1 DEF BatchPosts, CreatedIn
  <2> QED
    BY <1>4, <1>5, <1>6, <2>1
<1>8. Timed(log, create.at, next) /\ KeepsStored(log, stored, next)
  BY <1>4, <1>5, <1>6, <1>7 DEF Timed, KeepsStored, Stored
<1>9. \A e \in ToSet(batch) : e.id \in DOMAIN log /\ Stored(next, e.id)
  BY <1>2, <1>3, <1>4, <1>6, <1>7 DEF Stored
<1>10. next[PendingId] = stored[PendingId] \/ \E e \in ToSet(batch) : log[e.id].own
  BY <1>1, <1>2, <1>4, <1>7 DEF CreatedIn
<1> QED
  BY <1>7, <1>8, <1>9, <1>10

\* What is to be told, but for the blocks
Untaken(l, coming, lost, pages, den) ==
    {p \in DOMAIN l : \/ PostedEvent(p) \in coming
                      \/ PostedEvent(p) \in lost /\ p \notin pages
                      \/ l[p].hidden \/ p \in den}

LEMMA ReckonedIs ==
    ASSUME NEW l, NEW coming, NEW lost, NEW pages, NEW bs, NEW den
    PROVE  Reckoned(l, coming, lost, pages, bs, den)
               = Untaken(l, coming, lost, pages, den) \cup (DOMAIN l \cap Shows(bs))
BY DEF Reckoned, Untaken

LEMMA AccountedIs ==
    /\ Accounted = Untaken(log, Coming, missed, told, denied) \cup (DOMAIN log \cap Shows(blocks))
    /\ Accounted' = Untaken(log', Coming', missed', told', denied')
                        \cup (DOMAIN log' \cap Shows(blocks'))
BY ReckonedIs DEF Accounted

\* A batch is told before the rest of the events.
Before(batch, rest) ==
    /\ ToSet(events) \cup ToSet(held) = rest \cup ToSet(batch)
    /\ \A e \in ToSet(batch), f \in rest : f.type = "posted" => e.id < f.id
IdsOf(batch) == {e.id : e \in ToSet(batch)}

LEMMA RestIs ==
    ASSUME NEW batch, NewBatch(batch), NEW rest, Before(batch, rest)
    PROVE  /\ \A p : PostedEvent(p) \in Coming <=> PostedEvent(p) \in News(rest) \/ p \in IdsOf(batch)
           /\ \A p, q : p \in IdsOf(batch) /\ PostedEvent(q) \in News(rest) => p < q
<1>1. /\ \A p : PostedEvent(p) \in Coming <=>
             \E x \in ToSet(events) \cup ToSet(held) : x.type = "posted" /\ x.id = p
      /\ \A p : PostedEvent(p) \in News(rest) <=> \E x \in rest : x.type = "posted" /\ x.id = p
  BY ComingIs, NewsIs
<1>2. \A p : p \in IdsOf(batch) <=> \E x \in ToSet(batch) : x.type = "posted" /\ x.id = p
  BY DEF NewBatch, IdsOf
<1> QED
  BY <1>1, <1>2 DEF Before, IdsOf

\* New posts come on top of the blocks: whatever is newer is still to be told.
LEMMA BatchAdded ==
    ASSUME ChannelInv, NEW batch, NewBatch(batch), NEW rest, Before(batch, rest),
           NEW D, NEW posts, posts = BatchPosts(batch, D),
           NEW S, S = Untaken(log, News(rest), missed, told, denied)
                          \cup (DOMAIN log \cap Shows(blocks)) \cup IdsOf(batch)
    PROVE  AddedOk(Added(batch, posts)[Len(batch)], View(log, create.at, posts, S),
                   IdsOf(batch), OwnAmong(batch, Len(batch)))
<1>0. /\ LogInv /\ CopiesInv /\ TimesInv /\ CreateInv /\ BlocksInv /\ QueueInv /\ ToldInv
  BY DEF ChannelInv, CopiesInv
<1>f. /\ log \in Seq(PostType) /\ DOMAIN log \subseteq Ids /\ LiveOf(log) \subseteq DOMAIN log
      /\ PendingId \notin DOMAIN log /\ Continues(log, log) /\ create.at \in Nat
      /\ \A p \in DOMAIN log : log[p].at \in Nat /\ p \in Nat
  BY <1>0, ChannelFacts DEF CreateInv
<1>2. /\ posts \in [Ids -> CopyType]
      /\ Timed(log, create.at, posts) /\ KeepsStored(log, stored, posts)
      /\ \A e \in ToSet(batch) : e.id \in DOMAIN log /\ Stored(posts, e.id)
  BY <1>0, NewStoreIs
<1>3. PICK ids : ids = IdsOf(batch)
  OBVIOUS
<1>4. ids \subseteq DOMAIN log /\ PendingId \notin ids
  BY <1>2, <1>3, <1>f DEF IdsOf
<1>5. \A p : PostedEvent(p) \in Coming <=> PostedEvent(p) \in News(rest) \/ p \in ids
  BY <1>3, RestIs
<1>6. PICK v : v = View(log, create.at, posts, S)
  OBVIOUS
<1>7. PICK before : before = Accounted
  OBVIOUS
<1>8. \A p \in before : p \in S
  BY <1>3, <1>5, <1>7, AccountedIs DEF Untaken
<1>9. AllSound(blocks, v) /\ EmptyIsRecent(blocks)
  <2>1. AllSound(blocks, View(log, create.at, stored, before)) /\ EmptyIsRecent(blocks)
    BY <1>0, <1>7 DEF BlocksInv
  <2>2. Continues(log, log) /\ StillSure(log, before, log, S)
    BY <1>f, <1>8 DEF StillSure
  <2> QED
    BY <1>2, <1>6, <2>1, <2>2, Reviewed
<1>10. /\ IsView(v) /\ AllButPending(v, posts) /\ Agrees(posts, v) /\ PendingId \notin v.own
       /\ v.has = KeptOf(log, posts) /\ v.live = LiveOf(log) /\ v.sure = S
       /\ \A p \in DOMAIN log : v.at[p] = log[p].at
  <2>1. IsView(v) /\ AllButPending(v, posts) /\ PendingId \notin OwnOf(log)
    BY <1>f, <1>6, ViewIs
  <2>2. Agrees(posts, v)
    BY <1>2, <1>f, <1>6, AgreesIs
  <2>3. \A p \in DOMAIN log : AtOf(log, create.at)[p] = log[p].at
    BY <1>f, AtIs
  <2> QED
    BY <1>6, <2>1, <2>2, <2>3 DEF View
<1>11. PICK n : n = Len(batch)
  OBVIOUS
<1>12. n \in Nat /\ DOMAIN batch = 1 .. n /\ \A x : x \in ToSet(batch) <=> \E j \in 1 .. n : batch[j] = x
  BY <1>11, SeqFacts DEF NewBatch
<1>13. ASSUME NEW p \in ids PROVE Tops(p, v)
  <2> SUFFICES ASSUME NEW q \in LiveOf(log), v.at[p] <= v.at[q] PROVE q \in S
    BY <1>10 DEF Tops
  <2>1. p \in DOMAIN log /\ q \in DOMAIN log
    BY <1>4, <1>f
  <2>2. p = q \/ p < q
    <3>1. log[p].at <= log[q].at
      BY <1>10, <2>1
    <3>2. q < p => log[q].at < log[p].at
      BY <1>0, <2>1 DEF TimesInv
    <3> QED
      BY <1>f, <2>1, <3>1, <3>2
  <2>3. CASE p < q
    <3>1. PostedEvent(q) \in Coming \cup missed
      BY <1>0, <1>5, <2>1, <2>3 DEF QueueInv
    <3>2. q \in told => q \in Shows(blocks)
      BY <1>0 DEF ToldInv
    <3> QED
      BY <1>3, <1>5, <2>1, <3>1, <3>2 DEF Untaken
  <2> QED
    BY <1>3, <2>2, <2>3
<1>14. \A j \in 1 .. n : batch[j].id \in v.has /\ batch[j].id # PendingId /\ Tops(batch[j].id, v)
  <2> SUFFICES ASSUME NEW j \in 1 .. n
               PROVE batch[j].id \in v.has /\ batch[j].id # PendingId /\ Tops(batch[j].id, v)
    OBVIOUS
  <2>1. batch[j] \in ToSet(batch)
    BY <1>12
  <2>2. batch[j].id \in ids
    BY <1>3, <2>1 DEF IdsOf
  <2>3. batch[j].id \in DOMAIN log /\ Stored(posts, batch[j].id)
    BY <1>2, <2>1
  <2> QED
    BY <1>4, <1>10, <1>13, <2>2, <2>3 DEF KeptOf
<1>15. AddedOk(Added(batch, posts)[n], v, BatchIds(batch, n), OwnAmong(batch, n))
  BY <1>9, <1>10, <1>11, <1>12, <1>14, AddedSound
<1>16. BatchIds(batch, n) = ids
  BY <1>3, <1>12 DEF BatchIds, IdsOf
<1> QED
  BY <1>3, <1>6, <1>11, <1>15, <1>16

\* So a batch does not throw.
LEMMA BatchIsOk ==
    ASSUME ChannelInv, NEW batch, NewBatch(batch), NEW rest, Before(batch, rest), NEW D
    PROVE  BatchResult(batch, D).ok = TRUE
<1>1. CASE loaded
  <2>1. AddedOk(Added(batch, BatchPosts(batch, D))[Len(batch)],
                View(log, create.at, BatchPosts(batch, D),
                     Untaken(log, News(rest), missed, told, denied)
                          \cup (DOMAIN log \cap Shows(blocks)) \cup IdsOf(batch)),
                IdsOf(batch), OwnAmong(batch, Len(batch)))
    BY BatchAdded
  <2> QED
    BY <1>1, <2>1 DEF BatchResult, AddedOk
<1>2. CASE ~loaded
  BY <1>2 DEF BatchResult, Ok
<1> QED
  BY <1>1, <1>2

LEMMA NewPostsChannel ==
    ASSUME ChannelInv, CopiesInv', NEW batch, NewBatch(batch), NEW D, NewPosts(batch, D),
           UNCHANGED <<now, log, create, calls, missed, told, strayed, denied>>,
           burst' \in Nat, held' = << >>, Before(batch, ToSet(events'))
    PROVE  ChannelInv'
<1>0. /\ LogInv /\ CopiesInv /\ TimesInv /\ CreateInv /\ BlocksInv /\ QueueInv /\ ToldInv
      /\ LogInv'
  BY DEF ChannelInv, CopiesInv
<1>f. /\ log \in Seq(PostType) /\ DOMAIN log \subseteq Ids /\ LiveOf(log) \subseteq DOMAIN log
      /\ PendingId \notin DOMAIN log /\ Continues(log, log') /\ create.at \in Nat
      /\ \A p \in DOMAIN log : log[p].at \in Nat /\ p \in Nat
  BY <1>0, ChannelFacts DEF CreateInv
<1>1. PICK posts : posts = BatchPosts(batch, D)
  OBVIOUS
<1>2. /\ posts \in [Ids -> CopyType]
      /\ Timed(log, create.at, posts) /\ KeepsStored(log, stored, posts)
      /\ \A e \in ToSet(batch) : e.id \in DOMAIN log /\ Stored(posts, e.id)
      /\ posts[PendingId] = stored[PendingId] \/ \E e \in ToSet(batch) : log[e.id].own
  BY <1>0, <1>1, NewStoreIs
<1>3. PICK ids : ids = IdsOf(batch)
  OBVIOUS
<1>4. ids \subseteq DOMAIN log /\ PendingId \notin ids
  BY <1>2, <1>3, <1>f DEF IdsOf
<1>c. Coming' = News(ToSet(events'))
  <2>1. ToSet(held') = {}
    BY DEF ToSet
  <2>2. ToSet(events') \cup ToSet(held') = ToSet(events')
    BY <2>1
  <2> QED
    BY <2>2 DEF Coming
<1>5. /\ \A p : PostedEvent(p) \in Coming <=> PostedEvent(p) \in Coming' \/ p \in ids
      /\ \A p, q : p \in ids /\ PostedEvent(q) \in Coming' => p < q
  BY <1>3, <1>c, RestIs
<1>7. QueueInv'
  <2>1. \A p, q \in DOMAIN log :
           p < q /\ PostedEvent(p) \in Coming' => PostedEvent(q) \in Coming' \cup missed
    <3> SUFFICES ASSUME NEW p \in DOMAIN log, NEW q \in DOMAIN log, p < q, PostedEvent(p) \in Coming'
                 PROVE  PostedEvent(q) \in Coming' \cup missed
      OBVIOUS
    <3>1. PostedEvent(q) \in Coming \cup missed
      BY <1>0, <1>5 DEF QueueInv
    <3>2. q \notin ids
      <4>1. q \in ids => q < p
        BY <1>5
      <4> QED
        BY <1>f, <4>1
    <3> QED
      BY <1>5, <3>1, <3>2
  <2>2. ToSet(held') = {}
    BY DEF ToSet
  <2> QED
    BY <2>1, <2>2 DEF QueueInv
<1>k. Dispatch(posts, BatchResult(batch, D), loaded) /\ BatchResult(batch, D).ok = TRUE
  BY <1>1, BatchIsOk DEF NewPosts
<1>s. /\ stored' = posts /\ blocks' = BatchResult(batch, D).blocks
      /\ loaded' = (loaded \/ BatchResult(batch, D).blocks # << >>)
  BY <1>k DEF Dispatch
<1>8. PagesInv' /\ RequestInv' /\ TimesInv'
  <2>1. KeepsStored(log, stored, stored')
    BY <1>2, <1>s
  <2>2. PagesInv'
    BY <1>0, <1>f, <2>1, PagesKept DEF ChannelInv
  <2> QED
    BY <1>2, <1>s, <2>2 DEF ChannelInv, TimesInv, RequestInv
<1>9. CASE ~loaded
  <2>1. blocks = << >>
    BY <1>0, <1>9 DEF BlocksInv
  <2>2. blocks' = << >>
    BY <1>9, <1>s, <2>1 DEF BatchResult, Ok
  <2>3. told \cap LiveOf(log) = {}
    BY <1>0, <2>1, EmptyBlocks DEF ToldInv
  <2>4. ToldInv' /\ CoveredInv' /\ StraysInv' /\ FailedInv' /\ BlocksInv'
    BY <1>0, <2>2, <2>3, EmptyBlocks DEF ToldInv, CoveredInv, StraysInv, FailedInv, BlocksInv
  <2> QED
    BY <1>7, <1>8, <2>4 DEF ChannelInv
<1>10. CASE loaded
  <2>1. PICK S : S = Untaken(log, Coming', missed, told, denied) \cup (DOMAIN log \cap Shows(blocks)) \cup ids
    OBVIOUS
  <2>2. PICK v : v = View(log, create.at, posts, S)
    OBVIOUS
  <2>3. PICK before, after : before = Accounted /\ after = Accounted'
    OBVIOUS
  <2>4. \A p \in before : p \in S
    BY <1>5, <2>1, <2>3, AccountedIs DEF Untaken
  <2>5. PICK n : n = Len(batch)
    OBVIOUS
  <2>6. n \in Nat /\ DOMAIN batch = 1 .. n /\ \A x : x \in ToSet(batch) <=> \E j \in 1 .. n : batch[j] = x
    BY <2>5, SeqFacts DEF NewBatch
  <2>7. PICK r, bs : r = Added(batch, posts)[n] /\ bs = r.blocks
    OBVIOUS
  <2>8. AddedOk(r, v, ids, OwnAmong(batch, n))
    BY <1>1, <1>3, <1>c, <2>1, <2>2, <2>5, <2>7, BatchAdded
  <2>9. (\E e \in ToSet(batch) : log[e.id].own) => OwnAmong(batch, n)
    BY <2>6 DEF OwnAmong
  <2>10. /\ AllSound(bs, v) /\ EmptyIsRecent(bs)
         /\ Shows(bs) \subseteq Shows(blocks) \cup ids
         /\ (Shows(blocks) \cup ids) \ {PendingId} \subseteq Shows(bs)
         /\ ToSet(RecentOrder(bs)) \subseteq ToSet(RecentOrder(blocks)) \cup ids
         /\ OwnAmong(batch, n) => PendingId \notin ToSet(RecentOrder(bs))
         /\ StraysIn(bs) => StraysIn(blocks)
    BY <2>7, <2>8 DEF AddedOk, NewShown
  <2>11. blocks' = bs /\ loaded' = TRUE
    BY <1>1, <1>10, <1>s, <2>5, <2>7 DEF BatchResult
  <2>12. \A p \in S : p \in after
    BY <1>4, <1>f, <2>1, <2>3, <2>10, <2>11, AccountedIs
  <2>13. BlocksInv'
    <3>1. StillSure(log, S, log, after) /\ Continues(log, log) /\ KeepsStored(log, posts, posts)
      BY <1>f, <2>12 DEF StillSure, KeepsStored
    <3>2. AllSound(bs, View(log, create.at, posts, after))
      BY <2>2, <2>10, <3>1, Reviewed
    <3> QED
      BY <1>s, <2>3, <2>10, <2>11, <3>2 DEF BlocksInv
  <2>14. ToldInv'
    BY <1>0, <1>f, <2>10, <2>11 DEF ToldInv
  <2>15. CoveredInv'
    <3> SUFFICES ASSUME PendingId \in Shows(bs), NEW p \in LiveOf(log), log[p].at > create.at
                 PROVE  p \in after
      BY <2>3, <2>11 DEF CoveredInv
    <3>1. PendingId \in Shows(blocks)
      BY <1>4, <2>10
    <3>2. p \in before
      BY <2>3, <3>1 DEF ChannelInv, CoveredInv
    <3> QED
      BY <2>4, <2>12, <3>2
  <2>16. StraysInv'
    BY <2>10, <2>11 DEF ChannelInv, StraysInv
  <2>17. FailedInv'
    <3> SUFFICES ASSUME ~strayed, PendingId \in ToSet(RecentOrder(bs)), OwnOf(log) # {},
                        create.st # "created"
                 PROVE  posts[PendingId].st = "failed"
      BY <1>s, <2>11 DEF FailedInv
    <3>1. PendingId \in ToSet(RecentOrder(blocks))
      BY <1>4, <2>10
    <3>2. stored[PendingId].st = "failed"
      BY <3>1 DEF ChannelInv, FailedInv
    <3>3. posts[PendingId] = stored[PendingId]
      BY <1>2, <2>9, <2>10
    <3> QED
      BY <3>2, <3>3
  <2> QED
    BY <1>7, <1>8, <2>13, <2>14, <2>15, <2>16, <2>17 DEF ChannelInv
<1>11. loaded \/ ~loaded
  OBVIOUS
<1> QED
  BY <1>9, <1>10, <1>11

\* The event of a hidden post is passed over: what is still to come is newer.
LEMMA SkippedIs ==
    ASSUME ChannelInv, CopiesInv', events # << >>, events' = Tail(events),
           NEW e, e = Head(events), e.type = "posted", log[e.id].hidden, held = << >>, burst' \in Nat,
           UNCHANGED <<now, log, create, calls, client, held, missed, told, strayed, denied>>
    PROVE  ChannelInv'
<1>1. /\ stored' = stored /\ blocks' = blocks /\ loaded' = loaded /\ log' = log /\ now' = now
      /\ missed' = missed /\ held' = << >>
  BY DEF client
<1>2. /\ EventOk(e) /\ ToSet(events) = ToSet(events') \cup {e}
      /\ \A f \in ToSet(events') : f.type = "posted" => e.id < f.id
  BY <1>1, NextEvent
<1>3. ToSet(held) = {} /\ ToSet(held') = {}
  BY <1>1 DEF ToSet
<1>4. /\ \A p : PostedEvent(p) \in Coming <=> PostedEvent(p) \in Coming' \/ p = e.id
      /\ \A p : PostedEvent(p) \in Coming' => e.id < p
  <2>1. /\ \A p : PostedEvent(p) \in Coming <=>
               \E x \in ToSet(events) \cup ToSet(held) : x.type = "posted" /\ x.id = p
        /\ \A p : PostedEvent(p) \in Coming' <=>
               \E x \in ToSet(events') \cup ToSet(held') : x.type = "posted" /\ x.id = p
    BY ComingIs, ComingNext
  <2> QED
    BY <1>2, <1>3, <2>1
<1>5. QueueInv'
  <2>1. \A p, q \in DOMAIN log :
           p < q /\ PostedEvent(p) \in Coming' => PostedEvent(q) \in Coming' \cup missed
    <3> SUFFICES ASSUME NEW p \in DOMAIN log, NEW q \in DOMAIN log, p < q, PostedEvent(p) \in Coming'
                 PROVE  PostedEvent(q) \in Coming' \cup missed
      OBVIOUS
    <3>1. PostedEvent(q) \in Coming \cup missed
      BY <1>4 DEF ChannelInv, QueueInv
    <3>2. q # e.id
      <4>1. e.id < p /\ e.id \in DOMAIN log
        BY <1>2, <1>4 DEF EventOk
      <4>2. p \in Nat /\ q \in Nat /\ e.id \in Nat
        BY <4>1, ChannelFacts DEF ChannelInv, CopiesInv
      <4> QED
        BY <4>1, <4>2
    <3> QED
      BY <1>4, <3>1, <3>2
  <2> QED
    BY <1>1, <1>3, <2>1 DEF QueueInv
<1>6. KeepsStored(log, stored, stored') /\ Timed(log, create.at, stored')
  BY <1>1 DEF KeepsStored, ChannelInv, TimesInv
<1>7. /\ missed \subseteq missed'
      /\ \A p \in DOMAIN log :
             PostedEvent(p) \in Coming => PostedEvent(p) \in Coming' \cup missed' \/ log[p].hidden
  BY <1>1, <1>4
<1> QED
  BY <1>1, <1>5, <1>6, <1>7, EventChannel

LEMMA HandleEventIs == ChannelInv /\ HandleEvent => ChannelInv'
<1> SUFFICES ASSUME ChannelInv, HandleEvent PROVE ChannelInv'
  OBVIOUS
<1>0. CopiesInv'
  BY HandleEventKeeps DEF ChannelInv
<1>1. PICK e : e = Head(events)
  OBVIOUS
<1>2. /\ events # << >> /\ events' = Tail(events)
      /\ UNCHANGED <<now, log, create, told, strayed, denied>>
  BY DEF HandleEvent
<1>3. EventOk(e) /\ ToSet(events) = ToSet(events') \cup {e}
      /\ \A f \in ToSet(events') : f.type = "posted" /\ e.type = "posted" => e.id < f.id
  BY <1>1, <1>2, NextEvent
<1>4. CASE e.type = "posted" /\ HandlePosted(e) /\ UNCHANGED calls
  <2>1. CASE burst <= BurstLimit \/ ~timer
    <3>2. burst \in Nat /\ BurstLimit \in Nat /\ (held # << >> => burst > BurstLimit /\ timer)
      BY ChannelPostsAssumption DEF ChannelInv, QueueInv
    <3>1. /\ held' = held /\ missed' = missed /\ burst' = burst + 1
          /\ (\E D : NewPosts(<<e>>, D)) \/ (log[e.id].hidden /\ UNCHANGED client)
      <4>1. ~(burst > BurstLimit /\ timer)
        BY <2>1, <3>2
      <4> QED
        BY <1>4, <4>1, Zenon DEF HandlePosted
    <3>3. held = << >> /\ burst' \in Nat
      BY <2>1, <3>1, <3>2
    <3>4. ToSet(held) = {} /\ held' = << >>
      BY <3>1, <3>3 DEF ToSet
    <3>5. CASE \E D : NewPosts(<<e>>, D)
      <4>1. PICK batch, D : batch = <<e>> /\ NewPosts(batch, D)
        BY <3>5
      <4>2. e \in EventType
        BY <1>3 DEF EventOk
      <4>3. batch \in Seq(EventType) /\ ToSet(batch) = {e}
        BY <4>1, <4>2 DEF ToSet
      <4>4. NewBatch(batch)
        BY <1>3, <1>4, <4>3 DEF NewBatch
      <4>5. Before(batch, ToSet(events'))
        BY <1>3, <1>4, <3>4, <4>3 DEF Before
      <4> QED
        BY <1>0, <1>2, <1>4, <3>1, <3>3, <3>4, <4>1, <4>4, <4>5, NewPostsChannel
    <3>6. CASE log[e.id].hidden /\ UNCHANGED client
      BY <1>0, <1>1, <1>2, <1>4, <3>1, <3>3, <3>6, SkippedIs
    <3> QED
      BY <3>1, <3>5, <3>6
  <2>2. CASE burst > BurstLimit /\ timer /\ Hold(e) /\ UNCHANGED <<client, sending, burst, timer, revived>>
    BY <1>0, <1>1, <1>2, <1>4, <2>2, HoldIs
  <2> QED
    BY <1>4, <2>1, <2>2 DEF HandlePosted
<1>5. CASE e.type = "post_deleted" /\ HandleDeleted(e) /\ UNCHANGED <<sending, queue>>
  BY <1>0, <1>1, <1>2, <1>5, DeletedIs
<1>6. CASE e.type = "post_edited" /\ HandleEdited(e) /\ UNCHANGED <<sending, queue, missed>>
  BY <1>0, <1>1, <1>2, <1>6, EditedIs
<1> QED
  BY <1>1, <1>4, <1>5, <1>6 DEF HandleEvent

LEMMA BurstEndsIs == ChannelInv /\ BurstEnds => ChannelInv'
<1> SUFFICES ASSUME ChannelInv, BurstEnds PROVE ChannelInv'
  OBVIOUS
<1>0. CopiesInv'
  BY BurstEndsKeeps DEF ChannelInv
<1>1. PICK D : /\ NewPosts(held, D)
               /\ BatchResult(held, D).ok => held' = << >> /\ burst' = 0
  BY DEF BurstEnds
<1>2. UNCHANGED <<now, log, create, calls, missed, told, strayed, denied>> /\ events' = events
  BY DEF BurstEnds
<1>3. PICK batch : batch = held
  OBVIOUS
<1>4. NewBatch(batch)
  BY <1>3 DEF NewBatch, ChannelInv, CopiesInv, HeldInv
<1>5. Before(batch, ToSet(events'))
  BY <1>2, <1>3 DEF ChannelInv, QueueInv, Before
<1>6. BatchResult(batch, D).ok = TRUE
  BY <1>4, <1>5, BatchIsOk
<1>7. held' = << >> /\ burst' \in Nat /\ NewPosts(batch, D)
  BY <1>1, <1>3, <1>6
<1> QED
  BY <1>0, <1>2, <1>4, <1>5, <1>7, NewPostsChannel

-----------------------------------------------------------------------------
\* The user's own post

\* The blocks go on showing what they showed, but for the pending post.
LEMMA OwnChannel ==
    ASSUME ChannelInv, CopiesInv',
           UNCHANGED <<log, events, held, burst, timer, calls, missed, told, strayed, denied>>,
           now' \in Nat, create'.at <= now', RequestInv', FailedInv', CoveredInv',
           Timed(log, create'.at, stored'), KeepsStored(log, stored, stored'),
           NEW before, before = Accounted, NEW v, v = View(log, create'.at, stored', before),
           AllSound(blocks', v), EmptyIsRecent(blocks'),
           ~loaded' => blocks' = << >>,
           Shows(blocks) \ {PendingId} \subseteq Shows(blocks'),
           StraysIn(blocks') => StraysIn(blocks)
    PROVE  ChannelInv'
<1>0. LogInv /\ LogInv' /\ ToldInv /\ PagesInv
  BY DEF ChannelInv, CopiesInv
<1>1. /\ LiveOf(log) \subseteq DOMAIN log /\ PendingId \notin DOMAIN log /\ Continues(log, log')
  BY <1>0, ChannelFacts
<1>2. Coming' = Coming
  BY DEF Coming
<1>3. PICK after : after = Accounted'
  OBVIOUS
<1>4. \A p \in before : p \in after
  BY <1>1, <1>2, <1>3, AccountedIs
<1>5. TimesInv' /\ QueueInv'
  BY <1>2 DEF ChannelInv, TimesInv, QueueInv
<1>6. PagesInv'
  BY <1>0, <1>1, PagesKept
<1>7. ToldInv' /\ StraysInv'
  BY <1>0, <1>1 DEF ToldInv, StraysInv, ChannelInv
<1>8. BlocksInv'
  <2>1. /\ StillSure(log, before, log, after) /\ Continues(log, log)
        /\ KeepsStored(log, stored', stored')
    BY <1>1, <1>4 DEF StillSure, KeepsStored
  <2>2. PICK t, posts, bs : t = create'.at /\ posts = stored' /\ bs = blocks'
    OBVIOUS
  <2>3. AllSound(bs, View(log, t, posts, before)) /\ KeepsStored(log, posts, posts)
    BY <2>1, <2>2
  <2>4. AllSound(bs, View(log, t, posts, after))
    BY <2>1, <2>3, Reviewed
  <2> QED
    BY <1>3, <2>2, <2>4 DEF BlocksInv
<1> QED
  BY <1>5, <1>6, <1>7, <1>8 DEF ChannelInv

\* The pending post is submitted again: it is later than all posts.
LEMMA PendingLater ==
    ASSUME NEW l \in Seq(PostType), NEW t \in Nat, NEW u \in Nat, \A p \in DOMAIN l : l[p].at < u,
           NEW posts, NEW next, \A p \in DOMAIN l : next[p] = posts[p],
           NEW S, NEW bs, AllSound(bs, View(l, t, posts, S)),
           PendingId \in Shows(bs) => \A p \in LiveOf(l) : l[p].at > t => p \in S
    PROVE  AllSound(bs, View(l, u, next, S))
<1>1. PICK v, w : v = View(l, t, posts, S) /\ w = View(l, u, next, S)
  OBVIOUS
<1>2. /\ PendingId \notin DOMAIN l /\ LiveOf(l) \subseteq DOMAIN l
      /\ KeptOf(l, posts) \subseteq DOMAIN l \cup {PendingId}
      /\ \A p \in DOMAIN l : l[p].at \in Nat
  <2>1. \A p \in DOMAIN l : l[p] \in PostType
    OBVIOUS
  <2>2. \A p \in DOMAIN l : l[p].at \in Nat
    BY <2>1 DEF PostType
  <2> QED
    BY <2>2, ViewIs
<1>3. KeptOf(l, next) = KeptOf(l, posts)
  BY DEF KeptOf, Stored
<1>4. /\ AtOf(l, t)[PendingId] = t /\ AtOf(l, u)[PendingId] = u
      /\ \A p \in DOMAIN l : AtOf(l, t)[p] = l[p].at /\ AtOf(l, u)[p] = l[p].at
  BY <1>2, AtIs
<1>5. /\ v.has = KeptOf(l, posts) /\ w.has = v.has /\ v.own = OwnOf(l) /\ w.own = v.own
      /\ v.live = LiveOf(l) /\ w.live = v.live /\ v.sure = S /\ w.sure = S
      /\ v.at[PendingId] = t /\ w.at[PendingId] = u
      /\ \A p \in DOMAIN l : v.at[p] = l[p].at /\ w.at[p] = l[p].at
  BY <1>1, <1>3, <1>4 DEF View
<1>6. ASSUME NEW b \in ToSet(bs) PROVE Sound(b, w)
  <2>1. Sound(b, v)
    BY <1>1 DEF AllSound
  <2>2. ToSet(b.order) \subseteq DOMAIN l \cup {PendingId}
    <3>1. b.order \in Seq(v.has)
      BY <2>1 DEF Sound, BlockType
    <3>2. ToSet(b.order) \subseteq v.has
      BY <3>1, SeqFacts
    <3> QED
      BY <1>2, <1>5, <3>2
  <2>3. ASSUME NEW p \in LiveOf(l), Spans(b, w, p) PROVE p \in S
    <3>1. p \in DOMAIN l /\ l[p].at < u /\ l[p].at \in Nat
      BY <1>2
    <3>2. b.oldest \/ \E id \in ToSet(b.order) : v.at[id] <= v.at[p]
      BY <1>5, <2>2, <2>3, <3>1 DEF Spans
    <3>3. CASE PendingId \in ToSet(b.order) /\ l[p].at > t
      <4>1. PendingId \in Shows(bs)
        BY <3>3 DEF Shows
      <4> QED
        BY <3>3, <4>1
    <3>4. CASE ~(PendingId \in ToSet(b.order) /\ l[p].at > t)
      <4>1. b.recent \/ \E id \in ToSet(b.order) : v.at[p] <= v.at[id]
        <5>1. CASE b.recent
          BY <5>1
        <5>2. CASE \E id \in ToSet(b.order) : w.at[p] <= w.at[id]
          <6>1. PICK id \in ToSet(b.order) : w.at[p] <= w.at[id]
            BY <5>2
          <6>2. id = PendingId => l[p].at <= t
            BY <3>1, <3>4
          <6>3. v.at[p] <= v.at[id]
            BY <1>5, <2>2, <3>1, <6>1, <6>2
          <6> QED
            BY <6>3
        <5> QED
          BY <2>3, <5>1, <5>2 DEF Spans
      <4>2. Spans(b, v, p)
        BY <3>2, <4>1 DEF Spans
      <4> QED
        BY <1>5, <2>1, <4>2 DEF Sound
    <3> QED
      BY <3>3, <3>4
  <2>4. b \in BlockType(w.has) /\ Once(b.order, w.own)
    BY <1>5, <2>1 DEF Sound
  <2> QED
    BY <1>5, <2>3, <2>4 DEF Sound
<1>7. bs \in Seq(BlockType(w.has))
  BY <1>1, <1>5 DEF AllSound
<1>8. AllSound(bs, w)
  BY <1>6, <1>7 DEF AllSound
<1> QED
  BY <1>1, <1>8

LEMMA SubmitPostIs ==
    ASSUME ChannelInv, NEW again \in BOOLEAN, SubmitPost(again) PROVE ChannelInv'
<1>0. CopiesInv' /\ LogInv /\ LogInv' /\ BlocksInv /\ ToldInv /\ TimesInv /\ StoredInv /\ CoveredInv
  BY SubmitPostKeeps DEF ChannelInv, CopiesInv
<1>f. /\ log \in Seq(PostType) /\ DOMAIN log \subseteq Ids /\ LiveOf(log) \subseteq DOMAIN log
      /\ PendingId \notin DOMAIN log /\ Continues(log, log) /\ create.at \in Nat /\ now \in Nat
      /\ \A p \in DOMAIN log : log[p].at \in Nat /\ p \in Nat /\ log[p].at <= now
      /\ PendingId \in Ids /\ PendingId \notin PostIds
  BY <1>0, ChannelFacts, PastPosts, LogFacts DEF ChannelInv, CopiesInv, CreateInv
<1>1. /\ UNCHANGED <<log, events, held, burst, timer, calls, missed, told, strayed, denied>> /\ now' = now + 1
      /\ create' = Request("sent", now') /\ create.st = IF again THEN "ended" ELSE "none"
  BY DEF SubmitPost, queue, history
<1>2. PICK t, st : t = now' /\ st = IF again THEN "failed" ELSE "live"
  OBVIOUS
<1>3. PICK copy : copy = [at |-> t, upd |-> t, st |-> st]
  OBVIOUS
<1>4. PICK posts : posts = [stored EXCEPT ![PendingId] = copy]
  OBVIOUS
<1>5. Dispatch(posts, IF loaded THEN ReceivedNewPost(blocks, PendingId, FALSE, posts)
                      ELSE Ok(blocks), loaded)
  BY <1>2, <1>3, <1>4 DEF SubmitPost
<1>6. t \in Nat /\ t = now + 1 /\ create'.at = t /\ create'.st = "sent" /\ create' = Request("sent", t)
  BY <1>1, <1>2, <1>f DEF Request
<1>7. /\ posts \in [Ids -> CopyType] /\ posts[PendingId].at = t /\ posts[PendingId].st = st
      /\ \A p \in Ids \ {PendingId} : posts[p] = stored[p]
  BY <1>0, <1>2, <1>3, <1>4, <1>6, <1>f DEF StoredInv, CopyType
<1>8. \A p \in DOMAIN log : posts[p] = stored[p] /\ log[p].at < t
  BY <1>6, <1>7, <1>f
<1>9. Timed(log, t, posts) /\ KeepsStored(log, stored, posts)
  BY <1>0, <1>7, <1>8 DEF TimesInv, Timed, KeepsStored, Stored
<1>10. RequestInv'
  BY <1>6 DEF RequestInv
<1>11. PICK before : before = Accounted
  OBVIOUS
<1>12. CoveredInv'
  BY <1>1, <1>6, <1>8, <1>f DEF CoveredInv
<1>13. PICK v : v = View(log, t, posts, before)
  OBVIOUS
<1>14. AllSound(blocks, v) /\ EmptyIsRecent(blocks)
  <2>1. AllSound(blocks, View(log, create.at, stored, before)) /\ EmptyIsRecent(blocks)
    BY <1>0, <1>11 DEF BlocksInv
  <2>2. PendingId \in Shows(blocks) => \A p \in LiveOf(log) : log[p].at > create.at => p \in before
    BY <1>0, <1>11 DEF CoveredInv
  <2> QED
    BY <1>6, <1>8, <1>13, <1>f, <2>1, <2>2, PendingLater
<1>15. CASE ~loaded
  <2>1. blocks = << >> /\ Dispatch(posts, Ok(blocks), loaded)
    BY <1>0, <1>5, <1>15 DEF BlocksInv
  <2>2. stored' = posts /\ blocks' = blocks
    BY <1>15, <2>1 DEF Dispatch, Ok
  <2>3. FailedInv'
    BY <2>1, <2>2, EmptyBlocks DEF FailedInv
  <2> QED
    BY <1>0, <1>1, <1>6, <1>9, <1>10, <1>11, <1>12, <1>13, <1>14, <2>1, <2>2, <2>3, OwnChannel
<1>16. CASE loaded
  <2>1. PICK r, bs : r = ReceivedNewPost(blocks, PendingId, FALSE, posts) /\ bs = r.blocks
    OBVIOUS
  <2>2. /\ IsView(v) /\ AllButPending(v, posts) /\ Agrees(posts, v) /\ PendingId \notin v.own
        /\ PendingId \in v.has /\ Tops(PendingId, v)
    <3>1. IsView(v) /\ AllButPending(v, posts) /\ PendingId \notin OwnOf(log)
      BY <1>6, <1>f, <1>13, ViewIs
    <3>2. Agrees(posts, v)
      BY <1>6, <1>7, <1>9, <1>f, <1>13, AgreesIs
    <3>3. /\ v.at[PendingId] = t /\ \A p \in LiveOf(log) : v.at[p] = log[p].at
          /\ v.live = LiveOf(log) /\ v.own = OwnOf(log) /\ v.has = KeptOf(log, posts)
      BY <1>f, <1>13, AtIs DEF View
    <3>4. Tops(PendingId, v)
      BY <1>6, <1>8, <1>f, <3>3 DEF Tops
    <3> QED
      BY <3>1, <3>2, <3>3, <3>4 DEF KeptOf
  <2>3. /\ r.ok = TRUE /\ AllSound(bs, v) /\ EmptyIsRecent(bs)
        /\ ShowsNew(bs, blocks, PendingId, FALSE)
    BY <1>14, <2>1, <2>2, NewPostIsSound
  <2>4. stored' = posts /\ blocks' = bs /\ loaded'
    BY <1>5, <1>16, <2>1, <2>3 DEF Dispatch
  <2>5. /\ Shows(blocks) \ {PendingId} \subseteq Shows(bs)
        /\ StraysIn(bs) => StraysIn(blocks)
    BY <2>3 DEF ShowsNew
  <2>6. FailedInv'
    <3>1. CASE again
      BY <1>2, <1>7, <2>4, <3>1 DEF FailedInv
    <3>2. CASE ~again
      <4>1. OwnOf(log) = {}
        BY <1>1, <3>2 DEF ChannelInv, RequestInv
      <4> QED
        BY <1>1, <4>1 DEF FailedInv
    <3> QED
      BY <3>1, <3>2
  <2> QED
    BY <1>0, <1>1, <1>6, <1>9, <1>10, <1>11, <1>12, <1>13, <1>16, <2>3, <2>4, <2>5, <2>6, OwnChannel
<1>17. loaded \/ ~loaded
  OBVIOUS
<1> QED
  BY <1>15, <1>16, <1>17

LEMMA NothingLeft == Removed(<< >>, PendingId) = << >> /\ \A id : ReplacePending(<< >>, id) = << >>
<1>1. PICK bs : bs = << >>
  OBVIOUS
<1>2. bs \in Seq({0}) /\ DOMAIN bs = {} /\ bs = << >>
  BY <1>1
<1>3. [i \in DOMAIN bs |-> [bs[i] EXCEPT !.order = Only(@, ToSet(@) \ {PendingId})]] = << >>
  BY <1>2
<1>4. Removed(bs, PendingId) = << >>
  BY <1>2, <1>3 DEF Removed
<1>5. RecentBlock(bs) = 0
  <2>1. PICK i : i = RecentBlock(bs)
    OBVIOUS
  <2> QED
    BY <1>2, <2>1, RecentBlockIs
<1>6. \A id : ReplacePending(bs, id) = << >>
  BY <1>2, <1>5 DEF ReplacePending
<1> QED
  BY <1>1, <1>4, <1>6

LEMMA PostCreatedIs == ChannelInv /\ PostCreated => ChannelInv'
<1> SUFFICES ASSUME ChannelInv, PostCreated PROVE ChannelInv'
  OBVIOUS
<1>0. CopiesInv' /\ CopiesInv /\ LogInv /\ BlocksInv /\ TimesInv /\ RequestInv /\ CreateInv /\ CoveredInv
  BY PostCreatedKeeps DEF ChannelInv, CopiesInv
<1>f. /\ log \in Seq(PostType) /\ DOMAIN log \subseteq Ids /\ LiveOf(log) \subseteq DOMAIN log
      /\ PendingId \notin DOMAIN log /\ Continues(log, log) /\ create.at \in Nat /\ now \in Nat
      /\ PendingId \in Ids /\ stored \in [Ids -> CopyType]
      /\ \A p \in DOMAIN log : log[p].at \in Nat
  BY <1>0, ChannelFacts, LogFacts DEF CopiesInv, CreateInv, StoredInv
<1>d. PICK D : stored' = ReceiveCreated(create.id, create.post, create.st = "created", create.id \in D)
  BY Zenon DEF PostCreated
<1>1. PICK new, id, post, differs :
          /\ new = (create.st = "created") /\ id = create.id /\ post = create.post
          /\ stored' = ReceiveCreated(id, post, new, differs)
          /\ blocks' = IF new THEN ReplacePending(blocks, id) ELSE blocks
  BY <1>d, Zenon DEF PostCreated
<1>2. /\ UNCHANGED <<log, events, held, burst, timer, calls, missed, told, strayed, denied>> /\ now' = now
      /\ create' = Request("ended", create.at) /\ create.st \in {"created", "found"}
      /\ loaded' = loaded
  BY DEF PostCreated, queue
<1>3. /\ create'.at = create.at /\ create'.st = "ended" /\ create.at <= now /\ RequestInv'
  BY <1>0, <1>2 DEF Request, TimesInv, RequestInv
<1>4. /\ id \in DOMAIN log /\ id # PendingId /\ log[id].own /\ post.at = log[id].at /\ ~post.deleted
      /\ new => create.at < log[id].at
  BY <1>0, <1>1, <1>2, <1>f DEF RequestInv, CreateInv
<1>5. /\ stored' \in [Ids -> CopyType] /\ stored'[id] = Receive(stored[id], post, differs)
      /\ \A p \in Ids \ {id, PendingId} : stored'[p] = stored[p]
      /\ stored'[PendingId] \in {NoPost, stored[PendingId]}
      /\ ~new => stored'[PendingId] = stored[PendingId]
  <2>1. stored' \in [Ids -> CopyType]
    BY <1>0 DEF CopiesInv, StoredInv
  <2> QED
    BY <1>1, <1>4, <1>f, <2>1 DEF ReceiveCreated
<1>6. /\ Stored(stored', id) /\ stored'[id].at = log[id].at
  <2>1. stored[id].st = "none" => stored'[id].st = "live"
    BY <1>4, <1>5 DEF Receive, Newer
  <2>2. stored[id].st # "none" => stored[id].at = log[id].at
    BY <1>0, <1>4 DEF TimesInv, Timed, Stored
  <2>3. (stored[id].st # "none" => stored'[id].st # "none") /\ (stored'[id].st # "none" => stored'[id].at = log[id].at)
    BY <1>4, <1>5, <2>2, ReceiveIs
  <2>4. stored'[id].st # "none"
    BY <2>1, <2>3
  <2> QED
    BY <2>3, <2>4 DEF Stored
<1>7. Timed(log, create.at, stored') /\ KeepsStored(log, stored, stored')
  <2>1. \A p \in DOMAIN log : p = id \/ stored'[p] = stored[p]
    BY <1>5, <1>f
  <2>2. NoPost.st = "none"
    BY DEF NoPost
  <2> QED
    BY <1>0, <1>5, <1>6, <2>1, <2>2 DEF TimesInv, Timed, KeepsStored, Stored
<1>8. PICK before : before = Accounted
  OBVIOUS
<1>9. PICK v : v = View(log, create'.at, stored', before)
  OBVIOUS
<1>10. AllSound(blocks, v) /\ EmptyIsRecent(blocks)
  <2>1. AllSound(blocks, View(log, create.at, stored, before)) /\ EmptyIsRecent(blocks)
    BY <1>0, <1>8 DEF BlocksInv
  <2>2. StillSure(log, before, log, before)
    BY DEF StillSure
  <2>3. PICK t, posts, bs : t = create.at /\ posts = stored' /\ bs = blocks
    OBVIOUS
  <2>4. AllSound(bs, View(log, t, posts, before))
    BY <1>7, <1>f, <2>1, <2>2, <2>3, Reviewed
  <2> QED
    BY <1>3, <1>9, <2>1, <2>3, <2>4
<1>11. /\ IsView(v) /\ v.has = KeptOf(log, stored') /\ v.own = OwnOf(log) /\ PendingId \notin v.own
       /\ v.at[PendingId] = create.at /\ v.at[id] = log[id].at
  <2>1. PICK t, posts : t = create'.at /\ posts = stored'
    OBVIOUS
  <2>2. v = View(log, t, posts, before) /\ t \in Nat /\ t = create.at
    BY <1>3, <1>9, <1>f, <2>1
  <2>3. IsView(v) /\ PendingId \notin OwnOf(log)
    BY <1>f, <2>2, ViewIs
  <2>4. AtOf(log, t)[PendingId] = t /\ AtOf(log, t)[id] = log[id].at
    BY <1>4, <1>f, AtIs
  <2> QED
    BY <2>1, <2>2, <2>3, <2>4 DEF View
<1>12. id \in v.has \cap v.own
  BY <1>4, <1>6, <1>11 DEF KeptOf, OwnOf
<1>13. PICK bs : bs = blocks'
  OBVIOUS
<1>14. CASE new
  <2>1. bs = ReplacePending(blocks, id)
    BY <1>1, <1>13, <1>14
  <2>2. PendingId \in v.ids => v.at[PendingId] <= v.at[id]
    BY <1>4, <1>11, <1>14, <1>f
  <2>3. AllSound(bs, v) /\ EmptyIsRecent(bs) /\ ShowsReplaced(bs, blocks, id)
    BY <1>4, <1>10, <1>11, <1>12, <2>1, <2>2, ReplacePendingIs
  <2>4. /\ Shows(bs) \subseteq Shows(blocks) \cup {id} /\ Shows(blocks) \ {PendingId} \subseteq Shows(bs)
        /\ PendingId \notin ToSet(RecentOrder(bs)) /\ (StraysIn(bs) => StraysIn(blocks))
    BY <2>3 DEF ShowsReplaced
  <2>5. FailedInv'
    BY <1>13, <2>4 DEF FailedInv
  <2>6. ~loaded => bs = << >>
    BY <1>0, <2>1, NothingLeft DEF BlocksInv
  <2>7. CoveredInv'
    <3> SUFFICES ASSUME PendingId \in Shows(bs), NEW p \in LiveOf(log), log[p].at > create.at
                 PROVE  p \in Accounted'
      BY <1>2, <1>3, <1>13 DEF CoveredInv
    <3>1. PendingId \in Shows(blocks)
      BY <1>4, <2>4
    <3>2. p \in Accounted
      BY <1>0, <3>1 DEF CoveredInv
    <3>3. Coming' = Coming
      BY <1>2 DEF Coming
    <3> QED
      BY <1>2, <1>13, <1>f, <2>4, <3>2, <3>3, AccountedIs
  <2> QED
    BY <1>0, <1>2, <1>3, <1>7, <1>8, <1>9, <1>13, <1>f, <2>3, <2>4, <2>5, <2>6, <2>7, OwnChannel
<1>15. CASE ~new
  <2>1. blocks' = blocks /\ stored'[PendingId] = stored[PendingId] /\ create.st # "created"
    BY <1>1, <1>2, <1>5, <1>15
  <2>2. FailedInv'
    BY <1>2, <2>1 DEF FailedInv, ChannelInv
  <2>3. CoveredInv'
    <3>1. Coming' = Coming
      BY <1>2 DEF Coming
    <3>2. Accounted' = Accounted
      BY <1>2, <2>1, <3>1 DEF Accounted
    <3> QED
      BY <1>0, <1>2, <1>3, <2>1, <3>2 DEF CoveredInv
  <2>4. ~loaded => blocks' = << >>
    BY <1>0, <2>1 DEF BlocksInv
  <2> QED
    BY <1>0, <1>2, <1>3, <1>7, <1>8, <1>9, <1>10, <1>f, <2>1, <2>2, <2>3, <2>4, OwnChannel
<1> QED
  BY <1>14, <1>15

LEMMA PendingRemoved ==
    ASSUME ChannelInv, CopiesInv', RequestInv', create'.at = create.at,
           UNCHANGED <<now, log, events, held, burst, timer, calls, loaded, missed, told, strayed, denied>>,
           stored' = [stored EXCEPT ![PendingId] = NoPost], blocks' = Removed(blocks, PendingId)
    PROVE  ChannelInv'
<1>0. LogInv /\ BlocksInv /\ TimesInv /\ CoveredInv
  BY DEF ChannelInv, CopiesInv
<1>f. /\ DOMAIN log \subseteq Ids /\ PendingId \notin DOMAIN log /\ Continues(log, log)
      /\ PendingId \in Ids /\ stored \in [Ids -> CopyType] /\ now \in Nat /\ create.at <= now
  BY <1>0, ChannelFacts, LogFacts DEF CopiesInv, StoredInv, ChannelInv, TimesInv
<1>1. \A p \in DOMAIN log : stored'[p] = stored[p]
  BY <1>f
<1>2. stored'[PendingId].st = "none"
  BY <1>f DEF NoPost
<1>3. Timed(log, create'.at, stored') /\ KeepsStored(log, stored, stored')
  BY <1>0, <1>1, <1>2 DEF TimesInv, Timed, KeepsStored, Stored
<1>4. PICK before : before = Accounted
  OBVIOUS
<1>5. PICK t, posts, bs : t = create'.at /\ posts = stored' /\ bs = blocks'
  OBVIOUS
<1>6. PICK v : v = View(log, t, posts, before)
  OBVIOUS
<1>7. AllSound(blocks, v) /\ EmptyIsRecent(blocks)
  <2>1. AllSound(blocks, View(log, t, stored, before)) /\ EmptyIsRecent(blocks)
    BY <1>0, <1>4, <1>5 DEF BlocksInv
  <2>2. StillSure(log, before, log, before) /\ KeepsStored(log, stored, posts)
    BY <1>3, <1>5 DEF StillSure
  <2> QED
    BY <1>6, <1>f, <2>1, <2>2, Reviewed
<1>8. /\ AllSound(bs, v) /\ EmptyIsRecent(bs) /\ Shows(bs) = Shows(blocks) \ {PendingId}
      /\ ~StraysIn(bs) /\ PendingId \notin ToSet(RecentOrder(bs))
  BY <1>5, <1>7, RemovedIs
<1>9. ~loaded => bs = << >>
  BY <1>0, <1>5, NothingLeft DEF BlocksInv
<1>10. FailedInv' /\ CoveredInv'
  BY <1>5, <1>8 DEF FailedInv, CoveredInv
<1> QED
  BY <1>3, <1>4, <1>5, <1>6, <1>8, <1>9, <1>10, <1>f, OwnChannel

LEMMA PostFailsIs == ChannelInv /\ PostFails => ChannelInv'
<1> SUFFICES ASSUME ChannelInv, PostFails PROVE ChannelInv'
  OBVIOUS
<1>0. CopiesInv' /\ LogInv /\ BlocksInv /\ TimesInv /\ CreateInv /\ CoveredInv
  BY PostFailsKeeps DEF ChannelInv, CopiesInv
<1>f. /\ DOMAIN log \subseteq Ids /\ PendingId \notin DOMAIN log /\ Continues(log, log)
      /\ PendingId \in Ids /\ stored \in [Ids -> CopyType] /\ now \in Nat /\ create.at <= now
      /\ create.at \in Nat
  BY <1>0, ChannelFacts, LogFacts DEF CopiesInv, StoredInv, ChannelInv, TimesInv, CreateInv
<1>1. /\ UNCHANGED <<log, events, held, burst, timer, calls, loaded, missed, told, strayed, denied>>
      /\ create' = Request("ended", create.at)
  BY DEF PostFails, queue, history
<1>2. create'.at = create.at /\ create'.st = "ended" /\ RequestInv'
  BY <1>1 DEF Request, RequestInv
<1>3. CASE /\ now' = now + 1 /\ blocks' = blocks
           /\ stored' = [stored EXCEPT ![PendingId] = [at |-> create.at, upd |-> now', st |-> "failed"]]
  <2>1. \A p \in DOMAIN log : stored'[p] = stored[p]
    BY <1>3, <1>f
  <2>2. stored'[PendingId].at = create.at /\ stored'[PendingId].st = "failed"
    BY <1>3, <1>f
  <2>3. Timed(log, create'.at, stored') /\ KeepsStored(log, stored, stored')
    BY <1>0, <1>2, <2>1, <2>2 DEF TimesInv, Timed, KeepsStored, Stored
  <2>4. PICK before : before = Accounted
    OBVIOUS
  <2>5. PICK t, posts, bs : t = create'.at /\ posts = stored' /\ bs = blocks'
    OBVIOUS
  <2>6. PICK v : v = View(log, t, posts, before)
    OBVIOUS
  <2>7. AllSound(bs, v) /\ EmptyIsRecent(bs)
    <3>1. AllSound(bs, View(log, t, stored, before)) /\ EmptyIsRecent(bs)
      BY <1>0, <1>2, <1>3, <2>4, <2>5 DEF BlocksInv
    <3>2. StillSure(log, before, log, before) /\ KeepsStored(log, stored, posts)
      BY <2>3, <2>5 DEF StillSure
    <3> QED
      BY <1>f, <2>6, <3>1, <3>2, Reviewed
  <2>8. FailedInv' /\ (~loaded => blocks' = << >>)
    BY <1>0, <1>3, <2>2 DEF FailedInv, BlocksInv
  <2>9. CoveredInv'
    <3>1. Coming' = Coming
      BY <1>1 DEF Coming
    <3>2. Accounted' = Accounted
      BY <1>1, <1>3, <3>1 DEF Accounted
    <3> QED
      BY <1>0, <1>1, <1>2, <1>3, <3>2 DEF CoveredInv
  <2>10. now' \in Nat /\ create'.at <= now'
    BY <1>2, <1>3, <1>f
  <2> QED
    BY <1>0, <1>1, <1>2, <1>3, <2>3, <2>4, <2>5, <2>6, <2>7, <2>8, <2>9, <2>10, OwnChannel
<1>4. CASE /\ stored' = [stored EXCEPT ![PendingId] = NoPost]
           /\ blocks' = Removed(blocks, PendingId) /\ now' = now
  BY <1>0, <1>1, <1>2, <1>4, PendingRemoved
<1> QED
  BY <1>3, <1>4 DEF PostFails

LEMMA RemoveFailedIs == ChannelInv /\ RemoveFailed => ChannelInv'
<1> SUFFICES ASSUME ChannelInv, RemoveFailed PROVE ChannelInv'
  OBVIOUS
<1>1. /\ UNCHANGED <<now, log, events, held, burst, timer, calls, loaded, missed, told, strayed, denied>>
      /\ create' = create
      /\ stored' = [stored EXCEPT ![PendingId] = NoPost] /\ blocks' = Removed(blocks, PendingId)
  BY DEF RemoveFailed, queue, history
<1>2. CopiesInv' /\ RequestInv'
  BY <1>1, RemoveFailedKeeps DEF ChannelInv, RequestInv
<1> QED
  BY <1>1, <1>2, PendingRemoved

-----------------------------------------------------------------------------
\* The client receives an answer.

\* The block a page makes is a stretch of the channel, and what is newer than the page is
\* accounted for.
LEMMA PageBlockSound ==
    ASSUME NEW l \in Seq(PostType), \A p, q \in DOMAIN l : p < q => l[p].at < l[q].at,
           NEW t \in Nat, NEW posts, NEW S, NEW v, v = View(l, t, posts, S),
           NEW call, PageOk(l, call), call.kind # "since", Ends(call) \subseteq DOMAIN l,
           NEW b \in BlockType(v.has), Once(b.order, v.own), ToSet(b.order) = Ends(call),
           b.recent = call.page.recent, b.oldest = call.page.oldest,
           Ends(call) \subseteq S,
           \A p \in LiveOf(l) : l[p].hidden \/ p \in call.page.denied => p \in S,
           call.page.recent => \A p \in LiveOf(l) : call.page.upto < p => p \in S
    PROVE  Sound(b, v)
<1>1. PICK page, E : page = call.page /\ E = Ends(call)
  OBVIOUS
<1>2. /\ DOMAIN l = 1 .. Len(l) /\ Len(l) \in Nat /\ \A p \in DOMAIN l : l[p].at \in Nat /\ p \in Nat
  <2>1. \A p \in DOMAIN l : l[p] \in PostType
    OBVIOUS
  <2> QED
    BY <2>1 DEF PostType
<1>3. PendingId \notin DOMAIN l /\ LiveOf(l) \subseteq DOMAIN l
  BY ViewIs
<1>4. /\ v.live = LiveOf(l) /\ v.sure = S /\ \A p \in DOMAIN l : v.at[p] = l[p].at
  BY <1>3, AtIs DEF View
<1>5. \A p, q \in DOMAIN l : l[p].at <= l[q].at => p <= q
  <2> SUFFICES ASSUME NEW p \in DOMAIN l, NEW q \in DOMAIN l, l[p].at <= l[q].at PROVE p <= q
    OBVIOUS
  <2>1. q < p => l[q].at < l[p].at
    OBVIOUS
  <2> QED
    BY <1>2, <2>1
<1>6. page.upto \in Nat /\ \A p \in E : p <= page.upto
  BY <1>1 DEF PageOk, OrderOk
<1>7. ASSUME NEW p \in LiveOf(l), Spans(b, v, p) PROVE p \in S
  <2>1. p \in DOMAIN l /\ p \in Nat
    BY <1>2, <1>3
  <2>2. page.oldest \/ \E q \in E : q <= p
    BY <1>1, <1>4, <1>5, <1>7, <2>1 DEF Spans
  <2>3. page.recent \/ \E q \in E : p <= q
    BY <1>1, <1>4, <1>5, <1>7, <2>1 DEF Spans
  <2>4. CASE p <= page.upto
    <3>1. CASE l[p].hidden \/ p \in page.denied
      BY <1>1, <3>1
    <3>2. CASE ~l[p].hidden /\ p \notin page.denied
      <4>1. p \in E
        BY <1>1, <2>2, <2>3, <2>4, <3>2 DEF PageOk, Stretch
      <4> QED
        BY <1>1, <4>1
    <3> QED
      BY <3>1, <3>2
  <2>5. CASE page.upto < p
    <3>1. ~\E q \in E : p <= q
      <4> SUFFICES ASSUME NEW q \in E, p <= q PROVE FALSE
        OBVIOUS
      <4>1. q \in Nat /\ q <= page.upto
        BY <1>1, <1>2, <1>6
      <4> QED
        BY <1>6, <2>1, <2>5, <4>1
    <3>2. page.recent
      BY <2>3, <3>1
    <3> QED
      BY <1>1, <2>5, <3>2
  <2> QED
    BY <1>6, <2>1, <2>4, <2>5
<1>8. \A p \in v.live : Spans(b, v, p) => p \in v.sure
  BY <1>4, <1>7
<1> QED
  BY <1>8 DEF Sound

LEMMA AtEnd ==
    ASSUME NEW ids, NEW order \in Seq(ids), NEW own, Once(order, own),
           NEW id \in ids, id \notin ToSet(order), NEW t, t = Append(order, id)
    PROVE  Once(t, own)
<1>1. /\ DOMAIN order = 1 .. Len(order) /\ Len(order) \in Nat
      /\ \A x : x \in ToSet(order) <=> \E i \in DOMAIN order : order[i] = x
  BY SeqFacts
<1>2. /\ DOMAIN t = 1 .. Len(order) + 1 /\ t[Len(order) + 1] = id
      /\ \A i \in DOMAIN order : t[i] = order[i]
  BY <1>1
<1>3. \A i \in DOMAIN order : order[i] # id
  BY <1>1
<1>4. \A i \in DOMAIN t : i \in DOMAIN order \/ i = Len(order) + 1
  BY <1>1, <1>2
<1> HIDE DEF Once
<1>5. ASSUME NEW j \in DOMAIN t, NEW k \in DOMAIN t, t[j] = t[k], j # k PROVE t[j] \in own
  <2>1. j \in DOMAIN order /\ k \in DOMAIN order
    BY <1>2, <1>3, <1>4, <1>5
  <2>2. order[j] = order[k] /\ t[j] = order[j]
    BY <1>2, <1>5, <2>1
  <2> QED
    BY <1>5, <2>1, <2>2 DEF Once
<1> QED
  BY <1>5 DEF Once

\* What the blocks have after an answer.  An empty page after or before a post that no
\* block shows leaves them alone.
ToldBy(call, bs, posts) ==
    IF call.kind = "since" THEN SinceTells(bs, call.page, posts) ELSE Ends(call)
AnswerHandled(r, bs, v, call, posts) ==
    /\ r.ok \in BOOLEAN
    /\ r.ok => /\ AllSound(r.blocks, v) /\ EmptyIsRecent(r.blocks)
               /\ Shows(bs) \subseteq Shows(r.blocks)
               /\ Shows(r.blocks) \subseteq Shows(bs) \cup Ends(call)
               /\ \/ ToldBy(call, bs, posts) \subseteq Shows(r.blocks)
                  \/ r.blocks = bs /\ DOMAIN call.page.posts = {}

\* The store, and a view of the channel in which the blocks are sound, and so is the
\* block a page makes.
Seen(v, posts, call, S) ==
    /\ posts \in [Ids -> CopyType] /\ Timed(log, create.at, posts)
    /\ \A p \in DOMAIN call.page.posts : ~call.page.posts[p].deleted => Stored(posts, p)
    /\ call.kind \in {"after", "before"} => Stored(posts, call.anchor)
    /\ \A p \in Linked(log, call) : Stored(posts, p)
    /\ v = View(log, create.at, posts, S)
    /\ AllSound(blocks, v) /\ EmptyIsRecent(blocks)
    /\ call.kind # "since" => Ends(call) \subseteq S
    /\ \A p \in LiveOf(log) : log[p].hidden \/ p \in call.page.denied => p \in S
    /\ call.page.recent => \A p \in LiveOf(log) : call.page.upto < p => p \in S

LEMMA SeenIs ==
    ASSUME ChannelInv, NEW call \in calls, call.page # NoPage,
           NEW v, NEW posts, NEW S, Seen(v, posts, call, S), NEW page, page = call.page
    PROVE  /\ IsView(v) /\ Agrees(posts, v) /\ PendingId \in v.has
           /\ PageOk(log, call) /\ Ends(call) \subseteq DOMAIN log
           /\ page.order \in Seq(DOMAIN log) /\ Once(page.order, {}) /\ Once(page.order, v.own)
           /\ \A p \in ToSet(page.order) : Stored(posts, p) => p \in v.has
           /\ DOMAIN page.posts \subseteq ToSet(page.order)
           /\ call.kind # "since" => page.order \in Seq(v.has)
           /\ call.kind \in {"after", "before"} => call.anchor \in v.has /\ call.anchor \notin ToSet(page.order)
           /\ call.kind # "since" =>
                  \A b \in BlockType(v.has) :
                      /\ Once(b.order, v.own) /\ ToSet(b.order) = Ends(call)
                      /\ b.recent = page.recent /\ b.oldest = page.oldest
                      => Sound(b, v)
<1>f. /\ log \in Seq(PostType) /\ DOMAIN log \subseteq Ids /\ LiveOf(log) \subseteq DOMAIN log
      /\ PendingId \notin DOMAIN log /\ create.at \in Nat
  BY ChannelFacts DEF ChannelInv, CopiesInv, CreateInv
<1>1. PageOk(log, call) /\ CallOk(log, stored, call) /\ TimesInv
  BY DEF ChannelInv, PagesInv, CallOk
<1>2. /\ page.order \in Seq(DOMAIN log) /\ Once(page.order, {})
      /\ DOMAIN page.posts \subseteq ToSet(page.order)
      /\ ToSet(page.order) \subseteq DOMAIN page.posts \cup Linked(log, call)
      /\ call.kind \in {"after", "before"} => call.anchor \notin ToSet(page.order)
  BY <1>1 DEF PageOk, OrderOk, Linked
<1>3. ToSet(page.order) \subseteq DOMAIN log /\ page.order \in Seq(ToSet(page.order))
  BY <1>2, SeqFacts
<1>4. Ends(call) \subseteq DOMAIN log
  BY <1>1, <1>3 DEF Ends, CallOk
<1>5. /\ IsView(v) /\ Agrees(posts, v)
  BY <1>f, ViewIs, AgreesIs DEF Seen
<1>6. v.has = KeptOf(log, posts) /\ v.own = OwnOf(log)
  BY DEF Seen, View
<1>7. PendingId \in v.has /\ \A p \in DOMAIN log : Stored(posts, p) => p \in v.has
  BY <1>6 DEF KeptOf
<1>8. Once(page.order, v.own)
  BY <1>2 DEF Once
<1>9. call.kind # "since" => page.order \in Seq(v.has)
  <2> SUFFICES ASSUME call.kind # "since" PROVE page.order \in Seq(v.has)
    OBVIOUS
  <2>1. \A p \in ToSet(page.order) : Stored(posts, p)
    BY <1>1, <1>2 DEF Seen, PageOk, PostsOk
  <2>2. ToSet(page.order) \subseteq v.has
    BY <1>3, <1>7, <2>1
  <2>3. Seq(ToSet(page.order)) \subseteq Seq(v.has)
    BY <2>2
  <2> QED
    BY <1>3, <2>3
<1>10. call.kind \in {"after", "before"} => call.anchor \in v.has
  BY <1>1, <1>7 DEF CallOk, Seen
<1>11. ASSUME call.kind # "since", NEW b \in BlockType(v.has),
              Once(b.order, v.own), ToSet(b.order) = Ends(call),
              b.recent = page.recent, b.oldest = page.oldest
       PROVE  Sound(b, v)
  <2>1. /\ v = View(log, create.at, posts, S) /\ Ends(call) \subseteq S
        /\ \A p \in LiveOf(log) : log[p].hidden \/ p \in call.page.denied => p \in S
        /\ call.page.recent => \A p \in LiveOf(log) : call.page.upto < p => p \in S
    BY <1>11 DEF Seen
  <2>2. \A p, q \in DOMAIN log : p < q => log[p].at < log[q].at
    BY <1>1 DEF TimesInv
  <2> QED
    BY <1>1, <1>4, <1>11, <1>f, <2>1, <2>2, PageBlockSound
<1> QED
  BY <1>1, <1>2, <1>3, <1>4, <1>5, <1>7, <1>8, <1>9, <1>10, <1>11

LEMMA InChannelHandled ==
    ASSUME ChannelInv, NEW call \in calls, call.page # NoPage, call.kind \in InChannel,
           NEW v, NEW posts, NEW S, Seen(v, posts, call, S), ~Known(blocks, call.page),
           NEW r, r = ReceivedInChannel(loaded, blocks, call.page, posts)
    PROVE  AnswerHandled(r, blocks, v, call, posts)
<1>1. PICK page : page = call.page
  OBVIOUS
<1>2. call.kind \notin {"since", "after", "before"}
  BY DEF InChannel
<1>3. /\ IsView(v) /\ Agrees(posts, v) /\ PageOk(log, call) /\ Once(page.order, v.own)
      /\ page.order \in Seq(v.has)
      /\ \A b \in BlockType(v.has) :
                      /\ Once(b.order, v.own) /\ ToSet(b.order) = Ends(call)
                      /\ b.recent = page.recent /\ b.oldest = page.oldest
                      => Sound(b, v)
  BY <1>1, <1>2, SeenIs
<1>4. /\ page.recent \in BOOLEAN /\ page.oldest \in BOOLEAN
      /\ page.order = << >> => page.recent /\ page.oldest
  BY <1>1, <1>3 DEF PageOk, FlagsOk
<1>5. Ends(call) = ToSet(page.order)
  BY <1>1, <1>2 DEF Ends
<1>6. PICK b : b = Block(page.order, page.recent, page.oldest)
  OBVIOUS
<1>7. b \in BlockType(v.has) /\ b.order = page.order /\ b.recent = page.recent /\ b.oldest = page.oldest
  BY <1>3, <1>4, <1>6, BlockIs
<1>8. Sound(b, v)
  BY <1>3, <1>5, <1>7
<1>9. InChannelTells(loaded, blocks, page) = ToSet(page.order)
  BY <1>1 DEF InChannelTells
<1>10. PICK told0, more : told0 = InChannelTells(loaded, blocks, page) /\ more = ToSet(page.order)
  OBVIOUS
<1>11. Handled(r, blocks, v, told0, more)
  <2>1. AllSound(blocks, v) /\ EmptyIsRecent(blocks)
    BY DEF Seen
  <2> QED
    BY <1>1, <1>3, <1>4, <1>6, <1>8, <1>10, <2>1, ReceivedInChannelIs
<1>12. ToldBy(call, blocks, posts) = Ends(call)
  BY <1>2 DEF ToldBy
<1> QED
  BY <1>5, <1>9, <1>10, <1>11, <1>12 DEF Handled, AnswerHandled

LEMMA AfterHandled ==
    ASSUME ChannelInv, NEW call \in calls, call.page # NoPage, call.kind = "after",
           NEW v, NEW posts, NEW S, Seen(v, posts, call, S),
           NEW r, r = ReceivedAfter(blocks, call.page, call.anchor, posts)
    PROVE  AnswerHandled(r, blocks, v, call, posts)
<1>1. PICK page, anchor : page = call.page /\ anchor = call.anchor
  OBVIOUS
<1>3. /\ IsView(v) /\ Agrees(posts, v) /\ PageOk(log, call) /\ Once(page.order, v.own)
      /\ page.order \in Seq(v.has) /\ anchor \in v.has /\ anchor \notin ToSet(page.order)
      /\ DOMAIN page.posts \subseteq ToSet(page.order)
      /\ \A b \in BlockType(v.has) :
                      /\ Once(b.order, v.own) /\ ToSet(b.order) = Ends(call)
                      /\ b.recent = page.recent /\ b.oldest = page.oldest
                      => Sound(b, v)
  BY <1>1, SeenIs
<1>4. page.recent \in BOOLEAN /\ page.oldest = FALSE
  BY <1>1, <1>3 DEF PageOk, FlagsOk
<1>5. Ends(call) = ToSet(page.order) \cup {anchor}
  BY <1>1 DEF Ends
<1>6. PICK order, b : order = Append(page.order, anchor) /\ b = Block(order, page.recent, FALSE)
  OBVIOUS
<1>7. order \in Seq(v.has) /\ Adds(order, page.order, anchor) /\ Once(order, v.own)
  BY <1>3, <1>6, Under, AtEnd
<1>8. b \in BlockType(v.has) /\ b.order = order /\ b.recent = page.recent /\ b.oldest = page.oldest
  BY <1>4, <1>6, <1>7 DEF Block, BlockType
<1>9. Sound(b, v)
  BY <1>3, <1>5, <1>7, <1>8 DEF Adds
<1>10. PICK told0, more : told0 = PageTells(page, anchor) /\ more = ToSet(page.order) \cup {anchor}
  OBVIOUS
<1>11. AllSound(blocks, v) /\ EmptyIsRecent(blocks)
  BY DEF Seen
<1>12. Handled(r, blocks, v, told0, more)
  <2>1. b = AfterBlock(page, anchor)
    BY <1>6 DEF AfterBlock
  <2>2. r = ReceivedAfter(blocks, page, anchor, posts)
    BY <1>1
  <2>3. page.recent \in BOOLEAN /\ IsView(v) /\ Agrees(posts, v) /\ page.order \in Seq(v.has) /\ anchor \in v.has
    BY <1>3, <1>4
  <2>4. Handled(r, blocks, v, PageTells(page, anchor), ToSet(page.order) \cup {anchor})
    <3>1. PICK bs, o, flag, t, m : /\ bs = blocks /\ o = page.order /\ flag = page.recent
                                   /\ t = PageTells(page, anchor) /\ m = ToSet(page.order) \cup {anchor}
      OBVIOUS
    <3>2. AllSound(bs, v) /\ EmptyIsRecent(bs) /\ r = ReceivedAfter(bs, page, anchor, posts) /\ Sound(b, v)
      BY <1>9, <1>11, <2>2, <3>1
    <3>3. page.recent \in BOOLEAN /\ page.order \in Seq(v.has) /\ anchor \in v.has /\ IsView(v) /\ Agrees(posts, v)
      BY <2>3
    <3>4. Handled(r, bs, v, PageTells(page, anchor), ToSet(page.order) \cup {anchor})
      BY <2>1, <3>2, <3>3, ReceivedAfterIs
    <3> QED
      BY <3>1, <3>4
  <2> QED
    BY <1>10, <2>4
<1>13. ToldBy(call, blocks, posts) = Ends(call)
  BY DEF ToldBy
<1>14. CASE page.order # << >>
  <2>1. told0 = Ends(call)
    BY <1>5, <1>10, <1>14 DEF PageTells
  <2> QED
    BY <1>5, <1>10, <1>12, <1>13, <2>1 DEF Handled, AnswerHandled
<1>15. CASE page.order = << >>
  <2>1. DOMAIN call.page.posts = {} /\ Ends(call) = {anchor}
    BY <1>1, <1>3, <1>5, <1>15 DEF ToSet
  <2>2. r.ok = TRUE /\ (r.blocks = blocks \/ r.blocks = MarkBoundary(blocks, anchor, "recent"))
    BY <1>1, <1>15 DEF ReceivedAfter, Ok
  <2>3. r.blocks = blocks \/ anchor \in Shows(blocks)
    <3>1. blocks \in Seq(BlockType(v.has))
      BY <1>11 DEF AllSound
    <3> QED
      BY <2>2, <3>1, MarkBoundaryCases
  <2>4. /\ AllSound(r.blocks, v) /\ EmptyIsRecent(r.blocks)
        /\ Shows(blocks) \subseteq Shows(r.blocks) /\ Shows(r.blocks) \subseteq Shows(blocks) \cup Ends(call)
    BY <1>5, <1>10, <1>12, <2>2 DEF Handled
  <2>5. Ends(call) \subseteq Shows(r.blocks) \/ r.blocks = blocks
    BY <2>1, <2>3, <2>4
  <2> QED
    BY <1>13, <2>1, <2>2, <2>4, <2>5 DEF AnswerHandled
<1> QED
  BY <1>14, <1>15

LEMMA BeforeHandled ==
    ASSUME ChannelInv, NEW call \in calls, call.page # NoPage, call.kind = "before",
           NEW v, NEW posts, NEW S, Seen(v, posts, call, S),
           NEW r, r = ReceivedBefore(blocks, call.page, call.anchor, posts)
    PROVE  AnswerHandled(r, blocks, v, call, posts)
<1>1. PICK page, anchor : page = call.page /\ anchor = call.anchor
  OBVIOUS
<1>3. /\ IsView(v) /\ Agrees(posts, v) /\ PageOk(log, call) /\ Once(page.order, v.own)
      /\ page.order \in Seq(v.has) /\ anchor \in v.has /\ anchor \notin ToSet(page.order)
      /\ DOMAIN page.posts \subseteq ToSet(page.order)
      /\ \A b \in BlockType(v.has) :
                      /\ Once(b.order, v.own) /\ ToSet(b.order) = Ends(call)
                      /\ b.recent = page.recent /\ b.oldest = page.oldest
                      => Sound(b, v)
  BY <1>1, SeenIs
<1>4. page.oldest \in BOOLEAN /\ page.recent = FALSE
  BY <1>1, <1>3 DEF PageOk, FlagsOk
<1>5. Ends(call) = ToSet(page.order) \cup {anchor}
  BY <1>1 DEF Ends
<1>6. PICK order, b : order = <<anchor>> \o page.order /\ b = Block(order, FALSE, page.oldest)
  OBVIOUS
<1>7. order \in Seq(v.has) /\ Adds(order, page.order, anchor) /\ Once(order, v.own)
  <2>1. PICK own, ids, s : own = v.own /\ ids = v.has /\ s = page.order
    OBVIOUS
  <2>2. s \in Seq(ids) /\ Once(s, own) /\ anchor \in ids /\ anchor \notin ToSet(s) /\ order = <<anchor>> \o s
    BY <1>3, <1>6, <2>1
  <2>3. order \in Seq(ids) /\ Adds(order, s, anchor) /\ Once(order, own)
    BY <2>2, OnTop
  <2> QED
    BY <2>1, <2>3
<1>8. b \in BlockType(v.has) /\ b.order = order /\ b.recent = page.recent /\ b.oldest = page.oldest
  BY <1>4, <1>6, <1>7 DEF Block, BlockType
<1>9. Sound(b, v)
  BY <1>3, <1>5, <1>7, <1>8 DEF Adds
<1>10. PICK told0, more : told0 = PageTells(page, anchor) /\ more = ToSet(page.order) \cup {anchor}
  OBVIOUS
<1>11. AllSound(blocks, v) /\ EmptyIsRecent(blocks)
  BY DEF Seen
<1>12. Handled(r, blocks, v, told0, more)
  <2>1. b = BeforeBlock(page, anchor)
    BY <1>6 DEF BeforeBlock
  <2>2. r = ReceivedBefore(blocks, page, anchor, posts)
    BY <1>1
  <2>3. page.oldest \in BOOLEAN /\ IsView(v) /\ Agrees(posts, v) /\ page.order \in Seq(v.has) /\ anchor \in v.has
    BY <1>3, <1>4
  <2>4. Handled(r, blocks, v, PageTells(page, anchor), ToSet(page.order) \cup {anchor})
    <3>1. PICK bs, o, flag, t, m : /\ bs = blocks /\ o = page.order /\ flag = page.oldest
                                   /\ t = PageTells(page, anchor) /\ m = ToSet(page.order) \cup {anchor}
      OBVIOUS
    <3>2. AllSound(bs, v) /\ EmptyIsRecent(bs) /\ r = ReceivedBefore(bs, page, anchor, posts) /\ Sound(b, v)
      BY <1>9, <1>11, <2>2, <3>1
    <3>3. page.oldest \in BOOLEAN /\ page.order \in Seq(v.has) /\ anchor \in v.has /\ IsView(v) /\ Agrees(posts, v)
      BY <2>3
    <3>4. Handled(r, bs, v, PageTells(page, anchor), ToSet(page.order) \cup {anchor})
      BY <2>1, <3>2, <3>3, ReceivedBeforeIs
    <3> QED
      BY <3>1, <3>4
  <2> QED
    BY <1>10, <2>4
<1>13. ToldBy(call, blocks, posts) = Ends(call)
  BY DEF ToldBy
<1>14. CASE page.order # << >>
  <2>1. told0 = Ends(call)
    BY <1>5, <1>10, <1>14 DEF PageTells
  <2> QED
    BY <1>5, <1>10, <1>12, <1>13, <2>1 DEF Handled, AnswerHandled
<1>15. CASE page.order = << >>
  <2>1. DOMAIN call.page.posts = {} /\ Ends(call) = {anchor}
    BY <1>1, <1>3, <1>5, <1>15 DEF ToSet
  <2>2. r.ok = TRUE /\ (r.blocks = blocks \/ r.blocks = MarkBoundary(blocks, anchor, "oldest"))
    BY <1>1, <1>15 DEF ReceivedBefore, Ok
  <2>3. r.blocks = blocks \/ anchor \in Shows(blocks)
    <3>1. blocks \in Seq(BlockType(v.has))
      BY <1>11 DEF AllSound
    <3> QED
      BY <2>2, <3>1, MarkBoundaryCases
  <2>4. /\ AllSound(r.blocks, v) /\ EmptyIsRecent(r.blocks)
        /\ Shows(blocks) \subseteq Shows(r.blocks) /\ Shows(r.blocks) \subseteq Shows(blocks) \cup Ends(call)
    BY <1>5, <1>10, <1>12, <2>2 DEF Handled
  <2>5. Ends(call) \subseteq Shows(r.blocks) \/ r.blocks = blocks
    BY <2>1, <2>3, <2>4
  <2> QED
    BY <1>13, <2>1, <2>2, <2>4, <2>5 DEF AnswerHandled
<1> QED
  BY <1>14, <1>15

LEMMA SinceHandled ==
    ASSUME ChannelInv, NEW call \in calls, call.page # NoPage, call.kind = "since",
           NEW v, NEW posts, NEW S, Seen(v, posts, call, S),
           NEW r, r = ReceivedSince(loaded, blocks, call.page, posts)
    PROVE  AnswerHandled(r, blocks, v, call, posts)
<1>1. PICK page : page = call.page
  OBVIOUS
<1>2. /\ IsView(v) /\ Agrees(posts, v) /\ PendingId \in v.has
      /\ page.order \in Seq(DOMAIN log) /\ Once(page.order, {})
      /\ \A p \in ToSet(page.order) : Stored(posts, p) => p \in v.has
  BY <1>1, SeenIs
<1>3. AllSound(blocks, v) /\ EmptyIsRecent(blocks)
  BY DEF Seen
<1>4. PICK told0, more : told0 = SinceTells(blocks, page, posts) /\ more = ToSet(page.order)
  OBVIOUS
<1>5. Handled(r, blocks, v, told0, more)
  BY <1>1, <1>2, <1>3, <1>4, ReceivedSinceIs
<1>6. ToldBy(call, blocks, posts) = told0 /\ Ends(call) = more
  BY <1>1, <1>4 DEF ToldBy, Ends
<1> QED
  BY <1>5, <1>6 DEF Handled, AnswerHandled

LEMMA ReceivedHandled ==
    ASSUME ChannelInv, NEW call \in calls, call.page # NoPage,
           NEW v, NEW posts, NEW S, Seen(v, posts, call, S),
           ~(call.kind \in InChannel /\ Known(blocks, call.page)),
           NEW r, r = Received(call, posts)
    PROVE  AnswerHandled(r, blocks, v, call, posts)
<1>1. call.kind \in Kinds
  BY DEF ChannelInv, CopiesInv, CallsInv, IsCall
<1>2. CASE call.kind \in InChannel
  <2>1. r = ReceivedInChannel(loaded, blocks, call.page, posts)
    BY <1>2 DEF Received, InChannel
  <2> QED
    BY <1>2, <2>1, InChannelHandled
<1>3. CASE call.kind = "after"
  BY <1>3, AfterHandled DEF Received
<1>4. CASE call.kind = "before"
  BY <1>4, BeforeHandled DEF Received
<1>5. CASE call.kind = "since"
  BY <1>5, SinceHandled DEF Received
<1> QED
  BY <1>1, <1>2, <1>3, <1>4, <1>5 DEF Kinds, InChannel


\* What the recent block has, some block shows.
LEMMA InRecent ==
    ASSUME NEW v, NEW bs, AllSound(bs, v)
    PROVE  /\ PendingId \in ToSet(RecentOrder(bs)) => PendingId \in Shows(bs)
           /\ PendingId \in Shows(bs) /\ ~StraysIn(bs) => PendingId \in ToSet(RecentOrder(bs))
<1>1. PICK S, i : S = BlockType(v.has) /\ i = RecentBlock(bs)
  OBVIOUS
<1>2. bs \in Seq(S) /\ \A b \in ToSet(bs) : \E j \in DOMAIN bs : bs[j] = b
  BY <1>1, SeqFacts DEF AllSound
<1>3. \A j \in DOMAIN bs : bs[j] \in ToSet(bs)
  BY <1>2, SeqFacts
<1>4. i # 0 => i \in DOMAIN bs
  BY <1>1, <1>2, RecentBlockIs
<1>5. RecentOrder(bs) = IF i = 0 THEN << >> ELSE bs[i].order
  BY <1>1 DEF RecentOrder
<1>6. ToSet(<< >>) = {}
  BY DEF ToSet
<1>7. ASSUME PendingId \in ToSet(RecentOrder(bs)) PROVE PendingId \in Shows(bs)
  <2>1. i # 0 /\ PendingId \in ToSet(bs[i].order)
    BY <1>5, <1>6, <1>7
  <2> QED
    BY <1>3, <1>4, <2>1 DEF Shows
<1>8. ASSUME PendingId \in Shows(bs), ~StraysIn(bs) PROVE PendingId \in ToSet(RecentOrder(bs))
  <2>1. PICK b \in ToSet(bs) : PendingId \in ToSet(b.order)
    BY <1>8 DEF Shows
  <2>2. PICK j \in DOMAIN bs : bs[j] = b
    BY <1>2, <2>1
  <2>3. j = i
    BY <1>1, <1>8, <2>1, <2>2 DEF StraysIn, Has
  <2>4. i # 0
    BY <1>2, <2>2, <2>3, SeqFacts
  <2> QED
    BY <1>5, <2>1, <2>2, <2>3, <2>4
<1> QED
  BY <1>7, <1>8

\* What an answer may do to the channel
AnswerTold ==
    /\ AllSound(blocks', View(log, create.at, stored', Accounted')) /\ EmptyIsRecent(blocks')
    /\ StillSure(log, Accounted, log, Accounted')
    /\ told' \subseteq DOMAIN log /\ told' \cap LiveOf(log) \subseteq Shows(blocks')
    /\ PendingId \in Shows(blocks') => PendingId \in Shows(blocks)

LEMMA AnswerChannel ==
    ASSUME ChannelInv, CopiesInv', AnswerTold,
           UNCHANGED <<now, log, events, held, burst, timer, create>>, calls' \subseteq calls,
           missed \subseteq missed', stored'[PendingId] = stored[PendingId],
           Timed(log, create.at, stored'), KeepsStored(log, stored, stored'),
           ~strayed' => ~strayed /\ ~StraysIn(blocks'), ~loaded' => blocks' = << >>
    PROVE  ChannelInv'
<1>1. LogInv /\ LogInv' /\ PagesInv
  BY DEF ChannelInv, CopiesInv
<1>2. Continues(log, log')
  BY <1>1, ChannelFacts
<1>3. PagesInv'
  <2>1. \A c \in calls' : c \in calls
    OBVIOUS
  <2> QED
    BY <1>1, <1>2, <2>1, PagesKept
<1>4. Coming' = Coming
  BY DEF Coming
<1>5. TimesInv' /\ RequestInv'
  BY DEF ChannelInv, TimesInv, RequestInv
<1>6. QueueInv'
  BY <1>4 DEF ChannelInv, QueueInv
<1>7. ToldInv'
  BY DEF AnswerTold, ToldInv
<1>8. CoveredInv'
  <2> SUFFICES ASSUME PendingId \in Shows(blocks'), NEW p \in LiveOf(log), log[p].at > create.at
               PROVE  p \in Accounted'
    BY DEF CoveredInv
  <2>1. p \in Accounted
    BY DEF ChannelInv, CoveredInv, AnswerTold
  <2> QED
    BY <2>1 DEF AnswerTold, StillSure
<1>9. StraysInv'
  BY DEF StraysInv
<1>10. BlocksInv'
  BY DEF BlocksInv, AnswerTold
<1>11. FailedInv'
  <2> SUFFICES ASSUME ~strayed', PendingId \in ToSet(RecentOrder(blocks')), OwnOf(log) # {},
                      create.st # "created"
               PROVE  stored'[PendingId].st = "failed"
    BY DEF FailedInv
  <2>1. PICK v, w, bs, cs : /\ v = View(log, create.at, stored', Accounted') /\ bs = blocks'
                            /\ w = View(log, create.at, stored, Accounted) /\ cs = blocks
    OBVIOUS
  <2>2. AllSound(bs, v) /\ AllSound(cs, w)
    BY <2>1 DEF AnswerTold, ChannelInv, BlocksInv
  <2>3. PendingId \in Shows(bs)
    BY <2>1, <2>2, InRecent
  <2>4. PendingId \in Shows(cs) /\ ~StraysIn(cs)
    BY <2>1, <2>3 DEF AnswerTold, ChannelInv, StraysInv
  <2>5. PendingId \in ToSet(RecentOrder(cs))
    BY <2>2, <2>4, InRecent
  <2> QED
    BY <2>1, <2>5 DEF ChannelInv, FailedInv
<1> QED
  BY <1>3, <1>5, <1>6, <1>7, <1>8, <1>9, <1>10, <1>11 DEF ChannelInv


\* The blocks are left alone.
LEMMA SameTold ==
    ASSUME ChannelInv, UNCHANGED <<log, events, held, create, blocks, told>>, missed \subseteq missed',
           denied \subseteq denied', KeepsStored(log, stored, stored')
    PROVE  AnswerTold
<1>1. LogInv /\ ToldInv
  BY DEF ChannelInv, CopiesInv
<1>2. Continues(log, log) /\ LiveOf(log) \subseteq DOMAIN log
  BY <1>1, ChannelFacts
<1>3. Coming' = Coming
  BY DEF Coming
<1>4. \A p \in LiveOf(log') \cap DOMAIN log : p \in LiveOf(log) /\ (p \in Accounted => p \in Accounted')
  <2>1. Continues(log, log') /\ told' = told /\ Shows(blocks) \ {PendingId} \subseteq Shows(blocks')
    BY <1>2
  <2> QED
    BY <1>1, <1>3, <2>1, StaysSure
<1>5. StillSure(log, Accounted, log, Accounted')
  BY <1>2, <1>4 DEF StillSure
<1>6. PICK S, T, posts, bs : S = Accounted /\ T = Accounted' /\ posts = stored' /\ bs = blocks
  OBVIOUS
<1>7. AllSound(bs, View(log, create.at, stored, S)) /\ EmptyIsRecent(bs)
  BY <1>6 DEF ChannelInv, BlocksInv
<1>8. AllSound(bs, View(log, create.at, posts, T))
  <2>1. KeepsStored(log, stored, posts) /\ StillSure(log, S, log, T)
    BY <1>5, <1>6
  <2> QED
    BY <1>2, <1>7, <2>1, Reviewed
<1>9. told' \subseteq DOMAIN log /\ told' \cap LiveOf(log) \subseteq Shows(blocks')
  BY <1>1 DEF ToldInv
<1> QED
  BY <1>5, <1>6, <1>7, <1>8, <1>9 DEF AnswerTold

\* The store with the posts of the answer
AnswerStore(posts, call) ==
    /\ posts \in [Ids -> CopyType] /\ posts[PendingId] = stored[PendingId]
    /\ Timed(log, create.at, posts) /\ KeepsStored(log, stored, posts)
    /\ \A p \in DOMAIN call.page.posts : ~call.page.posts[p].deleted => Stored(posts, p)
    /\ call.kind \in {"after", "before"} => Stored(posts, call.anchor)
    /\ \A p \in Linked(log, call) : Stored(posts, p)

LEMMA AnswerStoreIs ==
    ASSUME ChannelInv, NEW call \in calls, call.page # NoPage,
           NEW D, NEW posts, posts = ReceivePosts(call.page.posts, D)
    PROVE  AnswerStore(posts, call) /\ DOMAIN call.page.posts \subseteq DOMAIN log
<1>1. CopiesInv /\ TimesInv /\ CallOk(log, stored, call) /\ PageOk(log, call)
  BY DEF ChannelInv, PagesInv, CallOk
<1>2. PICK new : new = call.page.posts
  OBVIOUS
<1>3. /\ DOMAIN new \subseteq DOMAIN log
      /\ \A p \in DOMAIN new : new[p] \in Versions(p) /\ new[p].at = log[p].at
  BY <1>1, <1>2 DEF CopiesInv, CallsInv, Versions, Answered, PageOk, PostsOk
<1>4. /\ posts \in [Ids -> CopyType] /\ posts[PendingId] = stored[PendingId]
      /\ Timed(log, create.at, posts) /\ KeepsStored(log, stored, posts)
      /\ \A p \in DOMAIN new : ~new[p].deleted => Stored(posts, p)
  BY <1>1, <1>2, <1>3, ReceivedStore
<1>5. call.kind \in {"after", "before"} => Stored(posts, call.anchor)
  BY <1>1, <1>4 DEF CallOk, KeepsStored
<1>6. \A p \in Linked(log, call) : Stored(posts, p)
  BY <1>1, <1>4 DEF CallOk, KeepsStored, Linked
<1> QED
  BY <1>2, <1>3, <1>4, <1>5, <1>6 DEF AnswerStore

\* The oldest post of the recent block is stored under the time it had.
LEMMA OldestKept ==
    ASSUME ChannelInv, NEW call, NEW posts, AnswerStore(posts, call), RecentOrder(blocks) # << >>
    PROVE  posts[Last(RecentOrder(blocks))].at = stored[Last(RecentOrder(blocks))].at
<1>1. PICK v : v = View(log, create.at, stored, Accounted)
  OBVIOUS
<1>2. AllSound(blocks, v)
  BY <1>1 DEF ChannelInv, BlocksInv
<1>3. PICK order, q : order = RecentOrder(blocks) /\ q = Last(order)
  OBVIOUS
<1>4. order \in Seq(v.has)
  <2>1. PICK recent : recent = TheRecent(blocks)
    OBVIOUS
  <2>2. Sound(recent, v) /\ recent.order = order
    BY <1>2, <1>3, <2>1, TheRecentIs
  <2> QED
    BY <2>2 DEF Sound, BlockType
<1>5. q \in v.has
  <2>1. order # << >>
    BY <1>3
  <2> QED
    BY <1>3, <1>4, <2>1, SeqFacts
<1>6. q = PendingId \/ (q \in DOMAIN log /\ Stored(stored, q))
  BY <1>1, <1>5 DEF View, KeptOf
<1>7. CASE q = PendingId
  BY <1>3, <1>7 DEF AnswerStore
<1>8. CASE q \in DOMAIN log /\ Stored(stored, q)
  <2>1. stored[q].at = log[q].at
    BY <1>8 DEF ChannelInv, TimesInv, Timed
  <2>2. posts[q].at = log[q].at
    BY <1>8 DEF AnswerStore, Timed, KeepsStored
  <2> QED
    BY <1>3, <2>1, <2>2
<1> QED
  BY <1>6, <1>7, <1>8

\* The live posts of the answer are among those it tells the blocks.
LEMMA LiveTold ==
    ASSUME ChannelInv, NEW call \in calls, call.page # NoPage,
           NEW posts, AnswerStore(posts, call), DOMAIN call.page.posts \subseteq DOMAIN log
    PROVE  Tells(call) \cap LiveOf(log) \subseteq ToldBy(call, blocks, posts)
<1> SUFFICES ASSUME NEW p \in Tells(call), p \in LiveOf(log)
             PROVE  p \in ToldBy(call, blocks, posts)
  OBVIOUS
<1>1. PageOk(log, call)
  BY DEF ChannelInv, PagesInv, CallOk
<1>2. p \in DOMAIN call.page.posts /\ p \in ToSet(call.page.order) /\ p \in DOMAIN log
  BY <1>1 DEF Tells, PageOk, OrderOk
<1>3. CASE call.kind # "since"
  BY <1>2, <1>3 DEF ToldBy, Ends
<1>4. CASE call.kind = "since"
  <2>1. PICK order : order = RecentOrder(blocks)
    OBVIOUS
  <2>2. Recent = order
    BY <2>1 DEF Recent, RecentOrder
  <2>3. order # << >> /\ log[p].at > stored[Last(order)].at
    BY <1>4, <2>2 DEF Tells
  <2>4. Stored(posts, p)
    BY <1>1, <1>2 DEF PageOk, PostsOk, AnswerStore
  <2>5. posts[p].at = log[p].at
    BY <1>2, <2>4 DEF AnswerStore, Timed
  <2>6. posts[Last(order)].at = stored[Last(order)].at
    BY <2>1, <2>3, OldestKept
  <2> QED
    BY <1>2, <1>4, <2>1, <2>3, <2>4, <2>5, <2>6 DEF ToldBy, SinceTells
<1> QED
  BY <1>3, <1>4


\* The answer is taken: what was accounted for before, or by the page
TakenSure(call, posts, bs) ==
    Untaken(log, Coming, missed', told', denied')
        \cup (DOMAIN log \cap (Shows(blocks) \cup Shows(bs))) \cup ToldBy(call, blocks, posts)
TakesNote(call, bs) ==
    /\ told' = told \cup Tells(call) /\ missed \subseteq missed'
    /\ denied' = denied \cup call.page.denied
    /\ call.page.recent =>
           \A p \in LiveOf(log) : call.page.upto < p =>
               p \in Shows(bs) \/ PostedEvent(p) \in Coming \cup missed'

LEMMA TakenSeen ==
    ASSUME ChannelInv, NEW call \in calls, call.page # NoPage,
           NEW posts, AnswerStore(posts, call), DOMAIN call.page.posts \subseteq DOMAIN log,
           NEW bs, TakesNote(call, bs), NEW S, S = TakenSure(call, posts, bs),
           NEW v, v = View(log, create.at, posts, S)
    PROVE  Seen(v, posts, call, S) /\ StillSure(log, Accounted, log, S)
<1>1. LogInv /\ ToldInv
  BY DEF ChannelInv, CopiesInv
<1>2. Continues(log, log) /\ LiveOf(log) \subseteq DOMAIN log
  BY <1>1, ChannelFacts
<1>3. PICK E : E = ToldBy(call, blocks, posts)
  OBVIOUS
<1>4. Tells(call) \cap LiveOf(log) \subseteq E
  BY <1>3, LiveTold
<1>5. /\ \A p \in DOMAIN log : PostedEvent(p) \in Coming => p \in S
      /\ \A p \in DOMAIN log : PostedEvent(p) \in missed' /\ p \notin told' => p \in S
      /\ \A p \in DOMAIN log : p \in Shows(blocks) \/ p \in Shows(bs) => p \in S
      /\ \A p \in DOMAIN log : log[p].hidden \/ p \in denied' => p \in S
      /\ E \subseteq S
  BY <1>3 DEF TakenSure, Untaken
<1>6. \A p \in LiveOf(log) : p \in told' => p \in S
  <2>1. told \cap LiveOf(log) \subseteq Shows(blocks) /\ told' = told \cup Tells(call)
    BY <1>1 DEF ToldInv, TakesNote
  <2> QED
    BY <1>2, <1>4, <1>5, <2>1
<1>7. \A p \in LiveOf(log) : PostedEvent(p) \in missed' => p \in S
  BY <1>2, <1>5, <1>6
<1>8. ASSUME NEW p \in LiveOf(log), p \in Accounted PROVE p \in S
  <2>1. \/ PostedEvent(p) \in Coming \/ PostedEvent(p) \in missed \/ p \in Shows(blocks)
        \/ log[p].hidden \/ p \in denied
    BY <1>8 DEF Accounted, Reckoned
  <2> QED
    BY <1>2, <1>5, <1>7, <2>1 DEF TakesNote
<1>9. StillSure(log, Accounted, log, S)
  BY <1>8 DEF StillSure
<1>10. call.page.recent => \A p \in LiveOf(log) : call.page.upto < p => p \in S
  BY <1>2, <1>5, <1>7 DEF TakesNote
<1>11. /\ call.kind # "since" => Ends(call) \subseteq S
       /\ \A p \in LiveOf(log) : log[p].hidden \/ p \in call.page.denied => p \in S
  BY <1>2, <1>3, <1>5 DEF ToldBy, TakesNote
<1>12. AllSound(blocks, v) /\ EmptyIsRecent(blocks)
  <2>1. PICK before : before = Accounted
    OBVIOUS
  <2>2. AllSound(blocks, View(log, create.at, stored, before)) /\ EmptyIsRecent(blocks)
    BY <2>1 DEF ChannelInv, BlocksInv
  <2>3. KeepsStored(log, stored, posts) /\ StillSure(log, before, log, S)
    BY <1>9, <2>1 DEF AnswerStore
  <2> QED
    BY <1>2, <2>2, <2>3, Reviewed
<1>13. /\ posts \in [Ids -> CopyType] /\ Timed(log, create.at, posts)
       /\ \A p \in DOMAIN call.page.posts : ~call.page.posts[p].deleted => Stored(posts, p)
       /\ call.kind \in {"after", "before"} => Stored(posts, call.anchor)
       /\ \A p \in Linked(log, call) : Stored(posts, p)
  BY DEF AnswerStore
<1> QED
  BY <1>9, <1>10, <1>11, <1>12, <1>13 DEF Seen

LEMMA TakenTold ==
    ASSUME ChannelInv, NEW call \in calls, call.page # NoPage,
           NEW posts, AnswerStore(posts, call), DOMAIN call.page.posts \subseteq DOMAIN log,
           ~(call.kind \in InChannel /\ Known(blocks, call.page)),
           NEW r, r = Received(call, posts), r.ok, TakesNote(call, r.blocks),
           UNCHANGED <<log, events, held, create>>, stored' = posts, blocks' = r.blocks
    PROVE  AnswerTold
<1>1. PICK bs : bs = r.blocks
  OBVIOUS
<1>2. PICK S : S = TakenSure(call, posts, bs)
  OBVIOUS
<1>3. PICK v : v = View(log, create.at, posts, S)
  OBVIOUS
<1>4. Seen(v, posts, call, S) /\ StillSure(log, Accounted, log, S)
  <2>1. TakesNote(call, bs)
    BY <1>1
  <2> QED
    BY <1>2, <1>3, <2>1, TakenSeen
<1>5. AnswerHandled(r, blocks, v, call, posts)
  BY <1>4, ReceivedHandled
<1>6. LogInv /\ ToldInv /\ Continues(log, log) /\ LiveOf(log) \subseteq DOMAIN log /\ PendingId \notin DOMAIN log
  <2>1. LogInv /\ ToldInv
    BY DEF ChannelInv, CopiesInv
  <2> QED
    BY <2>1, ChannelFacts
<1>7. /\ AllSound(bs, v) /\ EmptyIsRecent(bs) /\ Shows(blocks) \subseteq Shows(bs)
      /\ Shows(bs) \subseteq Shows(blocks) \cup Ends(call)
      /\ \/ ToldBy(call, blocks, posts) \subseteq Shows(bs)
         \/ bs = blocks /\ DOMAIN call.page.posts = {}
  BY <1>1, <1>5 DEF AnswerHandled
<1>8. /\ told' = told \cup Tells(call) /\ Tells(call) \subseteq DOMAIN call.page.posts
      /\ missed \subseteq missed' /\ denied \subseteq denied'
  BY DEF TakesNote, Tells
<1>9. CASE bs = blocks /\ DOMAIN call.page.posts = {}
  <2>1. told' = told /\ blocks' = blocks
    BY <1>1, <1>8, <1>9
  <2>2. KeepsStored(log, stored, stored')
    BY DEF AnswerStore
  <2> QED
    BY <1>8, <2>1, <2>2, SameTold
<1>10. CASE ToldBy(call, blocks, posts) \subseteq Shows(bs)
  <2>1. PICK T : T = Accounted'
    OBVIOUS
  <2>2. T = Untaken(log, Coming, missed', told', denied') \cup (DOMAIN log \cap Shows(bs))
    <3>1. Coming' = Coming
      BY DEF Coming
    <3> QED
      BY <1>1, <2>1, <3>1, AccountedIs
  <2>3. S \cap LiveOf(log) \subseteq T
    <3>1. S = Untaken(log, Coming, missed', told', denied')
                \cup (DOMAIN log \cap (Shows(blocks) \cup Shows(bs))) \cup ToldBy(call, blocks, posts)
      BY <1>2 DEF TakenSure
    <3> QED
      BY <1>6, <1>7, <1>10, <2>2, <3>1
  <2>4. StillSure(log, S, log, T) /\ StillSure(log, Accounted, log, T)
    BY <1>4, <2>3 DEF StillSure
  <2>5. AllSound(bs, View(log, create.at, posts, T))
    <3>1. KeepsStored(log, posts, posts)
      BY DEF KeepsStored
    <3>2. AllSound(bs, View(log, create.at, posts, S))
      BY <1>3, <1>7
    <3> QED
      BY <1>6, <2>4, <3>1, <3>2, Reviewed
  <2>6. told' \subseteq DOMAIN log
    BY <1>6, <1>8 DEF ToldInv
  <2>7. told' \cap LiveOf(log) \subseteq Shows(bs)
    <3>1. Tells(call) \cap LiveOf(log) \subseteq Shows(bs)
      BY <1>10, LiveTold
    <3> QED
      BY <1>6, <1>7, <1>8, <3>1 DEF ToldInv
  <2>8. PendingId \in Shows(bs) => PendingId \in Shows(blocks)
    <3>1. Ends(call) \subseteq DOMAIN log
      <4>1. PICK page : page = call.page
        OBVIOUS
      <4> QED
        BY <1>4, <4>1, SeenIs
    <3> QED
      BY <1>6, <1>7, <3>1
  <2> QED
    BY <1>1, <1>7, <2>1, <2>4, <2>5, <2>6, <2>7, <2>8 DEF AnswerTold
<1> QED
  BY <1>7, <1>9, <1>10


LEMMA ReceiveAnswerIs ==
    ASSUME ChannelInv, NEW call \in calls, ReceiveAnswer(call) PROVE ChannelInv'
<1>1. PICK D, posts, r, taken :
          /\ posts = ReceivePosts(call.page.posts, D) /\ r = Received(call, posts)
          /\ taken = (r.ok /\ ~(call.kind \in InChannel /\ Known(blocks, call.page)))
          /\ Dispatch(posts, r, loaded \/ call.kind \in InChannel)
          /\ told' = told \cup IF taken THEN Tells(call) ELSE {}
          /\ denied' = denied \cup IF taken THEN call.page.denied ELSE {}
          /\ missed' = missed \cup
                IF taken /\ call.page.recent
                THEN Posted({p \in call.page.upto + 1 .. Len(log) : ~Shown(p)'}) \ Coming
                ELSE {}
  BY DEF ReceiveAnswer
<1>2. taken \in BOOLEAN /\ (taken <=> r.ok /\ ~(call.kind \in InChannel /\ Known(blocks, call.page)))
  BY <1>1
<1>3. /\ UNCHANGED <<now, log, events, held, burst, timer, create>> /\ calls' \subseteq calls
      /\ call.page # NoPage
  BY DEF ReceiveAnswer, queue
<1>4. /\ told' = told \cup IF taken THEN Tells(call) ELSE {}
      /\ denied' = denied \cup IF taken THEN call.page.denied ELSE {}
  BY <1>1
<1>5. missed' = missed \cup IF taken /\ call.page.recent
                            THEN Posted({p \in call.page.upto + 1 .. Len(log) : ~Shown(p)'}) \ Coming
                            ELSE {}
  BY <1>1
<1>6. ~strayed' => ~strayed /\ ~StraysIn(blocks')
  <2>1. strayed' = (strayed \/ Strays')
    BY DEF ReceiveAnswer
  <2>2. Strays' = StraysIn(blocks')
    BY DEF Strays, StraysIn
  <2> QED
    BY <2>1, <2>2
<1>7. CopiesInv' /\ AnswerStore(posts, call) /\ DOMAIN call.page.posts \subseteq DOMAIN log
  BY <1>1, <1>3, AnswerStoreIs, ReceiveAnswerKeeps DEF ChannelInv
<1>8. missed \subseteq missed' /\ denied \subseteq denied'
  BY <1>4, <1>5
<1>9. \/ stored' = posts /\ blocks' = r.blocks /\ (~loaded' => blocks' = << >>) /\ r.ok
      \/ stored' = stored /\ blocks' = blocks /\ loaded' = loaded /\ ~r.ok
  BY <1>1 DEF Dispatch, client
<1>10. /\ stored'[PendingId] = stored[PendingId]
       /\ Timed(log, create.at, stored') /\ KeepsStored(log, stored, stored')
  <2>1. CASE stored' = posts
    BY <1>7, <2>1 DEF AnswerStore
  <2>2. CASE stored' = stored
    BY <2>2 DEF ChannelInv, TimesInv, KeepsStored
  <2> QED
    BY <1>9, <2>1, <2>2
<1>11. ~loaded' => blocks' = << >>
  BY <1>9 DEF ChannelInv, BlocksInv
<1>12. AnswerTold
  <2>1. CASE taken
    <3>1. r.ok /\ ~(call.kind \in InChannel /\ Known(blocks, call.page))
      BY <1>2, <2>1
    <3>2. stored' = posts /\ blocks' = r.blocks
      BY <1>9, <3>1
    <3>3. told' = told \cup Tells(call) /\ denied' = denied \cup call.page.denied
      BY <1>4, <2>1
    <3>4. ASSUME call.page.recent, NEW p \in LiveOf(log), call.page.upto < p
          PROVE  p \in Shows(r.blocks) \/ PostedEvent(p) \in Coming \cup missed'
      <4>1. p \in call.page.upto + 1 .. Len(log)
        <5>1. LogInv /\ CallOk(log, stored, call)
          BY DEF ChannelInv, CopiesInv, PagesInv
        <5>2. call.page.upto \in Nat
          BY <1>3, <5>1 DEF CallOk, PageOk, OrderOk
        <5>3. p \in DOMAIN log /\ DOMAIN log = 1 .. Len(log) /\ Len(log) \in Nat
          BY <5>1, ChannelFacts, LogFacts
        <5> QED
          BY <3>4, <5>2, <5>3
      <4>2. Shown(p)' <=> p \in Shows(r.blocks)
        BY <3>2 DEF Shown, Shows, Has
      <4>3. ~Shown(p)' => PostedEvent(p) \in Posted({q \in call.page.upto + 1 .. Len(log) : ~Shown(q)'})
        BY <4>1 DEF Posted, PostedEvent
      <4> QED
        BY <1>5, <2>1, <3>4, <4>2, <4>3
    <3>5. TakesNote(call, r.blocks)
      BY <1>8, <3>3, <3>4 DEF TakesNote
    <3> QED
      BY <1>1, <1>3, <1>7, <3>1, <3>2, <3>5, TakenTold
  <2>2. CASE ~taken
    <3>1. blocks' = blocks
      <4>1. CASE r.ok
        <5>1. call.kind \in InChannel /\ Known(blocks, call.page)
          BY <1>2, <2>2, <4>1
        <5>2. r = ReceivedInChannel(loaded, blocks, call.page, posts)
          BY <1>1, <5>1 DEF Received, InChannel
        <5>3. r = Ok(blocks)
          BY <5>1, <5>2 DEF ReceivedInChannel, Known
        <5> QED
          BY <1>9, <4>1, <5>3 DEF Ok
      <4>2. CASE ~r.ok
        BY <1>9, <4>2
      <4> QED
        BY <4>1, <4>2
    <3>2. told' = told
      BY <1>4, <2>2
    <3> QED
      BY <1>3, <1>8, <1>10, <3>1, <3>2, SameTold
  <2> QED
    BY <1>2, <2>1, <2>2
<1> QED
  BY <1>3, <1>6, <1>7, <1>8, <1>10, <1>11, <1>12, AnswerChannel

-----------------------------------------------------------------------------
\* Every step, and the beginning

LEMMA InitChannel == Init => ChannelInv
<1> SUFFICES ASSUME Init PROVE ChannelInv
  OBVIOUS
<1>1. CopiesInv
  BY CopiesInit
<1>2. /\ DOMAIN log = 1 .. InitPosts /\ \A p \in DOMAIN log : log[p].at = p /\ ~log[p].own
  BY DEF Init
<1>3. InitPosts \in Nat /\ BurstLimit \in Nat
  BY ChannelPostsAssumption
<1>4. PendingId \in Ids /\ DOMAIN log \subseteq Ids
  BY <1>1, ChannelFacts DEF CopiesInv, Ids
<1>5. \A id \in Ids : ~Stored(stored, id)
  BY DEF Init, Stored, NoPost
<1>6. TimesInv
  BY <1>2, <1>3, <1>4, <1>5 DEF Init, TimesInv, Timed, Request
<1>7. RequestInv
  BY <1>2 DEF Init, RequestInv, Request, OwnOf
<1>8. QueueInv
  <2>1. \A p : PostedEvent(p) \notin Coming
    BY ComingIs DEF Init, ToSet
  <2> QED
    BY <2>1 DEF Init, QueueInv, ToSet
<1>9. PagesInv
  BY DEF Init, PagesInv
<1>10. blocks = << >> /\ told = {}
  BY DEF Init
<1>11. ToldInv /\ CoveredInv /\ StraysInv /\ FailedInv /\ BlocksInv
  BY <1>10, EmptyBlocks DEF ToldInv, CoveredInv, StraysInv, FailedInv, BlocksInv
<1> QED
  BY <1>1, <1>6, <1>7, <1>8, <1>9, <1>11 DEF ChannelInv

LEMMA NextChannel == ChannelInv /\ [Next]_vars => ChannelInv'
<1> SUFFICES ASSUME ChannelInv, [Next]_vars PROVE ChannelInv'
  OBVIOUS
<1>1. CASE OthersPost
  BY <1>1, OthersPostIs
<1>2. ASSUME NEW p \in PostIds, NEW type \in {"post_edited", "post_deleted"}, ChangePost(p, type)
      PROVE  ChannelInv'
  BY <1>2, ChangePostIs
<1>3. CASE CreatePost
  BY <1>3, CreatePostIs
<1>4. ASSUME NEW call \in calls,
             Answer(call) \/ FetchNewest(call) \/ ReceiveAnswer(call) \/ CallFails(call)
      PROVE  ChannelInv'
  BY <1>4, AnswerIs, FetchNewestIs, ReceiveAnswerIs, CallFailsIs
<1>5. CASE OpenChannel
  BY <1>5, OpenChannelIs
<1>6. ASSUME NEW p \in PostIds, OpenPermalink(p) PROVE ChannelInv'
  BY <1>6, OpenPermalinkIs
<1>7. ASSUME NEW block \in ToSet(blocks), LoadMore(block) PROVE ChannelInv'
  BY <1>7, LoadMoreIs
<1>8. CASE ResetChannel
  BY <1>8, ResetIs
<1>9. CASE HandleEvent
  BY <1>9, HandleEventIs
<1>10. CASE BurstEnds
  BY <1>10, BurstEndsIs
<1>11. CASE Disconnect
  BY <1>11, DisconnectIs
<1>12. CASE Reconnect
  BY <1>12, ReconnectIs
<1>13. ASSUME NEW again \in BOOLEAN, SubmitPost(again) PROVE ChannelInv'
  BY <1>13, SubmitPostIs
<1>14. CASE PostCreated
  BY <1>14, PostCreatedIs
<1>15. CASE PostFails
  BY <1>15, PostFailsIs
<1>16. CASE RemoveFailed
  BY <1>16, RemoveFailedIs
<1>17. CASE UNCHANGED vars
  BY <1>17, StutterChannel
<1> QED
  BY <1>1, <1>2, <1>3, <1>4, <1>5, <1>6, <1>7, <1>8, <1>9, <1>10, <1>11, <1>12, <1>13,
     <1>14, <1>15, <1>16, <1>17 DEF Next

-----------------------------------------------------------------------------
\* The blocks are sound in every reachable state: whatever events, answers and submissions
\* overtake one another, a block is a stretch of the channel but for posts of which the client
\* is still to be told, or was not, that another block shows, that the user has hidden, or that
\* a page denied because posts were filtered from it.
THEOREM ChannelSound == Spec => []ChannelInv
BY InitChannel, NextChannel, PTL DEF Spec


\* A block of a sound list, in the words of the properties
LEMMA BlockFacts ==
    ASSUME ChannelInv, NEW block \in ToSet(blocks)
    PROVE  /\ block.order \in Seq(Ids) /\ block.recent \in BOOLEAN /\ block.oldest \in BOOLEAN
           /\ \A id \in Servers(block) : id \in DOMAIN log /\ Stored(stored, id)
           /\ Once(block.order, OwnOf(log))
           /\ (block.order = << >> => block.recent) /\ Servers(block) = ToSet(block.order) \ {PendingId}
           /\ \A p \in LiveOf(log) :
                  /\ block.oldest \/ \E q \in Servers(block) : q < p
                  /\ block.recent \/ \E q \in Servers(block) : p < q
                  => p \in Accounted
<1>1. PICK S, v : S = Accounted /\ v = View(log, create.at, stored, S)
  OBVIOUS
<1>2. /\ LogInv /\ TimesInv /\ AllSound(blocks, v) /\ EmptyIsRecent(blocks)
  BY <1>1 DEF ChannelInv, CopiesInv, BlocksInv
<1>3. /\ DOMAIN log \subseteq Ids /\ PendingId \notin DOMAIN log /\ LiveOf(log) \subseteq DOMAIN log
      /\ PendingId \in Ids /\ \A p \in DOMAIN log : log[p].at \in Nat /\ p \in Nat
  BY <1>2, ChannelFacts DEF Ids
<1>4. Sound(block, v) /\ (block.order = << >> => block.recent)
  BY <1>2 DEF AllSound, EmptyIsRecent
<1>5. /\ v.has = KeptOf(log, stored) /\ v.own = OwnOf(log) /\ v.live = LiveOf(log) /\ v.sure = S
      /\ \A p \in DOMAIN log : v.at[p] = log[p].at
  BY <1>1, <1>3, AtIs DEF View
<1>6. /\ block.order \in Seq(KeptOf(log, stored)) /\ block.recent \in BOOLEAN /\ block.oldest \in BOOLEAN
      /\ Once(block.order, OwnOf(log))
  BY <1>4, <1>5 DEF Sound, BlockType
<1>7. KeptOf(log, stored) \subseteq Ids
  BY <1>3 DEF KeptOf
<1>8. block.order \in Seq(Ids)
  <2>1. Seq(KeptOf(log, stored)) \subseteq Seq(Ids)
    BY <1>7
  <2> QED
    BY <1>6, <2>1
<1>9. ToSet(block.order) \subseteq KeptOf(log, stored)
  BY <1>6, SeqFacts
<1>10. \A id \in Servers(block) : id \in DOMAIN log /\ Stored(stored, id) /\ id \in ToSet(block.order)
  BY <1>9 DEF Servers, KeptOf
<1>11. ASSUME NEW p \in LiveOf(log),
              block.oldest \/ \E q \in Servers(block) : q < p,
              block.recent \/ \E q \in Servers(block) : p < q
       PROVE  p \in Accounted
  <2>1. ASSUME NEW q \in Servers(block), q < p
        PROVE  q \in ToSet(block.order) /\ v.at[q] <= v.at[p]
    <3>1. q \in DOMAIN log /\ p \in DOMAIN log /\ log[q].at < log[p].at
      BY <1>2, <1>3, <1>10, <2>1 DEF TimesInv
    <3> QED
      BY <1>3, <1>5, <1>10, <3>1
  <2>2. ASSUME NEW q \in Servers(block), p < q
        PROVE  q \in ToSet(block.order) /\ v.at[p] <= v.at[q]
    <3>1. q \in DOMAIN log /\ p \in DOMAIN log /\ log[p].at < log[q].at
      BY <1>2, <1>3, <1>10, <2>2 DEF TimesInv
    <3> QED
      BY <1>3, <1>5, <1>10, <3>1
  <2>3. Spans(block, v, p)
    BY <1>11, <2>1, <2>2 DEF Spans
  <2> QED
    BY <1>1, <1>4, <1>5, <2>3 DEF Sound
<1> QED
  BY <1>4, <1>6, <1>8, <1>10, <1>11 DEF Servers

LEMMA AccountedFor ==
    ASSUME NEW block, NEW p \in Lacks(block), p \in Accounted
    PROVE  Untold("posted", p) \/ Shown(p)
<1>1. ~log[p].hidden /\ p \notin denied
  BY DEF Lacks, Kept
<1>2. \/ PostedEvent(p) \in Coming
      \/ PostedEvent(p) \in missed /\ p \notin told
      \/ p \in Shows(blocks)
  BY <1>1 DEF Accounted, Reckoned
<1>3. p \in Shows(blocks) => Shown(p)
  BY DEF Shows, Shown, Has
<1> QED
  BY <1>2, <1>3 DEF Untold, PostedEvent

LEMMA LacksIs ==
    ASSUME NEW block, NEW p \in Lacks(block)
    PROVE  p \in LiveOf(log) /\ p \notin Servers(block) /\ p \notin ToSet(block.order)
BY DEF Lacks, Kept, Live, LiveOf, Servers, Has

\* What a block shows is stored, but for the pending post: no merge, new post or removal
\* leaves the id of a post the store has not (receivedNewPost, mergePostBlocks).
THEOREM OnlyPendingIsMissing == Spec => []OnlyPendingDangles
<1>1. ChannelInv => OnlyPendingDangles
  BY BlockFacts DEF OnlyPendingDangles
<1> QED
  BY <1>1, ChannelSound, PTL

\* No post of another user is in a block twice, nor the pending post: events, pages and
\* merges add only ids the block has not (mergePostOrder, receivedNewPost).
THEOREM OthersComeOnce == Spec => []OthersOnce
<1>1. ASSUME ChannelInv PROVE OthersOnce
  <2> SUFFICES ASSUME NEW block \in ToSet(blocks), NEW j \in DOMAIN block.order,
                      NEW k \in DOMAIN block.order, block.order[j] = block.order[k], j # k
               PROVE  block.order[j] # PendingId /\ log[block.order[j]].own
    BY DEF OthersOnce
  <2>1. block.order[j] \in OwnOf(log)
    <3>1. Once(block.order, OwnOf(log))
      BY <1>1, BlockFacts
    <3> QED
      BY <3>1 DEF Once
  <2>2. PendingId \notin DOMAIN log
    BY <1>1, ChannelFacts DEF ChannelInv, CopiesInv
  <2> QED
    BY <2>1, <2>2 DEF OwnOf
<1> QED
  BY <1>1, ChannelSound, PTL

\* A block has no hole the client does not know of: a post the user sees, which the server has
\* between two posts of a block, is in a block, or an event that tells of it is to come or was
\* lost, or a filtered page denied it (getPostsForChannel, AddCursorIdsForPostList).
THEOREM GapsAreTold == Spec => []NoSilentGap
<1>1. ASSUME ChannelInv PROVE NoSilentGap
  <2> SUFFICES ASSUME NEW block \in ToSet(blocks), NEW p \in Lacks(block),
                      NEW q \in Servers(block), NEW r \in Servers(block), q < p, p < r
               PROVE  Untold("posted", p) \/ Shown(p)
    BY DEF NoSilentGap
  <2>1. p \in Accounted
    BY <1>1, BlockFacts, LacksIs
  <2> QED
    BY <2>1, AccountedFor
<1> QED
  BY <1>1, ChannelSound, PTL

\* A recent block reaches to the end of the channel, but for posts that are in another block,
\* whose event is to come or was lost, or that a filtered page denied.
THEOREM RecentReachesEnd == Spec => []RecentIsRecent
<1>1. ASSUME ChannelInv PROVE RecentIsRecent
  <2> SUFFICES ASSUME NEW block \in ToSet(blocks), block.recent, Servers(block) # {},
                      NEW p \in Lacks(block), ~\E q \in Servers(block) : p < q
               PROVE  Untold("posted", p) \/ Shown(p)
    BY DEF RecentIsRecent
  <2>1. PICK q \in Servers(block) : TRUE
    OBVIOUS
  <2>2. p \in LiveOf(log) /\ p # q /\ q \in DOMAIN log
    BY <1>1, BlockFacts, LacksIs
  <2>3. p \in Nat /\ q \in Nat
    BY <1>1, <2>2, ChannelFacts DEF ChannelInv, CopiesInv
  <2>4. q < p
    BY <2>2, <2>3
  <2>5. p \in Accounted
    BY <1>1, <2>2, <2>4, BlockFacts
  <2> QED
    BY <2>5, AccountedFor
<1> QED
  BY <1>1, ChannelSound, PTL

\* Nothing comes before a block that begins with the oldest post of the channel, but for posts
\* that are in another block, whose event is to come or was lost, or that a filtered page denied.
THEOREM OldestReachesStart == Spec => []OldestIsOldest
<1>1. ASSUME ChannelInv PROVE OldestIsOldest
  <2> SUFFICES ASSUME NEW block \in ToSet(blocks), block.oldest,
                      NEW p \in Lacks(block), ~\E q \in Servers(block) : q < p
               PROVE  Untold("posted", p) \/ Shown(p)
    BY DEF OldestIsOldest
  <2>1. p \in LiveOf(log) /\ p \notin Servers(block) /\ p \notin ToSet(block.order)
    BY LacksIs
  <2>2. \A q \in Servers(block) : q \in Nat /\ p \in Nat
    BY <1>1, <2>1, ChannelFacts, BlockFacts DEF ChannelInv, CopiesInv
  <2>3. \A q \in Servers(block) : p < q
    BY <2>1, <2>2
  <2>4. p \in Accounted
    <3>1. CASE block.recent \/ Servers(block) # {}
      BY <1>1, <2>1, <2>3, <3>1, BlockFacts
    <3>2. CASE ~block.recent /\ Servers(block) = {}
      <4>1. block.order # << >> /\ block.order \in Seq(Ids) /\ ToSet(block.order) \subseteq {PendingId}
        BY <1>1, <3>2, BlockFacts DEF Servers
      <4>2. PendingId \in ToSet(block.order)
        BY <4>1, SeqFacts
      <4>3. PendingId \in Shows(blocks)
        BY <4>2 DEF Shows
      <4>4. CASE log[p].at > create.at
        BY <1>1, <2>1, <4>3, <4>4 DEF ChannelInv, CoveredInv
      <4>5. CASE ~(log[p].at > create.at)
        <5>1. PICK v : v = View(log, create.at, stored, Accounted)
          OBVIOUS
        <5>2. Sound(block, v) /\ LogInv /\ CreateInv
          BY <1>1, <5>1 DEF ChannelInv, CopiesInv, BlocksInv, AllSound
        <5>3. /\ PendingId \notin DOMAIN log /\ p \in DOMAIN log /\ log[p].at \in Nat /\ create.at \in Nat
          BY <2>1, <5>2, ChannelFacts DEF CreateInv
        <5>4. v.at[PendingId] = create.at /\ v.at[p] = log[p].at /\ p \in v.live /\ v.sure = Accounted
          BY <2>1, <5>1, <5>3, AtIs DEF View
        <5>5. v.at[p] <= v.at[PendingId]
          BY <4>5, <5>3, <5>4
        <5>6. Spans(block, v, p)
          BY <4>2, <5>5 DEF Spans
        <5> QED
          BY <5>2, <5>4, <5>6 DEF Sound
      <4> QED
        BY <4>4, <4>5
    <3> QED
      BY <3>1, <3>2
  <2> QED
    BY <2>4, AccountedFor
<1> QED
  BY <1>1, ChannelSound, PTL

\* Once the server has the user's post, the end of the channel shows the pending one only until
\* the answer of createPost came, or as a post that failed, unless a page left it elsewhere.
THEOREM PendingIsResolved == Spec => []PendingResolved
<1>1. ASSUME ChannelInv PROVE PendingResolved
  <2> SUFFICES ASSUME ~strayed, PendingId \in ToSet(Recent), NEW p \in DOMAIN log, log[p].own,
                      create.st # "created"
               PROVE  stored[PendingId].st = "failed"
    BY DEF PendingResolved
  <2>1. Recent = RecentOrder(blocks)
    BY DEF Recent, RecentOrder
  <2>2. OwnOf(log) # {}
    BY DEF OwnOf
  <2> QED
    BY <1>1, <2>1, <2>2 DEF ChannelInv, FailedInv
<1> QED
  BY <1>1, ChannelSound, PTL


-----------------------------------------------------------------------------
\* Types

FlagsInv ==
    /\ up \in BOOLEAN /\ sending \in BOOLEAN /\ loaded \in BOOLEAN /\ strayed \in BOOLEAN
    /\ timer \in BOOLEAN /\ left \in Allowed
DatesInv ==
    /\ lastDisconnectAt \in Nat /\ lastDisconnectAt <= now
    /\ lastGetPosts \in Nat /\ lastGetPosts <= now
    /\ \A c \in calls : c.time \in Nat /\ c.time <= now
NewsType(l) == [type : {"posted", "post_edited", "post_deleted"}, id : DOMAIN l]
LossesInv ==
    /\ missed \subseteq NewsType(log) /\ Len(held) <= HeldLimit
    /\ denied \cup revived \subseteq DOMAIN log
\* The store has nothing of a post that is not stored, and the pending post is dated.
UnstoredInv ==
    /\ \A p \in PostIds : ~Stored(stored, p) => stored[p].at = 0 /\ stored[p].upd = 0
    /\ stored[PendingId].at <= now /\ stored[PendingId].upd <= now
TypesInv == FlagsInv /\ DatesInv /\ LossesInv /\ UnstoredInv

\* The clock goes on, and so does the log.
LEMMA ClockGoesOn ==
    ASSUME ChannelInv, [Next]_vars
    PROVE  now \in Nat /\ now' \in Nat /\ now <= now' /\ DOMAIN log \subseteq DOMAIN log'
<1>1. LogInv
  BY DEF ChannelInv, CopiesInv
<1>2. now \in Nat /\ log \in Seq(PostType)
  BY <1>1 DEF LogInv
<1> DEFINE Ticks == now' = now \/ now' = now + 1
           Goes == \/ log' = log
                   \/ \E x : log' = Append(log, x)
                   \/ \E p, x, y : log' = [log EXCEPT ![p].upd = x, ![p].deleted = y]
<1>3. Ticks /\ Goes
  <2>1. CASE OthersPost
    BY <2>1 DEF OthersPost, SavePost
  <2>2. ASSUME NEW p \in PostIds, NEW type \in {"post_edited", "post_deleted"}, ChangePost(p, type)
        PROVE  Ticks /\ Goes
    BY <2>2 DEF ChangePost
  <2>3. CASE CreatePost
    BY <2>3 DEF CreatePost, SavePost
  <2>5. ASSUME NEW call, Start(call) PROVE Ticks /\ Goes
    BY <2>5 DEF Start
  <2>4. ASSUME NEW call \in calls,
               Answer(call) \/ FetchNewest(call) \/ ReceiveAnswer(call) \/ CallFails(call)
        PROVE  Ticks /\ Goes
    BY <2>4, <2>5 DEF Answer, FetchNewest, ReceiveAnswer, CallFails
  <2>6. CASE OpenChannel
    BY <2>5, <2>6 DEF OpenChannel
  <2>7. ASSUME NEW p \in PostIds, OpenPermalink(p) PROVE Ticks /\ Goes
    BY <2>5, <2>7 DEF OpenPermalink
  <2>8. ASSUME NEW block \in ToSet(blocks), LoadMore(block) PROVE Ticks /\ Goes
    BY <2>5, <2>8 DEF LoadMore
  <2>9. CASE ResetChannel \/ HandleEvent \/ BurstEnds \/ Disconnect \/ Reconnect
    BY <2>9 DEF ResetChannel, HandleEvent, BurstEnds, Disconnect, Reconnect
  <2>10. ASSUME NEW again \in BOOLEAN, SubmitPost(again) PROVE Ticks /\ Goes
    BY <2>10 DEF SubmitPost
  <2>11. CASE PostCreated \/ PostFails \/ RemoveFailed
    BY <2>11 DEF PostCreated, PostFails, RemoveFailed
  <2>12. CASE UNCHANGED vars
    BY <2>12 DEF vars
  <2> HIDE DEF Ticks, Goes
  <2> QED
    BY <2>1, <2>2, <2>3, <2>4, <2>6, <2>7, <2>8, <2>9, <2>10, <2>11, <2>12 DEF Next
<1>4. DOMAIN log \subseteq DOMAIN log'
  <2>1. \A x : DOMAIN log \subseteq DOMAIN Append(log, x)
    BY <1>2
  <2>2. \A p, x, y : DOMAIN [log EXCEPT ![p].upd = x, ![p].deleted = y] = DOMAIN log
    OBVIOUS
  <2> QED
    BY <1>3, <2>1, <2>2
<1> QED
  BY <1>2, <1>3, <1>4

LEMMA SpendIs ==
    ASSUME left \in Allowed, NEW what \in {"posts", "changes", "drops", "calls", "tries", "resets"},
           Spend(what)
    PROVE  left' \in Allowed
BY DEF Spend, Allowed

LEMMA StartSpends ==
    ASSUME FlagsInv, NEW call, Start(call) PROVE FlagsInv'
<1>1. left' \in Allowed
  BY SpendIs DEF Start, FlagsInv
<1>2. UNCHANGED <<up, sending, loaded, strayed, timer>>
  BY DEF Start, socket, client, queue, history
<1> QED
  BY <1>1, <1>2 DEF FlagsInv

LEMMA FlagsKept ==
    ASSUME FlagsInv, [Next]_vars PROVE FlagsInv'
<1>1. CASE OthersPost
  BY <1>1, SpendIs DEF FlagsInv, OthersPost, socket, client, queue, history
<1>2. ASSUME NEW p \in PostIds, NEW type \in {"post_edited", "post_deleted"}, ChangePost(p, type)
      PROVE  FlagsInv'
  BY <1>2, SpendIs DEF FlagsInv, ChangePost, socket, client, queue, history
<1>3. CASE CreatePost
  BY <1>3 DEF FlagsInv, CreatePost, socket, client, queue, history
<1>4. ASSUME NEW call \in calls, Answer(call) \/ FetchNewest(call) \/ CallFails(call)
      PROVE  FlagsInv'
  BY <1>4, StartSpends DEF FlagsInv, FetchNewest, Answer, CallFails, socket, client, queue, history
<1>5. ASSUME NEW call \in calls, ReceiveAnswer(call) PROVE FlagsInv'
  <2>1. UNCHANGED <<up, sending, timer, left>> /\ strayed' = (strayed \/ Strays')
    BY <1>5 DEF ReceiveAnswer, socket, queue
  <2>2. Strays' \in BOOLEAN
    BY DEF Strays
  <2>3. PICK D : Dispatch(ReceivePosts(call.page.posts, D),
                          Received(call, ReceivePosts(call.page.posts, D)),
                          loaded \/ call.kind \in InChannel)
    BY <1>5 DEF ReceiveAnswer
  <2>4. PICK posts, r : Dispatch(posts, r, loaded \/ call.kind \in InChannel)
    BY <2>3
  <2>5. loaded' = loaded \/ loaded' = ((loaded \/ call.kind \in InChannel) \/ r.blocks # << >>)
    BY <2>4 DEF Dispatch, client
  <2>6. loaded' \in BOOLEAN
    BY <2>5, Zenon DEF FlagsInv
  <2> QED
    BY <2>1, <2>2, <2>6 DEF FlagsInv
<1>6. CASE OpenChannel
  BY <1>6, StartSpends DEF OpenChannel
<1>7. ASSUME NEW p \in PostIds, OpenPermalink(p) PROVE FlagsInv'
  BY <1>7, StartSpends DEF OpenPermalink
<1>8. ASSUME NEW block \in ToSet(blocks), LoadMore(block) PROVE FlagsInv'
  BY <1>8, StartSpends DEF LoadMore
<1>9. CASE ResetChannel
  BY <1>9, SpendIs DEF FlagsInv, ResetChannel, socket, queue
<1>10. ASSUME FlagsInv, NEW batch, NEW D, NewPosts(batch, D)
       PROVE  sending' \in BOOLEAN /\ loaded' \in BOOLEAN
  <2>1. \/ loaded' = loaded
        \/ loaded' = (loaded \/ BatchResult(batch, D).blocks # << >>)
    BY <1>10 DEF NewPosts, Dispatch, client
  <2>2. sending' = (sending \/ \E p \in DOMAIN Brought(batch) : log[p].own)
    BY <1>10 DEF NewPosts
  <2> QED
    BY <1>10, <2>1, <2>2, Zenon DEF FlagsInv
<1>11. CASE HandleEvent
  <2>1. UNCHANGED <<up, strayed, left>>
    BY <1>11 DEF HandleEvent, socket
  <2>2. timer' = timer \/ timer' = TRUE
    BY <1>11 DEF HandleEvent, HandlePosted, queue
  <2>3. timer' \in BOOLEAN
    BY <2>2, Zenon DEF FlagsInv
  <2>4. \/ UNCHANGED <<sending, loaded>>
        \/ \E batch, D : NewPosts(batch, D)
    BY <1>11 DEF HandleEvent, HandlePosted, HandleDeleted, HandleEdited, client
  <2> QED
    BY <1>10, <2>1, <2>3, <2>4 DEF FlagsInv
<1>12. CASE BurstEnds
  <2>1. UNCHANGED <<up, strayed, left>> /\ timer' = FALSE /\ \E batch, D : NewPosts(batch, D)
    BY <1>12 DEF BurstEnds, socket
  <2>2. timer' \in BOOLEAN
    BY <2>1, Zenon
  <2> QED
    BY <1>10, <2>1, <2>2 DEF FlagsInv
<1>13. CASE Disconnect
  BY <1>13, SpendIs DEF FlagsInv, Disconnect, client, history, queue
<1>14. CASE Reconnect
  BY <1>14 DEF FlagsInv, Reconnect, client, queue
<1>15. ASSUME NEW again \in BOOLEAN, SubmitPost(again) PROVE FlagsInv'
  <2>1. Spend("tries") /\ sending' = TRUE /\ UNCHANGED <<up, strayed, timer>>
    BY <1>15 DEF SubmitPost, socket, queue, history
  <2>2. loaded' = loaded \/ \E x : loaded' = (loaded \/ x # << >>)
    BY <1>15 DEF SubmitPost, Dispatch, client
  <2>3. left' \in Allowed
    BY <2>1, SpendIs DEF FlagsInv
  <2> QED
    BY <2>1, <2>2, <2>3 DEF FlagsInv
<1>16. CASE PostCreated
  BY <1>16 DEF FlagsInv, PostCreated, socket, queue
<1>17. CASE PostFails \/ RemoveFailed
  BY <1>17 DEF FlagsInv, PostFails, RemoveFailed, socket, queue, history
<1>18. CASE UNCHANGED vars
  BY <1>18 DEF FlagsInv, vars, client, socket, queue, history
<1> QED
  BY <1>1, <1>2, <1>3, <1>4, <1>5, <1>6, <1>7, <1>8, <1>9, <1>11, <1>12, <1>13,
     <1>14, <1>15, <1>16, <1>17, <1>18 DEF Next


\* A call is as old as the clock says, or starts now, or goes on.
CallsAge == \A c \in calls' : c.time \in {0, now} \/ \E d \in calls : c.time = d.time
DatesChange ==
    /\ CallsAge /\ lastDisconnectAt' \in {lastDisconnectAt, now'}
    /\ lastGetPosts' = lastGetPosts \/ \E d \in calls : lastGetPosts' = d.time

LEMMA StartAges ==
    ASSUME NEW kind, NEW anchor, NEW since, Start(Call(kind, anchor, since))
    PROVE  DatesChange
<1>1. calls' = calls \cup {Call(kind, anchor, since)} /\ UNCHANGED <<lastDisconnectAt, lastGetPosts>>
  BY DEF Start, socket
<1>2. Call(kind, anchor, since).time = now
  BY DEF Call
<1> QED
  BY <1>1, <1>2 DEF DatesChange, CallsAge

LEMMA DatesChangeIs == ChannelInv /\ [Next]_vars => DatesChange
<1> SUFFICES ASSUME ChannelInv, [Next]_vars PROVE DatesChange
  OBVIOUS
<1>1. CASE OthersPost
  BY <1>1 DEF OthersPost, socket, DatesChange, CallsAge
<1>2. ASSUME NEW p \in PostIds, NEW type \in {"post_edited", "post_deleted"}, ChangePost(p, type)
      PROVE  DatesChange
  BY <1>2 DEF ChangePost, socket, DatesChange, CallsAge
<1>3. CASE CreatePost
  BY <1>3 DEF CreatePost, socket, DatesChange, CallsAge
<1>4. ASSUME NEW call \in calls, Answer(call) PROVE DatesChange
  <2>1. PICK page : calls' = (calls \ {call}) \cup {[call EXCEPT !.page = page]}
    BY <1>4 DEF Answer
  <2>2. [call EXCEPT !.page = page].time = call.time
    BY DEF ChannelInv, CopiesInv, CallsInv, IsCall
  <2>3. UNCHANGED <<lastDisconnectAt, lastGetPosts>>
    BY <1>4 DEF Answer, socket
  <2> QED
    BY <2>1, <2>2, <2>3 DEF DatesChange, CallsAge
<1>5. ASSUME NEW call \in calls, ReceiveAnswer(call) PROVE DatesChange
  <2>1. calls' \subseteq calls /\ lastDisconnectAt' = lastDisconnectAt
    BY <1>5 DEF ReceiveAnswer, socket
  <2>2. lastGetPosts' = lastGetPosts \/ lastGetPosts' = call.time
    BY <1>5 DEF ReceiveAnswer
  <2> QED
    BY <2>1, <2>2 DEF DatesChange, CallsAge
<1>6. ASSUME NEW call \in calls, CallFails(call) \/ FetchNewest(call) PROVE DatesChange
  BY <1>6, StartAges DEF CallFails, FetchNewest, socket, DatesChange, CallsAge
<1>7. CASE OpenChannel
  BY <1>7, StartAges DEF OpenChannel, SyncPostsInChannel
<1>8. ASSUME NEW p \in PostIds, OpenPermalink(p) PROVE DatesChange
  BY <1>8, StartAges DEF OpenPermalink
<1>9. ASSUME NEW block \in ToSet(blocks), LoadMore(block) PROVE DatesChange
  BY <1>9, StartAges DEF LoadMore
<1>10. CASE ResetChannel
  BY <1>10 DEF ResetChannel, socket, DatesChange, CallsAge
<1>11. CASE HandleEvent
  <2>1. UNCHANGED <<lastDisconnectAt, lastGetPosts>>
    BY <1>11 DEF HandleEvent, socket
  <2>2. calls' = calls \/ \E id : calls' = calls \cup {Call("around", id, 0)}
    BY <1>11 DEF HandleEvent, HandleDeleted, HandleEdited
  <2>3. \A id : Call("around", id, 0).time = now
    BY DEF Call
  <2> QED
    BY <2>1, <2>2, <2>3 DEF DatesChange, CallsAge
<1>12. CASE BurstEnds
  BY <1>12 DEF BurstEnds, socket, DatesChange, CallsAge
<1>13. CASE Disconnect
  BY <1>13 DEF Disconnect, DatesChange, CallsAge
<1>14. CASE Reconnect
  <2>1. UNCHANGED <<lastDisconnectAt, lastGetPosts>>
    BY <1>14 DEF Reconnect
  <2>2. PICK c : /\ calls' = calls \cup {c}
                 /\ \/ \E newest : c = SyncPostsInChannel(newest)
                    \/ c = [Call("latest", PendingId, 0) EXCEPT !.time = 0]
    BY <1>14 DEF Reconnect
  <2>3. c.time \in {0, now}
    BY <2>2 DEF SyncPostsInChannel, Call
  <2> QED
    BY <2>1, <2>2, <2>3 DEF DatesChange, CallsAge
<1>15. ASSUME NEW again \in BOOLEAN, SubmitPost(again) PROVE DatesChange
  BY <1>15 DEF SubmitPost, socket, DatesChange, CallsAge
<1>16. CASE PostCreated \/ PostFails \/ RemoveFailed
  BY <1>16 DEF PostCreated, PostFails, RemoveFailed, socket, DatesChange, CallsAge
<1>17. CASE UNCHANGED vars
  BY <1>17 DEF vars, socket, DatesChange, CallsAge
<1> QED
  BY <1>1, <1>2, <1>3, <1>4, <1>5, <1>6, <1>7, <1>8, <1>9, <1>10, <1>11, <1>12, <1>13,
     <1>14, <1>15, <1>16, <1>17 DEF Next

LEMMA DatesKept ==
    ASSUME ChannelInv, DatesInv, [Next]_vars PROVE DatesInv'
<1>1. now \in Nat /\ now' \in Nat /\ now <= now' /\ DatesChange
  BY ClockGoesOn, DatesChangeIs
<1>2. ASSUME NEW c \in calls' PROVE c.time \in Nat /\ c.time <= now'
  BY <1>1 DEF DatesChange, CallsAge, DatesInv
<1> QED
  BY <1>1, <1>2 DEF DatesChange, DatesInv

\* Only events of posts of the log are lost.
LEMMA NewsTyped ==
    ASSUME CopiesInv, NEW es \in SUBSET (ToSet(events) \cup ToSet(held))
    PROVE  News(es) \subseteq NewsType(log)
<1>1. \A e \in es : EventOk(e)
  BY DEF CopiesInv, EventsInv, HeldInv
<1>2. \A e \in es : [type |-> e.type, id |-> e.id] \in NewsType(log)
  BY <1>1 DEF EventOk, EventType, NewsType
<1> QED
  BY <1>2 DEF News

LEMMA LossesKept ==
    ASSUME ChannelInv, LossesInv, [Next]_vars PROVE LossesInv'
<1>1. DOMAIN log \subseteq DOMAIN log' /\ CopiesInv /\ HeldLimit \in Nat
  BY ClockGoesOn, ChannelPostsAssumption DEF ChannelInv
<1>2. NewsType(log) \subseteq NewsType(log')
  BY <1>1 DEF NewsType
<1>3. ASSUME missed' \subseteq missed \cup NewsType(log), held' \in {held, << >>} \/ Len(held') <= HeldLimit,
             denied' \cup revived' \subseteq denied \cup revived \cup DOMAIN log
      PROVE  LossesInv'
  BY <1>1, <1>2, <1>3 DEF LossesInv
<1>4. UNCHANGED <<missed, held, denied, revived>> => LossesInv'
  BY <1>3
<1>p. \A posts, D : Revived(posts, D) \subseteq DOMAIN posts
  BY DEF Revived, Same
<1>n. ASSUME NEW batch, NEW D, NewPosts(batch, D), \A e \in ToSet(batch) : e.id \in DOMAIN log
      PROVE  revived' \subseteq revived \cup DOMAIN log
  <2>1. DOMAIN Brought(batch) \subseteq DOMAIN log
    BY <1>n DEF Brought
  <2> QED
    BY <1>n, <1>p, <2>1 DEF NewPosts
<1>5. CASE OthersPost \/ CreatePost \/ OpenChannel \/ Disconnect
  BY <1>4, <1>5 DEF OthersPost, CreatePost, OpenChannel, Start, Disconnect, queue, history
<1>r. CASE ResetChannel
  BY <1>3, <1>r DEF ResetChannel, queue
<1>6. ASSUME NEW p \in PostIds, NEW type \in {"post_edited", "post_deleted"}, ChangePost(p, type)
      PROVE  LossesInv'
  BY <1>4, <1>6 DEF ChangePost, queue, history
<1>7. ASSUME NEW call \in calls, Answer(call) \/ FetchNewest(call) \/ CallFails(call) PROVE LossesInv'
  BY <1>4, <1>7 DEF Answer, FetchNewest, Start, CallFails, queue, history
<1>8. ASSUME NEW call \in calls, ReceiveAnswer(call) PROVE LossesInv'
  <2>1. held' = held
    BY <1>8 DEF ReceiveAnswer, queue
  <2>2. \/ missed' \subseteq missed
        \/ \E ids \in SUBSET (call.page.upto + 1 .. Len(log)) : missed' \subseteq missed \cup Posted(ids)
    <3>1. PICK ids : ids = {p \in call.page.upto + 1 .. Len(log) : ~Shown(p)'}
      OBVIOUS
    <3>2. \E taken : missed' = missed \cup IF taken THEN Posted(ids) \ Coming ELSE {}
      BY <1>8, <3>1 DEF ReceiveAnswer
    <3>3. missed' \subseteq missed \/ missed' \subseteq missed \cup Posted(ids)
      BY <3>2
    <3> QED
      BY <3>1, <3>3
  <2>3. call.page.upto + 1 .. Len(log) \subseteq DOMAIN log
    <3>1. CallOk(log, stored, call) /\ call.page # NoPage /\ LogInv
      BY <1>8 DEF ReceiveAnswer, ChannelInv, PagesInv, CopiesInv
    <3>2. call.page.upto \in Nat /\ DOMAIN log = 1 .. Len(log) /\ Len(log) \in Nat
      BY <3>1, LogFacts DEF CallOk, PageOk, OrderOk
    <3> QED
      BY <3>2
  <2>4. \A ids \in SUBSET DOMAIN log : Posted(ids) \subseteq NewsType(log)
    BY DEF Posted, NewsType
  <2>5. missed' \subseteq missed \cup NewsType(log)
    BY <2>2, <2>3, <2>4
  <2>6. call.page.denied \subseteq DOMAIN log /\ DOMAIN call.page.posts \subseteq DOMAIN log
    <3>1. CallOk(log, stored, call) /\ call.page # NoPage /\ CallsInv
      BY <1>8 DEF ReceiveAnswer, ChannelInv, PagesInv, CopiesInv
    <3> QED
      BY <3>1 DEF CallOk, PageOk, OrderOk, CallsInv
  <2>7. denied' \subseteq denied \cup call.page.denied
    BY <1>8 DEF ReceiveAnswer
  <2>8. \E D : revived' \subseteq revived \cup Revived(call.page.posts, D)
    BY <1>8 DEF ReceiveAnswer
  <2>9. denied' \cup revived' \subseteq denied \cup revived \cup DOMAIN log
    BY <1>p, <2>6, <2>7, <2>8
  <2> QED
    BY <1>3, <2>1, <2>5, <2>9
<1>9. ASSUME NEW p \in PostIds, OpenPermalink(p) PROVE LossesInv'
  BY <1>4, <1>9 DEF OpenPermalink, Start, queue, history
<1>10. ASSUME NEW block \in ToSet(blocks), LoadMore(block) PROVE LossesInv'
  BY <1>4, <1>10 DEF LoadMore, Start, queue, history
<1>11. CASE HandleEvent
  <2>1. events # << >> /\ events \in Seq(EventType) /\ held \in Seq(EventType)
    BY <1>1, <1>11 DEF HandleEvent, CopiesInv, EventsInv, HeldInv
  <2>2. PICK e : e = Head(events)
    OBVIOUS
  <2>3. e \in ToSet(events)
    BY <2>1, <2>2, SeqFacts
  <2>4. News({e} \cup ToSet(held)) \subseteq NewsType(log) /\ News({e}) \subseteq NewsType(log)
    BY <1>1, <2>3, NewsTyped
  <2>5. \/ UNCHANGED <<held, missed>>
        \/ Hold(e)
        \/ held' = held /\ missed' \subseteq missed \cup News({e})
    BY <1>11, <2>2 DEF HandleEvent, HandlePosted, HandleDeleted, HandleEdited, queue
  <2>6. Hold(e) => missed' \subseteq missed \cup NewsType(log) /\ (held' = << >> \/ Len(held') <= HeldLimit)
    <3>1. CASE Len(held) < HeldLimit /\ held' = Append(held, e) /\ missed' = missed
      <4>1. Len(held) \in Nat /\ Len(held') = Len(held) + 1
        BY <2>1, <3>1
      <4> QED
        BY <1>1, <3>1, <4>1
    <3>2. CASE held' = << >> /\ missed' = missed \cup News({e} \cup ToSet(held))
      BY <2>4, <3>2
    <3> QED
      BY <3>1, <3>2 DEF Hold
  <2>7. e.id \in DOMAIN log
    BY <1>1, <2>3 DEF CopiesInv, EventsInv, EventOk
  <2>8. \/ revived' = revived
        \/ \E D : NewPosts(<<e>>, D)
        \/ \E D : revived' = revived \cup Revived(Brought(<<e>>), D)
    BY <1>11, <2>2 DEF HandleEvent, HandlePosted, HandleDeleted, HandleEdited
  <2>9. revived' \subseteq revived \cup DOMAIN log
    <3>1. PICK batch : batch = <<e>>
      OBVIOUS
    <3>2. \A f \in ToSet(batch) : f.id \in DOMAIN log
      BY <2>7, <3>1 DEF ToSet
    <3>3. DOMAIN Brought(batch) \subseteq DOMAIN log
      BY <3>2 DEF Brought
    <3> QED
      BY <1>n, <1>p, <2>8, <3>1, <3>2, <3>3
  <2>10. denied' = denied
    BY <1>11 DEF HandleEvent
  <2>11. denied' \cup revived' \subseteq denied \cup revived \cup DOMAIN log
    BY <2>9, <2>10
  <2> QED
    BY <1>3, <2>4, <2>5, <2>6, <2>11
<1>12. CASE BurstEnds
  <2>1. PICK batch, D : batch = held /\ NewPosts(batch, D)
    BY <1>12 DEF BurstEnds
  <2>2. UNCHANGED <<missed, denied>> /\ held' \in {held, << >>}
    BY <1>12 DEF BurstEnds
  <2>3. \A e \in ToSet(batch) : e.id \in DOMAIN log
    BY <1>1, <2>1 DEF CopiesInv, HeldInv, EventOk
  <2> QED
    BY <1>3, <1>n, <2>1, <2>2, <2>3
<1>13. CASE Reconnect
  <2>1. News(ToSet(events)) \subseteq NewsType(log)
    BY <1>1, NewsTyped
  <2>2. UNCHANGED <<held, denied, revived>> /\ missed' \subseteq missed \cup News(ToSet(events))
    BY <1>13 DEF Reconnect, queue
  <2> QED
    BY <1>3, <2>1, <2>2
<1>14. ASSUME NEW again \in BOOLEAN, SubmitPost(again) PROVE LossesInv'
  BY <1>4, <1>14 DEF SubmitPost, queue, history
<1>15. CASE PostFails \/ RemoveFailed
  BY <1>4, <1>15 DEF PostFails, RemoveFailed, queue, history
<1>17. CASE PostCreated
  <2>1. create.id \in DOMAIN log
    BY <1>1, <1>17 DEF PostCreated, CopiesInv, CreateInv
  <2>2. PICK post, D : DOMAIN post = {create.id} /\ revived' = revived \cup Revived(post, D)
    BY <1>17 DEF PostCreated
  <2>3. UNCHANGED <<missed, denied, held>>
    BY <1>17 DEF PostCreated, queue
  <2> QED
    BY <1>3, <1>p, <2>1, <2>2, <2>3
<1>16. CASE UNCHANGED vars
  BY <1>4, <1>16 DEF vars, queue, history
<1> QED
  BY <1>5, <1>6, <1>7, <1>8, <1>9, <1>10, <1>11, <1>12, <1>13, <1>14, <1>15, <1>16, <1>17, <1>r DEF Next


\* What is not stored gets stored, or is not touched; the pending post is dated.
UnstoredChange ==
    /\ \A p \in PostIds : Stored(stored', p) \/ stored'[p] = stored[p] \/ stored'[p] = NoPost
    /\ \/ stored'[PendingId] = NoPost
       \/ stored'[PendingId].at = stored[PendingId].at /\ stored'[PendingId].upd = stored[PendingId].upd
       \/ stored'[PendingId].at <= now' /\ stored'[PendingId].upd <= now'

LEMMA ReceiveStores ==
    ASSUME NEW old, NEW post, NEW differs
    PROVE  Receive(old, post, differs).st # "none" \/ Receive(old, post, differs) = old
BY DEF Receive

LEMMA SameStored ==
    ASSUME stored' = stored PROVE UnstoredChange
BY DEF UnstoredChange

\* The store with a batch of posts, and without the pending one or as it was
LEMMA BatchStored ==
    ASSUME NEW posts, NEW D, NEW next, stored' = next,
           \A p \in PostIds : next[p] = ReceivePosts(posts, D)[p],
           next[PendingId] = NoPost \/ next[PendingId] = ReceivePosts(posts, D)[PendingId],
           PendingId \notin DOMAIN posts
    PROVE  UnstoredChange
<1>1. \A id \in Ids : \/ ReceivePosts(posts, D)[id] = stored[id]
                      \/ id \in DOMAIN posts /\ ReceivePosts(posts, D)[id] = Receive(stored[id], posts[id], id \in D)
  BY DEF ReceivePosts
<1>2. PostIds \subseteq Ids /\ PendingId \in Ids
  BY DEF Ids
<1>3. ASSUME NEW p \in PostIds PROVE Stored(stored', p) \/ stored'[p] = stored[p]
  <2>1. p \in Ids /\ stored'[p] = ReceivePosts(posts, D)[p]
    BY <1>2
  <2> QED
    BY <1>1, <2>1, ReceiveStores DEF Stored
<1>4. stored'[PendingId] = NoPost \/ stored'[PendingId] = stored[PendingId]
  BY <1>1, <1>2
<1> QED
  BY <1>3, <1>4 DEF UnstoredChange

LEMMA NewPostsStored ==
    ASSUME ChannelInv, NEW batch, NewBatch(batch), NEW D, NewPosts(batch, D) PROVE UnstoredChange
<1>1. stored' = stored \/ stored' = BatchPosts(batch, D)
  BY DEF NewPosts, Dispatch, client
<1>2. CASE stored' = BatchPosts(batch, D)
  <2>1. PICK posts, next : posts = Brought(batch) /\ next = BatchPosts(batch, D)
    OBVIOUS
  <2>2. PendingId \notin DOMAIN posts
    <3>1. DOMAIN posts = {e.id : e \in ToSet(batch)}
      BY <2>1 DEF Brought
    <3>2. \A e \in ToSet(batch) : e.id \in DOMAIN log
      BY DEF NewBatch, EventOk
    <3>3. PendingId \notin DOMAIN log
      BY ChannelFacts DEF ChannelInv, CopiesInv
    <3> QED
      BY <3>1, <3>2, <3>3
  <2>3. /\ \A p \in PostIds : next[p] = ReceivePosts(posts, D)[p]
        /\ next[PendingId] = NoPost \/ next[PendingId] = ReceivePosts(posts, D)[PendingId]
    <3>1. PendingId \notin PostIds /\ PostIds \subseteq Ids /\ PendingId \in Ids
      BY LogFacts DEF ChannelInv, CopiesInv
    <3>2. DOMAIN ReceivePosts(posts, D) = Ids
      BY DEF ReceivePosts
    <3> QED
      BY <2>1, <3>1, <3>2 DEF BatchPosts
  <2> QED
    BY <1>2, <2>1, <2>2, <2>3, BatchStored
<1> QED
  BY <1>1, <1>2, SameStored

LEMMA UnstoredChangeIs == ChannelInv /\ [Next]_vars => UnstoredChange
<1> SUFFICES ASSUME ChannelInv, [Next]_vars PROVE UnstoredChange
  OBVIOUS
<1>1. /\ stored \in [Ids -> CopyType] /\ PendingId \in Ids /\ PendingId \notin PostIds /\ PostIds \subseteq Ids
      /\ CopiesInv /\ LogInv /\ DOMAIN log \subseteq PostIds
  BY LogFacts DEF ChannelInv, CopiesInv, StoredInv
<1>2. now \in Nat /\ now' \in Nat /\ now <= now' /\ create.at \in Nat /\ create.at <= now
  BY ClockGoesOn DEF ChannelInv, CopiesInv, CreateInv, TimesInv
<1>3. CASE \/ OthersPost \/ CreatePost \/ OpenChannel \/ ResetChannel \/ Disconnect \/ Reconnect
           \/ UNCHANGED vars
  BY <1>3, SameStored DEF OthersPost, CreatePost, OpenChannel, Start, ResetChannel, Disconnect, Reconnect,
                          vars, client
<1>4. ASSUME NEW p \in PostIds, NEW type \in {"post_edited", "post_deleted"}, ChangePost(p, type)
      PROVE  UnstoredChange
  BY <1>4, SameStored DEF ChangePost, client
<1>5. ASSUME NEW call \in calls, Answer(call) \/ FetchNewest(call) \/ CallFails(call)
      PROVE  UnstoredChange
  BY <1>5, SameStored DEF Answer, FetchNewest, Start, CallFails, client
<1>6. ASSUME NEW call \in calls, ReceiveAnswer(call) PROVE UnstoredChange
  <2>1. PICK posts : posts = call.page.posts
    OBVIOUS
  <2>2. PICK D : stored' = stored \/ stored' = ReceivePosts(posts, D)
    BY <1>6, <2>1 DEF ReceiveAnswer, Dispatch, client
  <2>3. PendingId \notin DOMAIN posts
    BY <1>1, <2>1 DEF CopiesInv, CallsInv
  <2>4. CASE stored' = ReceivePosts(posts, D)
    BY <2>3, <2>4, BatchStored
  <2> QED
    BY <2>2, <2>4, SameStored
<1>7. ASSUME NEW p \in PostIds, OpenPermalink(p) PROVE UnstoredChange
  BY <1>7, SameStored DEF OpenPermalink, Start, client
<1>8. ASSUME NEW block \in ToSet(blocks), LoadMore(block) PROVE UnstoredChange
  BY <1>8, SameStored DEF LoadMore, Start, client
<1>9. CASE HandleEvent
  <2>1. PICK e : e = Head(events)
    OBVIOUS
  <2>2. EventOk(e)
    <3>1. events # << >> /\ events' = Tail(events) /\ log' = log /\ now' = now
      BY <1>9 DEF HandleEvent
    <3> QED
      BY <2>1, <3>1, NextEvent
  <2>3. e.id \in PostIds /\ e \in EventType
    BY <1>1, <2>2 DEF EventOk
  <2>4. \/ e.type = "posted" /\ HandlePosted(e)
        \/ e.type = "post_deleted" /\ HandleDeleted(e)
        \/ e.type = "post_edited" /\ HandleEdited(e)
    BY <1>9, <2>1 DEF HandleEvent
  <2>5. CASE e.type = "posted" /\ HandlePosted(e)
    <3>1. PICK batch : batch = <<e>> /\ (stored' = stored \/ \E D : NewPosts(batch, D))
      BY <2>5 DEF HandlePosted, client
    <3>2. batch = <<e>>
      BY <3>1
    <3>3. NewBatch(batch)
      <4>1. batch \in Seq(EventType)
        BY <2>3, <3>2
      <4>2. \A f \in ToSet(batch) : f = e
        BY <3>2 DEF ToSet
      <4> QED
        BY <2>2, <2>5, <4>1, <4>2 DEF NewBatch
    <3> QED
      BY <3>1, <3>2, <3>3, SameStored, NewPostsStored
  <2>6. CASE HandleDeleted(e)
    <3>1. stored' = [stored EXCEPT ![e.id].st = IF @ = "none" THEN @ ELSE "deleted"]
      BY <2>6 DEF HandleDeleted
    <3>2. stored[e.id] \in CopyType
      BY <1>1, <2>3
    <3>3. stored'[e.id] = stored[e.id] \/ stored'[e.id].st = "deleted"
      BY <1>1, <2>3, <3>1, <3>2 DEF CopyType
    <3>4. \A id \in Ids : id # e.id => stored'[id] = stored[id]
      BY <1>1, <3>1
    <3> QED
      BY <1>1, <2>3, <3>3, <3>4 DEF UnstoredChange, Stored
  <2>7. CASE HandleEdited(e)
    <3>1. PICK D : stored' = ReceivePosts(Brought(<<e>>), D)
      BY <2>7 DEF HandleEdited
    <3>2. /\ stored'[e.id] = Receive(stored[e.id], Version(e), e.id \in D)
          /\ \A id \in Ids : id # e.id => stored'[id] = stored[id]
      BY <1>1, <2>3, <3>1, BroughtOne DEF ReceivePosts
    <3>3. stored'[e.id].st # "none" \/ stored'[e.id] = stored[e.id]
      BY <3>2, ReceiveStores
    <3> QED
      BY <1>1, <2>3, <3>2, <3>3 DEF UnstoredChange, Stored
  <2> QED
    BY <2>4, <2>5, <2>6, <2>7
<1>10. CASE BurstEnds
  <2>1. PICK batch : batch = held
    OBVIOUS
  <2>2. (\E D : NewPosts(batch, D)) /\ NewBatch(batch)
    BY <1>1, <1>10, <2>1 DEF BurstEnds, NewBatch, CopiesInv, HeldInv
  <2> QED
    BY <2>2, NewPostsStored
<1>11. ASSUME NEW again \in BOOLEAN, SubmitPost(again) PROVE UnstoredChange
  <2>1. \/ stored' = stored
        \/ \E st : stored' = [stored EXCEPT ![PendingId] = [at |-> now', upd |-> now', st |-> st]]
    BY <1>11 DEF SubmitPost, Dispatch, client
  <2>2. ASSUME NEW st, stored' = [stored EXCEPT ![PendingId] = [at |-> now', upd |-> now', st |-> st]]
        PROVE  UnstoredChange
    BY <1>1, <1>2, <2>2 DEF UnstoredChange
  <2> QED
    BY <2>1, <2>2, SameStored
<1>12. CASE PostCreated
  <2>1. PICK own, differs :
            stored' = ReceiveCreated(create.id, create.post, own, differs) /\ create.id \in DOMAIN log
    BY <1>1, <1>12 DEF PostCreated, CopiesInv, CreateInv
  <2>2. create.id \in PostIds /\ create.id # PendingId
    BY <1>1, <2>1
  <2>3. /\ stored'[create.id] = Receive(stored[create.id], create.post, differs)
        /\ stored'[PendingId] = NoPost \/ stored'[PendingId] = stored[PendingId]
        /\ \A p \in PostIds : p # create.id => stored'[p] = stored[p]
    BY <1>1, <2>1, <2>2 DEF ReceiveCreated
  <2>4. stored'[create.id].st # "none" \/ stored'[create.id] = stored[create.id]
    BY <2>3, ReceiveStores
  <2> QED
    BY <2>2, <2>3, <2>4 DEF UnstoredChange, Stored
<1>13. CASE PostFails
  <2>1. \/ stored' = [stored EXCEPT ![PendingId] = NoPost]
        \/ stored' = [stored EXCEPT ![PendingId] = [at |-> create.at, upd |-> now', st |-> "failed"]]
    BY <1>13 DEF PostFails
  <2>2. create.at <= now' /\ now' <= now'
    BY <1>2
  <2> QED
    BY <1>1, <2>1, <2>2 DEF UnstoredChange
<1>14. CASE RemoveFailed
  BY <1>1, <1>14 DEF RemoveFailed, UnstoredChange
<1> QED
  BY <1>3, <1>4, <1>5, <1>6, <1>7, <1>8, <1>9, <1>10, <1>11, <1>12, <1>13, <1>14 DEF Next

LEMMA UnstoredKept ==
    ASSUME ChannelInv, UnstoredInv, [Next]_vars PROVE UnstoredInv'
<1>1. UnstoredChange /\ now \in Nat /\ now' \in Nat /\ now <= now'
  BY UnstoredChangeIs, ClockGoesOn
<1>2. NoPost.at = 0 /\ NoPost.upd = 0
  BY DEF NoPost
<1>3. ASSUME NEW p \in PostIds, ~Stored(stored', p)
      PROVE  stored'[p].at = 0 /\ stored'[p].upd = 0
  <2>1. stored'[p] = stored[p] \/ stored'[p] = NoPost
    BY <1>1, <1>3 DEF UnstoredChange
  <2> QED
    BY <1>2, <1>3, <2>1 DEF UnstoredInv, Stored
<1>4. stored'[PendingId].at <= now' /\ stored'[PendingId].upd <= now'
  <2>1. stored[PendingId] \in CopyType
    BY ChannelFacts DEF ChannelInv, CopiesInv, StoredInv, Ids
  <2>2. stored[PendingId].at \in Nat /\ stored[PendingId].upd \in Nat
    BY <2>1 DEF CopyType
  <2> QED
    BY <1>1, <1>2, <2>2 DEF UnstoredChange, UnstoredInv
<1> QED
  BY <1>3, <1>4 DEF UnstoredInv

LEMMA TypesInit == Init => TypesInv
<1> SUFFICES ASSUME Init PROVE TypesInv
  OBVIOUS
<1>1. InitPosts \in Nat /\ HeldLimit \in Nat /\ Scenarios \subseteq Allowed
  BY ChannelPostsAssumption
<1>2. now \in Nat /\ 0 <= now
  BY <1>1 DEF Init
<1>3. FlagsInv /\ DatesInv
  <2>1. {up, sending, loaded, strayed, timer} \subseteq BOOLEAN
    BY Zenon DEF Init
  <2> QED
    BY <1>1, <1>2, <2>1 DEF Init, FlagsInv, DatesInv
<1>4. LossesInv
  BY <1>1 DEF Init, LossesInv
<1>5. \A id \in Ids : stored[id].at = 0 /\ stored[id].upd = 0
  BY DEF Init, NoPost
<1>6. UnstoredInv
  BY <1>2, <1>5 DEF UnstoredInv, Ids
<1> QED
  BY <1>3, <1>4, <1>6 DEF TypesInv

LEMMA TypesNext == ChannelInv /\ TypesInv /\ [Next]_vars => TypesInv'
BY FlagsKept, DatesKept, LossesKept, UnstoredKept DEF TypesInv

LEMMA TypesOk ==
    ASSUME ChannelInv, TypesInv PROVE TypeOK
<1>1. /\ CopiesInv /\ LogInv /\ TimesInv /\ now \in Nat
      /\ DOMAIN log \subseteq Ids /\ PendingId \notin DOMAIN log /\ DOMAIN log \subseteq PostIds
  BY ChannelFacts, LogFacts DEF ChannelInv, CopiesInv, LogInv
<1>2. \A n \in Nat : n <= now => n \in Times
  BY <1>1 DEF Times
<1>3. log \in Seq(LogPosts) /\ Len(log) <= MaxPosts
  <2>1. \A p \in DOMAIN log : log[p] \in PostType /\ log[p].at <= now /\ log[p].upd <= now
    <3>1. \A p \in DOMAIN log : log[p] \in PostType
      BY <1>1, LogFacts
    <3> QED
      BY <1>1, <3>1, PastPosts DEF LogInv
  <2>2. ASSUME NEW p \in DOMAIN log PROVE log[p] \in LogPosts
    <3>1. log[p] \in PostType /\ log[p].at <= now /\ log[p].upd <= now
      BY <2>1
    <3>2. log[p].at \in Times /\ log[p].upd \in Times
      BY <1>2, <3>1 DEF PostType
    <3> QED
      BY <3>1, <3>2 DEF PostType, LogPosts
  <2>3. log \in Seq(PostType)
    BY <1>1 DEF LogInv
  <2> QED
    BY <1>1, <2>2, <2>3 DEF LogInv
<1>4. ASSUME NEW e, EventOk(e)
      PROVE  e \in [type : {"posted", "post_edited", "post_deleted"}, id : DOMAIN log, upd : Times]
  BY <1>2, <1>4 DEF EventOk, EventType
<1>5. events \in Seq([type : {"posted", "post_edited", "post_deleted"}, id : DOMAIN log, upd : Times])
  <2>1. PICK T : T = [type : {"posted", "post_edited", "post_deleted"}, id : DOMAIN log, upd : Times]
    OBVIOUS
  <2>2. events \in Seq(EventType) /\ \A e \in ToSet(events) : e \in T
    BY <1>1, <1>4, <2>1 DEF CopiesInv, EventsInv
  <2>3. events \in Seq(ToSet(events)) /\ ToSet(events) \subseteq T
    BY <2>2, SeqFacts
  <2>4. Seq(ToSet(events)) \subseteq Seq(T)
    BY <2>3
  <2> QED
    BY <2>1, <2>3, <2>4
<1>6. held \in Seq([type : {"posted"}, id : DOMAIN log, upd : Times])
  <2>1. PICK T : T = [type : {"posted"}, id : DOMAIN log, upd : Times]
    OBVIOUS
  <2>2. held \in Seq(EventType) /\ \A e \in ToSet(held) : EventOk(e) /\ e.type = "posted"
    BY <1>1 DEF CopiesInv, HeldInv
  <2>3. \A e \in ToSet(held) : e \in T
    BY <1>4, <2>1, <2>2
  <2>4. held \in Seq(ToSet(held)) /\ ToSet(held) \subseteq T
    BY <2>2, <2>3, SeqFacts
  <2>5. Seq(ToSet(held)) \subseteq Seq(T)
    BY <2>4
  <2> QED
    BY <2>1, <2>4, <2>5
<1>7. lastDisconnectAt \in Times /\ lastGetPosts \in Times
  BY <1>2 DEF TypesInv, DatesInv
<1>8. stored \in [Ids -> StoredPosts]
  <2>1. stored \in [Ids -> CopyType]
    BY <1>1 DEF CopiesInv, StoredInv
  <2>2. ASSUME NEW id \in Ids PROVE stored[id].at <= now /\ stored[id].upd <= now
    <3>1. CASE id = PendingId
      BY <3>1 DEF TypesInv, UnstoredInv
    <3>2. CASE id \in PostIds /\ ~Stored(stored, id)
      BY <1>1, <3>2 DEF TypesInv, UnstoredInv
    <3>3. CASE id \in PostIds /\ Stored(stored, id)
      <4>1. id \in DOMAIN log
        BY <1>1, <3>3 DEF CopiesInv, StoredInv, Stored
      <4>2. PostConsistent(id) /\ stored[id].at = log[id].at /\ log[id].upd <= now
        BY <1>1, <3>3, <4>1 DEF CopiesInv, TimesInv, Timed, LogInv
      <4>3. log[id].at <= now
        BY <1>1, <4>1, PastPosts
      <4>4. stored[id].upd <= log[id].upd /\ stored[id].upd \in Nat /\ log[id].upd \in Nat
        BY <3>3, <4>2 DEF PostConsistent, Consistent, Dated, Stored
      <4> QED
        BY <1>1, <4>2, <4>3, <4>4
    <3> QED
      BY <3>1, <3>2, <3>3 DEF Ids
  <2>3. ASSUME NEW id \in Ids PROVE stored[id] \in StoredPosts
    <3>1. stored[id] \in CopyType /\ stored[id].at <= now /\ stored[id].upd <= now
      BY <2>1, <2>2
    <3>2. stored[id].at \in Times /\ stored[id].upd \in Times
      BY <1>2, <3>1 DEF CopyType
    <3> QED
      BY <3>1, <3>2 DEF CopyType, StoredPosts
  <2> QED
    BY <2>1, <2>3
<1>9. blocks \in Seq([order : Seq(Ids), recent : BOOLEAN, oldest : BOOLEAN])
  <2>1. PICK v : v = View(log, create.at, stored, Accounted)
    OBVIOUS
  <2>2. blocks \in Seq(BlockType(v.has)) /\ v.has \subseteq Ids
    <3>1. v.has = KeptOf(log, stored)
      BY <2>1 DEF View
    <3> QED
      BY <1>1, <2>1, <3>1 DEF ChannelInv, BlocksInv, AllSound, KeptOf, Ids
  <2>3. Seq(v.has) \subseteq Seq(Ids)
    BY <2>2
  <2>4. BlockType(v.has) \subseteq [order : Seq(Ids), recent : BOOLEAN, oldest : BOOLEAN]
    BY <2>3 DEF BlockType
  <2>5. PICK S, T : S = BlockType(v.has) /\ T = [order : Seq(Ids), recent : BOOLEAN, oldest : BOOLEAN]
    OBVIOUS
  <2>6. S \subseteq T
    BY <2>4, <2>5
  <2>7. Seq(S) \subseteq Seq(T)
    BY <2>6
  <2> QED
    BY <2>2, <2>5, <2>7
<1>10. /\ up \in BOOLEAN /\ sending \in BOOLEAN /\ loaded \in BOOLEAN /\ strayed \in BOOLEAN
       /\ timer \in BOOLEAN /\ denied \cup revived \subseteq DOMAIN log
       /\ left \in Allowed /\ Len(held) <= HeldLimit
       /\ missed \subseteq [type : {"posted", "post_edited", "post_deleted"}, id : DOMAIN log]
  BY DEF TypesInv, FlagsInv, LossesInv, NewsType
<1>11. /\ told \subseteq DOMAIN log /\ create.st \in {"none", "sent", "created", "found", "ended"}
       /\ ~loaded => blocks = << >>
  BY DEF ChannelInv, ToldInv, RequestInv, BlocksInv
<1> QED
  BY <1>1, <1>3, <1>5, <1>6, <1>7, <1>8, <1>9, <1>10, <1>11 DEF TypeOK

\* The variables have their types: no clock runs ahead, no more than HeldLimit events are held,
\* and what is lost, told or stored is of posts of the log.
THEOREM ChannelTypes == Spec => []TypeOK
<1>1. Init => ChannelInv /\ TypesInv
  BY InitChannel, TypesInit
<1>2. ChannelInv /\ TypesInv /\ [Next]_vars => ChannelInv' /\ TypesInv'
  BY NextChannel, TypesNext
<1>3. ChannelInv /\ TypesInv => TypeOK
  BY TypesOk
<1> QED
  BY <1>1, <1>2, <1>3, PTL DEF Spec

===============================================================================
