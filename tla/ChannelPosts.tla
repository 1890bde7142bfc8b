------------------------------ MODULE ChannelPosts ------------------------------
(***************************************************************************)
(* The posts of one channel in the web client.  The server keeps the       *)
(* channel; the client holds a copy of parts of it, in blocks, and learns  *)
(* of posts in three ways that overtake one another: events of the         *)
(* WebSocket, answers of the calls it made, and its own createPost.        *)
(*                                                                         *)
(* Posts are numbered in the order they were created; a post of the log    *)
(* and its copy carry create_at (at) and update_at (upd).  All posts are   *)
(* root posts; the channel is the one the user looks at; client and server *)
(* read one clock.  The user has the posts of bots, webhooks and the       *)
(* system hidden in the channel, or there are none.                        *)
(***************************************************************************)
EXTENDS PostBlocks

CONSTANTS
    PerPage,        \* POST_CHUNK_SIZE and the other page sizes
    BurstLimit,     \* events handled at once before the rest is held: 4 in the code
    HeldLimit,      \* events held at most: 200 in the code
    InitPosts,      \* the posts the channel has when the client starts
    MaxPosts,       \* bound: posts of the channel
    MaxCalls,       \* bound: calls in flight when the user starts another
    Scenarios       \* bounds: how often what may happen, see Allowed

\* What is bounded: posts of others, edits and deletions, broken connections, calls the
\* user starts, his submissions of one post, and reloads of the channel; and which posts
\* of others are hidden, being a bot's.
Allowed == [posts : Nat, changes : Nat, drops : Nat, calls : Nat, tries : Nat, resets : Nat,
            bots : SUBSET Nat]

ASSUME ChannelPostsAssumption ==
    /\ {BurstLimit, HeldLimit, InitPosts, MaxPosts, MaxCalls} \subseteq Nat
    /\ PerPage \in Nat \ {0} /\ InitPosts <= MaxPosts
    /\ Scenarios \subseteq Allowed

VARIABLES
    now,            \* the clock
    log,            \* the server's posts of the channel
    events,         \* the events on their way to the client
    up,             \* the WebSocket is connected
    lastDisconnectAt,
    calls,          \* the calls in flight, with the page once the server answered
    create,         \* the createPost request, with the post once the server has it
    stored,         \* entities.posts.posts
    loaded,         \* postsInChannel has an entry for the channel
    blocks,         \* that entry
    sending,        \* pendingPostIds has the pending id
    held, burst, timer,     \* queue, count and timeout of debouncePostEvent
    lastGetPosts,   \* views.channel.lastGetPosts, 0 for none
    missed,         \* history: the events that never reached a copy of their post
    told,           \* history: the posts that pages brought to the blocks
    strayed,        \* history: the pending post was left in a block that is not the recent one
    denied,         \* history: the posts beyond a page that the filter made seem the last
    revived,        \* history: the copies marked deleted that an equal update_at replaced
    left            \* what may still happen

client == <<stored, loaded, blocks>>
socket == <<up, lastDisconnectAt>>
queue == <<held, burst, timer>>
history == <<missed, told, strayed, denied, revived>>
vars == <<now, log, events, socket, calls, create, client, sending, queue,
          lastGetPosts, history, left>>

PostIds == 1 .. MaxPosts
Ids == PostIds \cup {PendingId}

\* The request while it carries no post: not made yet, sent, or ended
Request(st, at) == [st |-> st, at |-> at, id |-> PendingId, post |-> NoPost]

Live == {p \in DOMAIN log : ~log[p].deleted}

\* FilterBotMessagesFromPostList: what the user sees of the posts
Kept(S) == {p \in S : ~log[p].hidden}

NoPage == [order |-> << >>, posts |-> << >>, recent |-> FALSE, oldest |-> FALSE, upto |-> 0,
           denied |-> {}]

Spend(what) ==
    /\ left[what] > 0
    /\ left' = [left EXCEPT ![what] = @ - 1]

Init ==
    /\ left \in Scenarios
    /\ now = InitPosts + 1
    /\ log = [p \in 1 .. InitPosts |-> [at |-> p, upd |-> p, deleted |-> FALSE, own |-> FALSE,
                                       hidden |-> p \in left.bots]]
    /\ events = << >>
    /\ up = TRUE
    /\ lastDisconnectAt = 0
    /\ calls = {}
    /\ create = Request("none", 0)
    /\ stored = [id \in Ids |-> NoPost]
    /\ loaded = FALSE
    /\ blocks = << >>
    /\ sending = FALSE
    /\ held = << >>
    /\ burst = 0
    /\ timer = FALSE
    /\ lastGetPosts = 0
    /\ missed = {}
    /\ told = {}
    /\ strayed = FALSE
    /\ denied = {}
    /\ revived = {}

-----------------------------------------------------------------------------
\* The server

Publish(type, p, upd) == events' = Append(events, [type |-> type, id |-> p, upd |-> upd])

SavePost(own) ==
    /\ Len(log) < MaxPosts
    /\ now' = now + 1
    /\ log' = Append(log, [at |-> now', upd |-> now', deleted |-> FALSE, own |-> own,
                          hidden |-> ~own /\ Len(log) + 1 \in left.bots])
    /\ Publish("posted", Len(log) + 1, now')

\* Another user posts.
OthersPost ==
    /\ Spend("posts")
    /\ SavePost(FALSE)
    /\ UNCHANGED <<socket, calls, create, client, sending, queue, lastGetPosts, history>>

\* Somebody edits or deletes a post.
ChangePost(p, type) ==
    /\ p \in Live
    /\ Spend("changes")
    /\ now' = now + 1
    /\ log' = [log EXCEPT ![p].upd = now', ![p].deleted = (type = "post_deleted")]
    /\ Publish(type, p, now')
    /\ UNCHANGED <<socket, calls, create, client, sending, queue, lastGetPosts, history>>

\* createPost arrives.  deduplicateCreatePost finds the post a former try created, and
\* returns it as the database has it, without its pending_post_id, unless the seen
\* pending id has expired: then the retry creates another.
CreatePost ==
    /\ create.st = "sent"
    /\ \/ /\ SavePost(TRUE)
          /\ create' = [create EXCEPT !.st = "created", !.id = Len(log'),
                                        !.post = log'[Len(log')]]
       \/ /\ \E p \in Live : /\ log[p].own
                            /\ create' = [create EXCEPT !.st = "found", !.id = p, !.post = log[p]]
          /\ UNCHANGED <<now, log, events>>
    /\ UNCHANGED <<socket, calls, client, sending, queue, lastGetPosts, history, left>>

Descending(S) == Arrange(S, {pq \in S \X S : pq[1] > pq[2]})
Below(p) == {q \in Live : q < p}
Above(p) == {q \in Live : q > p}
\* At most n of the posts, those nearest to the end they are taken from.
Nearest(S, n) == {p \in S : Cardinality({q \in S : q > p}) < n}
Farthest(S, n) == {p \in S : Cardinality({q \in S : q < p}) < n}

\* What is kept of the posts S, as a PostList: the versions, and whether next_post_id and
\* prev_post_id are empty.  denied, for history, are the posts these wrongly deny.
Page(S, recent, oldest, denies) ==
    [order |-> Descending(Kept(S)), posts |-> [p \in Kept(S) |-> log[p]],
     recent |-> recent, oldest |-> oldest, upto |-> Len(log), denied |-> Kept(denies)]

\* GetPostsPage, page 0, which the client takes for recent whatever next_post_id is.  A
\* page of which nothing is kept has no post to look for a previous one from.
LatestPage ==
    LET S == Nearest(Live, PerPage)
        empty == Kept(S) = {}
    IN Page(S, TRUE, empty \/ \A p \in Live : \E q \in Kept(S) : q <= p,
            IF empty THEN Live \ S ELSE {})

\* A page as getPostsForChannelAroundLastUnread and getPostsUnread take it: next_post_id
\* and prev_post_id are looked for from the first and the last post that is kept.
CursorPage(S) ==
    LET empty == Kept(S) = {}
    IN Page(S, empty \/ \A p \in Live : \E q \in Kept(S) : p <= q,
            empty \/ \A p \in Live : \E q \in Kept(S) : q <= p,
            IF empty THEN Live \ S ELSE {})

\* GetPostsAfterPost and GetPostsBeforePost with AddCursorIdsForPostList: a page that is
\* not full after the filter is taken for the last.
AfterPageIsLast(p) ==                           \* mutant: a full page is taken for the last
    LET S == Farthest(Above(p), PerPage)
    IN Page(S, Cardinality(S) <= PerPage, FALSE, IF Kept(S) # S THEN Above(p) \ S ELSE {})
AfterPage(p) ==
    LET S == Farthest(Above(p), PerPage)
    IN Page(S, Above(p) = S \/ Kept(S) # S, FALSE, IF Kept(S) # S THEN Above(p) \ S ELSE {})
BeforePageIsLast(p) ==                          \* mutant: a full page is taken for the last
    LET S == Nearest(Below(p), PerPage)
    IN Page(S, FALSE, Cardinality(S) <= PerPage, IF Kept(S) # S THEN Below(p) \ S ELSE {})
BeforePage(p) ==
    LET S == Nearest(Below(p), PerPage)
    IN Page(S, FALSE, Below(p) = S \/ Kept(S) # S, IF Kept(S) # S THEN Below(p) \ S ELSE {})

\* getPostsAround: a page after, the post, a page before.  The post is in the order even
\* when its own answer, of getPostThread, is filtered.
Around(p) == Farthest(Above(p), PerPage) \cup {p} \cup Nearest(Below(p), PerPage)
AroundPage(p) ==
    [Page(Around(p), AfterPage(p).recent, BeforePage(p).oldest, {}) EXCEPT
        !.order = Descending(Kept(Around(p)) \cup {p}),
        !.denied = AfterPage(p).denied \cup BeforePage(p).denied]

\* GetPostsSince: whatever was written after the time, deleted posts too
SincePage(time) == Page({p \in DOMAIN log : log[p].upd > time}, FALSE, FALSE, {})

\* getPostsForChannelAroundLastUnread: around the first unread post, or the latest
\* posts when all are read.
Pages(call) ==
    CASE call.kind = "latest" -> {LatestPage}
      [] call.kind = "newest" -> {CursorPage(Nearest(Live, PerPage))}
      [] call.kind = "unread" -> {CursorPage(S) : S \in {Nearest(Live, PerPage)} \cup
                                                        {Around(p) : p \in Live}}
      [] call.kind = "after" -> {AfterPage(call.anchor)}
      [] call.kind = "before" -> {BeforePage(call.anchor)}
      [] call.kind = "around" -> {AroundPage(p) : p \in Live \cap {call.anchor}}
      [] call.kind = "since" -> {SincePage(call.since)}

\* The server answers a call.
Answer(call) ==
    /\ call.page = NoPage
    /\ \E page \in Pages(call) : calls' = (calls \ {call}) \cup {[call EXCEPT !.page = page]}
    /\ UNCHANGED <<now, log, events, socket, create, client, sending, queue, lastGetPosts,
                   history, left>>

-----------------------------------------------------------------------------
\* The client: the posts it stores

\* shouldUpdatePost: nothing older than what is stored.  A version with the update_at of
\* the stored one is taken too when it differs in its thread fields, its metadata or the
\* number of its redacted files, which the model does not have.
NewerOrSame(old, upd, differs) == old.st = "none" \/ old.upd <= upd   \* mutant: < for <=
Newer(old, upd, differs) ==
    old.st = "none" \/ old.upd < upd \/ (old.upd = upd /\ differs)

\* The posts that are stored with the update_at they come with: any of them may differ.
\* It matters for a copy that is marked deleted and for one's own post, which ends the
\* pending one; the others are taken for the same.
Same(posts) ==
    {p \in DOMAIN posts :
        /\ Stored(stored, p) /\ stored[p].upd = posts[p].upd
        /\ (stored[p].st = "deleted") # posts[p].deleted \/ log[p].own}

\* handlePostReceived: a deleted post is taken only when it is stored.
ReceiveLast(old, post, differs) ==              \* mutant: whatever was received last
    IF post.deleted /\ old.st = "none"
    THEN old
    ELSE [at |-> post.at, upd |-> post.upd, st |-> IF post.deleted THEN "deleted" ELSE "live"]
Receive(old, post, differs) ==
    IF ~Newer(old, post.upd, differs) \/ (post.deleted /\ old.st = "none")
    THEN old
    ELSE [at |-> post.at, upd |-> post.upd, st |-> IF post.deleted THEN "deleted" ELSE "live"]

\* RECEIVED_POSTS, where the posts of D differ though their update_at is the stored one's
ReceivePosts(posts, D) ==
    [id \in Ids |-> IF id \in DOMAIN posts THEN Receive(stored[id], posts[id], id \in D)
                    ELSE stored[id]]

\* What of that replaced a copy that was marked deleted by one that is not
Revived(posts, D) == {p \in D \cap Same(posts) : stored[p].st = "deleted" /\ ~posts[p].deleted}

\* RECEIVED_POST and RECEIVED_NEW_POST of a post created from the pending one, which
\* goes, unless the post was stored already.
ReceiveCreated(p, post, own, differs) ==
    [stored EXCEPT ![p] = Receive(@, post, differs),
                   ![PendingId] = IF own /\ Newer(stored[p], post.upd, differs)
                                  THEN NoPost ELSE @]

\* A reducer that throws leaves the store as it was.
Dispatch(posts, result, isLoaded) ==
    IF result.ok
    THEN /\ stored' = posts
         /\ blocks' = result.blocks
         /\ loaded' = (isLoaded \/ result.blocks # << >>)
    ELSE UNCHANGED client

-----------------------------------------------------------------------------
\* The client: calls

\* What events tell; what is still to be told; and history keeps what is lost.
News(es) == {[type |-> e.type, id |-> e.id] : e \in es}
Posted(ids) == {[type |-> "posted", id |-> p] : p \in ids}
Coming == News(ToSet(events) \cup ToSet(held))

Call(kind, anchor, since) ==
    [kind |-> kind, anchor |-> anchor, since |-> since, time |-> now, page |-> NoPage]

Start(call) ==
    /\ Cardinality(calls) < MaxCalls
    /\ Spend("calls")
    /\ calls' = calls \cup {call}
    /\ UNCHANGED <<now, log, events, socket, create, client, sending, queue, lastGetPosts, history>>

Shown(p) == \E b \in ToSet(blocks) : Has(b, p)

\* The block shown at the bottom of the channel
Recent == IF RecentBlock(blocks) = 0 THEN << >> ELSE blocks[RecentBlock(blocks)].order
Strays == \E i \in DOMAIN blocks : i # RecentBlock(blocks) /\ Has(blocks[i], PendingId)

\* Of an order of ids the list shows those whose post is not hidden, and does not know of
\* every post that it is to be hidden.
Lists(order) == {order, Only(order, Ids \ {p \in DOMAIN log : log[p].hidden})}

\* syncPostsInChannel: since the last time posts were fetched, if that was before the
\* connection broke last, else since the newest post listed of the recent block.
SyncPostsInChannel(newest) ==
    Call("since", PendingId, IF lastGetPosts # 0 /\ lastGetPosts < lastDisconnectAt
                             THEN lastGetPosts
                             ELSE stored[newest].at)

\* postsOnLoad of the post list and prefetchChannelPosts: the user comes to the channel.
OpenChannel ==
    \/ ~loaded /\ Start(Call("unread", PendingId, 0))
    \/ /\ loaded
       /\ \E list \in Lists(Recent) :
              \/ list # << >> /\ Stored(stored, Head(list)) /\ Start(SyncPostsInChannel(Head(list)))
              \/ list = << >> /\ \E kind \in {"latest", "unread"} : Start(Call(kind, PendingId, 0))

\* getPostsUnread of a user who starts from the newest post: when posts follow, the latest
\* are fetched too.  The code dispatches both answers in one batch.
FetchNewest(call) ==
    /\ call.kind = "unread" /\ call.page # NoPage /\ ~call.page.recent
    /\ Start(Call("newest", PendingId, 0))

\* loadPostsAround: the user follows a link to a post.  focusPost has stored a hidden one,
\* which the page does not bring.
OpenPermalink(p) ==
    /\ p \in DOMAIN log
    /\ log[p].hidden => Stored(stored, p)
    /\ Start(Call("around", p, 0))

\* loadPosts: the user scrolls to the end of a list that goes on.
LoadMore(block) ==
    \E list \in Lists(block.order) :
        /\ list # << >>
        /\ \/ ~block.oldest /\ Last(list) # PendingId
              /\ Start(Call("before", Last(list), 0))
           \/ ~block.recent /\ Head(list) # PendingId
              /\ Start(Call("after", Head(list), 0))

\* The calls answered by RECEIVED_POSTS_IN_CHANNEL
InChannel == {"latest", "newest", "unread", "around"}

\* What the answer does to the blocks
Received(call, posts) ==
    CASE call.kind \in InChannel ->
             ReceivedInChannel(loaded, blocks, call.page, posts)
      [] call.kind = "after" -> ReceivedAfter(blocks, call.page, call.anchor, posts)
      [] call.kind = "before" -> ReceivedBefore(blocks, call.page, call.anchor, posts)
      [] call.kind = "since" -> ReceivedSince(loaded, blocks, call.page, posts)

\* Which answers are RECEIVED_POSTS_FOR_CHANNEL_AT_TIME too; getPosts of a reconnect,
\* whose time is 0 here, is not.
SetsTime(call) ==
    /\ call.time # 0
    /\ \/ call.kind \in {"since", "latest"}
       \/ call.kind = "unread" /\ call.page.recent

\* The posts of the answer that the blocks are to have: of those since a time, the ones
\* that are newer than the oldest of the recent block
Tells(call) ==
    {p \in DOMAIN call.page.posts : call.kind = "since" =>
        Recent # << >> /\ log[p].at > stored[Last(Recent)].at}

\* The answer of a call is dispatched: its posts, then its order, in one batch.
ReceiveAnswer(call) ==
    /\ call.page # NoPage
    /\ calls' = calls \ {call}
    /\ \E D \in SUBSET Same(call.page.posts) :
       LET posts == ReceivePosts(call.page.posts, D)
           result == Received(call, posts)
           taken == result.ok /\ ~(call.kind \in InChannel /\ Known(blocks, call.page))
       IN /\ Dispatch(posts, result, loaded \/ call.kind \in InChannel)
          /\ lastGetPosts' = IF result.ok /\ SetsTime(call) THEN call.time ELSE lastGetPosts
          /\ told' = told \cup IF taken THEN Tells(call) ELSE {}
          /\ denied' = denied \cup IF taken THEN call.page.denied ELSE {}
          /\ revived' = revived \cup IF result.ok THEN Revived(call.page.posts, D) ELSE {}
          /\ missed' = missed \cup
                IF taken /\ call.page.recent
                THEN Posted({p \in call.page.upto + 1 .. Len(log) : ~Shown(p)'}) \ Coming
                ELSE {}
          /\ strayed' = (strayed \/ Strays')
    /\ UNCHANGED <<now, log, events, socket, create, sending, queue, left>>

\* A call fails: the error is logged.
CallFails(call) ==
    /\ calls' = calls \ {call}
    /\ UNCHANGED <<now, log, events, socket, create, client, sending, queue, lastGetPosts,
                   history, left>>

\* RESET_POSTS_IN_CHANNEL: the channel is to be loaded anew.
ResetChannel ==
    /\ loaded
    /\ Spend("resets")
    /\ loaded' = FALSE
    /\ blocks' = << >>
    /\ told' = {}
    /\ denied' = {}
    /\ strayed' = FALSE
    /\ UNCHANGED <<now, log, events, socket, calls, create, stored, sending, queue,
                   lastGetPosts, missed, revived>>

-----------------------------------------------------------------------------
\* The client: events

\* The posts that come with events were written at the time of the event.
Version(e) == [at |-> log[e.id].at, upd |-> e.upd, deleted |-> FALSE]

\* The posts of a batch of events are added to the blocks, one after the other.
Added(batch, posts) ==
    LET done[k \in 0 .. Len(batch)] ==
            IF k = 0 THEN Ok(blocks)
            ELSE IF ~done[k - 1].ok THEN done[k - 1]
            ELSE ReceivedNewPost(done[k - 1].blocks, batch[k].id, log[batch[k].id].own, posts)
    IN done

\* receivedNewPost, for a batch of events of posts, each of another: the posts they bring,
\* the posts the store then has, and its blocks.  A channel that is not loaded takes no
\* new posts.
Brought(batch) ==
    [p \in {e.id : e \in ToSet(batch)} |-> Version(CHOOSE e \in ToSet(batch) : e.id = p)]
BatchPosts(batch, D) ==
    LET new == Brought(batch)
        created == \E p \in DOMAIN new : log[p].own /\ Newer(stored[p], new[p].upd, p \in D)
    IN [ReceivePosts(new, D) EXCEPT ![PendingId] = IF created THEN NoPost ELSE @]
BatchResult(batch, D) ==
    IF loaded THEN Added(batch, BatchPosts(batch, D))[Len(batch)] ELSE Ok(blocks)
NewPosts(batch, D) ==
    /\ Dispatch(BatchPosts(batch, D), BatchResult(batch, D), loaded)
    /\ sending' = (sending \/ \E p \in DOMAIN Brought(batch) : log[p].own)
    /\ revived' = revived \cup IF BatchResult(batch, D).ok THEN Revived(Brought(batch), D) ELSE {}

\* debouncePostEvent in a burst: the event is held.  When too many are, all are dropped.
HoldOneMore(e) ==                                        \* mutant: one event too many
    IF Len(held) <= HeldLimit
    THEN held' = Append(held, e) /\ UNCHANGED missed
    ELSE held' = << >> /\ missed' = missed \cup News({e} \cup ToSet(held))
Hold(e) ==
    IF Len(held) < HeldLimit
    THEN held' = Append(held, e) /\ UNCHANGED missed
    ELSE held' = << >> /\ missed' = missed \cup News({e} \cup ToSet(held))

\* handleNewPostEvent: a posted event is handled at once, unless its post is known to be
\* hidden, or held.
HandlePosted(e) ==
    \/ /\ burst <= BurstLimit \/ ~timer
       /\ burst' = burst + 1
       /\ timer' = TRUE
       /\ \/ \E D \in SUBSET Same(Brought(<<e>>)) : NewPosts(<<e>>, D)
          \/ log[e.id].hidden /\ UNCHANGED <<client, sending, revived>>
       /\ UNCHANGED <<held, missed>>
    \/ /\ burst > BurstLimit /\ timer
       /\ Hold(e)
       /\ UNCHANGED <<client, sending, burst, timer, revived>>

\* handlePostDeleteEvent: POST_DELETED marks the stored post.
HandleDeleted(e) ==
    /\ stored' = [stored EXCEPT ![e.id].st = IF @ = "none" THEN @ ELSE "deleted"]
    /\ missed' = IF Stored(stored, e.id) THEN missed ELSE missed \cup News({e})
    /\ UNCHANGED <<calls, loaded, blocks, revived>>

\* handlePostEditEvent: the post is stored, and fetched with its neighbours when it is
\* in none of the blocks but among their posts, or newer than all.
AmongLoaded(p, posts) ==
    LET whole == {b \in ToSet(blocks) : /\ b.order # << >> /\ Stored(posts, Head(b.order))
                                        /\ Stored(posts, Last(b.order))}
    IN \/ \E b \in whole : Oldest(posts, b) <= log[p].at /\ log[p].at <= Newest(posts, b)
       \/ \A b \in whole : Newest(posts, b) < log[p].at
HandleEdited(e) ==
    LET new == Brought(<<e>>)
    IN \E D \in SUBSET Same(new) :
       LET posts == ReceivePosts(new, D)
       IN /\ stored' = posts
          /\ revived' = revived \cup Revived(new, D)
          /\ calls' = IF loaded /\ ~Shown(e.id) /\ AmongLoaded(e.id, posts)
                      THEN calls \cup {Call("around", e.id, 0)}
                      ELSE calls
          /\ UNCHANGED <<loaded, blocks>>

\* The next event arrives.
HandleEvent ==
    /\ up
    /\ events # << >>
    /\ events' = Tail(events)
    /\ LET e == Head(events)
       IN \/ e.type = "posted" /\ HandlePosted(e) /\ UNCHANGED calls
          \/ e.type = "post_deleted" /\ HandleDeleted(e) /\ UNCHANGED <<sending, queue>>
          \/ e.type = "post_edited" /\ HandleEdited(e)
             /\ UNCHANGED <<sending, queue, missed>>
    /\ UNCHANGED <<now, log, socket, create, lastGetPosts, told, strayed, denied, left>>

\* triggered: the timer of the burst fires, the held posts are received in one batch.  If
\* that throws they stay, and no timer runs.
BurstEnds ==
    /\ timer
    /\ timer' = FALSE
    /\ \E D \in SUBSET Same(Brought(held)) :
           /\ NewPosts(held, D)
           /\ IF BatchResult(held, D).ok THEN held' = << >> /\ burst' = 0
                                         ELSE UNCHANGED <<held, burst>>
    /\ UNCHANGED <<now, log, events, socket, calls, create, lastGetPosts, missed, told, strayed,
                   denied, left>>

\* The connection breaks (WEBSOCKET_FAILURE); the server goes on queueing events.
Disconnect ==
    /\ up
    /\ Spend("drops")
    /\ up' = FALSE
    /\ now' = now + 1
    /\ lastDisconnectAt' = now'
    /\ UNCHANGED <<log, events, calls, create, client, sending, queue, lastGetPosts, history>>

\* reconnect: the queued events follow or, on a new connection, are gone; what is new
\* in the channel is fetched either way.
Reconnect ==
    /\ ~up
    /\ up' = TRUE
    /\ \/ UNCHANGED <<events, missed>>
       \/ /\ events' = << >>
          /\ missed' = missed \cup News(ToSet(events))
    /\ \E list \in Lists(Recent) :
           calls' = calls \cup {IF list # << >> /\ Stored(stored, Head(list))
                               THEN SyncPostsInChannel(Head(list))
                               ELSE [Call("latest", PendingId, 0) EXCEPT !.time = 0]}
    /\ UNCHANGED <<now, log, lastDisconnectAt, create, client, sending, queue, lastGetPosts,
                   told, strayed, denied, revived, left>>

-----------------------------------------------------------------------------
\* The client: the user's own post

\* createPost: the post is shown at once, under its pending id.  A post that failed is
\* submitted again with the same id, unless that is being sent.
SubmitPost(again) ==
    /\ create.st = IF again THEN "ended" ELSE "none"
    /\ again => stored[PendingId].st = "failed" /\ Shown(PendingId) /\ ~sending
    /\ Spend("tries")
    /\ now' = now + 1
    /\ create' = Request("sent", now')
    /\ sending' = TRUE
    /\ LET st == IF again THEN "failed" ELSE "live"
           posts == [stored EXCEPT ![PendingId] = [at |-> now', upd |-> now', st |-> st]]
       IN Dispatch(posts, IF loaded THEN ReceivedNewPost(blocks, PendingId, FALSE, posts)
                          ELSE Ok(blocks), loaded)
    /\ UNCHANGED <<log, events, socket, calls, queue, lastGetPosts, history>>

\* The answer of createPost: RECEIVED_POST, with the pending id if the server created
\* the post for this request.
PostCreated ==
    /\ create.st \in {"created", "found"}
    /\ create' = Request("ended", create.at)
    /\ LET new == create.st = "created"
           post == [p \in {create.id} |-> create.post]
       IN \E D \in SUBSET Same(post) :
          /\ stored' = ReceiveCreated(create.id, create.post, new, create.id \in D)
          /\ revived' = revived \cup Revived(post, D)
          /\ blocks' = IF new THEN ReplacePending(blocks, create.id) ELSE blocks
          /\ sending' = (sending /\ ~new)
    /\ UNCHANGED <<now, log, events, socket, calls, loaded, queue, lastGetPosts, missed, told,
                   strayed, denied, left>>

\* createPost fails, whether or not the server has created the post: the pending post
\* is stored as failed, or the server rejected it and it is removed.
PostFails ==
    /\ create.st \in {"sent", "created", "found"}
    /\ create' = Request("ended", create.at)
    /\ sending' = FALSE
    /\ \/ /\ now' = now + 1
          /\ stored' = [stored EXCEPT ![PendingId] =
                            [at |-> create.at, upd |-> now', st |-> "failed"]]
          /\ UNCHANGED blocks
       \/ /\ create.st = "sent"
          /\ stored' = [stored EXCEPT ![PendingId] = NoPost]
          /\ blocks' = Removed(blocks, PendingId)
          /\ UNCHANGED now
    /\ UNCHANGED <<log, events, socket, calls, loaded, queue, lastGetPosts, history, left>>

\* The user gives up a post that failed: POST_REMOVED.
RemoveFailed ==
    /\ stored[PendingId].st = "failed"
    /\ Shown(PendingId)
    /\ stored' = [stored EXCEPT ![PendingId] = NoPost]
    /\ blocks' = Removed(blocks, PendingId)
    /\ sending' = FALSE
    /\ UNCHANGED <<now, log, events, socket, calls, create, loaded, queue, lastGetPosts,
                   history, left>>

-----------------------------------------------------------------------------
Next ==
    \/ OthersPost
    \/ \E p \in PostIds, type \in {"post_edited", "post_deleted"} : ChangePost(p, type)
    \/ CreatePost
    \/ \E call \in calls : Answer(call) \/ FetchNewest(call) \/ ReceiveAnswer(call) \/ CallFails(call)
    \/ OpenChannel
    \/ \E p \in PostIds : OpenPermalink(p)
    \/ \E block \in ToSet(blocks) : LoadMore(block)
    \/ ResetChannel
    \/ HandleEvent
    \/ BurstEnds
    \/ Disconnect
    \/ Reconnect
    \/ \E again \in BOOLEAN : SubmitPost(again)
    \/ PostCreated
    \/ PostFails
    \/ RemoveFailed

Spec == Init /\ [][Next]_vars

-----------------------------------------------------------------------------
Times == 0 .. now
StoredPosts == [at : Times, upd : Times, st : {"none", "live", "deleted", "failed"}]
LogPosts == [at : Times, upd : Times, deleted : BOOLEAN, own : BOOLEAN, hidden : BOOLEAN]

\* The variables have their types.
TypeOK ==
    /\ now \in Nat
    /\ log \in Seq(LogPosts) /\ Len(log) <= MaxPosts
    /\ events \in Seq([type : {"posted", "post_edited", "post_deleted"}, id : DOMAIN log, upd : Times])
    /\ held \in Seq([type : {"posted"}, id : DOMAIN log, upd : Times]) /\ Len(held) <= HeldLimit
    /\ {up, sending, loaded, timer} \subseteq BOOLEAN
    /\ lastDisconnectAt \in Times /\ lastGetPosts \in Times
    /\ stored \in [Ids -> StoredPosts]
    /\ blocks \in Seq([order : Seq(Ids), recent : BOOLEAN, oldest : BOOLEAN])
    /\ ~loaded => blocks = << >>
    /\ told \cup denied \cup revived \subseteq DOMAIN log /\ strayed \in BOOLEAN
    /\ missed \subseteq [type : {"posted", "post_edited", "post_deleted"}, id : DOMAIN log]
    /\ create.st \in {"none", "sent", "created", "found", "ended"}
    /\ left \in Allowed

\* The posts of others and of the user that a block has; and those it has not, leaving
\* out what the user does not want to see, and what an answer denied: a page from which
\* posts were filtered passes for the last, and the client does not ask for more.
Servers(block) == ToSet(block.order) \ {PendingId}
Lacks(block) == {p \in Kept(Live) : ~Has(block, p)} \ denied
Untold(type, p) ==
    \/ [type |-> type, id |-> p] \in Coming
    \/ [type |-> type, id |-> p] \in missed /\ ~(type = "posted" /\ p \in told)

\* A block has no hole: a post the server has between two posts of a block is in the
\* block, or in another, which the next merge joins with it, or an event that tells of
\* it is still to come or was lost, or a filtered page denied it.
NoSilentGap ==
    \A block \in ToSet(blocks) : \A p \in Lacks(block) :
        (\E q, r \in Servers(block) : q < p /\ p < r) => Untold("posted", p) \/ Shown(p)

\* A recent block reaches to the end: every newer post is in it, in another block, or
\* its event is still to come or was lost, or a filtered page denied it.
RecentIsRecent ==
    \A block \in ToSet(blocks) : block.recent /\ Servers(block) # {} =>
        \A p \in Lacks(block) :
            Untold("posted", p) \/ Shown(p) \/ \E q \in Servers(block) : p < q

\* Nothing comes before a block that begins with the oldest post of the channel, unless
\* it is in another block, or a filtered page denied it.
OldestIsOldest ==
    \A block \in ToSet(blocks) : block.oldest =>
        \A p \in Lacks(block) :
            Untold("posted", p) \/ Shown(p) \/ \E q \in Servers(block) : q < p

\* What a block shows is stored, but for the pending post.
OnlyPendingDangles ==
    \A block \in ToSet(blocks) : \A id \in Servers(block) : Stored(stored, id)

\* A block shows no post of another user twice, nor the pending post.
OthersOnce ==
    \A block \in ToSet(blocks) : \A j, k \in DOMAIN block.order :
        block.order[j] = block.order[k] /\ j # k =>
            block.order[j] # PendingId /\ log[block.order[j]].own

\* A post that was deleted is not shown as a live one, whatever overtook the deletion,
\* unless the client was not told of the deletion, when it had the post, or of an edit,
\* or was answered the version it had marked, with other thread fields or metadata.
NoGhost ==
    \A p \in DOMAIN log :
        log[p].deleted /\ stored[p].st = "live" =>
            Untold("post_deleted", p) \/ Untold("post_edited", p) \/ p \in revived

\* A post is shown as it was edited last, unless the client was not told of an edit.
CopiesCurrent ==
    \A p \in Live :
        stored[p].st # "none" /\ stored[p].upd # log[p].upd => Untold("post_edited", p)

\* Once the server has the user's post, the end of the channel does not go on showing it
\* as one that is being sent: only until the answer of createPost came, or as a post that
\* failed.  A page may leave the pending post in another block; then nothing ends it.
PendingResolved ==
    ~strayed /\ PendingId \in ToSet(Recent) /\ (\E p \in DOMAIN log : log[p].own) =>
        create.st \in {"created", "found"} \/ stored[PendingId].st = "failed"
=============================================================================
