# Formal models of okrbest's real-time core

okrbest is a Mattermost fork: a Go server (`src/server`), a React web application
(`src/webapp`) and documents (`src/docs`). This project models the part of it whose
correctness depends on many actors taking steps in any order: the path of an event
from the hub of a server node to the tab of a user, through broken sockets, full
queues, several nodes, cache invalidations and panics, on to the copy of a channel that
the tab keeps and shows, and the jobs that the nodes share
through a table. Everything here is translated
from the code; PROJECT.json maps every definition to its lines.

## Inventory

| part | state it keeps | operations | what is hard about it | what makes it correct |
|---|---|---|---|---|
| Reliable WebSocket delivery (`platform/web_conn.go`, `websocket_reliable.go`, `api4/websocket.go`, `webapp/platform/client/src/websocket.ts`) | per `WebConn`: connection id, `Sequence`, send queue, dead queue, active flag; per client: id, next sequence number | handshake, resume from the same or another node, write pump, unregister, client receive and reconnect | handshakes race each other and the hub; resumed data moves between nodes; writes fail half way | one agreed stream per id, received once and in order; loss is noticed; clients converge |
| Dead queue (`web_conn.go:740-850`) | `deadQueue`, `deadQueuePointer` | add, find, detect loss, drain, clear, marshal | roll-over of the pointer, boundaries | behaves as the window of the last events |
| Hub and its connection index (`platform/web_hub.go`) | `byConnection`, `byUserId`, `byChannelKey`, `byConnectionId` | the arms of `Hub.Start`: register, unregister, broadcast, invalidate, reap, check, recover | membership changes against registrations; ids and users of connections change behind the index; panics | the maps agree; routing follows the memberships; no send on a closed queue |
| Broadcast hooks (`platform/web_broadcast_hook.go`, `app/web_broadcast_hooks.go`) | event objects shared by the send queues of many connections | `Add`, `Event().Reject()`, offer, pump | objects shared by goroutines; copy on write | each recipient reads its own fields, and all of them get what they may see |
| Channel posts of the web client (`mattermost-redux` `reducers/entities/posts.ts`, `actions/posts.ts`, `actions/websocket_actions.ts`, `actions/views/channel.ts`; `app/post.go` and `post_store.go` for what the answers hold) | the copies of posts, the blocks of a channel in the order shown, flagged as newest or oldest; the held events, the time of the last fetch, the pending post | handle an event, hold a burst, fetch a page of each kind, resync after a reconnect, submit, retry, remove | events, pages and the answer of `createPost` overtake one another; blocks are joined by what they share; a reducer that throws loses its answer | no hole that nobody knows of; no ghost and no outdated copy; the pending post goes |
| Job server (`channels/jobs`, `app/job.go`, `store/sqlstore/job_store.go`) | a row per job: type, status, progress; a worker per node and type, with the job it claimed and its copy of the data; the requests that replace a sync | create, once or after canceling others; poll, claim, execute, save progress, end; request cancellation, update, clean up; reset, stop, crash, panic | nodes race for jobs and cancellations; some updates are conditional on the status and some are not; store calls fail; crashes in the middle | a job has one worker, migrations run alone, no batch is skipped, a job in progress is being run and ends once |
| Plugin cluster mutex and cluster jobs (`public/pluginapi/cluster`) | one key with an expiry per lock, the last finish time per job | lock, refresh, unlock; run jobs under the lock | expiry against slow holders, unconditional release | mutual exclusion while refreshes are timely |
| Remote cluster, shared channels (`platform/services/remotecluster`, `sharedchannel`) | remotes, sync cursors, task queues | invite, ping, sync | retries, lost and repeated messages | cursors never pass what was not delivered |
| Caches (`store/localcachelayer`, `platform/services/cache`) | cached rows per node | read, write, invalidate through the cluster | a read that refills a cache after its invalidation | staleness ends |
| Status and sessions (`platform/status.go`, `session.go`) | status per user, sessions | activity, manual changes, timers | timers and connection counts race | a manual status survives |
| Configuration, plugin host, SQL store, search, files, REST handlers, the rest of the web application, command line | | | mostly data, I/O or sequential scripts | |

How they interact. A REST handler publishes an event through `PlatformService.Publish`,
which puts it in the broadcast queue of the user's or of every hub on every node. A hub
is one goroutine: it takes events, registrations, unregistrations and invalidations from
channels and offers an event to the `send` queue of each connection its index names;
a full queue closes the connection. Each connection has a read pump and a write pump.
The write pump numbers an event, puts it in the dead queue and writes it. When the
socket breaks, the read pump ends, the connection stays in the index inactive and
collects events; the client reconnects with its id and next sequence number to any
node, and the handshake takes the queues from the inactive connection, through the hub
or with a cluster message. The client closes its socket on a gap and starts over, with
a refetch of its state, when the server gives it a new id.

The tab turns what it receives into Redux actions. A posted event puts its post on top of
the channel's recent block; when many come in a short time they are held and handled
together. Opening a channel, scrolling and permalinks fetch pages, which become blocks or
join them; after a reconnect the client asks for everything changed since the newest post
it has. Each of these overtakes the others.

The job server is apart from this. On every node a watcher polls the table and hands
pending jobs to the workers; the table is all that coordinates the nodes. A worker
claims a job with an update that is conditional on its status, runs it and ends it.
Administrators, sync requests and the cleanup change the same rows.

## The modules

| module | what it is | how it corresponds to the code |
|---|---|---|
| `DeadQueue` | the circular buffer, as operators on a record `[slots, ptr]` | one operator per function of `web_conn.go:740-850` and `UnmarshalDQ`; `Drain` is `drainDeadQueue`, its loop written with `RunFrom`, the number of steps until the sequence numbers go down |
| `DeadQueueWindow` | the buffer against a reference, the plain sequence of the last events | `Write`, `Resume`, `StartOver` and `TakeOver` are what the write pump and `GetWSQueues` do to a queue; `Write` may use up a number without an entry, for an event that cannot be encoded, and `Resume` counts the entries it sends |
| `EventStream` | the abstract promise: per id a stream that only grows; the client receives it in order or starts over with another | written from the promise, not from one function |
| `ReliableWebSocket` | hubs, handshakes, pumps, cluster lookup, client | one action per step at which another goroutine can come in between: the lookup in the hub, `HubRegister`, every write of the pump; extends `DeadQueue`, and implements `EventStream` by the mapping `Promise` |
| `HubConnIndex` | the four maps of the index, the database and its replica, handshakes and pumps as far as they touch the index | one action per arm of `Hub.Start`; `Added`, `Removed` and `Rerouted` are `Add`, `Remove` and `InvalidateCMCacheForUser` |
| `MCHubConnIndex` | symmetry of the index for TLC | |
| `BroadcastHooks` | event objects shared by send queues | `Hooked` is `runBroadcastHooks`; `Add` and `Reject` are `HookedWebSocketEvent`; one kind of hook each of those that add, ask and filter |
| `PostBlocks` | the blocks of a channel and what each reducer makes of them, as operators | `ReceivedNewPost`, `ReplacePending`, `ReceivedInChannel`, `ReceivedAfter`, `ReceivedBefore`, `ReceivedSince`, `Removed` are the arms of the reducer `postsInChannel`; `MergeBlocks`, `MergeOrder`, `MarkNewest`, `MarkOldest` its helpers. A merge that would throw in the code yields `ok = FALSE` |
| `ChannelPosts` | one channel: the server's posts, the events on their way, the calls in flight, the client's copies and blocks | one action per event handled, per answer, per user action; `Answer` is the handler `getPostsForChannel`, or the one for unread posts, with the queries and the filter of bot messages behind it: `Kept` is what the filter leaves, and the pages compute their cursors from that, as the handlers do. `Lists` is the filter of the post list. `ReceiveAnswer` is the dispatch of what came back, `HandlePosted` with `BurstEnds` is `debouncePostEvent`, `Reconnect` ends in `SyncPostsInChannel` |
| `MCChannelPosts` | the small histories for TLC | |
| `JobServer` | the rows, a worker per node and type as a state machine, and everyone who changes a row | one action per store call or step between two of them: `ClaimJob`, `SetJobProgress`, `SetJobSuccess`, ... are the functions of `jobs.go` with the caller's reaction to an error; `Store` lets a failed call have worked; `Restarted` is the end of a process |
| `MCJobServer` | the deployments for TLC: one type of job each | |
| `HubConnIndex_proofs`, `DeadQueueWindow_proofs`, `BroadcastHooks_proofs` | theorems about the index, the dead queue and the broadcasts | |
| `PostBlocks_proofs`, `ChannelPosts_proofs` | lemmas about the reducers of the blocks; then theorems about the client's copies and its blocks | |
| `ReliableWebSocket_proofs`, `ReliableDelivery_proofs` | theorems about resumable connections: ownership and the agreement of the streams; then what reaches the client of a single node | |
| `JobServer_proofs` | theorems about the jobs: runners and statuses, migrations, progress | |

`ReliableWebSocket` has the queues of a connection in full and the index as a set;
`HubConnIndex` has the index in full and no queues; `BroadcastHooks` has objects behind
the queue entries and a fixed set of connections. They overlap in the handshake, the
overflow and the panic, which each of them models as far as its own state goes.
`ChannelPosts` takes up where `ReliableWebSocket` ends: its `events` is one client's stream,
which arrives in order, and which a reconnect continues or gives up (`Reconnect`).

Definitions marked "mutant" are plausible mistakes in the operator that follows; no
specification uses them. They show that each property can fail.

History variables. `ReliableWebSocket` keeps `stream` (what the server numbered under
each id; a number that a connection passed over is a `Hole`), `missed` (events lost during
a resume) and `rewound` (a handshake that its client gave up resumed queues that were
emptied on their way from another node, see "What the checks found"). `HubConnIndex` keeps `rejoined`
(connections that authenticated a second time on an open socket, or resumed one that
did) and `misread` (connections routed by a replica that was behind). `JobServer` keeps
`ran` (the batches executed since the last reset), `requeued` and `overruled` (the jobs
that an administrator or a sync request set to pending or to canceled), `hurt` (the jobs
a store call failed for) and `orphans` (the jobs that ran on a node that ended): the code
gives up its guarantees for exactly these, and the properties say so by excepting them.
A row that is in progress and orphaned stays so for good: nothing in the code picks it up.

`ChannelPosts` keeps `missed`, the events whose news never reached a copy or a block: those of a
stream that the server did not resume, those dropped when too many were held, a deletion or
an edit of a post that the store does not have, and the posted events that were handled
before an older page flagged as the most recent replaced the recent block, unless a block shows
the post all the same. It keeps `told`, the posts that pages brought to the blocks, which
makes up for a posted event that was lost, and `strayed`: a page left the pending post in a
block that is not the recent one, where nothing looks for it. `denied` has the posts beyond a page that
the filter made shorter, so that its cursor says nothing follows, and `revived` the copies marked deleted that
a version with the same `update_at` replaced (see "What the checks found"). `Untold` says that an event is still to come,
or in `missed` and not made up for.

The types of jobs stand for the ways jobs are created, run and managed: "simple"
(`SimpleWorker`), "migration" (`BatchMigrationWorker`), "watched"
(`jobs/migrations/worker.go` with its `CancellationWatcher`) and "sync" (the access
control syncs; their worker is not in this repository and is taken to be a simple one).

## The runs

| run | shows | bounds and why they are enough |
|---|---|---|
| `dead_queue_window` | four slots and the numbers up to 10: `FindsTheWindow`, `LossMeansNotNext`, `DrainsTheSuffix` in every position of the pointer, with gaps between the numbers, across resumes, restarts and moves | the buffer rolls over twice and holds numbers with gaps of every size the rest allows; starts at any number. `DrainsTheSuffix` holds until numbers that are held are given out again (`renumbered`); the other two hold always. The theorems extend this to every size |
| `rws_resume` | one node, three sockets, two events, an encoding error and a fault: `StreamAgreement`, `NoDuplicateDelivery`, `LossOnlyDuringResume`, the refinement `ImplementsEventStream` | two slots of dead queue and two of send queue overflow with one hello and two events; a third socket resumes a resumed connection |
| `rws_cluster` | two nodes: `AgreementUnlessRewound` and `SingleOwner` through the cluster lookup | one event and one reply are enough for a sequence number on one node and a stale connection on the other. A rewind needs a fourth connection, so within these bounds the streams agree; the theorem says that nothing else ever breaks the agreement |
| `rws_live` | `Converges`: once faults stop every client is caught up for good | one node, one fault, a send queue of one that overflows |
| `rws_silent_loss` | finding: an event is lost although the resume succeeds | |
| `hub_index` | the seven properties of the index | two connections, two users, a channel, one change of membership: a resume, a race between two connections, a second authentication as another user and a stale replica all occur. The same properties are proved for every size |
| `hub_for_connection` | finding: a renamed connection is not found by its id | |
| `broadcast_hooks` | `OwnFieldsOnly`, `RejectedNeverReceived`, `Accounted`, `SkippedOnlyIfFiltered` | two recipients of the same objects, two events, a send queue of one |
| `hooks_reject` | finding: a rejection for one recipient withholds the event from another | |
| `jobs` | `OneRunner`, `OneMigration`, `NoBatchSkipped`, `ActiveIsHeld`, `FinalIsFinal` and the liveness `JobsEnd`, for each way of running jobs | two nodes compete, two jobs are created, a job has two batches, so that it can end, restart or be taken over before, between and after them; one trouble (a failed store call, a stop, crash, panic, reset, override or cleanup) in any place. 353,665 distinct states. Types share nothing but the nodes, so each deployment has one. The theorems extend the invariants to any number of troubles |
| `channel_posts` | the blocks (`NoSilentGap`, `RecentIsRecent`, `OldestIsOldest`, `OnlyPendingDangles`, `OthersOnce`, `PendingResolved`) and the copies (`NoGhost`, `CopiesCurrent`) under every order of events, answers, resyncs and submissions | see below |
| `jobs_sync` | finding: two syncs of one policy run at once | two requests, no trouble needed |

The bounds of `channel_posts`. A history of a channel may contain posts of others, edits
and deletions, broken connections, calls, submissions and reloads; allowing some of each at
once is out of reach, so the run is the union of seventeen scenarios (`MCScenarios`), each a
budget of what may happen. Every two of these kinds meet in some scenario, but for reloads, which meet
posts and calls, and those that matter most three at a time (a call, a change and a broken connection; a call, a retry and
a broken connection). In three scenarios some of the posts of others are hidden: one among the first posts, one
that comes, and both. The channel starts with two posts and grows to at most five. Pages have one post
instead of 60, so that three posts already need several pages with gaps between them, and
an answer's "there is more" and "this is the last" both occur. One event is handled at once
instead of five, and one held instead of 200, so that a burst of three overflows. Two calls
are in flight at once, besides the ones a resync or an edit starts.

Deadlock is not checked: every model ends when its bounds are used up.

Fairness (`FairSpec` of `ReliableWebSocket`). Weak fairness of the hub's loop, of each
handshake, of each pump, and of the client's reconnect, receive, ping timeout and
refetch: each is a goroutine or a timer that the runtime schedules when it can go on,
and none of them is kept waiting by another forever. Faults, the reaper and the
publication of events are never forced. `Converges` needs the client's ping timeout:
without it a client stays on a connection whose hub panicked (the mutant
`ClosedByServer`).

Fairness (`FairSpec` of `JobServer`). Weak fairness of `Advance(n)` for every node: its
workers are goroutines that go on with the job they have, its watcher polls with a timer,
and workers that were stopped, by a change of the license or the configuration or with the
process, are started again.
It is one condition per node and not one per action, so which of its workers goes on is
left open. Batches that fail, cancellations that are noticed, stops and crashes are
never forced. `JobsEnd` says that no job waits or runs forever then, but for the excused
ones.

## What is proved

`HubConnIndex_proofs` proves, for any sets of connections, users and channels and any
number of changes, every invariant that `hub_index` checks: `TypeOK`, `UserIndexExact`,
`RoutingComplete`, `NoRoutingLeak`, `RoutingFollowsMembership`, `IdIndexExact` and
`OpenInIndex`. The only assumptions are `NoneAssumption` (nil is no connection, the
empty user id no user) and `MaxChangesAssumption`. None of the properties is inductive
alone. `IndexInv` adds: `NewIsOutside` (a connection that never registered is nowhere
in the index and its queue is open, so `Add` cannot find a leftover), `FreshIds` and
`IdsDistinct` (two connections share an id only if one resumed the other, which is over
and out of the index; otherwise `Remove` would delete the id of a live one), and
`Lifecycle` (what the stage says of the other fields). Each action has a lemma; the
actions that leave the index alone share `QuietKeeps`, and the ones that go through
`Removed`, `Added` and `Rerouted` use lemmas about these operators.

`DeadQueueWindow_proofs` proves for every size of the queue from two up that the
circular buffer holds the window: `WindowInv` says that the entries lie in the slice either
from slot 0 on (`Filling`) or around the pointer (`Rolling`), and that their numbers go up and
are below the next one to be given out, with gaps where events could not be encoded
(`Numbered`), until held numbers are given out again. From it follow `TypeOK`, `FindsTheWindow`,
`LossMeansNotNext` and `DrainsTheSuffix`. `SlotOf` and `PlaceOf` are inverse to each other. Only the drain
needs `Numbered`: over gaps or not, it stops exactly where the newest entry meets the oldest because numbers
only go down there. Membership and loss do not need the order, and are proved without the exception.

`BroadcastHooks_proofs` proves every invariant of `broadcast_hooks`, for any number of
connections and events and any size of the queues: `TypeOK`, `OwnFieldsOnly`,
`RejectedNeverReceived`, `Accounted` and `SkippedOnlyIfFiltered`. What the hooks make of an
event is a fold over its list; as no list has more than two hooks, `NoHooks`, `OneHook`
and `TwoHooks` compute it, and `HookResult` compares it with what the hooks mean
(`FieldsFor`, `Accepted`). `HooksInv` adds to the properties: `Shared` (no hook writes a
field into the shared object: otherwise the next recipient would start from it), `Entries`
(each queue is in the order of the events, and an entry that its connection must not see
is one of the shared object whose flag is set; so whenever the pump looks, it is told)
and `Settled` (an event is in one place at a time). The order is needed for `Settled`: that the
event a pump takes is not queued twice.

`ChannelPosts_proofs` proves every invariant of `channel_posts` for any number of posts, calls and
events, any page size and any limits of a burst. The only assumption is `ChannelPostsAssumption`, that the
constants are numbers and a page has room for a post. First the copies, `NoGhost` and `CopiesCurrent`. The invariant `CopiesInv` says of each post how the server's
version, the versions in answers on their way, the client's copy and the edits and
deletions still to come fit together (`Consistent`): dates never decrease towards the server
(`Dated`); as long as an edit is to come, the last one is as new as any version that could
still arrive, and when none is left and none was lost, the copy is (`Covered`); a deletion is
told after every edit, and once told it has marked the copy, which keeps the mark unless a version of the same
`update_at` replaced it (`Marked`, with `revived`). Neither property is
inductive alone: an answer fetched before an edit may arrive after its event, and only
`Covered` says that the comparison of update times in `shouldUpdatePost` then keeps the newer copy.
The blocks do not matter for this: the proof lets a reducer do with them
what it likes, or throw.

Then the blocks: `NoSilentGap`, `RecentIsRecent`, `OldestIsOldest`, `OnlyPendingDangles`, `OthersOnce`,
`PendingResolved` and `TypeOK`. The work is divided in two.

- *The reducers* (`PostBlocks_proofs`). A block stands for a stretch of the channel: from its oldest
  post to its newest, and on to the start or the end when it is flagged (`Spans`). It is `Sound` in a
  view of the channel (times, which posts are live, stored, accounted for and the user's) when every live
  post in its stretch is accounted for, as hidden and denied posts are, what it shows is stored but for the pending post,
  and nothing but the user's posts comes twice. Each reducer has a lemma that says under which conditions it
  keeps a list of blocks sound and what the list shows then. The heart is `MergeIsSound`: `mergePostBlocks` joins
  two blocks only when they overlap (`JoinIsSound`, which rests on `TwoAreSound`), and any number of times it does so
  the list so far is sound, shows what the blocks up to there show, and ends in the block
  to be joined next (`JoinStep`, and `UpTo`, induction over a set of numbers, from the
  least number principle of the library). `Arrange`, `Only` and `StableSort` stand for the browser's arrays, filters and
  sorts, and are shown to be what they should (`ArrangeArranges`, `OnlyIs`, `SortIs`).
- *The channel* (`ChannelPosts_proofs`). `ChannelInv` says that the blocks are sound when the posts accounted for
  are those that some block shows, whose event is to come, or was lost and not made up for
  (`BlocksInv`), or that are hidden, or that a page denied. For that it needs: that posts get later times and the client stores them under these
  (`TimesInv`); that posted events are told in their order, so that when one is on top of the recent block the next is
  to come (`QueueInv`); that a page on its way is a stretch of the channel up to the post that was the last when it
  was written, but for hidden posts, with its flags right for that time but for the posts it denies (`PagesInv`;
  `Fits` says the same of a page before the filter, and each kind of page is shown to fit); that what pages brought is still shown
  (`ToldInv`); that what came after the pending post is accounted for, as that post extends a block beyond what
  the server has (`CoveredInv`); what the request of `createPost` carries (`RequestInv`); and for
  `PendingResolved` where the pending post is (`StraysInv`, `FailedInv`). A page flagged as the most recent is the hard
  step: it was right when it was written, and `missed` takes just the posts that came since, unless a
  block shows them.

The proof changed the model. Two excuses were too wide: `missed` took posts that another block still shows,
and a page that was taken for the recent block was supposed to have brought its posts; that a missing post may be in another block,
which a later merge joins, is now said by the properties themselves. An action for a batch of held events that
throws, which leaves them held with no timer running, is in the model as it is in the code; `BatchIsOk` shows that it never happens. Three properties
were too weak or too narrow: `RecentIsRecent` spoke of the first block flagged as recent only, though two can be,
`OthersOnce` let the pending post be twice in a block, and
`PendingResolved` excused whatever had a posted event outstanding instead of the pending post that strayed.

`ReliableWebSocket_proofs` and `ReliableDelivery_proofs` prove the safety of resumable
connections for any nodes, connections, events, faults and sizes of the queues from two
up. The argument has three parts.

- *Ownership*, `OwnerInv`: connections that hold an id differ in it, those in an index are
  in the index of their own node only, an id that was not given out yet is nobody's, and what the
  stage of a connection says of the rest (`Lifecycle`). It holds whatever happens, on any cluster, and gives `SingleOwner`: each lookup takes the connection out of
  the index in the step that hands its queues over.
- *The streams*, `StreamInv`: per connection (`ConnOK`, by stage), on the wire (`WireOK`,
  `PumpsToWire`) and at the client (`ClientOK`). A stream is intact up to its first hole, an
  encoding error. A dead queue holds the last messages of the intact part, without a gap and
  under their numbers (`Holding`), so that a client that comes back is given exactly what
  follows; this rests on lemmas about the circular buffer (`Nth` names its entries in the order they
  were written; `AddedToQueue`, `DrainNumbered` and their like say what the operators of `DeadQueue` do
  to them). What is on the wire continues what the client has, and the connection that
  writes is ahead of both. None of it survives two owners that number one stream, which is why it
  needs `OwnerInv`.
- *Rewinds.* `IInv` is `OwnerInv`, and `TypeOK` with `StreamInv` unless a rewind happened, and that a
  single node has none: `Rewinds` needs a queue that was emptied by a takeover from another
  node. So `AgreementUnlessRewound` holds on every cluster, and `TypeOK` and
  `StreamAgreement` on a single node.

On a single node follow: `ImplementsEventStream` (the intact part of the streams only grows,
and each step of the client is a step of `EventStream` or a stutter), `NoDuplicateDelivery`
and `LossOnlyDuringResume`. For the second, `EventsOnce` says that the hub's inbox, the send queue of
the connection that owns an id and the stream of the id have no event in common and none
twice: a resume hands the queue over, and nothing is numbered that was numbered before. For the
third, `Delivered` follows each event that the client is owed: it is known, lost in the
window, still in the inbox, in the send queue of the connection that resumes the client's id, in
the part of its stream the client has not received yet, or the client is to start over anyway (`Comes`).
Steps are sorted by what they can do to an event (`Quiet`, `Kept`), which leaves
the broadcast, the lookup, the write pump and the client to be looked at.

The hypothesis that there is one node is not for the proof's sake. Nodes broadcast the same
events in orders of their own: a client that goes over to a node whose hub is behind receives an
event again, and one that goes over to a node whose hub is ahead does not receive it at all. TLC
shows both when it checks `NoDuplicateDelivery` or `LossOnlyDuringResume` with the constants of
`rws_cluster`, which is why that run does not claim them.

`JobServer_proofs` proves, for any nodes, jobs, types, deployments, batches and
any number of troubles, from the assumptions on the constants alone:

- `TypeOK` and `OneRunner`. That a job is not claimed twice follows
  from `HeldNotWaiting` (a job that a worker has is not pending, so the conditional
  update of `ClaimJob` matches nothing) and that a worker's job is a row of its type from
  `Linked`; with these the invariant is inductive. Steps are put into kinds (no new
  holder, nothing freed, rows stay, workers keep their job), a lemma says what each kind
  keeps, and each action is shown to be of a kind.
- `ActiveIsHeld` and the action property `FinalIsFinal`.
  `HeldIsActive` says that no job that is not excused ends behind its worker's back: that
  is why the unconditional updates of `SetJobSuccess` and `SetJobCanceled` replace no
  final status. `Unmanaged` (nobody but workers and the cleanup touches a migration) is
  needed for resets, which give up a row only when it is in progress, and `Stages` for
  the worker that is in doubt whether its last call worked.
- `OneMigration`. Two workers that execute migrations have rows in
  progress (`ExecutedInProgress`), there is one such row at a time (`OneActive`, kept by
  `CreateJobOnce`), and it has one worker.
- `NoBatchSkipped`. Besides the row (`RowsFit`), the worker's copy of
  the progress and the row it was handed promise that batches were executed
  (`WorkersFit`): `SetJobProgress` and `HandleJobPanic` write them back. The row of a failed
  migration promises nothing, as it may keep the progress of an earlier run. A reset
  forgets what was executed, which is sound because nobody else has the job (`OneRunner`)
  and a migration in progress is not excused (`Unmanaged`); that a worker stopped in the
  middle of a migration writes back a row that is still in progress is `ExecutedInProgress`.

Every invariant and action property of a passing run is stated by a theorem. Model-checked only are the liveness
properties `Converges` and `JobsEnd`, which are out of reach of the prover's backends: they
need fairness, and with it ENABLED.

## What the checks found

- A resume can lose an event silently (`rws_silent_loss`): between the lookup, which
  takes the old connection out of the index, and `HubRegister` the hub knows neither.
  `LossOnlyDuringResume` shows that on one node this is the only way an encodable event
  is lost unnoticed.
- A connection renamed by its write pump stays in `byConnectionId` under its old id
  (`hub_for_connection`).
- `Event().Reject()` marks the shared event (`hooks_reject`): recipients whom the hook
  lets through are denied it, depending on who is offered first.
- Two syncs of one policy can run at once (`jobs_sync`), although a comment of
  `app/job.go` says that never happens: listing, canceling and creating are separate
  statements, and two requests list before either creates.

While proving `StreamAgreement` for clusters, the following turned out to break it. A client of node A
reconnects to node B, gives up that handshake before B handled it, and reconnects to A, where it
receives more; from A it goes over to B again, without loss, so that B starts it with an empty dead queue
(`GetWSQueues` returns no queue when nothing is missed). That socket breaks, and its connection waits
in the index of B. Now B handles the first handshake, whose sequence number is the old
one. `AsksCluster` finds nobody else, the local lookup finds the waiting connection, and
`_hasMsgLoss` says of an empty queue that nothing is lost: the connection numbers again from
the old number, and the next handshake of the client, who is far ahead, resumes a stream
that stands for other messages. The comment in `CheckWebConn` (`web_hub.go:305-307`)
knows of this danger and means the cluster lookup to prevent it, which it does not when the
queue is on the same node. TLC needs four connections and four faults for it, which is a
guided search rather than a run; the model records it as `rewound`, and `AgreementUnlessRewound` says it is
the only way.

The dead queue gives numbers out twice after a gap. An event that cannot be encoded uses up a number, so the
queue may hold 1 and 3. A client that comes back with 1 is sent both, and `writeMessage` counts them from its
number: the connection goes on with 3, which is held already. From then on a later drain, which ends where the
numbers go down, can end too early and when the queue is full of entries with one
number it does not end at all. TLC shows both when `DrainsTheSuffix` is checked without `renumbered`. The web client of this
repository does not get there: it closes its socket at the first gap (`websocket.ts:397`) and comes back with
the number that is missing, which is never held, so that it starts over.

While modelling and proving the client's posts, the following turned out to be what the code does. No run shows
these; the properties except them and the models contain them.

- The pending post can be left behind, although a comment of the reducer (`posts.ts:744`) says that
  only the recent block should contain pending posts: the user submits while the latest page
  is on its way, and the page takes the flag from the block the pending post is in. The answer of
  `createPost` looks for the pending id in the recent block and does not find it (`strayed`).
- A page can be taken for the recent block though it differs, where a comment (`posts.ts:817`) says "identical": length, first and
  last post agree, but a post of the block was deleted since and the page has one that the block lacks, whose event
  came before the channel was loaded. The page is dropped, and the hole stays (`Known`; `told` has only
  posts of pages that were not dropped).
- An answer flagged as the most recent page can be older than events that were handled
  while it was on its way. It becomes the recent block; the posts of those events stay in
  the store and in a block that is no longer shown at the end. `RECEIVED_POSTS_AFTER` does
  not clear the flag of another block, so that two blocks can be flagged as recent.
- A posted event goes on top of the recent block whatever its `create_at`, so the oldest
  post of the block, which a resync goes by, need not be its last one; and a resync that
  asks for what is newer than the newest post never learns of an older one it did not have.
- The user's own post is in the block twice when a page or a resync brings it before
  the answer of `createPost`, which then puts it in the place of the pending one; when a retry
  is answered by `deduplicateCreatePost`, which sends the first post without its
  `pending_post_id`, the pending one stays until it is removed by hand, and its id stays in
  `pendingPostIds`.
- A pending id in a block that is no longer recent points at nothing once the post was
  created. The next merge of that block throws, and the answer that caused it is lost.
- A page made shorter by the filter of bot messages passes for the last of its side. The handlers filter before
  they compute the cursors (`api4/post.go:377-385`), and a page with fewer posts than asked for has none
  (`app/post.go:2162`, `2171`), nor has a page of which nothing is left
  (`app/post.go:2098`, `2106`). The client then flags its block as beginning with the oldest post, or as recent, and does not ask
  for the rest; on top of the latter it puts new posts, so that the rest becomes a hole. The properties except
  the posts that such a page denied (`denied`) and claim all others.
- A copy that was marked deleted comes back when an answer fetched before the deletion differs from it in its thread
  fields, its metadata or the number of redacted files: `POST_DELETED` keeps `update_at`, and
  `shouldUpdatePost` takes such a version though it is not newer (`post_utils.ts:238-259`). `NoGhost` excepts
  these copies (`revived`).
- When the edit and the deletion of a post are lost with a broken stream, an older answer
  brings the post back as a live one; and a deletion that overtakes its held posted event
  finds nothing to mark, so the held event shows the post again.

## What is not modelled, and why

In the modelled parts: the encoding of messages, metrics, the activity and presence
frames, the representation of channel sets (`connSet`), the number of hubs per node
(each user belongs to one), the activity counters. Of the job server: the schedulers
(they create jobs like everybody else), the "warning" status that no worker modelled here
sets, the contents of a job's data but for the progress, the message export, report and
other workers that do not follow one of the four patterns, plugins' jobs, and the
time between polls. Events are delivered to a hub in any
order, as `Publish` goes through goroutines and cluster messages.

Of the client's posts: one channel, which is the current one, and root posts only; replies and
collapsed threads, burn-on-read posts, leaving a channel, etags, embeds and reactions are left out. So is
the filter of members, which the queries apply (`post_store.go:1389`) and the cursors do not know of, and the
exclusion of posts about memberships. Which posts are hidden is fixed for a history: either the user has the posts of
bots, webhooks and the system hidden or there are none, and the preference is not switched. A hidden post that arrives by an event
may be skipped or not, and may be in the list or not, since the client does not know every bot. That a version with
an equal `update_at` differs in what the model leaves out is a choice (`D`), made for each post that is
received and for which it matters (`Same`). A user who starts from the newest post has the latest posts fetched with the unread ones (`FetchNewest`);
the code dispatches both answers at once, the model one after the other, and anything may come between. The
seen ids of `deduplicateCreatePost` may expire at any time: a retry then creates a second post. Client and server read one clock, which ticks with each
write; with clocks apart, a resync by the time of the disconnection asks for too much or
too little. The server answers each call in one step, the three queries of
`getPostsAround` included; that a resync's answer is cut off at 1000 posts is out of the bounds.
The user sends one post, once or again.

Not modelled at all: the cluster mutex and jobs of plugins, shared channels and remote
clusters, the caches, statuses and sessions. They are whole subsystems of their own, each
tied to wall-clock time or to services outside this repository (the key-value store, other
servers, the cluster layer), and none of them carries the path of an event. The
SQL store, search, files, REST handlers, the rest of the web application, the command line, plugin processes
and the configuration store are queries and I/O, or sequential code over data.

Five hazards have no property. The blocking hello of the hub (`HubConnIndex` has no lengths of queues) and the
cluster mutex, whose refresh and release do not check the owner, are not modelled. Three are modelled and do happen, so that
the properties except what they strike: the second authentication on an open socket, the rejected mark that is lost
when a queue moves to another node, and the marked copy that a version of equal `update_at` replaces.

## How the project is organised

Eight passing runs check forty properties, four runs show a finding each, and eight
modules hold the theorems. To go on from here,
the most valuable steps would be: `ReliableWebSocket` with the lengths of the hub's own
queues, so that the blocking hello can happen, and `ChannelPosts` with replies.
