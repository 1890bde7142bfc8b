------------------------------- MODULE PostBlocks -------------------------------
(***************************************************************************)
(* The blocks of a channel in the web client's store: lists of post ids,   *)
(* newest first, each meant to be a stretch of the channel without holes   *)
(* (reducers/entities/posts.ts).  A reducer reads the posts of the store   *)
(* to order the ids; one that meets an id without a post throws, and then  *)
(* the store stays as it was: every operator here returns ok |-> FALSE.    *)
(***************************************************************************)
EXTENDS Naturals, Sequences, FiniteSets, SequencesExt

PendingId == 0      \* the pending_post_id under which the user's own post is shown

NoPost == [at |-> 0, upd |-> 0, st |-> "none"]      \* the store has no such post

Block(order, recent, oldest) == [order |-> order, recent |-> recent, oldest |-> oldest]

Ok(blocks) == [ok |-> TRUE, blocks |-> blocks]
Throws(blocks) == [ok |-> FALSE, blocks |-> blocks]

Has(block, id) == id \in ToSet(block.order)
Stored(posts, id) == posts[id].st # "none"
AllStored(posts, order) == \A id \in ToSet(order) : Stored(posts, id)

\* findIndex: the first block with the flag or the id, 0 when there is none.
FirstBlock(blocks, Test(_)) == SelectInSeq(blocks, Test)
RecentBlock(blocks) == FirstBlock(blocks, LAMBDA b : b.recent)

\* The items of I, each after those that R puts before it
Arrange(I, R) ==
    [k \in 1 .. Cardinality(I) |->
        CHOOSE i \in I : Cardinality({j \in I : <<j, i>> \in R}) = k - 1]

\* Array.filter: the items of s that are in A.  SubSeq takes the whole sequence, here and
\* in StableSort: TLC then computes its items once.
Only(s, A) ==
    LET I == {i \in DOMAIN s : s[i] \in A}
        order == Arrange(I, {ij \in I \X I : ij[1] < ij[2]})
    IN SubSeq([k \in 1 .. Cardinality(I) |-> s[order[k]]], 1, Cardinality(I))

\* Array.sort, which leaves equal items in their order
StableSort(s, Before(_, _)) ==
    LET D == DOMAIN s
        order == Arrange(D, {ij \in D \X D :
                     \/ Before(s[ij[1]], s[ij[2]])
                     \/ ~Before(s[ij[2]], s[ij[1]]) /\ ij[1] < ij[2]})
    IN SubSeq([k \in 1 .. Len(s) |-> s[order[k]]], 1, Len(s))

\* comparePosts: a pending or failed post comes first, then the newer one.
ComparePosts(posts, a, b) ==
    \/ a = PendingId /\ b # PendingId
    \/ (a = PendingId) = (b = PendingId) /\ posts[a].at > posts[b].at

Newest(posts, block) == posts[Head(block.order)].at
Oldest(posts, block) == posts[Last(block.order)].at

-----------------------------------------------------------------------------
\* removeNonRecentEmptyPostBlocks
DropEmpty(blocks) == Only(blocks, {b \in ToSet(blocks) : b.order # << >> \/ b.recent})

\* mergePostOrder
MergeOrder(left, right, posts) ==
    LET more == Only(right, ToSet(right) \ ToSet(left))
    IN IF more = << >>
       THEN left
       ELSE StableSort(left \o more, LAMBDA a, b : posts[a].at > posts[b].at)

\* The next block, in the order of the newest posts, joins the one before it when the
\* one before it reaches down to it.  Ids are sorted, and their posts read, only if some
\* are new to the one before it.
JoinAlways(done, block, posts) ==               \* mutant: blocks that are apart join too
    LET a == Last(done.blocks)
    IN IF done.blocks = << >>
       THEN Ok(<<block>>)
       ELSE Ok(Append(Front(done.blocks),
                      Block(MergeOrder(a.order, block.order, posts),
                            a.recent \/ block.recent, a.oldest \/ block.oldest)))
Join(done, block, posts) ==
    LET a == Last(done.blocks)
    IN IF done.blocks = << >>
       THEN Ok(<<block>>)
       ELSE IF ~done.ok \/ a.order = << >> \/ block.order = << >>
               \/ ~Stored(posts, Last(a.order)) \/ ~Stored(posts, Head(a.order))
               \/ ~Stored(posts, Head(block.order))
            THEN Throws(<<block>>)
       ELSE IF Oldest(posts, a) > Newest(posts, block)
            THEN Ok(Append(done.blocks, block))
       ELSE IF ~(ToSet(block.order) \subseteq ToSet(a.order))
               /\ ~AllStored(posts, a.order \o block.order)
            THEN Throws(<<block>>)
       ELSE Ok(Append(Front(done.blocks),
                      Block(MergeOrder(a.order, block.order, posts),
                            a.recent \/ block.recent, a.oldest \/ block.oldest)))

\* The blocks, one after the other
Joined(sorted, posts) ==
    LET done[k \in 0 .. Len(sorted)] ==
            IF k = 0 THEN Ok(<< >>) ELSE Join(done[k - 1], sorted[k], posts)
    IN done

\* mergePostBlocks
MergeBlocks(blocks, posts) ==
    LET kept   == DropEmpty(blocks)
        First(b) == IF b.order = << >> THEN 0 ELSE Newest(posts, b)
        sorted == StableSort(kept, LAMBDA a, b : First(a) > First(b))
        joined == Joined(sorted, posts)[Len(sorted)]
    IN IF kept = << >> THEN Ok(blocks)
       ELSE IF ~joined.ok THEN Throws(blocks)
       ELSE IF Len(joined.blocks) = Len(blocks) THEN Ok(blocks) ELSE joined

-----------------------------------------------------------------------------
\* RECEIVED_NEW_POST: the post goes on top of the recent block, which is created when
\* there is none.  own: the post was created from the pending one, which it replaces.
ReceivedAgain(blocks, id, own, posts) ==        \* mutant: the post may be in the block
    LET i == RecentBlock(blocks)
    IN IF i = 0
       THEN Ok(Append(blocks, Block(<<id>>, TRUE, FALSE)))
       ELSE Ok([blocks EXCEPT ![i].order = <<id>> \o @])
ReceivedNewPost(blocks, id, own, posts) ==
    LET i == RecentBlock(blocks)
        recent == IF i = 0 THEN Block(<< >>, TRUE, FALSE) ELSE blocks[i]
        added == IF Has(recent, id) THEN recent.order ELSE <<id>> \o recent.order
        replaces == own /\ id # PendingId /\ PendingId \in ToSet(added)
        left == RemoveFirst(added, PendingId)
        order == IF replaces
                 THEN StableSort(left, LAMBDA a, b : ComparePosts(posts, a, b))
                 ELSE added
        next == [recent EXCEPT !.order = order]
    IN IF replaces /\ ~AllStored(posts, left) THEN Throws(blocks)
       ELSE Ok(IF i = 0 THEN Append(blocks, next) ELSE [blocks EXCEPT ![i] = next])

\* RECEIVED_POST of a post created from the pending one, which it replaces where it is.
KeepPending(blocks, id) == blocks               \* mutant: the pending post stays
ReplacePending(blocks, id) ==
    LET i == RecentBlock(blocks)
        at == SelectInSeq(blocks[i].order, LAMBDA x : x = PendingId)
    IN IF i = 0 THEN blocks
       ELSE IF at = 0 THEN blocks
       ELSE [blocks EXCEPT ![i].order[at] = id]

\* markChannelBoundaryReached, for one flag
MarkBoundary(blocks, anchor, flag) ==
    LET i == FirstBlock(blocks, LAMBDA b : Has(b, anchor))
    IN IF i = 0 THEN blocks ELSE [blocks EXCEPT ![i][flag] = TRUE]

\* markExtremeBlockReached, for one end: the first block no other goes beyond
MarkExtreme(blocks, posts, flag, End(_), Beyond(_, _)) ==
    LET ends == {i \in DOMAIN blocks : blocks[i].order # << >> /\ Stored(posts, End(blocks[i].order))}
        At(i) == posts[End(blocks[i].order)].at
        i == CHOOSE i \in ends : \A j \in ends \ {i} :
                 Beyond(At(i), At(j)) \/ (At(i) = At(j) /\ i < j)
    IN IF ends = {} THEN blocks ELSE [blocks EXCEPT ![i][flag] = TRUE]

MarkNewest(blocks, posts) == MarkExtreme(blocks, posts, "recent", Head, LAMBDA a, b : a > b)
MarkOldest(blocks, posts) == MarkExtreme(blocks, posts, "oldest", Last, LAMBDA a, b : a < b)

\* The page is taken for the recent block: it is as long, and begins and ends with the
\* same posts.
Known(blocks, page) ==
    LET i == RecentBlock(blocks)
    IN /\ page.recent /\ page.order # << >> /\ i # 0
       /\ Len(blocks[i].order) = Len(page.order)
       /\ Head(blocks[i].order) = Head(page.order)
       /\ Last(blocks[i].order) = Last(page.order)

\* RECEIVED_POSTS_IN_CHANNEL: a page whose neighbours are not known
ReceivedInChannel(loaded, blocks, page, posts) ==
    LET i == RecentBlock(blocks)
        others == IF page.recent /\ i # 0 THEN [blocks EXCEPT ![i].recent = FALSE] ELSE blocks
        marked == IF page.recent THEN MarkNewest(blocks, posts) ELSE blocks
    IN IF page.order = << >> /\ loaded
       THEN Ok(IF page.oldest THEN MarkOldest(marked, posts) ELSE marked)
       ELSE IF Known(blocks, page) THEN Ok(blocks)
       ELSE MergeBlocks(Append(others, Block(page.order, page.recent, page.oldest)), posts)

\* RECEIVED_POSTS_AFTER
ReceivedAfter(blocks, page, anchor, posts) ==
    IF page.order # << >>
    THEN MergeBlocks(Append(blocks, Block(Append(page.order, anchor), page.recent, FALSE)), posts)
    ELSE Ok(IF page.recent THEN MarkBoundary(blocks, anchor, "recent") ELSE blocks)

\* RECEIVED_POSTS_BEFORE
ReceivedBefore(blocks, page, anchor, posts) ==
    IF page.order # << >>
    THEN MergeBlocks(Append(blocks, Block(<<anchor>> \o page.order, FALSE, page.oldest)), posts)
    ELSE Ok(IF page.oldest THEN MarkBoundary(blocks, anchor, "oldest") ELSE blocks)

\* RECEIVED_POSTS_SINCE: what was created after the oldest post of the recent block
ReceivedDeletedSince(loaded, blocks, page, posts) ==    \* mutant: ids of no stored post
    LET i == RecentBlock(blocks)
        recent == blocks[i]
        more == SelectSeq(page.order, LAMBDA id : ~Has(recent, id))
    IN IF i = 0 \/ more = << >> \/ recent.order = << >> THEN Ok(blocks)
       ELSE Ok([blocks EXCEPT ![i].order = more \o @])
ReceivedSince(loaded, blocks, page, posts) ==
    LET i == RecentBlock(blocks)
        recent == blocks[i]
        more == Only(page.order, {id \in ToSet(page.order) :
                                     /\ Stored(posts, id) /\ ~Has(recent, id)
                                     /\ posts[id].at > Oldest(posts, recent)})
        order == StableSort(more \o recent.order, LAMBDA a, b : ComparePosts(posts, a, b))
    IN IF i = 0 \/ (page.order = << >> /\ loaded) THEN Ok(blocks)
       ELSE IF recent.order = << >> THEN Throws(blocks)
       ELSE IF ~Stored(posts, Last(recent.order)) THEN Throws(blocks)
       ELSE IF more = << >> THEN Ok(blocks)
       ELSE IF ~AllStored(posts, recent.order) THEN Throws(blocks)
       ELSE Ok([blocks EXCEPT ![i].order = order])

\* POST_REMOVED
Removed(blocks, id) ==
    LET left == [i \in DOMAIN blocks |->
                    [blocks[i] EXCEPT !.order = Only(@, ToSet(@) \ {id})]]
    IN IF left = blocks THEN blocks ELSE DropEmpty(left)
=============================================================================
