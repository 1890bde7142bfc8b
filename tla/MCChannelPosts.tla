---------------------------- MODULE MCChannelPosts ----------------------------
(***************************************************************************)
(* Small histories of a channel for TLC: each says how often what may      *)
(* happen.  Every two of these meet, but reloads meet posts and calls.      *)
(***************************************************************************)
EXTENDS ChannelPosts

Nothing == [posts |-> 0, changes |-> 0, drops |-> 0, calls |-> 0, tries |-> 0, resets |-> 0,
            bots |-> {}]

MCScenarios == {
    [Nothing EXCEPT !.posts = 1, !.calls = 3],
    [Nothing EXCEPT !.posts = 1, !.calls = 2, !.resets = 1],
    [Nothing EXCEPT !.calls = 3, !.drops = 1],
    [Nothing EXCEPT !.posts = 2, !.calls = 1, !.drops = 1],
    [Nothing EXCEPT !.posts = 3, !.calls = 1],
    [Nothing EXCEPT !.posts = 2, !.calls = 2],
    [Nothing EXCEPT !.posts = 2, !.calls = 1, !.changes = 1],
    [Nothing EXCEPT !.calls = 2, !.changes = 1],
    [Nothing EXCEPT !.calls = 1, !.drops = 1, !.changes = 2],
    [Nothing EXCEPT !.calls = 2, !.tries = 1],
    [Nothing EXCEPT !.calls = 1, !.tries = 2],
    [Nothing EXCEPT !.posts = 1, !.calls = 1, !.tries = 1],
    [Nothing EXCEPT !.calls = 1, !.changes = 1, !.tries = 1],
    [Nothing EXCEPT !.calls = 1, !.drops = 1, !.tries = 1],
    [Nothing EXCEPT !.posts = 1, !.calls = 2, !.bots = {2}],
    [Nothing EXCEPT !.posts = 2, !.calls = 1, !.bots = {2, 4}],
    [Nothing EXCEPT !.calls = 1, !.drops = 1, !.posts = 1, !.bots = {3}]}
=============================================================================
