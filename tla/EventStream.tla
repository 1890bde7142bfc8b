----------------------------- MODULE EventStream -----------------------------
(***************************************************************************)
(* What reliable WebSocket delivery promises a client.  Under every        *)
(* connection id the server numbers one stream of messages that only grows; *)
(* the client receives a stream in order, without a gap and without a      *)
(* repetition, or starts over with another stream from its first message   *)
(* (the hello that makes the application refetch).                         *)
(***************************************************************************)
EXTENDS Naturals, Sequences

CONSTANT Ids

VARIABLES
    streams,                \* per connection id, the messages numbered so far
    current,                \* the connection id the client follows
    received                \* what the client accepted of its current stream

vars == <<streams, current, received>>

Init ==
    /\ streams = [i \in Ids |-> << >>]
    /\ current \in Ids
    /\ received = << >>

\* The server appends a message to one stream.
Extend(i) ==
    /\ Len(streams'[i]) = Len(streams[i]) + 1
    /\ SubSeq(streams'[i], 1, Len(streams[i])) = streams[i]
    /\ \A j \in Ids \ {i} : streams'[j] = streams[j]
    /\ UNCHANGED <<current, received>>

\* The client receives the next message of its stream.
Deliver ==
    /\ Len(received) < Len(streams[current])
    /\ received' = Append(received, streams[current][Len(received) + 1])
    /\ UNCHANGED <<streams, current>>

\* The client starts over with another stream.
StartOver(i) ==
    /\ i # current
    /\ streams[i] # << >>
    /\ current' = i
    /\ received' = << streams[i][1] >>
    /\ UNCHANGED streams

Next == Deliver \/ \E i \in Ids : Extend(i) \/ StartOver(i)

Spec == Init /\ [][Next]_vars
=============================================================================
