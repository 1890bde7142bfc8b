--------------------------- MODULE DeadQueueWindow ---------------------------
(***************************************************************************)
(* The dead queue against what it promises: "behaves like a queue of a     *)
(* finite size which is used to store all messages that are sent via the   *)
(* websocket" (web_conn.go).  The reference is window, the plain sequence  *)
(* of the entries a queue of that size should still hold.                  *)
(***************************************************************************)
EXTENDS DeadQueue

CONSTANT MaxSeq             \* bound on the sequence numbers written

ASSUME MaxSeqAssumption == MaxSeq \in Nat

VARIABLES
    dq,                     \* WebConn.deadQueue and deadQueuePointer
    next,                   \* WebConn.Sequence
    window,                 \* the last entries written, oldest first
    renumbered              \* history: numbers of held entries are given out again

vars == <<dq, next, window, renumbered>>

Entry == [seq : Nat]

LastOf(s, n) == IF Len(s) <= n THEN s ELSE SubSeq(s, Len(s) - n + 1, Len(s))

\* A connection starts at 0, or where the client of another node stopped.
Init ==
    /\ dq = EmptyDeadQueue
    /\ next \in 0 .. MaxSeq
    /\ window = << >>
    /\ renumbered = FALSE

\* writePump takes an event: it gets the next number and enters the dead queue before
\* it is written.  One that cannot be encoded uses up its number and leaves no entry.
Write ==
    /\ next <= MaxSeq
    /\ next' = next + 1
    /\ \/ /\ dq' = AddToDeadQueue(dq, [seq |-> next])
          /\ window' = LastOf(Append(window, [seq |-> next]), DeadQueueSize)
       \/ UNCHANGED <<dq, window>>
    /\ UNCHANGED renumbered

\* The client is behind the entries held: from the next number on, they are numbered anew.
Renumber ==
    renumbered' = (renumbered \/ \E i \in DOMAIN window' : window'[i].seq >= next')

\* The write pump of a client that comes back sends the entries from the client's number
\* on, if it is held, and counts those it sent, whatever their numbers; it goes on with
\* the client's number when nothing was lost.  A drain that a failed write ends, or
\* whose numbers never go down, changes nothing: no event follows it.
Resume(seq) ==
    /\ IF IsInDeadQueue(dq, seq)
       THEN /\ DrainEnds(dq, IndexInDeadQueue(dq, seq))
            /\ next' = seq + Len(Drain(dq, IndexInDeadQueue(dq, seq)))
       ELSE /\ ~HasMsgLoss(dq, seq)
            /\ next' = seq
    /\ UNCHANGED <<dq, window>>
    /\ Renumber

\* The write pump meets a client whose next event was evicted, or never existed:
\* clearDeadQueue, a new connection id and a hello with sequence number 0.
StartOver(seq) ==
    /\ HasMsgLoss(dq, seq)
    /\ ~IsInDeadQueue(dq, seq)
    /\ dq' = AddToDeadQueue(ClearDeadQueue(dq), [seq |-> 0])
    /\ next' = 1
    /\ window' = << [seq |-> 0] >>
    /\ renumbered' = FALSE

\* Another node takes the connection over: it gets the entries from the client's
\* sequence number on, or none when the client missed nothing written.
TakeOver(seq) ==
    \/ /\ ~HasMsgLoss(dq, seq)
       /\ dq' = EmptyDeadQueue
       /\ window' = << >>
       /\ next' = seq
       /\ renumbered' = FALSE
    \/ /\ HasMsgLoss(dq, seq)
       /\ IsInDeadQueue(dq, seq)
       /\ DrainEnds(dq, IndexInDeadQueue(dq, seq))
       /\ LET sent == Drain(dq, IndexInDeadQueue(dq, seq)) IN
          /\ dq' = Refill(sent)
          /\ window' = sent
          /\ next' = seq + Len(sent)
       /\ Renumber

\* A client that comes back with a connection id has had the hello, number 0.
Next ==
    \/ Write
    \/ \E seq \in 1 .. (MaxSeq + 1) : Resume(seq) \/ StartOver(seq) \/ TakeOver(seq)

Spec == Init /\ [][Next]_vars
-----------------------------------------------------------------------------
TypeOK ==
    /\ dq \in DeadQueueOf(Entry)
    /\ next \in Nat
    /\ window \in Seq(Entry) /\ Len(window) <= DeadQueueSize
    /\ renumbered \in BOOLEAN

Held == {window[i].seq : i \in DOMAIN window}

\* Membership: exactly the sequence numbers of the window are found.
FindsTheWindow ==
    \A seq \in 0 .. (MaxSeq + 1) : IsInDeadQueue(dq, seq) <=> seq \in Held

\* "hasMsgLoss indicates whether the next wanted sequence is right after the
\* latest element in the dead queue" (web_conn.go): an empty queue has none.
LossMeansNotNext ==
    \A seq \in 0 .. (MaxSeq + 1) :
        HasMsgLoss(dq, seq) <=> /\ window # << >>
                                /\ window[Len(window)].seq # seq - 1

\* A resumed client is sent every held entry from its sequence number on, once
\* and in order, whatever the position of the pointer and whatever numbers between
\* them were lost to events that could not be encoded; as long as no client came back
\* behind such a gap, from where numbers that are held are given out again.
DrainsTheSuffix ==
    ~renumbered =>
        \A i \in DOMAIN window :
            Drain(dq, IndexInDeadQueue(dq, window[i].seq))
                = SubSeq(window, i, Len(window))
=============================================================================
