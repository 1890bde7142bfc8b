------------------------------ MODULE DeadQueue ------------------------------
(***************************************************************************)
(* The dead queue of a WebConn: the circular buffer in which the server    *)
(* keeps the last DeadQueueSize events it wrote to a socket, so that a     *)
(* client that reconnects can be sent again what the broken connection     *)
(* swallowed (web_conn.go, websocket_reliable.go).                         *)
(*                                                                         *)
(* A queue is a record: slots is the Go slice (NoEntry is a nil pointer),  *)
(* ptr is deadQueuePointer, the slot the next event goes to.  An entry is  *)
(* a record whose seq is the event's sequence number.                      *)
(***************************************************************************)
EXTENDS Integers, Sequences

CONSTANT DeadQueueSize          \* deadQueueSize: 128 in the code

\* drainDeadQueue stops a rolled-over queue where a sequence number is smaller
\* than the one before it; with a single slot that never happens.
ASSUME DeadQueueSizeAssumption == DeadQueueSize \in Nat /\ DeadQueueSize >= 2

NoEntry == [seq |-> -1]

Slots == 0 .. (DeadQueueSize - 1)

DeadQueueOf(Entry) == [slots : [Slots -> Entry \cup {NoEntry}], ptr : Slots]

EmptyDeadQueue == [slots |-> [i \in Slots |-> NoEntry], ptr |-> 0]

AddWithoutWrapping(dq, entry) ==            \* mutant: the pointer never rolls over
    [slots |-> [dq.slots EXCEPT ![dq.ptr] = entry], ptr |-> dq.ptr + 1]

AddToDeadQueue(dq, entry) ==
    [slots |-> [dq.slots EXCEPT ![dq.ptr] = entry],
     ptr   |-> (dq.ptr + 1) % DeadQueueSize]

NothingWritten(dq) == dq.slots[0] = NoEntry

LastSlotAfterRollover(dq) == dq.ptr         \* mutant: the oldest slot once rolled over

\* The slot written last: with ptr = 0 the pointer has rolled over.
LastSlot(dq) == IF dq.ptr = 0 THEN DeadQueueSize - 1 ELSE dq.ptr - 1

\* _hasMsgLoss: is the sequence number the client waits for something else than
\* the successor of the last one written?
HasMsgLoss(dq, seq) ==
    /\ ~(dq.ptr = 0 /\ NothingWritten(dq))
    /\ dq.slots[LastSlot(dq)].seq # seq - 1

FoundPastTheFirst(dq, seq, i) ==            \* mutant: the scan starts at slot 1
    i > 0 /\ dq.slots[i].seq = seq /\ \A j \in 1 .. (i - 1) : dq.slots[j].seq # seq

\* _isInDeadQueue: the scan from slot 0 meets seq before it meets a nil slot,
\* at the slot IndexInDeadQueue.
FoundAt(dq, seq, i) ==
    /\ dq.slots[i].seq = seq
    /\ \A j \in 0 .. i : dq.slots[j] # NoEntry
    /\ \A j \in 0 .. (i - 1) : dq.slots[j].seq # seq

IsInDeadQueue(dq, seq) == \E i \in Slots : FoundAt(dq, seq, i)

IndexInDeadQueue(dq, seq) == CHOOSE i \in Slots : FoundAt(dq, seq, i)

DrainToTheEnd(dq, index) ==                 \* mutant: stops at the last slot
    [k \in 1 .. ((IF dq.ptr > index THEN dq.ptr ELSE DeadQueueSize) - index)
        |-> dq.slots[index + k - 1]]

\* The k-th entry from a slot on, around the slice; the numbers go down where the
\* newest entry meets the oldest.
After(dq, index, k) == dq.slots[(index + k) % DeadQueueSize]

GoesDown(dq, index, k) == After(dq, index, k - 1).seq > After(dq, index, k).seq

RunFrom(dq, index) ==
    CHOOSE k \in 1 .. DeadQueueSize :
        GoesDown(dq, index, k) /\ \A j \in 1 .. (k - 1) : ~GoesDown(dq, index, j)

\* The loop over a rolled-over queue ends only where the numbers go down.
DrainEnds(dq, index) ==
    dq.slots[dq.ptr] # NoEntry => \E k \in 1 .. DeadQueueSize : GoesDown(dq, index, k)

\* drainDeadQueue and marshalDQ: the entries from a slot on, in the order they
\* are sent again.  A queue whose next slot is nil is read up to the pointer; a
\* rolled-over one until the sequence numbers go down.
Drain(dq, index) ==
    CASE NothingWritten(dq) -> << >>
      [] ~NothingWritten(dq) /\ dq.slots[dq.ptr] = NoEntry ->
             [k \in 1 .. (dq.ptr - index) |-> dq.slots[index + k - 1]]
      [] OTHER -> [k \in 1 .. RunFrom(dq, index) |-> After(dq, index, k - 1)]

\* clearDeadQueue: nil slots from slot 0 on, up to the first one that is nil already.
ClearDeadQueue(dq) ==
    [slots |-> [i \in Slots |-> IF \A j \in 0 .. i : dq.slots[j] # NoEntry
                                THEN NoEntry ELSE dq.slots[i]],
     ptr   |-> 0]

\* UnmarshalDQ: the queue of another node, rebuilt from slot 0 on.  There are
\* at most DeadQueueSize entries.
Refill(entries) ==
    [slots |-> [i \in Slots |-> IF i < Len(entries) THEN entries[i + 1]
                                                    ELSE NoEntry],
     ptr   |-> Len(entries) % DeadQueueSize]
=============================================================================
