----------------------- MODULE ReliableWebSocket_proofs -----------------------
(*****************************************************************************)
(* Proofs about resumable connections, for any nodes, connections, events    *)
(* and sizes of the queues.                                                  *)
(*                                                                           *)
(* Who owns a connection id is one invariant, OwnerInv, which holds          *)
(* whatever happens: live connections differ in their ids, and those in an   *)
(* index are in no other.  What the owner holds is another, StreamInv: a     *)
(* dead queue holds the last numbers of the part of its stream that has no   *)
(* hole, what is on the wire continues what the client received, and a       *)
(* connection that resumes goes on where its client stopped.  StreamInv      *)
(* needs OwnerInv, so that no two connections number one stream; it ends, on *)
(* several nodes, when a handshake that its client gave up resumes emptied   *)
(* queues (rewound).                                                         *)
(*****************************************************************************)
EXTENDS ReliableWebSocket, TLAPS, WellFoundedInduction, NaturalsInduction,
        FiniteSetTheorems

-----------------------------------------------------------------------------
\* Dead queues: the entries in the order they were written

Queue == DeadQueueOf(Entry)

Rolled(dq) == dq.slots[dq.ptr] # NoEntry
Count(dq) == IF Rolled(dq) THEN DeadQueueSize ELSE dq.ptr

SlotOf(dq, k) ==
    IF ~Rolled(dq) THEN k - 1
    ELSE IF dq.ptr + k - 1 < DeadQueueSize THEN dq.ptr + k - 1
    ELSE dq.ptr + k - 1 - DeadQueueSize

Nth(dq, k) == dq.slots[SlotOf(dq, k)]

\* The slots before the pointer are written; the others are when it rolled over.
Shaped(dq) ==
    \A s \in Slots : dq.slots[s] = NoEntry <=> ~Rolled(dq) /\ s >= dq.ptr

LEMMA ModSmall ==
    ASSUME NEW n \in Nat, n > 0, NEW a \in Nat, a < n
    PROVE  a % n = a
OBVIOUS

LEMMA ModRound ==
    ASSUME NEW n \in Nat, n > 0, NEW a \in Nat, n <= a, a < 2 * n
    PROVE  a % n = a - n
OBVIOUS

LEMMA EntryIsSomething == \A e \in Entry : e # NoEntry /\ e.seq \in Nat /\ e.msg \in Message
BY DEF Entry, NoEntry

LEMMA QueueFields ==
    ASSUME NEW dq \in Queue
    PROVE  /\ dq.ptr \in 0 .. (DeadQueueSize - 1) /\ dq.slots \in [Slots -> Entry \cup {NoEntry}]
           /\ Count(dq) \in 0 .. DeadQueueSize
           /\ Rolled(dq) => Count(dq) = DeadQueueSize
           /\ ~Rolled(dq) => Count(dq) = dq.ptr /\ Count(dq) < DeadQueueSize
           /\ DeadQueueSize \in Nat /\ DeadQueueSize >= 2
BY DeadQueueSizeAssumption DEF Queue, DeadQueueOf, Slots, Count

\* The k-th entry is an entry, in a slot of its own.
LEMMA SlotHolds ==
    ASSUME NEW dq \in Queue, Shaped(dq), NEW k \in 1 .. Count(dq)
    PROVE  SlotOf(dq, k) \in Slots /\ Nth(dq, k) \in Entry /\ Nth(dq, k) # NoEntry
<1>1. SlotOf(dq, k) \in Slots /\ (~Rolled(dq) => SlotOf(dq, k) < dq.ptr)
  BY QueueFields DEF SlotOf, Slots
<1>2. ~(SlotOf(dq, k) >= dq.ptr) \/ Rolled(dq)
  BY <1>1, QueueFields DEF Slots
<1>3. dq.slots[SlotOf(dq, k)] # NoEntry
  BY <1>1, <1>2 DEF Shaped
<1> QED
  BY <1>1, <1>3, QueueFields DEF Nth

LEMMA SlotIsHeld ==
    ASSUME NEW dq \in Queue, Shaped(dq), NEW s \in Slots, dq.slots[s] # NoEntry
    PROVE  \E k \in 1 .. Count(dq) : s = SlotOf(dq, k)
<1> DEFINE p == dq.ptr
           k == IF ~Rolled(dq) THEN s + 1 ELSE IF s >= p THEN s - p + 1 ELSE s + DeadQueueSize - p + 1
<1>1. s \in 0 .. (DeadQueueSize - 1) /\ (~Rolled(dq) => s < p) /\ p \in 0 .. (DeadQueueSize - 1)
  BY QueueFields DEF Shaped, Slots
<1>2. k \in 1 .. Count(dq)
  BY <1>1, QueueFields
<1>3. s = SlotOf(dq, k)
  BY <1>1, QueueFields DEF SlotOf
<1> QED
  BY <1>2, <1>3

LEMMA SlotsAreDistinct ==
    ASSUME NEW dq \in Queue, NEW k \in 1 .. Count(dq), NEW l \in 1 .. Count(dq),
           SlotOf(dq, k) = SlotOf(dq, l)
    PROVE  k = l
BY QueueFields DEF SlotOf

\* The entries up to a written slot are written.
LEMMA SlotsBeforeAreWritten ==
    ASSUME NEW dq \in Queue, Shaped(dq), NEW k \in 1 .. Count(dq), NEW s \in 0 .. SlotOf(dq, k)
    PROVE  s \in Slots /\ dq.slots[s] # NoEntry
<1>1. SlotOf(dq, k) \in Slots /\ (~Rolled(dq) => SlotOf(dq, k) < dq.ptr)
  BY QueueFields DEF SlotOf, Slots
<1>2. s \in Slots
  BY <1>1, QueueFields DEF Slots
<1>3. ~Rolled(dq) => s < dq.ptr
  BY <1>1, <1>2, QueueFields DEF Slots
<1> QED
  BY <1>2, <1>3, QueueFields DEF Shaped, Slots

LEMMA NothingWrittenIffEmpty ==
    ASSUME NEW dq \in Queue, Shaped(dq)
    PROVE  NothingWritten(dq) <=> Count(dq) = 0
BY QueueFields DEF Shaped, NothingWritten, Slots

LEMMA LossInQueue ==
    ASSUME NEW dq \in Queue, Shaped(dq), NEW seq \in Nat
    PROVE  HasMsgLoss(dq, seq) <=> Count(dq) > 0 /\ Nth(dq, Count(dq)).seq # seq - 1
<1>1. CASE Count(dq) = 0
  BY <1>1, QueueFields, NothingWrittenIffEmpty DEF HasMsgLoss
<1>2. CASE Count(dq) > 0
  <2>1. SlotOf(dq, Count(dq)) = LastSlot(dq)
    BY <1>2, QueueFields DEF SlotOf, LastSlot
  <2> QED
    BY <1>2, <2>1, QueueFields, NothingWrittenIffEmpty DEF HasMsgLoss, Nth
<1> QED
  BY <1>1, <1>2, QueueFields

LEMMA EmptyIsShaped ==
    /\ EmptyDeadQueue \in Queue /\ Shaped(EmptyDeadQueue) /\ Count(EmptyDeadQueue) = 0
BY DeadQueueSizeAssumption DEF EmptyDeadQueue, Queue, DeadQueueOf, Shaped, Count, Rolled, Slots

LEMMA ClearEmpties ==
    ASSUME NEW dq \in Queue, Shaped(dq)
    PROVE  ClearDeadQueue(dq) = EmptyDeadQueue
<1>1. ASSUME NEW i \in Slots
      PROVE  (IF \A j \in 0 .. i : dq.slots[j] # NoEntry
              THEN NoEntry ELSE dq.slots[i]) = NoEntry
  <2>1. CASE dq.slots[i] = NoEntry
    BY <2>1
  <2>2. CASE dq.slots[i] # NoEntry
    <3>1. PICK k \in 1 .. Count(dq) : i = SlotOf(dq, k)
      BY <2>2, SlotIsHeld
    <3> QED
      BY <3>1, SlotsBeforeAreWritten
  <2> QED
    BY <2>1, <2>2
<1> QED
  BY <1>1 DEF ClearDeadQueue, EmptyDeadQueue

\* Adding an entry pushes the first one out of a full queue.
Shift(dq) == IF Count(dq) = DeadQueueSize THEN 1 ELSE 0

LEMMA AddedToQueue ==
    ASSUME NEW dq \in Queue, Shaped(dq), NEW e \in Entry
    PROVE  LET added == AddToDeadQueue(dq, e) IN
           /\ added \in Queue /\ Shaped(added)
           /\ Count(added) = Count(dq) + 1 - Shift(dq)
           /\ Nth(added, Count(added)) = e
           /\ \A k \in 1 .. (Count(added) - 1) : Nth(added, k) = Nth(dq, k + Shift(dq))
<1> DEFINE added == AddToDeadQueue(dq, e)
           p == dq.ptr
           D == DeadQueueSize
           q == IF p + 1 = D THEN 0 ELSE p + 1
<1>1. p \in 0 .. (D - 1) /\ p \in Slots /\ D \in Nat /\ D >= 2
  BY QueueFields DEF Slots
<1>2. (p + 1) % D = q
  <2>1. CASE p + 1 < D
    BY <1>1, <2>1, ModSmall
  <2>2. CASE p + 1 = D
    BY <1>1, <2>2, ModRound
  <2> QED
    BY <1>1, <2>1, <2>2
<1>3. added.ptr = q /\ added.slots = [dq.slots EXCEPT ![p] = e] /\ q \in Slots /\ e # NoEntry
  BY <1>1, <1>2, EntryIsSomething DEF AddToDeadQueue, Slots
<1>4. added \in Queue
  BY <1>1, <1>2, <1>3, QueueFields DEF Queue, DeadQueueOf, AddToDeadQueue
<1>5. /\ \A s \in Slots \ {p} : added.slots[s] = dq.slots[s]
      /\ added.slots[p] = e
  BY <1>1, <1>3, QueueFields
<1> HIDE DEF added
<1>6. CASE Rolled(dq)
  <2>1. \A s \in Slots : added.slots[s] # NoEntry
    BY <1>3, <1>5, <1>6 DEF Shaped
  <2>2. Rolled(added) /\ Shaped(added) /\ Count(added) = D /\ Count(dq) = D
    BY <1>3, <1>6, <2>1 DEF Rolled, Shaped, Count
  <2>3. SlotOf(added, D) = p
    BY <1>1, <1>3, <2>2 DEF SlotOf
  <2>4. ASSUME NEW k \in 1 .. (D - 1) PROVE Nth(added, k) = Nth(dq, k + 1)
    <3>1. SlotOf(added, k) = SlotOf(dq, k + 1) /\ SlotOf(dq, k + 1) # p
          /\ SlotOf(dq, k + 1) \in Slots
      BY <1>1, <1>3, <1>6, <2>2 DEF SlotOf, Slots
    <3> QED
      BY <1>5, <3>1 DEF Nth
  <2> QED
    BY <1>1, <1>4, <1>5, <2>2, <2>3, <2>4 DEF Shift, Nth, added
<1>7. CASE ~Rolled(dq)
  <2>1. \A s \in Slots : added.slots[s] = NoEntry <=> s >= p + 1
    BY <1>1, <1>3, <1>5, <1>7 DEF Shaped, Slots
  <2>2. /\ Rolled(added) <=> p + 1 = D
        /\ Shaped(added)
    BY <1>1, <1>3, <2>1 DEF Rolled, Shaped, Slots
  <2>3. Count(added) = p + 1 /\ Count(dq) = p
    BY <1>1, <1>3, <1>7, <2>2 DEF Count
  <2>4. \A k \in 1 .. (p + 1) : SlotOf(added, k) = k - 1
    BY <1>1, <1>3, <2>2 DEF SlotOf
  <2>5. \A k \in 1 .. p : SlotOf(dq, k) = k - 1
    BY <1>7 DEF SlotOf
  <2>6. Nth(added, p + 1) = e
    BY <1>1, <1>5, <2>4 DEF Nth
  <2>7. \A k \in 1 .. p : Nth(added, k) = Nth(dq, k)
    BY <1>1, <1>5, <2>4, <2>5 DEF Nth, Slots
  <2>8. Shift(dq) = 0
    BY <1>1, <2>3 DEF Shift
  <2> QED
    BY <1>1, <1>4, <2>2, <2>3, <2>6, <2>7, <2>8 DEF added
<1> QED
  BY <1>6, <1>7

LEMMA RefilledQueue ==
    ASSUME NEW entries \in Seq(Entry), Len(entries) <= DeadQueueSize
    PROVE  LET dq == Refill(entries) IN
           /\ dq \in Queue /\ Shaped(dq) /\ Count(dq) = Len(entries)
           /\ \A k \in 1 .. Len(entries) : Nth(dq, k) = entries[k]
<1> DEFINE dq == Refill(entries)
           n == Len(entries)
           D == DeadQueueSize
<1>1. n \in 0 .. D /\ D \in Nat /\ D >= 2 /\ \A k \in 1 .. n : entries[k] \in Entry
  BY DeadQueueSizeAssumption
<1>2. n % D = IF n = D THEN 0 ELSE n
  <2>1. CASE n < D
    BY <1>1, <2>1, ModSmall
  <2>2. CASE n = D
    BY <1>1, <2>2, ModRound
  <2> QED
    BY <1>1, <2>1, <2>2
<1>3. /\ dq.ptr = IF n = D THEN 0 ELSE n
      /\ \A s \in Slots : dq.slots[s] = IF s < n THEN entries[s + 1] ELSE NoEntry
  BY <1>1, <1>2 DEF Refill
<1>4. \A s \in Slots : s < n => entries[s + 1] \in Entry /\ entries[s + 1] # NoEntry
  BY <1>1, EntryIsSomething DEF Slots
<1>5. dq \in Queue
  BY <1>1, <1>2, <1>3, <1>4 DEF Queue, DeadQueueOf, Refill, Slots
<1> HIDE DEF dq
<1>6. Rolled(dq) <=> n = D
  BY <1>1, <1>3, <1>4 DEF Rolled, Slots
<1>7. Shaped(dq) /\ Count(dq) = n
  BY <1>1, <1>3, <1>4, <1>6 DEF Shaped, Count, Slots
<1>8. ASSUME NEW k \in 1 .. n PROVE Nth(dq, k) = entries[k]
  <2>1. SlotOf(dq, k) = k - 1 /\ k - 1 \in Slots
    BY <1>1, <1>3, <1>6 DEF SlotOf, Slots
  <2> QED
    BY <1>1, <1>3, <2>1 DEF Nth
<1> QED
  BY <1>5, <1>7, <1>8 DEF dq

\* The first b entries are numbered up to h - 1; the others were written past a hole
\* of the stream, at h.
Numbered(dq, b, h) ==
    /\ b \in 0 .. Count(dq) /\ b <= h
    /\ \A k \in 1 .. b : Nth(dq, k).seq = h - b + k - 1
    /\ \A k \in (b + 1) .. Count(dq) : Nth(dq, k).seq > h

LEMMA FoundNumbered ==
    ASSUME NEW dq \in Queue, Shaped(dq), NEW b \in Nat, NEW h \in Nat, Numbered(dq, b, h),
           NEW seq \in 0 .. h
    PROVE  /\ IsInDeadQueue(dq, seq) <=> h - b <= seq /\ seq < h
           /\ IsInDeadQueue(dq, seq) =>
                 /\ seq - h + b + 1 \in 1 .. b
                 /\ IndexInDeadQueue(dq, seq) = SlotOf(dq, seq - h + b + 1)
<1> DEFINE k == seq - h + b + 1
<1>1. Count(dq) \in Nat /\ b <= Count(dq) /\ b <= h /\ seq <= h
  BY QueueFields DEF Numbered
<1>2. ASSUME NEW i \in Slots, FoundAt(dq, seq, i)
      PROVE  k \in 1 .. b /\ i = SlotOf(dq, k)
  <2>1. dq.slots[i] # NoEntry /\ dq.slots[i].seq = seq
    BY <1>2 DEF FoundAt, Slots
  <2>2. PICK l \in 1 .. Count(dq) : i = SlotOf(dq, l)
    BY <2>1, SlotIsHeld
  <2>3. Nth(dq, l).seq = seq
    BY <2>1, <2>2 DEF Nth
  <2>4. CASE l <= b
    <3>1. Nth(dq, l).seq = h - b + l - 1
      BY <1>1, <2>4 DEF Numbered
    <3> QED
      BY <1>1, <2>2, <2>3, <2>4, <3>1
  <2>5. CASE l > b
    <3>1. Nth(dq, l).seq > h
      BY <1>1, <2>5 DEF Numbered
    <3> QED
      BY <1>1, <2>3, <3>1
  <2> QED
    BY <1>1, <2>4, <2>5
<1>3. ASSUME h - b <= seq, seq < h
      PROVE  SlotOf(dq, k) \in Slots /\ FoundAt(dq, seq, SlotOf(dq, k))
  <2>1. k \in 1 .. b /\ k \in 1 .. Count(dq)
    BY <1>1, <1>3
  <2>2. SlotOf(dq, k) \in Slots
    BY <2>1, SlotHolds
  <2>3. dq.slots[SlotOf(dq, k)].seq = seq
    <3>1. Nth(dq, k).seq = h - b + k - 1
      BY <2>1 DEF Numbered
    <3> QED
      BY <1>1, <3>1 DEF Nth
  <2>4. \A j \in 0 .. SlotOf(dq, k) : j \in Slots /\ dq.slots[j] # NoEntry
    BY <2>1, SlotsBeforeAreWritten
  <2>5. ASSUME NEW j \in 0 .. (SlotOf(dq, k) - 1)
        PROVE  dq.slots[j].seq # seq
    <3>1. j \in 0 .. SlotOf(dq, k) /\ j # SlotOf(dq, k)
      BY <2>2 DEF Slots
    <3>2. PICK l \in 1 .. Count(dq) : j = SlotOf(dq, l)
      BY <2>4, <3>1, SlotIsHeld
    <3>3. l # k /\ Nth(dq, l) = dq.slots[j]
      BY <3>1, <3>2 DEF Nth
    <3>4. CASE l <= b
      <4>1. Nth(dq, l).seq = h - b + l - 1
        BY <1>1, <3>4 DEF Numbered
      <4> QED
        BY <1>1, <3>3, <4>1
    <3>5. CASE l > b
      <4>1. Nth(dq, l).seq > h
        BY <1>1, <3>5 DEF Numbered
      <4> QED
        BY <1>1, <3>3, <4>1
    <3> QED
      BY <1>1, <3>4, <3>5
  <2> QED
    BY <2>2, <2>3, <2>4, <2>5 DEF FoundAt
<1>4. IsInDeadQueue(dq, seq) <=> h - b <= seq /\ seq < h
  BY <1>1, <1>2, <1>3 DEF IsInDeadQueue
<1>5. ASSUME IsInDeadQueue(dq, seq)
      PROVE  k \in 1 .. b /\ IndexInDeadQueue(dq, seq) = SlotOf(dq, k)
  BY <1>2, <1>5 DEF IsInDeadQueue, IndexInDeadQueue
<1> QED
  BY <1>4, <1>5

LEMMA LeastNat ==
    ASSUME NEW S \in SUBSET Nat, S # {}
    PROVE  \E k \in S : \A j \in S : k <= j
<1> DEFINE R == OpToRel(<, Nat)
<1>1. IsWellFoundedOn(R, Nat)
  BY NatLessThanWellFounded
<1>2. PICK m \in S : TRUE
  OBVIOUS
<1>3. PICK k \in S : \A y \in Nat : << y, k >> \in R => ~(y \in S)
  BY <1>1, <1>2, WFMin
<1>4. \A j \in S : k <= j
  <2> TAKE j \in S
  <2>1. ~(<< j, k >> \in R)
    BY <1>3
  <2>2. ~(j < k)
    BY <2>1 DEF OpToRel
  <2> QED
    BY <2>2
<1> QED
  BY <1>4

\* A drain that starts at the i-th entry goes on to the last one, or at least past
\* the hole.
LEMMA DrainNumbered ==
    ASSUME NEW dq \in Queue, Shaped(dq), NEW b \in Nat, NEW h \in Nat, Numbered(dq, b, h),
           NEW i \in 1 .. b
    PROVE  \E p \in i .. Count(dq) :
              /\ b = Count(dq) => p = Count(dq)
              /\ b < Count(dq) => p > b
              /\ Drain(dq, SlotOf(dq, i)) = [k \in 1 .. (p - i + 1) |-> Nth(dq, i + k - 1)]
<1> DEFINE D == DeadQueueSize
           s == SlotOf(dq, i)
<1>1. /\ Count(dq) \in 1 .. D /\ b <= Count(dq) /\ b <= h /\ i <= Count(dq)
      /\ D \in Nat /\ D >= 2 /\ dq.ptr \in 0 .. (D - 1)
  BY QueueFields DEF Numbered
<1>2. ~NothingWritten(dq)
  BY <1>1, NothingWrittenIffEmpty
<1>3. CASE ~Rolled(dq)
  <2>1. Drain(dq, s) = [k \in 1 .. (dq.ptr - s) |-> dq.slots[s + k - 1]]
    BY <1>2, <1>3 DEF Drain, Rolled
  <2>2. s = i - 1 /\ Count(dq) = dq.ptr
    BY <1>3 DEF SlotOf, Count
  <2>3. \A k \in 1 .. (dq.ptr - s) : dq.slots[s + k - 1] = Nth(dq, i + k - 1)
    BY <1>1, <1>3, <2>2 DEF Nth, SlotOf
  <2>4. dq.ptr - s = Count(dq) - i + 1
    BY <1>1, <2>2
  <2>5. Drain(dq, s) = [k \in 1 .. (Count(dq) - i + 1) |-> Nth(dq, i + k - 1)]
    BY <2>1, <2>3, <2>4
  <2>6. Count(dq) \in i .. Count(dq) /\ (b < Count(dq) => Count(dq) > b)
    BY <1>1
  <2> QED
    BY <2>5, <2>6
<1>4. CASE Rolled(dq)
  <2>1. Count(dq) = D /\ b <= D /\ i <= D
    BY <1>1, <1>4 DEF Count
  <2>2. ASSUME NEW k \in 0 .. (D - i)
        PROVE  After(dq, s, k) = Nth(dq, i + k)
    <3>1. s \in Nat /\ s < D /\ SlotOf(dq, i + k) \in 0 .. (D - 1)
      BY <1>1, <1>4, <2>1 DEF SlotOf
    <3>2. (s + k) % D = SlotOf(dq, i + k)
      <4>1. CASE s + k < D
        <5>1. (s + k) % D = s + k
          BY <1>1, <3>1, <4>1, ModSmall
        <5> QED
          BY <1>1, <1>4, <2>1, <4>1, <5>1 DEF SlotOf
      <4>2. CASE s + k >= D
        <5>1. (s + k) % D = s + k - D
          BY <1>1, <3>1, <4>2, ModRound
        <5> QED
          BY <1>1, <1>4, <2>1, <4>2, <5>1 DEF SlotOf
      <4> QED
        BY <1>1, <3>1, <4>1, <4>2
    <3> QED
      BY <3>2 DEF After, Nth
  <2>3. After(dq, s, D - i + 1) = Nth(dq, 1)
    <3>1. s + (D - i + 1) = dq.ptr + D \/ s + (D - i + 1) = dq.ptr
      BY <1>1, <1>4 DEF SlotOf
    <3>2. (s + (D - i + 1)) % D = dq.ptr
      <4>1. CASE s + (D - i + 1) = dq.ptr
        BY <1>1, <4>1, ModSmall
      <4>2. CASE s + (D - i + 1) = dq.ptr + D
        <5>1. dq.ptr + D \in Nat /\ D <= dq.ptr + D /\ dq.ptr + D < 2 * D /\ dq.ptr + D - D = dq.ptr
          BY <1>1
        <5>2. (dq.ptr + D) % D = dq.ptr
          BY <1>1, <5>1, ModRound
        <5> QED
          BY <4>2, <5>2
      <4> QED
        BY <3>1, <4>1, <4>2
    <3>3. SlotOf(dq, 1) = dq.ptr
      BY <1>1, <1>4 DEF SlotOf
    <3> QED
      BY <3>2, <3>3 DEF After, Nth
  <2>4. ASSUME NEW k \in 1 .. (D - i)
        PROVE  GoesDown(dq, s, k) <=> Nth(dq, i + k - 1).seq > Nth(dq, i + k).seq
    <3>1. After(dq, s, k) = Nth(dq, i + k)
      BY <1>1, <2>2
    <3>2. After(dq, s, k - 1) = Nth(dq, i + k - 1)
      BY <1>1, <2>2
    <3> QED
      BY <3>1, <3>2 DEF GoesDown
  <2>5. GoesDown(dq, s, D - i + 1)
    <3>1. After(dq, s, (D - i + 1) - 1) = Nth(dq, D)
      BY <1>1, <2>1, <2>2
    <3>2. Nth(dq, 1).seq = h - b
      BY <1>1 DEF Numbered
    <3>3. Nth(dq, D) \in Entry
      BY <1>1, <2>1, SlotHolds
    <3>4. Nth(dq, D).seq \in Nat
      BY <3>3, EntryIsSomething
    <3>5. Nth(dq, D).seq > h - b
      <4>1. CASE b = D
        BY <1>1, <4>1 DEF Numbered
      <4>2. CASE b < D
        <5>1. Nth(dq, D).seq > h
          BY <1>1, <2>1, <4>2 DEF Numbered
        <5> QED
          BY <1>1, <3>4, <5>1
      <4> QED
        BY <1>1, <2>1, <4>1, <4>2
    <3> QED
      BY <2>3, <3>1, <3>2, <3>5 DEF GoesDown
  <2>6. PICK n \in 1 .. D : /\ GoesDown(dq, s, n)
                            /\ \A j \in 1 .. (n - 1) : ~GoesDown(dq, s, j)
    <3> DEFINE S == {k \in 1 .. D : GoesDown(dq, s, k)}
    <3>1. D - i + 1 \in S
      BY <1>1, <2>1, <2>5
    <3>2. S \in SUBSET Nat
      OBVIOUS
    <3>3. PICK n \in S : \A j \in S : n <= j
      BY <3>1, <3>2, LeastNat
    <3>4. \A j \in 1 .. (n - 1) : ~GoesDown(dq, s, j)
      BY <1>1, <3>3
    <3> QED
      BY <3>3, <3>4
  <2> DEFINE run == RunFrom(dq, s)
  <2>7. /\ run \in 1 .. D /\ GoesDown(dq, s, run)
        /\ \A j \in 1 .. (run - 1) : ~GoesDown(dq, s, j)
    BY <2>6 DEF RunFrom
  <2> HIDE DEF run
  <2>8. run <= D - i + 1
    BY <1>1, <2>1, <2>5, <2>7
  <2>9. ASSUME NEW k \in 1 .. (b - i)
        PROVE  run # k
    <3>1. Nth(dq, i + k - 1).seq = h - b + (i + k - 1) - 1 /\ Nth(dq, i + k).seq = h - b + (i + k) - 1
      BY <1>1 DEF Numbered
    <3>2. ~GoesDown(dq, s, k)
      BY <1>1, <2>1, <2>4, <3>1
    <3> QED
      BY <2>7, <3>2
  <2>10. run > b - i
    BY <1>1, <2>7, <2>9
  <2>11. ASSUME b < D PROVE run # b - i + 1
    <3>1. Nth(dq, b).seq = h - 1 /\ Nth(dq, b + 1).seq > h /\ Nth(dq, b + 1) \in Entry
      BY <1>1, <2>1, <2>11, SlotHolds DEF Numbered
    <3>2. ~(h - 1 > Nth(dq, b + 1).seq)
      BY <3>1, EntryIsSomething
    <3>3. b - i + 1 \in 1 .. (D - i) /\ i + (b - i + 1) - 1 = b /\ i + (b - i + 1) = b + 1
      BY <1>1, <2>11
    <3>4. ~GoesDown(dq, s, b - i + 1)
      BY <2>4, <3>1, <3>2, <3>3
    <3> QED
      BY <2>7, <3>4
  <2> DEFINE p == i + run - 1
  <2>12. p \in i .. Count(dq) /\ (b = Count(dq) => p = Count(dq)) /\ (b < Count(dq) => p > b)
    BY <1>1, <2>1, <2>7, <2>8, <2>10, <2>11
  <2>13. Drain(dq, s) = [k \in 1 .. run |-> After(dq, s, k - 1)]
    BY <1>2, <1>4 DEF Drain, Rolled, run
  <2>14. \A k \in 1 .. run : After(dq, s, k - 1) = Nth(dq, i + k - 1)
    <3> TAKE k \in 1 .. run
    <3>1. k - 1 \in 0 .. (D - i) /\ i + (k - 1) = i + k - 1
      BY <1>1, <2>1, <2>7, <2>8
    <3> QED
      BY <2>2, <3>1
  <2>15. p - i + 1 = run
    BY <1>1, <2>7
  <2> QED
    BY <2>12, <2>13, <2>14, <2>15
<1> QED
  BY <1>3, <1>4

-----------------------------------------------------------------------------
\* Who owns a connection id

NoWriter == {"unused", "upgraded", "asked"}

Fields(r) ==
    r = [node |-> r.node, stage |-> r.stage, reqId |-> r.reqId, reqSeq |-> r.reqSeq,
         id |-> r.id, send |-> r.send, closed |-> r.closed, dq |-> r.dq,
         seq |-> r.seq, active |-> r.active, reused |-> r.reused]

\* What is sure of the fields whatever happened: a number given twice may leave the
\* dead queues without a type.
FieldsOK(r) ==
    /\ Fields(r)
    /\ r.stage \in Stages /\ r.node \in Nodes /\ r.id \in Ids

Shape ==
    /\ conn = [c \in Conns |-> conn[c]]
    /\ \A c \in Conns : FieldsOK(conn[c])
    /\ index \in [Nodes -> SUBSET Conns]

NoWriterYet(r) ==
    /\ r.id = 0 /\ r.send = << >> /\ r.dq = EmptyDeadQueue /\ r.seq = 0
    /\ ~r.active /\ ~r.reused /\ ~r.closed

Alive(c, r) ==
    /\ r.stage \in NoWriter => NoWriterYet(r)
    /\ r.stage = "unused" => r = Blank
    /\ r.stage \in {"populated", "registered", "pumping", "stopped"} => r.id # 0
    /\ r.stage \in {"registered", "pumping", "stopped"} => r.active
    /\ r.stage = "gone" => \/ r = Gone
                           \/ r.id # 0 /\ ~r.active /\ c \in index[r.node]

Lifecycle == \A c \in Conns : Alive(c, conn[c])

IndexedAt(n, r) ==
    /\ r.node = n /\ r.id # 0
    /\ r.stage \in {"registered", "pumping", "stopped", "gone"}

Indexed == \A n \in Nodes : \A c \in index[n] : IndexedAt(n, conn[c])

DistinctIds == \A c, d \in Conns : conn[c].id # 0 /\ conn[c].id = conn[d].id => c = d

Unissued(i) == conn[i].stage # "gone" /\ conn[i].id # i
FreshIds == \A i \in Conns : Unissued(i) => \A d \in Conns : conn[d].id # i

OwnerInv == Shape /\ Lifecycle /\ Indexed /\ DistinctIds /\ FreshIds

\* How connection ids change hands in a step: they go with the connection, c is
\* given its own, or c takes over that of a connection nobody refers to any more.
Forgotten(i) == conn'[i].id = 0 /\ conn'[i].stage = "gone"

IdStep(c) ==
    /\ \A i \in Conns : conn[i].stage = "gone" => conn'[i].stage = "gone"
    /\ \A i \in Conns \ {c} : conn'[i].id = conn[i].id \/ Forgotten(i)
    /\ \/ conn'[c].id = conn[c].id \/ Forgotten(c)
       \/ conn'[c].id = c /\ Unissued(c)
       \/ /\ conn[c].id = 0
          /\ \E d \in Conns \ {c} : /\ conn[d].id = conn'[c].id /\ conn[d].id # 0
                                    /\ Forgotten(d)

LEMMA IdsChangeHands ==
    ASSUME DistinctIds, FreshIds, NEW c \in Conns, IdStep(c)
    PROVE  DistinctIds' /\ FreshIds' /\ \A i \in Conns : Unissued(i)' => Unissued(i)
<1>1. \A i \in Conns : i # 0
  BY DEF Conns
<1>2. \A i \in Conns \ {c} : conn'[i].id # 0 => conn'[i].id = conn[i].id
  BY DEF IdStep, Forgotten
<1>3. ASSUME NEW i \in Conns \ {c}, conn'[i].id # 0, conn'[i].id = conn'[c].id
      PROVE  FALSE
  <2>1. conn[i].id = conn'[c].id
    BY <1>2, <1>3
  <2>2. CASE conn'[c].id = conn[c].id
    BY <1>3, <2>1, <2>2 DEF DistinctIds
  <2>3. CASE conn'[c].id = c /\ Unissued(c)
    BY <2>1, <2>3 DEF FreshIds
  <2>4. CASE \E d \in Conns \ {c} : /\ conn[d].id = conn'[c].id /\ conn[d].id # 0
                                    /\ Forgotten(d)
    BY <1>3, <2>1, <2>4 DEF DistinctIds, Forgotten
  <2> QED
    BY <1>3, <2>2, <2>3, <2>4 DEF IdStep, Forgotten
<1>4. DistinctIds'
  <2> SUFFICES ASSUME NEW i \in Conns, NEW j \in Conns,
                      conn'[i].id # 0, conn'[i].id = conn'[j].id, i # j
               PROVE  FALSE
    BY DEF DistinctIds
  <2>1. i # c /\ j # c
    BY <1>3
  <2> QED
    BY <1>2, <2>1 DEF DistinctIds
<1>5. ASSUME NEW i \in Conns, Unissued(i)'
      PROVE  Unissued(i)
  BY <1>1, <1>5 DEF IdStep, Unissued, Forgotten
<1>6. FreshIds'
  <2> SUFFICES ASSUME NEW i \in Conns, Unissued(i)', NEW d \in Conns, conn'[d].id = i
               PROVE  FALSE
    BY DEF FreshIds
  <2>1. \A e \in Conns : conn[e].id # i
    BY <1>5 DEF FreshIds
  <2>2. d = c
    BY <1>1, <1>2, <2>1
  <2> QED
    BY <1>1, <2>1, <2>2 DEF IdStep, Unissued, Forgotten
<1> QED
  BY <1>4, <1>5, <1>6

\* What can happen to a connection in a step.
Keeps(i) ==
    /\ conn'[i] = conn[i]
    /\ \A n \in Nodes : i \in index'[n] => i \in index[n]
    /\ conn[i].stage = "gone" /\ conn[i] # Gone => i \in index'[conn[i].node]

Leaves(i) ==
    /\ conn'[i] = Gone
    /\ \A n \in Nodes : i \notin index'[n]

Moves(i) ==
    /\ FieldsOK(conn'[i])
    /\ Alive(i, conn[i])'
    /\ \A n \in Nodes : i \in index'[n] => IndexedAt(n, conn'[i])

Steps ==
    /\ conn' = [i \in Conns |-> conn'[i]]
    /\ index' \in [Nodes -> SUBSET Conns]
    /\ \A i \in Conns : Keeps(i) \/ Leaves(i) \/ Moves(i)

LEMMA SpecialConns ==
    /\ FieldsOK(Blank) /\ Blank.id = 0 /\ Blank.stage = "unused"
    /\ FieldsOK(Gone) /\ Gone.id = 0 /\ Gone.stage = "gone"
<1>1. (CHOOSE n \in Nodes : TRUE) \in Nodes
  BY NodesAssumption
<1>2. 0 \in Ids
  BY BoundsAssumption DEF Ids
<1>4. FieldsOK(Blank) /\ Blank.id = 0 /\ Blank.stage = "unused"
  BY <1>1, <1>2 DEF Blank, FieldsOK, Fields, Stages
<1>5. FieldsOK(Gone) /\ Gone.id = 0 /\ Gone.stage = "gone"
  BY <1>4 DEF FieldsOK, Fields, Stages, Gone
<1> QED
  BY <1>4, <1>5

OwnersKept == OwnerInv' /\ \A i \in Conns : Unissued(i)' => Unissued(i)

LEMMA StepsKeepOwners ==
    ASSUME OwnerInv, Steps, NEW c \in Conns, IdStep(c)
    PROVE  OwnersKept
<1>1. Shape'
  <2>1. ASSUME NEW i \in Conns PROVE FieldsOK(conn'[i])
    BY SpecialConns DEF OwnerInv, Shape, Steps, Keeps, Leaves, Moves
  <2> QED
    BY <2>1 DEF Shape, Steps
<1>2. Lifecycle'
  <2> SUFFICES ASSUME NEW i \in Conns PROVE Alive(i, conn[i])'
    BY DEF Lifecycle
  <2>1. CASE Keeps(i)
    BY <2>1 DEF OwnerInv, Lifecycle, Alive, Keeps, NoWriterYet
  <2>2. CASE Leaves(i)
    BY <2>2, SpecialConns DEF Alive, Leaves, NoWriter
  <2> QED
    BY <2>1, <2>2 DEF Steps, Moves
<1>3. Indexed'
  <2> SUFFICES ASSUME NEW n \in Nodes, NEW i \in index'[n] PROVE IndexedAt(n, conn'[i])
    BY DEF Indexed, IndexedAt
  <2>1. i \in Conns
    BY DEF Steps
  <2>2. CASE Keeps(i)
    BY <2>2 DEF OwnerInv, Indexed, Keeps
  <2> QED
    BY <2>1, <2>2 DEF Steps, Moves, Leaves
<1> QED
  BY <1>1, <1>2, <1>3, IdsChangeHands DEF OwnerInv, OwnersKept

LEMMA NothingMoves ==
    ASSUME OwnerInv, UNCHANGED <<conn, index>>
    PROVE  OwnersKept
BY DEF OwnersKept, OwnerInv, Shape, Lifecycle, Alive, NoWriterYet, Indexed, DistinctIds, FreshIds, Unissued

\* A step of one connection.
OnlyStep(c) ==
    /\ conn' = [i \in Conns |-> conn'[i]]
    /\ \A i \in Conns \ {c} : conn'[i] = conn[i]

LEMMA OneConnection ==
    ASSUME OwnerInv, NEW c \in Conns, OnlyStep(c),
           index' \in [Nodes -> SUBSET Conns],
           \A i \in Conns \ {c}, n \in Nodes : i \in index'[n] <=> i \in index[n],
           Keeps(c) \/ Leaves(c) \/ Moves(c),
           conn[c].stage # "gone" \/ conn'[c].stage = "gone",
           \/ conn'[c].id = conn[c].id \/ Forgotten(c)
           \/ conn'[c].id = c /\ Unissued(c)
    PROVE  OwnersKept
<1>1. \A i \in Conns \ {c} : Keeps(i)
  BY DEF Keeps, OnlyStep, OwnerInv, Lifecycle, Alive, Shape, FieldsOK
<1>2. Steps
  BY <1>1 DEF Steps, OnlyStep
<1>3. IdStep(c)
  BY DEF IdStep, OnlyStep
<1> QED
  BY <1>2, <1>3, StepsKeepOwners

LEMMA RegisterOwner ==
    ASSUME OwnerInv, NEW c \in Conns, Register(c)
    PROVE  OwnersKept
<1>1. FieldsOK(conn[c]) /\ conn[c].id # 0
  BY DEF OwnerInv, Shape, Lifecycle, Alive, Register
<1>2. OnlyStep(c)
  BY DEF OwnerInv, Shape, Register, OnlyStep
<1>3. /\ FieldsOK(conn'[c]) /\ conn'[c].stage = "registered" /\ conn'[c].active
      /\ conn'[c].id = conn[c].id /\ conn'[c].node = conn[c].node
  BY <1>1 DEF OwnerInv, Shape, Register, FieldsOK, Fields, Stages
<1>4. /\ index' \in [Nodes -> SUBSET Conns]
      /\ \A i \in Conns \ {c}, n \in Nodes : i \in index'[n] <=> i \in index[n]
      /\ \A n \in Nodes : c \in index'[n] => n = conn[c].node
  BY <1>1 DEF OwnerInv, Shape, Register, FieldsOK, Indexed, IndexedAt
<1>5. Moves(c)
  BY <1>1, <1>3, <1>4 DEF Moves, Alive, IndexedAt, NoWriter
<1> QED
  BY <1>2, <1>3, <1>4, <1>5, OneConnection DEF Register

LEMMA RegisterFailsOwner ==
    ASSUME OwnerInv, NEW c \in Conns, RegisterFails(c)
    PROVE  OwnersKept
<1>1. OnlyStep(c) /\ conn'[c] = Gone
  BY DEF OwnerInv, Shape, RegisterFails, OnlyStep
<1>2. Leaves(c)
  BY <1>1 DEF OwnerInv, Shape, RegisterFails, Leaves, Indexed, IndexedAt
<1> QED
  BY <1>1, <1>2, OneConnection, SpecialConns
     DEF OwnerInv, Shape, RegisterFails, Forgotten

LEMMA FreshOwner ==
    ASSUME OwnerInv, NEW c \in Conns, conn[c].stage \in {"upgraded", "asked"}
    PROVE  /\ FieldsOK(Fresh(c)) /\ Fresh(c).stage = "populated" /\ Fresh(c).id = c
           /\ Unissued(c) /\ c # 0 /\ \A n \in Nodes : c \notin index[n]
<1>1. FieldsOK(conn[c]) /\ conn[c].id = 0 /\ c \in Ids /\ c # 0
  BY DEF OwnerInv, Shape, Lifecycle, Alive, NoWriter, NoWriterYet, Ids, Conns
<1>2. FieldsOK(Fresh(c)) /\ Fresh(c).stage = "populated" /\ Fresh(c).id = c
  <2> SUFFICES ASSUME NEW s, s = Fresh(c)
               PROVE  FieldsOK(s) /\ s.stage = "populated" /\ s.id = c
    OBVIOUS
  <2> QED
    BY <1>1 DEF Fresh, FieldsOK, Fields, Stages
<1> QED
  BY <1>1, <1>2 DEF Unissued, OwnerInv, Indexed, IndexedAt

LEMMA NewConnectionOwner ==
    ASSUME OwnerInv, NEW c \in Conns, NewConnection(c)
    PROVE  OwnersKept
<1>1. OnlyStep(c) /\ conn'[c] = Fresh(c) /\ index' = index
  BY DEF OwnerInv, Shape, NewConnection, OnlyStep
<1>2. Moves(c)
  BY <1>1, FreshOwner DEF NewConnection, Moves, Alive, NoWriter
<1> QED
  BY <1>1, <1>2, FreshOwner, OneConnection DEF OwnerInv, Shape, NewConnection

LEMMA ClientConnectOwner ==
    ASSUME OwnerInv, NEW n \in Nodes, ClientConnect(n)
    PROVE  OwnersKept
<1>1. PICK c \in Conns :
          /\ conn[c].stage = "unused"
          /\ conn' = [conn EXCEPT ![c] =
                 [Blank EXCEPT !.node = n, !.stage = "upgraded",
                               !.reqId = client.id, !.reqSeq = client.seq]]
  BY DEF ClientConnect
<1>2. OnlyStep(c) /\ index' = index
  BY <1>1 DEF OwnerInv, Shape, ClientConnect, OnlyStep
<1>3. conn'[c] = [Blank EXCEPT !.node = n, !.stage = "upgraded",
                               !.reqId = client.id, !.reqSeq = client.seq]
  BY <1>1 DEF OwnerInv, Shape
<1>4. FieldsOK(conn'[c]) /\ conn'[c].stage = "upgraded" /\ conn'[c].id = 0
  BY <1>3, SpecialConns DEF FieldsOK, Fields, Stages
<1>5. NoWriterYet(conn'[c]) /\ conn[c].id = 0
  BY <1>1, <1>3, SpecialConns DEF NoWriterYet, Blank, OwnerInv, Lifecycle, Alive
<1>6. Moves(c)
  BY <1>1, <1>2, <1>4, <1>5 DEF Moves, Alive, NoWriter, OwnerInv, Indexed, IndexedAt
<1> QED
  BY <1>1, <1>2, <1>4, <1>5, <1>6, OneConnection DEF OwnerInv, Shape

\* The lookups: c goes on where an inactive connection stopped, or starts over.
LEMMA InactiveIsGone ==
    ASSUME OwnerInv, NEW n \in Nodes, NEW id, NEW d \in Inactive(n, id), id # 0
    PROVE  /\ d \in Conns /\ d \in index[n] /\ conn[d].node = n
           /\ conn[d].id = id /\ conn[d].stage = "gone" /\ id \in Ids
           /\ \A m \in Nodes : d \in index[m] => m = n
BY DEF OwnerInv, Shape, FieldsOK, Lifecycle, Alive, Indexed, IndexedAt, Inactive

LEMMA ResumedOwner ==
    ASSUME OwnerInv, NEW c \in Conns, conn[c].stage \in {"upgraded", "asked"},
           conn[c].reqId # 0, conn[c].reqId \in Ids, NEW q, NEW dq
    PROVE  LET r == Resumed(c, q, dq) IN
           FieldsOK(r) /\ r.stage = "populated" /\ r.id = conn[c].reqId /\ r.node = conn[c].node
<1>1. FieldsOK(conn[c])
  BY DEF OwnerInv, Shape
<1> SUFFICES ASSUME NEW r, r = Resumed(c, q, dq)
             PROVE  /\ FieldsOK(r) /\ r.stage = "populated" /\ r.id = conn[c].reqId
                    /\ r.node = conn[c].node
  OBVIOUS
<1> QED
  BY <1>1 DEF Resumed, FieldsOK, Fields, Stages

\* c takes the place of d, or d is only given up.
LEMMA TakeOverOwner ==
    ASSUME OwnerInv, NEW c \in Conns, conn[c].stage \in {"upgraded", "asked"},
           NEW n \in Nodes, NEW d \in Inactive(n, conn[c].reqId), conn[c].reqId # 0,
           NEW r, FieldsOK(r),
           \/ r.stage = "asked" /\ NoWriterYet(r)
           \/ r.stage = "populated" /\ r.id = conn[c].reqId,
           conn' = Removed([conn EXCEPT ![c] = r], {d}),
           index' = [index EXCEPT ![n] = @ \ {d}]
    PROVE  OwnersKept
<1>1. /\ d \in Conns /\ d \in index[n] /\ conn[d].node = n
      /\ conn[d].id = conn[c].reqId /\ conn[d].stage = "gone" /\ d # c
      /\ \A m \in Nodes : d \in index[m] => m = n
  BY InactiveIsGone
<1>2. conn[c].id = 0 /\ \A m \in Nodes : c \notin index[m]
  BY DEF OwnerInv, Shape, Lifecycle, Alive, NoWriter, NoWriterYet, Indexed, IndexedAt
<1>3. /\ conn' = [i \in Conns |-> conn'[i]]
      /\ conn'[c] = r /\ conn'[d] = Gone
      /\ \A i \in Conns \ {c, d} : conn'[i] = conn[i]
  BY <1>1 DEF OwnerInv, Shape, Removed
<1>4. /\ index' \in [Nodes -> SUBSET Conns]
      /\ \A m \in Nodes : d \notin index'[m]
      /\ \A i \in Conns \ {d}, m \in Nodes : i \in index'[m] <=> i \in index[m]
  BY <1>1 DEF OwnerInv, Shape
<1>5. Moves(c)
  BY <1>2, <1>3, <1>4 DEF Moves, Alive, NoWriter
<1>6. Leaves(d)
  BY <1>3, <1>4 DEF Leaves
<1>7. \A i \in Conns \ {c, d} : Keeps(i)
  BY <1>3, <1>4 DEF Keeps, OwnerInv, Lifecycle, Alive, Shape, FieldsOK
<1>8. Steps
  BY <1>3, <1>4, <1>5, <1>6, <1>7 DEF Steps
<1>9. IdStep(c)
  BY <1>1, <1>2, <1>3, SpecialConns DEF IdStep, Forgotten, NoWriterYet
<1> QED
  BY <1>8, <1>9, StepsKeepOwners

LEMMA AskedOwner ==
    ASSUME OwnerInv, NEW c \in Conns, conn[c].stage = "upgraded"
    PROVE  LET r == [conn[c] EXCEPT !.stage = "asked"] IN
           FieldsOK(r) /\ r.stage = "asked" /\ NoWriterYet(r)
<1>1. FieldsOK(conn[c]) /\ NoWriterYet(conn[c])
  BY DEF OwnerInv, Shape, Lifecycle, Alive, NoWriter
<1> SUFFICES ASSUME NEW r, r = [conn[c] EXCEPT !.stage = "asked"]
             PROVE  FieldsOK(r) /\ r.stage = "asked" /\ NoWriterYet(r)
  OBVIOUS
<1> QED
  BY <1>1 DEF NoWriterYet, FieldsOK, Fields, Stages

LEMMA ClusterLookupOwner ==
    ASSUME OwnerInv, NEW c \in Conns, ClusterLookup(c)
    PROVE  OwnersKept
<1> DEFINE asked == [conn[c] EXCEPT !.stage = "asked"]
           A(d) == Resumed(c, conn[d].send, EmptyDeadQueue)
           B(d) == Resumed(c, conn[d].send,
                           Refill(Drain(conn[d].dq,
                                        IndexInDeadQueue(conn[d].dq, conn[c].reqSeq))))
<1>1. conn[c].stage = "upgraded" /\ conn[c].reqId # 0
  BY DEF ClusterLookup
<1>2. FieldsOK(asked) /\ asked.stage = "asked" /\ NoWriterYet(asked)
  BY <1>1, AskedOwner
<1>3. CASE conn' = [conn EXCEPT ![c] = asked] /\ index' = index
  <2>1. OnlyStep(c) /\ conn'[c] = asked
    BY <1>3 DEF OwnerInv, Shape, OnlyStep
  <2>2. Moves(c)
    BY <1>1, <1>2, <1>3, <2>1
       DEF Moves, Alive, NoWriter, OwnerInv, Indexed, IndexedAt
  <2>3. conn[c].id = 0 /\ conn'[c].id = 0
    BY <1>1, <1>2, <2>1 DEF OwnerInv, Lifecycle, Alive, NoWriter, NoWriterYet
  <2> QED
    BY <1>1, <1>3, <2>1, <2>2, <2>3, OneConnection DEF OwnerInv, Shape
<1>4. CASE \E n \in Nodes : \E d \in Inactive(n, conn[c].reqId) :
              /\ index' = [index EXCEPT ![n] = @ \ {d}]
              /\ \E r \in {asked, A(d), B(d)} :
                    conn' = Removed([conn EXCEPT ![c] = r], {d})
  <2> HIDE DEF asked, A, B
  <2>0. PICK n \in Nodes : \E d \in Inactive(n, conn[c].reqId) :
              /\ index' = [index EXCEPT ![n] = @ \ {d}]
              /\ \E r \in {asked, A(d), B(d)} :
                    conn' = Removed([conn EXCEPT ![c] = r], {d})
    BY <1>4
  <2>1. PICK d \in Inactive(n, conn[c].reqId) :
              /\ index' = [index EXCEPT ![n] = @ \ {d}]
              /\ \E r \in {asked, A(d), B(d)} :
                    conn' = Removed([conn EXCEPT ![c] = r], {d})
    BY <2>0
  <2>2. PICK r \in {asked, A(d), B(d)} : conn' = Removed([conn EXCEPT ![c] = r], {d})
    BY <2>1
  <2>3. conn[c].reqId \in Ids
    BY <1>1, InactiveIsGone
  <2>4. r = A(d) \/ r = B(d) => /\ FieldsOK(r) /\ r.stage = "populated"
                                /\ r.id = conn[c].reqId
    BY <1>1, <2>3, ResumedOwner DEF A, B
  <2> QED
    BY <1>1, <1>2, <2>1, <2>2, <2>4, TakeOverOwner
<1> QED
  <2> DEFINE seq == conn[c].reqSeq
             Queues(d) ==
                IF NothingWritten(conn[d].dq) THEN {}
                ELSE IF ~HasMsgLoss(conn[d].dq, seq) THEN {A(d)}
                ELSE IF IsInDeadQueue(conn[d].dq, seq) THEN {B(d)}
                ELSE {}
  <2>1. \A d : (IF Queues(d) = {} THEN {asked} ELSE Queues(d)) \subseteq {asked, A(d), B(d)}
    <3> HIDE DEF asked, A, B
    <3> QED
      OBVIOUS
  <2>2. \/ conn' = [conn EXCEPT ![c] = asked] /\ index' = index
        \/ \E n \in Nodes \ {conn[c].node} : \E d \in Inactive(n, conn[c].reqId) :
              /\ index' = [index EXCEPT ![n] = @ \ {d}]
              /\ \E r \in IF Queues(d) = {} THEN {asked} ELSE Queues(d) :
                    conn' = Removed([conn EXCEPT ![c] = r], {d})
    BY DEF ClusterLookup
  <2> HIDE DEF asked, A, B, Queues
  <2>3. ASSUME NEW n \in Nodes \ {conn[c].node}, NEW d \in Inactive(n, conn[c].reqId),
               index' = [index EXCEPT ![n] = @ \ {d}],
               NEW r \in IF Queues(d) = {} THEN {asked} ELSE Queues(d),
               conn' = Removed([conn EXCEPT ![c] = r], {d})
        PROVE  OwnersKept
    <3>1. r \in {asked, A(d), B(d)}
      BY <2>1, <2>3
    <3> QED
      BY <1>4, <2>3, <3>1
  <2> QED
    BY <1>3, <2>2, <2>3

LEMMA LocalLookupOwner ==
    ASSUME OwnerInv, NEW c \in Conns, LocalLookup(c)
    PROVE  OwnersKept
<1>1. conn[c].stage \in {"upgraded", "asked"} /\ conn[c].reqId # 0 /\ conn[c].node \in Nodes
  BY DEF LocalLookup, OwnerInv, Shape, FieldsOK
<1>2. CASE conn' = [conn EXCEPT ![c] = Fresh(c)] /\ index' = index
  <2>1. OnlyStep(c) /\ conn'[c] = Fresh(c)
    BY <1>2 DEF OwnerInv, Shape, OnlyStep
  <2>2. Moves(c)
    BY <1>1, <1>2, <2>1, FreshOwner DEF Moves, Alive, NoWriter
  <2> QED
    BY <1>1, <1>2, <2>1, <2>2, FreshOwner, OneConnection DEF OwnerInv, Shape
<1>3. CASE \E d \in Inactive(conn[c].node, conn[c].reqId) :
              /\ index' = [index EXCEPT ![conn[c].node] = @ \ {d}]
              /\ conn' = Removed([conn EXCEPT ![c] =
                                     Resumed(c, conn[d].send, conn[d].dq)], {d})
  <2>1. PICK d \in Inactive(conn[c].node, conn[c].reqId) :
              /\ index' = [index EXCEPT ![conn[c].node] = @ \ {d}]
              /\ conn' = Removed([conn EXCEPT ![c] =
                                     Resumed(c, conn[d].send, conn[d].dq)], {d})
    BY <1>3
  <2>2. conn[c].reqId \in Ids
    BY <1>1, InactiveIsGone
  <2>3. LET r == Resumed(c, conn[d].send, conn[d].dq) IN
        FieldsOK(r) /\ r.stage = "populated" /\ r.id = conn[c].reqId
    BY <1>1, <2>2, ResumedOwner
  <2> QED
    BY <1>1, <2>1, <2>3, TakeOverOwner
<1> QED
  BY <1>2, <1>3 DEF LocalLookup

\* Connections of C leave the index of their nodes.
LEMMA RemovedOwner ==
    ASSUME OwnerInv, NEW C \in SUBSET Conns,
           NEW c \in Conns, NEW r, \/ r = conn[c]
                                   \/ r = Fresh(c) /\ conn[c].stage \in {"upgraded", "asked"},
           conn' = Removed([conn EXCEPT ![c] = r], C),
           index' \in [Nodes -> SUBSET Conns],
           \A n \in Nodes : index'[n] \subseteq index[n],
           \A n \in Nodes : \A i \in index[n] : i \in index'[n] <=> i \notin C
    PROVE  OwnersKept
<1>1. /\ conn' = [i \in Conns |-> conn'[i]]
      /\ \A i \in Conns \ {c} : conn'[i] = IF i \in C /\ conn[i].stage = "gone" THEN Gone ELSE conn[i]
      /\ conn'[c] = IF c \in C /\ r.stage = "gone" THEN Gone ELSE r
  BY DEF OwnerInv, Shape, Removed
<1>2. ASSUME NEW i \in Conns, conn'[i] = IF i \in C /\ conn[i].stage = "gone" THEN Gone ELSE conn[i]
      PROVE  Keeps(i) \/ Leaves(i)
  <2>1. CASE i \in C /\ conn[i].stage = "gone"
    <3>1. \A n \in Nodes : i \notin index'[n]
      BY <2>1
    <3> QED
      BY <1>2, <2>1, <3>1 DEF Leaves
  <2>2. CASE ~(i \in C /\ conn[i].stage = "gone")
    <3>1. conn'[i] = conn[i]
      BY <1>2, <2>2
    <3>2. conn[i].stage = "gone" /\ conn[i] # Gone => i \in index'[conn[i].node]
      BY <2>2 DEF OwnerInv, Lifecycle, Alive, Shape, FieldsOK
    <3> QED
      BY <3>1, <3>2 DEF Keeps
  <2> QED
    BY <2>1, <2>2
<1>3. CASE r = conn[c]
  <2>1. \A i \in Conns : Keeps(i) \/ Leaves(i)
    BY <1>1, <1>2, <1>3
  <2>2. Steps
    BY <1>1, <2>1 DEF Steps
  <2>3. IdStep(c)
    BY <2>1, SpecialConns DEF IdStep, Keeps, Leaves, Forgotten
  <2> QED
    BY <2>2, <2>3, StepsKeepOwners
<1>4. CASE r = Fresh(c) /\ conn[c].stage \in {"upgraded", "asked"}
  <2>1. /\ FieldsOK(Fresh(c)) /\ Fresh(c).stage = "populated" /\ Fresh(c).id = c
        /\ Unissued(c) /\ c # 0 /\ \A n \in Nodes : c \notin index[n]
    BY <1>4, FreshOwner
  <2>2. Moves(c) /\ conn'[c].id = c
    BY <1>1, <1>4, <2>1 DEF Moves, Alive, NoWriter
  <2>3. \A i \in Conns \ {c} : Keeps(i) \/ Leaves(i)
    BY <1>1, <1>2
  <2>4. Steps
    BY <1>1, <2>2, <2>3 DEF Steps
  <2>5. IdStep(c)
    BY <1>4, <2>1, <2>2, <2>3, SpecialConns DEF IdStep, Keeps, Leaves, Forgotten
  <2> QED
    BY <2>4, <2>5, StepsKeepOwners
<1> QED
  BY <1>3, <1>4

LEMMA ClusterLookupFailsOwner ==
    ASSUME OwnerInv, NEW c \in Conns, ClusterLookupFails(c)
    PROVE  OwnersKept
<1>1. PICK C \in SUBSET UNION {Inactive(n, conn[c].reqId) : n \in Nodes \ {conn[c].node}} :
          /\ index' = [n \in Nodes |-> index[n] \ C]
          /\ conn' = Removed([conn EXCEPT ![c] = Fresh(c)], C)
  BY DEF ClusterLookupFails
<1>2. C \subseteq Conns
  BY DEF Inactive, OwnerInv, Shape
<1>3. conn[c].stage = "upgraded"
  BY DEF ClusterLookupFails
<1> QED
  BY <1>1, <1>2, <1>3, RemovedOwner DEF OwnerInv, Shape

LEMMA ReapOwner ==
    ASSUME OwnerInv, NEW n \in Nodes, Reap(n)
    PROVE  OwnersKept
<1>1. PICK C \in SUBSET {c \in index[n] : ~conn[c].active} :
          /\ C # {}
          /\ index' = [index EXCEPT ![n] = @ \ C]
          /\ conn' = Removed(conn, C)
  BY DEF Reap
<1>2. PICK c \in C : TRUE
  BY <1>1
<1>3. C \subseteq index[n] /\ C \subseteq Conns /\ c \in Conns
  BY DEF OwnerInv, Shape
<1>4. [conn EXCEPT ![c] = conn[c]] = conn
  BY <1>3 DEF OwnerInv, Shape
<1>5. index' \in [Nodes -> SUBSET Conns] /\ \A m \in Nodes : index'[m] \subseteq index[m]
  BY <1>1 DEF OwnerInv, Shape
<1>6. \A m \in Nodes : \A i \in index[m] : i \in index'[m] <=> i \notin C
  BY <1>1, <1>3 DEF OwnerInv, Shape, Indexed, IndexedAt
<1> QED
  BY <1>1, <1>3, <1>4, <1>5, <1>6, RemovedOwner

LEMMA HubPanicOwner ==
    ASSUME OwnerInv, NEW n \in Nodes, HubPanic(n)
    PROVE  OwnersKept
<1>1. index' = [index EXCEPT ![n] = {}] /\ conn' = Removed(conn, index[n])
  BY DEF HubPanic
<1>2. PICK c \in Conns : TRUE
  BY BoundsAssumption DEF Conns
<1>3. [conn EXCEPT ![c] = conn[c]] = conn /\ index[n] \subseteq Conns
  BY DEF OwnerInv, Shape
<1>4. index' \in [Nodes -> SUBSET Conns] /\ \A m \in Nodes : index'[m] \subseteq index[m]
  BY <1>1 DEF OwnerInv, Shape
<1>5. \A m \in Nodes : \A i \in index[m] : i \in index'[m] <=> i \notin index[n]
  BY <1>1 DEF OwnerInv, Shape, Indexed, IndexedAt
<1> QED
  BY <1>1, <1>3, <1>4, <1>5, RemovedOwner

LEMMA NodeCrashOwner ==
    ASSUME OwnerInv, NEW n \in Nodes, NodeCrash(n)
    PROVE  OwnersKept
<1>1. /\ index' = [index EXCEPT ![n] = {}]
      /\ conn' = [c \in Conns |-> IF conn[c].node = n /\ conn[c].stage # "unused"
                                  THEN Gone ELSE conn[c]]
  BY DEF NodeCrash
<1>2. PICK c \in Conns : TRUE
  BY BoundsAssumption DEF Conns
<1>3. index' \in [Nodes -> SUBSET Conns]
  BY <1>1 DEF OwnerInv, Shape
<1>4. ASSUME NEW i \in Conns PROVE Keeps(i) \/ Leaves(i)
  <2>1. CASE conn[i].node = n /\ conn[i].stage # "unused"
    <3>1. \A m \in Nodes : i \notin index'[m]
      BY <1>1, <2>1 DEF OwnerInv, Shape, Indexed, IndexedAt
    <3> QED
      BY <1>1, <2>1, <3>1 DEF Leaves
  <2>2. CASE ~(conn[i].node = n /\ conn[i].stage # "unused")
    <3>1. conn'[i] = conn[i] /\ \A m \in Nodes : i \in index'[m] => i \in index[m]
      BY <1>1, <2>2 DEF OwnerInv, Shape
    <3>2. conn[i].stage = "gone" /\ conn[i] # Gone => i \in index'[conn[i].node]
      BY <1>1, <2>2 DEF OwnerInv, Lifecycle, Alive, Shape, FieldsOK
    <3> QED
      BY <3>1, <3>2 DEF Keeps
  <2> QED
    BY <2>1, <2>2
<1>5. Steps
  BY <1>1, <1>3, <1>4 DEF Steps
<1>6. IdStep(c)
  BY <1>4, SpecialConns DEF IdStep, Keeps, Leaves, Forgotten
<1> QED
  BY <1>5, <1>6, StepsKeepOwners

LEMMA OfferOwner ==
    ASSUME OwnerInv, NEW n \in Nodes, NEW C \in SUBSET index[n], NEW m, Offer(n, C, m)
    PROVE  OwnersKept
<1>1. /\ C \subseteq Conns
      /\ index' = [index EXCEPT ![n] = @ \ {c \in C : Full(c)}]
      /\ conn' = [c \in Conns |->
                    IF c \notin C THEN conn[c]
                    ELSE IF Full(c) THEN Overflown(conn[c])
                    ELSE [conn[c] EXCEPT !.send = Append(@, m)]]
  BY DEF Offer, OwnerInv, Shape
<1>2. PICK c \in Conns : TRUE
  BY BoundsAssumption DEF Conns
<1>3. index' \in [Nodes -> SUBSET Conns] /\ \A k \in Nodes : index'[k] \subseteq index[k]
  BY <1>1 DEF OwnerInv, Shape
<1>4. ASSUME NEW i \in Conns
      PROVE  /\ Keeps(i) \/ Leaves(i) \/ Moves(i)
             /\ conn'[i].id = conn[i].id \/ Forgotten(i)
             /\ conn[i].stage = "gone" => conn'[i].stage = "gone"
  <2>1. FieldsOK(conn[i])
    BY DEF OwnerInv, Shape
  <2>2. CASE i \notin C
    <3>1. \A k \in Nodes : i \in index'[k] <=> i \in index[k]
      BY <1>1, <2>2 DEF OwnerInv, Shape
    <3> QED
      BY <1>1, <2>2, <3>1 DEF Keeps, OwnerInv, Lifecycle, Alive, Shape, FieldsOK
  <2>3. CASE i \in C /\ Full(i) /\ conn[i].stage = "gone"
    <3>1. conn'[i] = Gone
      BY <1>1, <2>3 DEF Overflown
    <3>2. index'[n] = index[n] \ {j \in C : Full(j)} /\ \A k \in Nodes \ {n} : index'[k] = index[k]
      BY <1>1 DEF OwnerInv, Shape
    <3>3. \A k \in Nodes : i \notin index'[k]
      BY <2>3, <3>2 DEF OwnerInv, Indexed, IndexedAt
    <3> QED
      BY <3>1, <3>3, SpecialConns DEF Leaves, Forgotten
  <2>4. CASE i \in C /\ ~(Full(i) /\ conn[i].stage = "gone")
    <3>1. /\ IndexedAt(n, conn[i]) /\ Alive(i, conn[i])
          /\ \A k \in Nodes : i \in index'[k] => k = n
      BY <1>3, <2>4 DEF OwnerInv, Indexed, IndexedAt, Lifecycle, Shape
    <3>2. ~Full(i) => i \in index'[n]
      BY <1>1, <2>4 DEF OwnerInv, Shape
    <3>3. conn'[i] = IF Full(i) THEN [conn[i] EXCEPT !.closed = TRUE]
                     ELSE [conn[i] EXCEPT !.send = Append(@, m)]
      BY <1>1, <2>4 DEF Overflown
    <3>4. /\ FieldsOK(conn'[i])
          /\ conn'[i].stage = conn[i].stage /\ conn'[i].id = conn[i].id
          /\ conn'[i].node = conn[i].node /\ conn'[i].active = conn[i].active
      <4>1. CASE Full(i)
        BY <2>1, <3>3, <4>1 DEF FieldsOK, Fields
      <4>2. CASE ~Full(i)
        BY <2>1, <3>3, <4>2 DEF FieldsOK, Fields
      <4> QED
        BY <4>1, <4>2
    <3>5. conn[i].stage = "gone" => ~conn[i].active
      BY <3>1, SpecialConns DEF Alive, IndexedAt
    <3>6. Moves(i)
      BY <2>4, <3>1, <3>2, <3>4, <3>5 DEF Moves, Alive, IndexedAt, NoWriter
    <3> QED
      BY <3>4, <3>6
  <2> QED
    BY <2>2, <2>3, <2>4
<1>5. Steps
  BY <1>1, <1>3, <1>4 DEF Steps
<1>6. IdStep(c)
  BY <1>4 DEF IdStep
<1> QED
  BY <1>5, <1>6, StepsKeepOwners

\* A step of a write pump: the connection stays where it is, or is forgotten.
LEMMA PumpStepOwner ==
    ASSUME OwnerInv, NEW c \in Conns, OnlyStep(c), index' = index,
           conn[c].stage \in {"registered", "pumping", "stopped"},
           FieldsOK(conn'[c]), conn'[c].node = conn[c].node,
           conn'[c].id = conn[c].id \/ conn'[c].id = c,
           \/ conn'[c].active /\ conn'[c].stage \in {"pumping", "stopped"}
           \/ ~conn'[c].active /\ conn'[c].stage = "gone" /\ c \in index[conn[c].node]
    PROVE  OwnersKept
<1>1. conn[c].id # 0 /\ c # 0
  BY DEF OwnerInv, Lifecycle, Alive, Conns
<1>2. Moves(c)
  BY <1>1 DEF Moves, Alive, IndexedAt, NoWriter, OwnerInv, Indexed
<1>3. Unissued(c) \/ conn[c].id = c
  BY DEF Unissued
<1> QED
  BY <1>2, <1>3, OneConnection DEF OwnerInv, Shape

LEMMA PumpStartOwner ==
    ASSUME OwnerInv, NEW c \in Conns, PumpStart(c)
    PROVE  OwnersKept
<1> DEFINE r == conn[c]
           sent == Drain(r.dq, IndexInDeadQueue(r.dq, r.seq))
<1>1. /\ r.stage = "registered" /\ index' = index /\ FieldsOK(r) /\ r.active
  BY DEF PumpStart, OwnerInv, Shape, Lifecycle, Alive
<1>. c \in Ids
  BY DEF Conns, Ids
<1> HIDE DEF sent
<1>2. ASSUME NEW k, conn' = [conn EXCEPT
                 ![c].seq = @ + k,
                 ![c].stage = IF k = Len(sent) THEN "pumping" ELSE "stopped"]
      PROVE  OwnersKept
  <2>1. /\ OnlyStep(c)
        /\ conn'[c] = [r EXCEPT !.seq = @ + k,
                                !.stage = IF k = Len(sent) THEN "pumping" ELSE "stopped"]
    BY <1>2 DEF OwnerInv, Shape, OnlyStep
  <2>2. /\ FieldsOK(conn'[c]) /\ conn'[c].node = r.node /\ conn'[c].id = r.id
        /\ conn'[c].active = r.active /\ conn'[c].stage \in {"pumping", "stopped"}
    BY <1>1, <2>1 DEF FieldsOK, Fields, Stages
  <2> QED
    BY <1>1, <2>1, <2>2, PumpStepOwner
<1>3. ASSUME NEW dq, conn' = [conn EXCEPT
                 ![c].dq = dq, ![c].id = c, ![c].seq = 1, ![c].stage = "pumping"]
      PROVE  OwnersKept
  <2>1. /\ OnlyStep(c)
        /\ conn'[c] = [r EXCEPT !.dq = dq, !.id = c, !.seq = 1, !.stage = "pumping"]
    BY <1>3 DEF OwnerInv, Shape, OnlyStep
  <2>2. /\ FieldsOK(conn'[c]) /\ conn'[c].node = r.node /\ conn'[c].id = c
        /\ conn'[c].active = r.active /\ conn'[c].stage = "pumping"
    BY <1>1, <2>1 DEF FieldsOK, Fields, Stages
  <2> QED
    BY <1>1, <2>1, <2>2, PumpStepOwner
<1>4. ASSUME conn' = [conn EXCEPT ![c].stage = "pumping"]
      PROVE  OwnersKept
  <2>1. OnlyStep(c) /\ conn'[c] = [r EXCEPT !.stage = "pumping"]
    BY <1>4 DEF OwnerInv, Shape, OnlyStep
  <2>2. /\ FieldsOK(conn'[c]) /\ conn'[c].node = r.node /\ conn'[c].id = r.id
        /\ conn'[c].active = r.active /\ conn'[c].stage = "pumping"
    BY <1>1, <2>1 DEF FieldsOK, Fields, Stages
  <2> QED
    BY <1>1, <2>1, <2>2, PumpStepOwner
<1> QED
  BY <1>2, <1>3, <1>4 DEF PumpStart, sent

LEMMA PumpSendOwner ==
    ASSUME OwnerInv, NEW c \in Conns, PumpSend(c)
    PROVE  OwnersKept
<1> DEFINE r == conn[c]
<1>1. r.stage = "pumping" /\ index' = index /\ FieldsOK(r) /\ r.active
  BY DEF PumpSend, OwnerInv, Shape, Lifecycle, Alive
<1>2. ASSUME NEW entry, NEW stage \in {"pumping", "stopped"}, conn' = Pumped(c, entry, stage)
      PROVE  OwnersKept
  <2>1. /\ OnlyStep(c)
        /\ conn'[c] = [r EXCEPT !.send = Tail(@), !.seq = @ + 1,
                                !.dq = AddToDeadQueue(@, entry), !.stage = stage]
    BY <1>2 DEF OwnerInv, Shape, OnlyStep, Pumped
  <2>2. /\ FieldsOK(conn'[c]) /\ conn'[c].node = r.node /\ conn'[c].id = r.id
        /\ conn'[c].active = r.active /\ conn'[c].stage = stage
    <3>1. Fields(r) /\ r.node \in Nodes /\ r.id \in Ids /\ stage \in Stages
      BY <1>1, <1>2 DEF FieldsOK, Stages
    <3>2. PICK send, seq, dq :
             conn'[c] = [r EXCEPT !.send = send, !.seq = seq, !.dq = dq, !.stage = stage]
      BY <2>1
    <3> QED
      BY <3>1, <3>2 DEF FieldsOK, Fields
  <2> QED
    BY <1>1, <2>1, <2>2, PumpStepOwner
<1>3. ASSUME conn' = [conn EXCEPT ![c].send = Tail(@), ![c].seq = @ + 1]
      PROVE  OwnersKept
  <2>1. OnlyStep(c) /\ conn'[c] = [r EXCEPT !.send = Tail(@), !.seq = @ + 1]
    BY <1>3 DEF OwnerInv, Shape, OnlyStep
  <2>2. /\ FieldsOK(conn'[c]) /\ conn'[c].node = r.node /\ conn'[c].id = r.id
        /\ conn'[c].active = r.active /\ conn'[c].stage = "pumping"
    BY <1>1, <2>1 DEF FieldsOK, Fields, Stages
  <2> QED
    BY <1>1, <2>1, <2>2, PumpStepOwner
<1> QED
  BY <1>2, <1>3 DEF PumpSend

LEMMA PumpRestOwner ==
    ASSUME OwnerInv, NEW c \in Conns, PumpReply(c) \/ PumpClose(c) \/ PumpStop(c)
    PROVE  OwnersKept
<1> DEFINE r == conn[c]
<1>1. r.stage = "pumping" /\ index' = index /\ FieldsOK(r) /\ r.active
  BY DEF PumpReply, PumpClose, PumpStop, OwnerInv, Shape, Lifecycle, Alive
<1>2. CASE conn' = [conn EXCEPT ![c].send = Tail(@)]
  <2>1. OnlyStep(c) /\ conn'[c] = [r EXCEPT !.send = Tail(@)]
    BY <1>2 DEF OwnerInv, Shape, OnlyStep
  <2>2. /\ FieldsOK(conn'[c]) /\ conn'[c].node = r.node /\ conn'[c].id = r.id
        /\ conn'[c].active = r.active /\ conn'[c].stage = "pumping"
    BY <1>1, <2>1 DEF FieldsOK, Fields, Stages
  <2> QED
    BY <1>1, <2>1, <2>2, PumpStepOwner
<1>3. CASE conn' = [conn EXCEPT ![c].stage = "stopped"]
  <2>1. OnlyStep(c) /\ conn'[c] = [r EXCEPT !.stage = "stopped"]
    BY <1>3 DEF OwnerInv, Shape, OnlyStep
  <2>2. /\ FieldsOK(conn'[c]) /\ conn'[c].node = r.node /\ conn'[c].id = r.id
        /\ conn'[c].active = r.active /\ conn'[c].stage = "stopped"
    BY <1>1, <2>1 DEF FieldsOK, Fields, Stages
  <2> QED
    BY <1>1, <2>1, <2>2, PumpStepOwner
<1> QED
  BY <1>2, <1>3 DEF PumpReply, PumpClose, PumpStop

LEMMA UnregisterOwner ==
    ASSUME OwnerInv, NEW c \in Conns, Unregister(c)
    PROVE  OwnersKept
<1>1. conn[c].stage = "stopped" /\ index' = index /\ FieldsOK(conn[c]) /\ OnlyStep(c)
  BY DEF Unregister, OwnerInv, Shape, OnlyStep
<1>2. CASE c \in index[conn[c].node]
  <2>1. conn'[c] = [conn[c] EXCEPT !.stage = "gone", !.active = FALSE]
    BY <1>2 DEF Unregister, OwnerInv, Shape
  <2>2. /\ FieldsOK(conn'[c]) /\ conn'[c].node = conn[c].node /\ conn'[c].id = conn[c].id
        /\ ~conn'[c].active /\ conn'[c].stage = "gone"
    BY <1>1, <2>1 DEF FieldsOK, Fields, Stages
  <2> QED
    BY <1>1, <1>2, <2>2, PumpStepOwner
<1>3. CASE c \notin index[conn[c].node]
  <2>1. conn'[c] = Gone
    BY <1>3 DEF Unregister, OwnerInv, Shape
  <2>2. Leaves(c)
    BY <1>1, <1>3, <2>1 DEF Leaves, OwnerInv, Indexed, IndexedAt
  <2> QED
    BY <1>1, <2>1, <2>2, SpecialConns, OneConnection DEF OwnerInv, Shape, Forgotten
<1> QED
  BY <1>2, <1>3

LEMMA InitOwner == Init => OwnerInv
<1> SUFFICES ASSUME Init PROVE OwnerInv
  OBVIOUS
<1>1. /\ conn = [c \in Conns |-> Blank] /\ index = [n \in Nodes |-> {}]
  BY DEF Init
<1>2. \A c \in Conns : conn[c] = Blank /\ c # 0
  BY <1>1 DEF Conns
<1>3. Shape /\ Indexed
  BY <1>1, <1>2, SpecialConns DEF Shape, Indexed
<1>4. Lifecycle
  BY <1>2, SpecialConns DEF Lifecycle, Alive, NoWriterYet, Blank
<1> QED
  BY <1>2, <1>3, <1>4, SpecialConns DEF OwnerInv, DistinctIds, FreshIds

\* Whatever a server node or the client does, the queues of a connection id stay in
\* one hand.
LEMMA NextKeepsOwners == OwnerInv /\ [Next]_vars => OwnersKept
<1> SUFFICES ASSUME OwnerInv, [Next]_vars PROVE OwnersKept
  OBVIOUS
<1>1. ASSUME NEW n \in Nodes, HubBroadcast(n) PROVE OwnersKept
  BY <1>1, OfferOwner DEF HubBroadcast
<1>2. ASSUME NEW c \in Conns, Answer(c) PROVE OwnersKept
  <2>1. conn[c].node \in Nodes /\ {c} \subseteq index[conn[c].node]
    BY <1>2 DEF Answer, OwnerInv, Shape, FieldsOK
  <2> QED
    BY <1>2, <2>1, OfferOwner DEF Answer
<1>3. CASE UNCHANGED <<conn, index>>
  BY <1>3, NothingMoves
<1>4. ASSUME NEW n \in Nodes, Hub(n) PROVE OwnersKept
  BY <1>1, <1>4, ReapOwner, HubPanicOwner, NodeCrashOwner DEF Hub
<1>5. ASSUME NEW c \in Conns, Handshake(c) PROVE OwnersKept
  BY <1>5, NewConnectionOwner, ClusterLookupOwner, LocalLookupOwner, RegisterOwner
     DEF Handshake
<1>6. ASSUME NEW c \in Conns, Pump(c) PROVE OwnersKept
  BY <1>6, PumpStartOwner, PumpSendOwner, PumpRestOwner, UnregisterOwner DEF Pump
<1>7. CASE Client
  <2>1. ASSUME NEW n \in Nodes, ClientConnect(n) PROVE OwnersKept
    BY <2>1, ClientConnectOwner
  <2> QED
    BY <1>3, <1>7, <2>1
       DEF Client, ClientReceive, ClientDisconnect, ClientNotice, Detach, Refetch
<1>8. CASE Publish
  BY <1>3, <1>8 DEF Publish
<1>9. CASE UNCHANGED vars
  BY <1>3, <1>9 DEF vars
<1> QED
  BY <1>2, <1>4, <1>5, <1>6, <1>7, <1>8, <1>9, ClusterLookupFailsOwner, RegisterFailsOwner
     DEF Next

LEMMA OwnerInvariant == Spec => []OwnerInv
<1>1. OwnerInv /\ [Next]_vars => OwnerInv'
  BY NextKeepsOwners DEF OwnersKept
<1> QED
  BY <1>1, InitOwner, PTL DEF Spec

\* SingleOwner for every cluster, number of connections and queue size: a resume
\* takes the queues of a connection id from a connection whose pumps have ended, and
\* no stale handshake, crash or lost answer of another node puts them in two hands.
THEOREM SingleOwnerIsInvariant == Spec => []SingleOwner
<1>1. OwnerInv => SingleOwner
  BY DEF OwnerInv, DistinctIds, SingleOwner
<1> QED
  BY <1>1, OwnerInvariant, PTL

-----------------------------------------------------------------------------
\* The stream of a connection id up to its first hole

Recorded == Message \cup {Hole}

Intact(s) == Len(Whole(s))

\* The stream with its next message put at number q, as Number does.
Numbering(s, q, m) ==
    [k \in 1 .. (q + 1) |-> IF k > q THEN m ELSE IF k <= Len(s) THEN s[k] ELSE Hole]

LEMMA HoleIsNoMessage == Hole \notin Message /\ Hole \in Recorded
BY DEF Hole, Message, Recorded

LEMMA IntactPart ==
    ASSUME NEW s \in Seq(Recorded)
    PROVE  /\ Intact(s) \in 0 .. Len(s)
           /\ Whole(s) = SubSeq(s, 1, Intact(s))
           /\ \A k \in 1 .. Intact(s) : s[k] # Hole
           /\ Intact(s) < Len(s) => s[Intact(s) + 1] = Hole
<1> DEFINE holes == {i \in DOMAIN s : s[i] = Hole}
<1>1. holes \subseteq 1 .. Len(s) /\ Len(s) \in Nat /\ holes \in SUBSET Nat
  OBVIOUS
<1>2. CASE holes = {}
  <2>1. Whole(s) = s
    BY <1>2 DEF Whole
  <2>2. \A k \in 1 .. Len(s) : s[k] # Hole
    BY <1>2
  <2>3. SubSeq(s, 1, Len(s)) = s
    OBVIOUS
  <2> QED
    BY <1>1, <2>1, <2>2, <2>3 DEF Intact
<1>3. CASE holes # {}
  <2>1. PICK m \in holes : \A j \in holes : m <= j
    BY <1>1, <1>3, LeastNat
  <2> DEFINE h == CHOOSE i \in holes : \A j \in holes : i <= j
  <2>2. h \in holes /\ \A j \in holes : h <= j
    BY <2>1
  <2>3. Whole(s) = SubSeq(s, 1, h - 1)
    BY <1>3 DEF Whole
  <2> HIDE DEF h
  <2>4. h \in 1 .. Len(s) /\ s[h] = Hole /\ \A k \in 1 .. (h - 1) : s[k] # Hole
    BY <1>1, <2>2
  <2>5. Len(SubSeq(s, 1, h - 1)) = h - 1
    BY <1>1, <2>4
  <2>6. Intact(s) = h - 1
    BY <2>3, <2>5 DEF Intact
  <2> QED
    BY <1>1, <2>3, <2>4, <2>6
<1> QED
  BY <1>2, <1>3

LEMMA IntactIs ==
    ASSUME NEW s \in Seq(Recorded), NEW n \in 0 .. Len(s),
           \A k \in 1 .. n : s[k] # Hole,
           n < Len(s) => s[n + 1] = Hole
    PROVE  Intact(s) = n
<1>1. /\ Intact(s) \in 0 .. Len(s) /\ Len(s) \in Nat
      /\ \A k \in 1 .. Intact(s) : s[k] # Hole
      /\ Intact(s) < Len(s) => s[Intact(s) + 1] = Hole
  BY IntactPart
<1>2. CASE Intact(s) < n
  BY <1>1, <1>2
<1>3. CASE n < Intact(s)
  BY <1>1, <1>3
<1> QED
  BY <1>1, <1>2, <1>3

LEMMA EmptyStream == << >> \in Seq(Recorded) /\ Intact(<< >>) = 0
<1>1. << >> \in Seq(Recorded) /\ Len(<< >>) = 0
  OBVIOUS
<1>2. Intact(<< >>) \in 0 .. Len(<< >>)
  BY <1>1, IntactPart
<1> QED
  BY <1>1, <1>2

LEMMA OneInStream ==
    ASSUME NEW m \in Message
    PROVE  << m >> \in Seq(Recorded) /\ Intact(<< m >>) = 1
<1>1. << m >> \in Seq(Recorded) /\ Len(<< m >>) = 1 /\ << m >>[1] = m
  BY DEF Recorded
<1>2. PICK s \in Seq(Recorded) : s = << m >>
  BY <1>1
<1>3. Len(s) = 1 /\ s[1] = m /\ m # Hole
  BY <1>1, <1>2, HoleIsNoMessage
<1>4. Intact(s) = 1
  <2>1. \A k \in 1 .. 1 : s[k] # Hole
    BY <1>3
  <2>2. 1 \in 0 .. Len(s)
    BY <1>3
  <2> QED
    BY <1>3, <2>1, <2>2, IntactIs
<1> QED
  BY <1>2, <1>4

\* A message numbered next to the last intact one extends the intact part; nothing
\* else changes it.
LEMMA NumberedStream ==
    ASSUME NEW s \in Seq(Recorded), NEW q \in Nat, q >= Intact(s), NEW m \in Recorded
    PROVE  LET t == Numbering(s, q, m) IN
           /\ t \in Seq(Recorded) /\ Len(t) = q + 1 /\ t # << >>
           /\ \A k \in 1 .. Intact(s) : t[k] = s[k]
           /\ Intact(t) = IF q = Intact(s) /\ m # Hole THEN q + 1 ELSE Intact(s)
           /\ q = Intact(s) => t[q + 1] = m
<1> DEFINE t == Numbering(s, q, m)
           h == Intact(s)
<1>1. /\ h \in Nat /\ h <= Len(s) /\ Len(s) \in Nat
      /\ \A k \in 1 .. h : s[k] # Hole
      /\ h < Len(s) => s[h + 1] = Hole
  BY IntactPart
<1>2. \A k \in 1 .. (q + 1) : (IF k > q THEN m ELSE IF k <= Len(s) THEN s[k] ELSE Hole) \in Recorded
  BY <1>1, HoleIsNoMessage
<1>3. /\ t \in Seq(Recorded) /\ Len(t) = q + 1 /\ t # << >>
      /\ \A k \in 1 .. (q + 1) : t[k] = IF k > q THEN m ELSE IF k <= Len(s) THEN s[k] ELSE Hole
  BY <1>2 DEF Numbering
<1> HIDE DEF h, t
<1>4. \A k \in 1 .. h : t[k] = s[k]
  BY <1>1, <1>3 DEF h
<1>5. CASE q = h /\ m # Hole
  BY <1>1, <1>3, <1>4, <1>5, IntactIs DEF h, t
<1>6. CASE q = h /\ m = Hole
  <2>1. h \in 0 .. Len(t) /\ t[h + 1] = Hole /\ \A k \in 1 .. h : t[k] # Hole
    BY <1>1, <1>3, <1>4, <1>6 DEF h
  <2>2. Intact(t) = h
    BY <1>3, <2>1, IntactIs
  <2> QED
    BY <1>3, <1>4, <1>6, <2>1, <2>2 DEF h, t
<1>7. CASE q # h
  <2>1. q > h
    BY <1>1, <1>7 DEF h
  <2>2. t[h + 1] = Hole
    BY <1>1, <1>3, <2>1
  <2>3. Intact(t) = h
    BY <1>1, <1>3, <1>4, <2>1, <2>2, IntactIs
  <2> QED
    BY <1>3, <1>4, <1>7, <2>1, <2>3 DEF h, t
<1> QED
  BY <1>5, <1>6, <1>7

-----------------------------------------------------------------------------
\* Types

Typed(r) ==
    /\ Fields(r)
    /\ r.node \in Nodes /\ r.stage \in Stages
    /\ r.reqId \in Ids /\ r.reqSeq \in Nat /\ r.id \in Ids
    /\ r.send \in Seq(Message) /\ r.closed \in BOOLEAN
    /\ r.dq \in Queue /\ r.seq \in Nat
    /\ r.active \in BOOLEAN /\ r.reused \in BOOLEAN

LEMMA TypedConn == \A r : r \in ConnType <=> Typed(r)
BY DEF ConnType, Typed, Fields, Queue

LEMMA BlankIsTyped == Typed(Blank) /\ Typed(Gone)
<1>1. (CHOOSE n \in Nodes : TRUE) \in Nodes
  BY NodesAssumption
<1>2. 0 \in Ids /\ << >> \in Seq(Message)
  BY BoundsAssumption DEF Ids
<1>3. Typed(Blank)
  BY <1>1, <1>2, EmptyIsShaped DEF Typed, Blank, Fields, Stages
<1>4. Typed(Gone)
  BY <1>3 DEF Typed, Fields, Stages, Gone
<1> QED
  BY <1>3, <1>4

LEMMA TypesOfState ==
    ASSUME TypeOK
    PROVE  /\ \A c \in Conns : Typed(conn[c])
           /\ conn = [c \in Conns |-> conn[c]]
           /\ \A i \in Ids : stream[i] \in Seq(Recorded)
           /\ stream = [i \in Ids |-> stream[i]]
           /\ wire \in Seq(Entry)
           /\ client.seq \in Nat /\ client.id \in Nat /\ client.conn \in 0 .. MaxConns
           /\ client.received \in Seq(Message)
BY TypedConn DEF TypeOK, Recorded

-----------------------------------------------------------------------------
\* The streams of a cluster whose queues were never rewound

H(i) == Intact(stream[i])

\* The first b entries of a dead queue are the last b intact messages of s.
Holding(dq, b, s) ==
    /\ Numbered(dq, b, Intact(s))
    /\ \A k \in 1 .. b : Nth(dq, k).msg = s[Intact(s) - b + k]

\* A connection between its lookup and the start of its write pump.
Starting(c, r, s) ==
    IF r.reused
    THEN /\ r.id = r.reqId /\ r.id # c /\ r.seq = r.reqSeq
         /\ Count(r.dq) = 0 => r.seq = Intact(s)
    ELSE /\ r.id = c /\ r.seq = 0 /\ Count(r.dq) = 0 /\ s = << >>
         /\ r.stage = "populated" => r.send = << >>

\* Nothing is numbered yet: the hello of a new connection is on its way.
Greeting(c, r) ==
    /\ r.id = c /\ r.seq = 0 /\ ~r.reused
    /\ r.send # << >> /\ r.send[1] = Hello(c)

\* The queues of a connection c, a record r, agree with the stream s of its id.
QueueAt(c, r, s) ==
    /\ Shaped(r.dq)
    /\ \A k \in 1 .. Count(r.dq) : Nth(r.dq, k).msg.kind = "hello" => Nth(r.dq, k).seq = 0
    /\ r.id # 0 => \E b \in Nat : Holding(r.dq, b, s)
    /\ r.stage \in {"populated", "registered"} => Starting(c, r, s)
    /\ r.stage = "pumping" => \/ r.seq = Intact(s) /\ Holding(r.dq, Count(r.dq), s)
                              \/ r.seq > Intact(s)
    /\ \A k \in DOMAIN r.send :
          r.send[k].kind = "hello" => k = 1 /\ r.send[k].n = r.id /\ r.id # 0 /\ s = << >>
    /\ s = << >> /\ r.stage \in {"registered", "pumping"} => Greeting(c, r)

Heads(w) == w # << >> /\ w[1].msg.kind = "hello"

\* A dead queue emptied on the way from another node: nothing its client has not
\* received was lost.
EmptiedAt(r, s, cl, w) ==
    r.id # 0 /\ Count(r.dq) = 0 /\ s # << >> =>
        /\ Cardinality(Nodes) > 1
        /\ cl.id = r.id => cl.seq = Intact(s)
        /\ Heads(w) => w[1].msg.n # r.id

Asking(r) == r.reqId # 0 /\ r.stage \in {"upgraded", "asked", "populated", "registered"}

\* What a handshake asked for stays available.
AskedAt(r, h, cl, w) ==
    Asking(r) =>
        /\ r.reqSeq \in 1 .. h
        /\ cl.id = r.reqId => r.reqSeq <= cl.seq
        /\ Heads(w) => w[1].msg.n # r.reqId

\* The handshake of the client's current socket.
CurrentAt(r, s, cl, w) ==
    /\ r.stage \in {"upgraded", "asked", "populated", "registered"} =>
          r.reqId = cl.id /\ r.reqSeq = cl.seq /\ w = << >>
    /\ r.id # 0 /\ s = << >> => w = << >>

ConnOK(c) ==
    /\ QueueAt(c, conn[c], stream[conn[c].id])
    /\ EmptiedAt(conn[c], stream[conn[c].id], client, wire)
    /\ AskedAt(conn[c], H(conn[c].reqId), client, wire)
    /\ client.conn = c => CurrentAt(conn[c], stream[conn[c].id], client, wire)

\* The stream the frames under way belong to, and the number of its messages the
\* client will have before them.
WireId == IF Heads(wire) THEN wire[1].msg.n ELSE client.id
WireSeq == IF Heads(wire) THEN 0 ELSE client.seq

\* The first k frames continue what the client has.
Running(k) == \A j \in 1 .. k : wire[j].seq = WireSeq + j - 1

WireOK ==
    /\ client.conn = 0 => wire = << >>
    /\ \A k \in DOMAIN wire :
          wire[k].msg.kind = "hello" => /\ k = 1 /\ wire[k].seq = 0
                                        /\ wire[k].msg.n # client.id /\ wire[k].msg.n # 0
    /\ WireId \in Ids
    /\ \A k \in DOMAIN wire :
          Running(k) => /\ WireSeq + k <= H(WireId)
                        /\ wire[k].msg = stream[WireId][WireSeq + k]

PumpsToWire ==
    client.conn # 0 /\ conn[client.conn].stage = "pumping" =>
        \/ conn[client.conn].id = WireId
        \/ wire = << >> /\ stream[conn[client.conn].id] = << >>

ClientOK ==
    /\ StreamAgreement
    /\ client.id \in Ids /\ client.seq <= H(client.id)
    /\ client.id # 0 <=> client.seq > 0

NothingUnissued == \A i \in Conns : Unissued(i) => stream[i] = << >>

StreamInv ==
    /\ \A c \in Conns : ConnOK(c)
    /\ NothingUnissued /\ stream[0] = << >>
    /\ WireOK /\ PumpsToWire /\ ClientOK

\* All of it, until a handshake that its client gave up resumes emptied queues, which
\* a single node does not have.
IInv ==
    /\ OwnerInv
    /\ rewound \/ (TypeOK /\ StreamInv)
    /\ Cardinality(Nodes) = 1 => ~rewound

-----------------------------------------------------------------------------
\* Steps in which a connection is at most closed, cut off or given more to send

Fades(i) ==
    \/ conn'[i] = Gone
    \/ /\ Typed(conn'[i])
       /\ conn'[i].id = conn[i].id /\ conn'[i].dq = conn[i].dq /\ conn'[i].seq = conn[i].seq
       /\ conn'[i].reqId = conn[i].reqId /\ conn'[i].reqSeq = conn[i].reqSeq
       /\ conn'[i].reused = conn[i].reused
       /\ conn'[i].stage = conn[i].stage \/ conn'[i].stage \in {"stopped", "gone"}
       /\ \/ conn'[i].send = conn[i].send
          \/ /\ conn[i].stage # "populated"
             /\ \E m \in Message : m.kind # "hello" /\ conn'[i].send = Append(conn[i].send, m)
          \/ /\ conn[i].stage # "populated"
             /\ conn[i].send # << >> /\ Head(conn[i].send).kind # "hello"
             /\ conn'[i].send = Tail(conn[i].send)

LEMMA GoneIsOK ==
    \A c, s, h, cl, w : /\ QueueAt(c, Gone, s) /\ EmptiedAt(Gone, s, cl, w)
                        /\ AskedAt(Gone, h, cl, w) /\ CurrentAt(Gone, s, cl, w)
<1>1. Gone.id = 0 /\ Gone.stage = "gone" /\ Gone.dq = EmptyDeadQueue /\ Gone.send = << >>
  BY SpecialConns DEF Gone, Blank
<1> QED
  BY <1>1, EmptyIsShaped DEF QueueAt, EmptiedAt, AskedAt, CurrentAt, Asking

LEMMA FadedSend ==
    ASSUME TypeOK, NEW i \in Conns, Fades(i), conn'[i] # Gone
    PROVE  LET q == conn[i].send
               p == conn'[i].send
           IN  /\ \A k \in DOMAIN p : p[k].kind = "hello" =>
                     \/ k \in DOMAIN q /\ q[k] = p[k]
                     \/ k + 1 \in DOMAIN q /\ q[k + 1] = p[k]
               /\ q # << >> /\ q[1].kind = "hello" => p # << >> /\ p[1] = q[1]
               /\ conn[i].stage = "populated" => p = q
<1> DEFINE q == conn[i].send
           p == conn'[i].send
<1>1. q \in Seq(Message) /\ p \in Seq(Message)
  BY TypesOfState DEF Fades, Typed
<1>2. \/ p = q
      \/ conn[i].stage # "populated" /\ \E m \in Message : m.kind # "hello" /\ p = Append(q, m)
      \/ conn[i].stage # "populated" /\ q # << >> /\ Head(q).kind # "hello" /\ p = Tail(q)
  BY DEF Fades
<1> HIDE DEF p, q
<1>3. CASE p = q
  BY <1>3 DEF p, q
<1>4. CASE conn[i].stage # "populated" /\ \E m \in Message : m.kind # "hello" /\ p = Append(q, m)
  <2>1. PICK m \in Message : m.kind # "hello" /\ p = Append(q, m)
    BY <1>4
  <2>2. \A k \in DOMAIN p : IF k = Len(q) + 1 THEN p[k] = m ELSE k \in DOMAIN q /\ p[k] = q[k]
    BY <1>1, <2>1
  <2> QED
    BY <1>1, <1>4, <2>1, <2>2 DEF p, q
<1>5. CASE conn[i].stage # "populated" /\ q # << >> /\ Head(q).kind # "hello" /\ p = Tail(q)
  BY <1>1, <1>5 DEF p, q
<1> QED
  BY <1>2, <1>3, <1>4, <1>5 DEF p, q

LEMMA FadedConn ==
    ASSUME TypeOK, NEW i \in Conns, ConnOK(i), Fades(i), UNCHANGED <<stream, client, wire>>
    PROVE  ConnOK(i)'
<1>1. CASE conn'[i] = Gone
  BY <1>1, GoneIsOK DEF ConnOK
<1>2. CASE conn'[i] # Gone
  <2> DEFINE r == conn[i]
             t == conn'[i]
             s == stream[r.id]
  <2>1. /\ t.id = r.id /\ t.dq = r.dq /\ t.seq = r.seq /\ t.reqId = r.reqId
        /\ t.reqSeq = r.reqSeq /\ t.reused = r.reused
        /\ t.stage = r.stage \/ t.stage \in {"stopped", "gone"}
    BY <1>2 DEF Fades
  <2>2. QueueAt(i, r, s) /\ EmptiedAt(r, s, client, wire) /\ AskedAt(r, H(r.reqId), client, wire)
        /\ (client.conn = i => CurrentAt(r, s, client, wire))
    BY DEF ConnOK
  <2>3. r.send \in Seq(Message) /\ t.send \in Seq(Message)
    BY <1>2, TypesOfState DEF Fades, Typed
  <2> HIDE DEF r, t, s
  <2>4. \A k \in DOMAIN t.send :
          t.send[k].kind = "hello" => k = 1 /\ t.send[k].n = t.id /\ t.id # 0 /\ s = << >>
    <3> TAKE k \in DOMAIN t.send
    <3> HAVE t.send[k].kind = "hello"
    <3>1. \/ k \in DOMAIN r.send /\ r.send[k] = t.send[k]
          \/ k + 1 \in DOMAIN r.send /\ r.send[k + 1] = t.send[k]
      BY <1>2, FadedSend DEF r, t
    <3>2. k \in Nat /\ k >= 1
      BY <2>3
    <3>3. \A l \in DOMAIN r.send :
             r.send[l].kind = "hello" => l = 1 /\ r.send[l].n = r.id /\ r.id # 0 /\ s = << >>
      BY <2>2 DEF QueueAt
    <3> QED
      BY <2>1, <3>1, <3>2, <3>3
  <2>5. s = << >> /\ t.stage \in {"registered", "pumping"} => Greeting(i, t)
    <3> HAVE s = << >> /\ t.stage \in {"registered", "pumping"}
    <3>1. Greeting(i, r)
      BY <2>1, <2>2 DEF QueueAt
    <3>2. r.send # << >> /\ r.send[1].kind = "hello"
      BY <3>1 DEF Greeting, Hello
    <3>3. t.send # << >> /\ t.send[1] = r.send[1]
      BY <1>2, <3>2, FadedSend DEF r, t
    <3> QED
      BY <2>1, <3>1, <3>3 DEF Greeting
  <2>6. t.stage \in {"populated", "registered"} => Starting(i, t, s)
    <3>1. r.stage = "populated" => t.send = r.send
      BY <1>2, FadedSend DEF r, t
    <3> QED
      BY <2>1, <2>2, <3>1 DEF QueueAt, Starting
  <2>7. QueueAt(i, t, s)
    BY <2>1, <2>2, <2>4, <2>5, <2>6 DEF QueueAt
  <2>8. EmptiedAt(t, s, client, wire) /\ AskedAt(t, H(t.reqId), client, wire)
    BY <2>1, <2>2 DEF EmptiedAt, AskedAt, Asking
  <2>9. client.conn = i => CurrentAt(t, s, client, wire)
    BY <2>1, <2>2 DEF CurrentAt
  <2>10. s = stream'[t.id] /\ client' = client /\ wire' = wire /\ H(t.reqId) = Intact(stream'[t.reqId])
    BY <2>1 DEF s, H
  <2> QED
    BY <2>7, <2>8, <2>9, <2>10 DEF ConnOK, H, t
<1> QED
  BY <1>1, <1>2

\* The streams, the client and the frames under way stay.
LEMMA QuietStep ==
    ASSUME TypeOK, StreamInv, OwnersKept, UNCHANGED <<stream, client, wire>>,
           NEW C \in SUBSET Conns, \A c \in C : ConnOK(c)',
           \A i \in Conns \ C : Fades(i),
           \A c \in C : client.conn = c /\ conn'[c].stage = "pumping" => PumpsToWire'
    PROVE  StreamInv'
<1>1. \A c \in Conns : ConnOK(c)'
  BY FadedConn DEF StreamInv
<1>2. NothingUnissued' /\ stream'[0] = << >>
  BY DEF StreamInv, NothingUnissued, OwnersKept
<1>3. WireOK' /\ ClientOK'
  BY DEF StreamInv, WireOK, ClientOK, WireId, WireSeq, Running, Heads, StreamAgreement, H
<1>4. PumpsToWire'
  <2> SUFFICES ASSUME client.conn # 0, conn'[client.conn].stage = "pumping", client.conn \notin C
               PROVE  PumpsToWire'
    BY DEF PumpsToWire
  <2>1. client.conn \in Conns
    BY TypesOfState DEF Conns
  <2>2. Fades(client.conn) /\ conn'[client.conn] # Gone
    BY <2>1, SpecialConns
  <2>3. conn'[client.conn].id = conn[client.conn].id /\ conn[client.conn].stage = "pumping"
    BY <2>2 DEF Fades
  <2> QED
    BY <2>3 DEF StreamInv, PumpsToWire, WireId, Heads
<1> QED
  BY <1>1, <1>2, <1>3, <1>4 DEF StreamInv

Counters ==
    /\ published \in Nat
    /\ inbox \in [Nodes -> SUBSET Nat]
    /\ missed \subseteq Nat
    /\ rewound \in BOOLEAN
    /\ spent \in [faults : Nat, replies : Nat, errors : Nat]

ClientType ==
    [conn : 0 .. MaxConns, id : Nat, seq : Nat, stale : BOOLEAN,
     known : SUBSET Nat, received : Seq(Message), base : Nat]

LEMMA CountersAreTyped ==
    ASSUME TypeOK, Next
    PROVE  Counters'
<1> USE DEF Counters
<1>1. Counters
  BY DEF TypeOK
<1>2. ASSUME NEW n \in Nodes, HubBroadcast(n) PROVE Counters'
  BY <1>1, <1>2 DEF HubBroadcast
<1>3. ASSUME NEW n \in Nodes, HubPanic(n) PROVE Counters'
  BY <1>1, <1>3 DEF HubPanic, SpendFault
<1>4. ASSUME NEW n \in Nodes, Reap(n) \/ NodeCrash(n) PROVE Counters'
  BY <1>1, <1>4 DEF Reap, NodeCrash, SpendFault
<1>5. ASSUME NEW c \in Conns, PumpStart(c) PROVE Counters'
  <2>1. UNCHANGED <<published, inbox, missed, rewound>>
    BY <1>5 DEF PumpStart
  <2>2. UNCHANGED spent \/ WriteFailed(c)
    <3> DEFINE b(k) == k = Len(Drain(conn[c].dq, IndexInDeadQueue(conn[c].dq, conn[c].seq)))
    <3>1. \A k : (IF b(k) THEN UNCHANGED spent ELSE WriteFailed(c))
                   => UNCHANGED spent \/ WriteFailed(c)
      OBVIOUS
    <3> QED
      BY <1>5, <3>1 DEF PumpStart
  <2> QED
    BY <1>1, <2>1, <2>2 DEF WriteFailed
<1>6. ASSUME NEW c \in Conns, PumpSend(c) PROVE Counters'
  <2>1. CASE UNCHANGED <<missed, spent>>
    BY <1>1, <1>6, <2>1 DEF PumpSend
  <2>2. CASE WriteFailed(c) /\ UNCHANGED missed
    BY <1>1, <1>6, <2>2 DEF PumpSend, WriteFailed
  <2>3. CASE /\ spent' = [spent EXCEPT !.errors = @ + 1]
             /\ missed' = missed \cup {Head(conn[c].send).n}
             /\ conn[c].send # << >>
    <3>1. Head(conn[c].send) \in Message
      BY <2>3, TypesOfState DEF Typed
    <3>2. Head(conn[c].send).n \in Nat
      BY <3>1 DEF Message
    <3> QED
      BY <1>1, <1>6, <2>3, <3>2 DEF PumpSend
  <2> QED
    BY <1>6, <2>1, <2>2, <2>3 DEF PumpSend
<1>7. ASSUME NEW c \in Conns, PumpReply(c) \/ PumpClose(c) \/ PumpStop(c) \/ Unregister(c)
      PROVE Counters'
  BY <1>1, <1>7 DEF PumpReply, PumpClose, PumpStop, Unregister, WriteFailed
<1>8. ASSUME NEW c \in Conns, Handshake(c) PROVE Counters'
  BY <1>1, <1>8 DEF Handshake, NewConnection, ClusterLookup, LocalLookup, Register
<1>9. ASSUME NEW c \in Conns, Answer(c) \/ ClusterLookupFails(c) \/ RegisterFails(c)
      PROVE Counters'
  BY <1>1, <1>9 DEF Answer, ClusterLookupFails, RegisterFails, SpendFault
<1>10. CASE Client
  <2>1. CASE \E n \in Nodes : ClientConnect(n)
    BY <1>1, <2>1 DEF ClientConnect
  <2>2. CASE ClientReceive
    BY <1>1, <2>2 DEF ClientReceive
  <2>3. CASE ClientDisconnect \/ ClientNotice \/ Refetch
    BY <1>1, <2>3 DEF ClientDisconnect, ClientNotice, Refetch, Detach, SpendFault
  <2> QED
    BY <1>10, <2>1, <2>2, <2>3 DEF Client
<1>11. CASE Publish
  BY <1>1, <1>11 DEF Publish
<1> QED
  BY <1>2, <1>3, <1>4, <1>5, <1>6, <1>7, <1>8, <1>9, <1>10, <1>11 DEF Next, Hub, Pump

LEMMA TypeOKIs ==
    ASSUME OwnersKept, Counters', \A c \in Conns : Typed(conn'[c]),
           stream' \in [Ids -> Seq(Recorded)], wire' \in Seq(Entry), client' \in ClientType
    PROVE  TypeOK'
<1>1. conn' \in [Conns -> ConnType]
  <2>1. conn' = [c \in Conns |-> conn'[c]]
    BY DEF OwnersKept, OwnerInv, Shape
  <2> QED
    BY <2>1, TypedConn
<1>2. index' \in [Nodes -> SUBSET Conns]
  BY DEF OwnersKept, OwnerInv, Shape
<1> QED
  BY <1>1, <1>2 DEF TypeOK, Counters, ClientType, Recorded

LEMMA QuietTypes ==
    ASSUME TypeOK, OwnersKept, Counters', UNCHANGED <<stream, client, wire>>,
           \A c \in Conns : Typed(conn'[c])
    PROVE  TypeOK'
<1>1. stream' \in [Ids -> Seq(Recorded)] /\ wire' \in Seq(Entry) /\ client' \in ClientType
  BY DEF TypeOK, Recorded, ClientType
<1> QED
  BY <1>1, TypeOKIs

StreamsKept == TypeOK' /\ StreamInv'

LEMMA SameFades ==
    ASSUME TypeOK, NEW i \in Conns, conn'[i] = conn[i] \/ conn'[i] = Gone
    PROVE  Fades(i)
BY TypesOfState DEF Fades

LEMMA FadesTyped ==
    ASSUME NEW i \in Conns, Fades(i)
    PROVE  Typed(conn'[i])
BY BlankIsTyped DEF Fades

LEMMA AllFade ==
    ASSUME TypeOK, StreamInv, OwnersKept, Counters', UNCHANGED <<stream, client, wire>>,
           \A i \in Conns : Fades(i)
    PROVE  StreamsKept
<1>1. StreamInv'
  <2>1. /\ {} \in SUBSET Conns /\ \A c \in {} : ConnOK(c)'
        /\ \A i \in Conns \ {} : Fades(i)
        /\ \A c \in {} : client.conn = c /\ conn'[c].stage = "pumping" => PumpsToWire'
    OBVIOUS
  <2> QED
    BY <2>1, QuietStep
<1> QED
  BY <1>1, QuietTypes, FadesTyped DEF StreamsKept

LEMMA OfferStreams ==
    ASSUME TypeOK, StreamInv, OwnerInv, OwnersKept, Counters', UNCHANGED <<stream, client, wire>>,
           NEW n \in Nodes, NEW C \in SUBSET index[n],
           NEW m \in Message, m.kind # "hello", Offer(n, C, m)
    PROVE  StreamsKept
<1>1. ASSUME NEW i \in Conns PROVE Fades(i)
  <2>1. Typed(conn[i])
    BY TypesOfState
  <2>2. conn'[i] = IF i \notin C THEN conn[i]
                    ELSE IF Full(i) THEN Overflown(conn[i])
                    ELSE [conn[i] EXCEPT !.send = Append(@, m)]
    BY DEF Offer
  <2>3. CASE i \notin C \/ (Full(i) /\ conn[i].stage = "gone")
    BY <2>2, <2>3, SameFades DEF Overflown
  <2>4. CASE i \in C /\ Full(i) /\ conn[i].stage # "gone"
    <3>1. conn'[i] = [conn[i] EXCEPT !.closed = TRUE]
      BY <2>2, <2>4 DEF Overflown
    <3> QED
      BY <2>1, <3>1 DEF Fades, Typed, Fields
  <2>5. CASE i \in C /\ ~Full(i)
    <3>1. conn'[i] = [conn[i] EXCEPT !.send = Append(@, m)]
      BY <2>2, <2>5
    <3>2. conn[i].stage # "populated"
      BY <2>5 DEF OwnerInv, Indexed, IndexedAt
    <3>3. Append(conn[i].send, m) \in Seq(Message)
      BY <2>1 DEF Typed
    <3> QED
      BY <2>1, <3>1, <3>2, <3>3 DEF Fades, Typed, Fields
  <2> QED
    BY <2>3, <2>4, <2>5
<1> QED
  BY <1>1, AllFade

LEMMA RemovedFades ==
    ASSUME TypeOK, NEW f, NEW C, conn' = Removed(f, C), NEW i \in Conns, f[i] = conn[i]
    PROVE  Fades(i)
BY SameFades DEF Removed

LEMMA HubStreams ==
    ASSUME TypeOK, StreamInv, OwnerInv, OwnersKept, Counters',
           NEW n \in Nodes, HubBroadcast(n) \/ Reap(n) \/ HubPanic(n) \/ NodeCrash(n)
    PROVE  StreamsKept
<1>1. CASE HubBroadcast(n)
  <2>1. PICK e \in inbox[n] : Offer(n, index[n], Event(e))
    BY <1>1 DEF HubBroadcast
  <2>2. Event(e) \in Message /\ Event(e).kind # "hello"
    BY DEF Event, Message, TypeOK
  <2>3. UNCHANGED <<stream, client, wire>>
    BY <1>1 DEF HubBroadcast
  <2> QED
    BY <2>1, <2>2, <2>3, OfferStreams
<1>2. CASE Reap(n) \/ HubPanic(n)
  <2>1. UNCHANGED <<stream, client, wire>>
    BY <1>2 DEF Reap, HubPanic
  <2>2. \E C : conn' = Removed(conn, C)
    BY <1>2 DEF Reap, HubPanic
  <2> QED
    BY <2>1, <2>2, RemovedFades, AllFade
<1>3. CASE NodeCrash(n)
  <2>1. UNCHANGED <<stream, client, wire>>
    BY <1>3 DEF NodeCrash
  <2>2. \A i \in Conns : conn'[i] = conn[i] \/ conn'[i] = Gone
    BY <1>3 DEF NodeCrash
  <2> QED
    BY <2>1, <2>2, SameFades, AllFade
<1> QED
  BY <1>1, <1>2, <1>3

LEMMA AnswerStreams ==
    ASSUME TypeOK, StreamInv, OwnerInv, OwnersKept, Counters', NEW c \in Conns, Answer(c)
    PROVE  StreamsKept
<1>1. conn[c].node \in Nodes /\ {c} \subseteq index[conn[c].node]
  BY DEF Answer, OwnerInv, Shape, FieldsOK
<1>2. Reply \in Message /\ Reply.kind # "hello"
  BY DEF Reply, Message
<1> QED
  BY <1>1, <1>2, OfferStreams DEF Answer

LEMMA RegisterFailsStreams ==
    ASSUME TypeOK, StreamInv, OwnersKept, Counters', NEW c \in Conns, RegisterFails(c)
    PROVE  StreamsKept
<1>1. UNCHANGED <<stream, client, wire>>
  BY DEF RegisterFails
<1>2. \A i \in Conns : conn'[i] = conn[i] \/ conn'[i] = Gone
  BY TypesOfState DEF RegisterFails
<1> QED
  BY <1>1, <1>2, SameFades, AllFade

LEMMA PumpRestStreams ==
    ASSUME TypeOK, StreamInv, OwnersKept, Counters', NEW c \in Conns,
           PumpReply(c) \/ PumpClose(c) \/ PumpStop(c) \/ Unregister(c)
    PROVE  StreamsKept
<1>1. UNCHANGED <<stream, client, wire>>
  BY DEF PumpReply, PumpClose, PumpStop, Unregister
<1>2. Typed(conn[c]) /\ conn = [i \in Conns |-> conn[i]]
  BY TypesOfState
<1>3. \A i \in Conns \ {c} : conn'[i] = conn[i]
  BY <1>2 DEF PumpReply, PumpClose, PumpStop, Unregister
<1>4. CASE PumpReply(c)
  <2>1. conn'[c] = [conn[c] EXCEPT !.send = Tail(@)]
    BY <1>2, <1>4 DEF PumpReply
  <2>2. Tail(conn[c].send) \in Seq(Message) /\ conn[c].send # << >> /\ conn[c].stage = "pumping"
    BY <1>2, <1>4 DEF PumpReply, Typed
  <2>3. Head(conn[c].send).kind # "hello"
    BY <1>4 DEF PumpReply
  <2>4. Fades(c)
    BY <1>2, <2>1, <2>2, <2>3 DEF Fades, Typed, Fields
  <2> QED
    BY <1>1, <1>3, <2>4, SameFades, AllFade
<1>5. CASE PumpClose(c) \/ PumpStop(c)
  <2>1. conn'[c] = [conn[c] EXCEPT !.stage = "stopped"]
    BY <1>2, <1>5 DEF PumpClose, PumpStop
  <2>2. Fades(c)
    BY <1>2, <2>1 DEF Fades, Typed, Fields, Stages
  <2> QED
    BY <1>1, <1>3, <2>2, SameFades, AllFade
<1>6. CASE Unregister(c)
  <2>1. conn'[c] = [conn[c] EXCEPT !.stage = "gone", !.active = FALSE] \/ conn'[c] = Gone
    BY <1>2, <1>6 DEF Unregister
  <2>2. Fades(c)
    BY <1>2, <2>1 DEF Fades, Typed, Fields, Stages
  <2> QED
    BY <1>1, <1>3, <2>2, SameFades, AllFade
<1> QED
  BY <1>4, <1>5, <1>6

-----------------------------------------------------------------------------
\* What a dead queue that agrees with its stream gives a client that comes back

NoHelloAgain(dq) ==
    \A k \in 1 .. Count(dq) : Nth(dq, k).msg.kind = "hello" => Nth(dq, k).seq = 0

\* No loss: the client's next message is the next one to be numbered.
LEMMA NoLossIsLast ==
    ASSUME NEW dq \in Queue, Shaped(dq), NEW s \in Seq(Recorded), NEW b \in Nat,
           Holding(dq, b, s), NEW seq \in 0 .. Intact(s), Count(dq) > 0, ~HasMsgLoss(dq, seq)
    PROVE  seq = Intact(s) /\ b = Count(dq)
<1>1. Nth(dq, Count(dq)).seq = seq - 1
  BY LossInQueue
<1>2. Count(dq) \in Nat /\ b <= Count(dq) /\ Intact(s) \in Nat
  BY QueueFields, IntactPart DEF Holding, Numbered
<1>3. CASE b < Count(dq)
  <2>1. Nth(dq, Count(dq)).seq > Intact(s)
    BY <1>2, <1>3 DEF Holding, Numbered
  <2> QED
    BY <1>1, <1>2, <2>1
<1>4. CASE b = Count(dq)
  <2>1. Nth(dq, Count(dq)).seq = Intact(s) - b + Count(dq) - 1
    BY <1>2, <1>4 DEF Holding, Numbered
  <2> QED
    BY <1>1, <1>2, <1>4, <2>1
<1> QED
  BY <1>2, <1>3, <1>4

\* The entries sent again from number seq on: first what the stream still misses,
\* then only what lies past its first hole.
SentAgain(sent, seq, s) ==
    /\ sent \in Seq(Entry) /\ Len(sent) <= DeadQueueSize
    /\ Intact(s) - seq \in 1 .. Len(sent)
    /\ \A k \in 1 .. (Intact(s) - seq) : sent[k].seq = seq + k - 1 /\ sent[k].msg = s[seq + k]
    /\ \A k \in (Intact(s) - seq + 1) .. Len(sent) : sent[k].seq > Intact(s)
    /\ \A k \in 1 .. Len(sent) : sent[k].msg.kind # "hello"

LEMMA SameNumber ==
    ASSUME NEW h \in Int, NEW b \in Int, NEW i \in Int, NEW seq \in Int, NEW k \in Int,
           h - seq = b - i + 1
    PROVE  h - b + (i + k - 1) = seq + k /\ h - b + (i + k - 1) - 1 = seq + k - 1
OBVIOUS

LEMMA SeqOf ==
    ASSUME NEW S, NEW n \in Nat, NEW f \in [1 .. n -> S]
    PROVE  f \in Seq(S) /\ Len(f) = n
OBVIOUS

LEMMA DrainSendsAgain ==
    ASSUME NEW dq \in Queue, Shaped(dq), NoHelloAgain(dq),
           NEW s \in Seq(Recorded), NEW b \in Nat, Holding(dq, b, s),
           NEW seq \in 1 .. Intact(s), IsInDeadQueue(dq, seq)
    PROVE  LET sent == Drain(dq, IndexInDeadQueue(dq, seq))
           IN  /\ SentAgain(sent, seq, s)
               /\ Len(sent) = Intact(s) - seq => b = Count(dq)
<1> DEFINE h == Intact(s)
           sent == Drain(dq, IndexInDeadQueue(dq, seq))
<1>1. h \in Nat /\ Count(dq) \in Nat /\ Count(dq) <= DeadQueueSize /\ b <= Count(dq) /\ b <= h
      /\ DeadQueueSize \in Nat
  BY IntactPart, QueueFields DEF Holding, Numbered
<1>2. Numbered(dq, b, h) /\ seq \in 0 .. h
  BY <1>1 DEF Holding
<1>3. PICK i \in 1 .. b : i = seq - h + b + 1 /\ IndexInDeadQueue(dq, seq) = SlotOf(dq, i)
  BY <1>1, <1>2, FoundNumbered
<1>4. PICK p \in i .. Count(dq) :
         /\ b = Count(dq) => p = Count(dq)
         /\ b < Count(dq) => p > b
         /\ Drain(dq, SlotOf(dq, i)) = [k \in 1 .. (p - i + 1) |-> Nth(dq, i + k - 1)]
  BY <1>1, <1>2, <1>3, DrainNumbered
<1>a. /\ i \in Nat /\ p \in Nat /\ 1 <= i /\ i <= b /\ i <= p /\ p <= Count(dq)
      /\ b = Count(dq) => p = Count(dq)
      /\ b < Count(dq) => p > b
      /\ h - seq = b - i + 1
  <2>1. i \in 1 .. b /\ i = seq - h + b + 1 /\ p \in i .. Count(dq)
    BY <1>3, <1>4
  <2>2. b \in Nat /\ h \in Nat /\ seq \in Nat /\ Count(dq) \in Nat
    BY <1>1, <1>2
  <2>3. /\ b = Count(dq) => p = Count(dq)
        /\ b < Count(dq) => p > b
    BY <1>4
  <2> HIDE DEF h
  <2> QED
    BY <2>1, <2>2, <2>3
<1>5. sent = [k \in 1 .. (p - i + 1) |-> Nth(dq, i + k - 1)] /\ p - i + 1 \in Nat
  BY <1>3, <1>4, <1>a
<1> HIDE DEF sent
<1>6. \A k \in 1 .. (p - i + 1) : i + k - 1 \in 1 .. Count(dq) /\ Nth(dq, i + k - 1) \in Entry
  <2> TAKE k \in 1 .. (p - i + 1)
  <2>1. i + k - 1 \in 1 .. Count(dq)
    BY <1>1, <1>a
  <2> QED
    BY <2>1, SlotHolds
<1>7. sent \in Seq(Entry) /\ Len(sent) = p - i + 1
  <2>1. sent \in [1 .. (p - i + 1) -> Entry]
    BY <1>5, <1>6
  <2> QED
    BY <1>5, <2>1, SeqOf
<1>8. Len(sent) <= DeadQueueSize /\ h - seq \in 1 .. Len(sent)
  BY <1>1, <1>a, <1>7
<1>9. ASSUME NEW k \in 1 .. (h - seq)
      PROVE  sent[k].seq = seq + k - 1 /\ sent[k].msg = s[seq + k]
  <2>1. k \in 1 .. (p - i + 1) /\ i + k - 1 \in 1 .. b
    BY <1>1, <1>a, <1>7, <1>8
  <2>2. sent[k] = Nth(dq, i + k - 1)
    BY <1>5, <2>1
  <2>3. Nth(dq, i + k - 1).seq = h - b + (i + k - 1) - 1
    BY <1>2, <2>1 DEF Numbered
  <2>4. Nth(dq, i + k - 1).msg = s[h - b + (i + k - 1)]
    BY <2>1 DEF Holding
  <2>a. k \in Int /\ seq \in Int /\ b \in Int /\ h \in Int /\ i \in Int /\ h - seq = b - i + 1
    BY <1>1, <1>a
  <2>5. h - b + (i + k - 1) = seq + k /\ h - b + (i + k - 1) - 1 = seq + k - 1
    BY <2>a, SameNumber
  <2> QED
    BY <2>2, <2>3, <2>4, <2>5
<1>10. ASSUME NEW k \in (h - seq + 1) .. Len(sent)
       PROVE  sent[k].seq > h
  <2>a. /\ k \in Int /\ h - seq + 1 <= k /\ k <= p - i + 1 /\ k >= 1
        /\ b \in Int /\ Count(dq) \in Int
    BY <1>1, <1>a, <1>7, <1>8
  <2>1. k \in 1 .. (p - i + 1) /\ i + k - 1 \in (b + 1) .. Count(dq)
    BY <1>a, <2>a
  <2> QED
    BY <1>2, <1>5, <2>1 DEF Numbered
<1>11. ASSUME NEW k \in 1 .. Len(sent)
       PROVE  sent[k].msg.kind # "hello"
  <2>1. sent[k] = Nth(dq, i + k - 1) /\ i + k - 1 \in 1 .. Count(dq)
    BY <1>5, <1>6, <1>7
  <2>2. sent[k].seq # 0
    <3>1. CASE k <= h - seq
      <4>1. k \in 1 .. (h - seq)
        BY <1>1, <3>1
      <4>2. sent[k].seq = seq + k - 1
        BY <4>1, <1>9
      <4> QED
        BY <1>1, <4>1, <4>2
    <3>2. CASE k > h - seq
      <4>1. sent[k].seq > h
        BY <1>1, <1>7, <1>10, <3>2
      <4>2. sent[k] \in Entry
        BY <1>7
      <4> QED
        BY <1>1, <4>1, <4>2, EntryIsSomething
    <3> QED
      BY <1>1, <1>7, <3>1, <3>2
  <2> QED
    BY <2>1, <2>2 DEF NoHelloAgain
<1>12. Len(sent) = h - seq => b = Count(dq)
  BY <1>1, <1>a, <1>7
<1> QED
  BY <1>7, <1>8, <1>9, <1>10, <1>11, <1>12 DEF SentAgain, sent

LEMMA RefilledHolds ==
    ASSUME NEW s \in Seq(Recorded), NEW seq \in 1 .. Intact(s),
           NEW sent, SentAgain(sent, seq, s)
    PROVE  LET dq == Refill(sent) IN
           /\ dq \in Queue /\ Shaped(dq) /\ NoHelloAgain(dq) /\ Count(dq) > 0
           /\ \E b \in Nat : Holding(dq, b, s)
<1> DEFINE dq == Refill(sent)
           h == Intact(s)
           b == h - seq
<1>1. h \in Nat /\ sent \in Seq(Entry) /\ Len(sent) <= DeadQueueSize /\ b \in 1 .. Len(sent)
  BY IntactPart DEF SentAgain
<1>2. /\ dq \in Queue /\ Shaped(dq) /\ Count(dq) = Len(sent)
      /\ \A k \in 1 .. Len(sent) : Nth(dq, k) = sent[k]
  BY <1>1, RefilledQueue
<1> HIDE DEF dq
<1>3. NoHelloAgain(dq)
  BY <1>2 DEF NoHelloAgain, SentAgain
<1>4. \A k \in 1 .. b : Nth(dq, k).seq = h - b + k - 1 /\ Nth(dq, k).msg = s[h - b + k]
  <2> TAKE k \in 1 .. b
  <2>1. Nth(dq, k) = sent[k] /\ sent[k].seq = seq + k - 1 /\ sent[k].msg = s[seq + k]
    BY <1>1, <1>2 DEF SentAgain
  <2>2. h - b = seq
    BY <1>1
  <2> QED
    BY <2>1, <2>2
<1>5. \A k \in (b + 1) .. Count(dq) : Nth(dq, k).seq > h
  BY <1>1, <1>2 DEF SentAgain
<1>6. b \in Nat /\ b \in 0 .. Count(dq) /\ b <= h
  BY <1>1, <1>2
<1>7. Holding(dq, b, s)
  BY <1>4, <1>5, <1>6 DEF Holding, Numbered
<1>8. \E c \in Nat : Holding(dq, c, s)
  BY <1>6, <1>7
<1> QED
  BY <1>1, <1>2, <1>3, <1>8 DEF dq

-----------------------------------------------------------------------------
\* The handshake

LEMMA EmptyHolds ==
    ASSUME NEW s \in Seq(Recorded)
    PROVE  Holding(EmptyDeadQueue, 0, s) /\ NoHelloAgain(EmptyDeadQueue)
BY IntactPart, EmptyIsShaped DEF Holding, Numbered, NoHelloAgain

LEMMA FreshConn ==
    ASSUME TypeOK, StreamInv, OwnerInv, NEW c \in Conns,
           conn[c].stage \in {"upgraded", "asked"}, conn'[c] = Fresh(c),
           UNCHANGED <<stream, client, wire>>
    PROVE  Typed(conn'[c]) /\ ConnOK(c)' /\ conn'[c].stage = "populated"
<1> DEFINE r == conn[c]
           t == conn'[c]
<1>1. Typed(r) /\ c \in Ids /\ c # 0
  BY TypesOfState DEF Conns, Ids
<1>2. t = [r EXCEPT !.stage = "populated", !.id = c, !.active = TRUE]
  BY DEF Fresh
<1>3. /\ Typed(t) /\ t.stage = "populated" /\ t.id = c /\ t.dq = r.dq /\ t.send = r.send
      /\ t.seq = r.seq /\ t.reqId = r.reqId /\ t.reqSeq = r.reqSeq /\ t.reused = r.reused
  <2> HIDE DEF t, r
  <2> QED
    BY <1>1, <1>2 DEF Typed, Fields, Stages
<1>4. r.send = << >> /\ r.dq = EmptyDeadQueue /\ r.seq = 0 /\ ~r.reused
  BY DEF OwnerInv, Lifecycle, Alive, NoWriter, NoWriterYet
<1>5. stream[c] = << >>
  BY FreshOwner DEF StreamInv, NothingUnissued
<1>6. /\ AskedAt(r, H(r.reqId), client, wire)
      /\ client.conn = c => CurrentAt(r, stream[r.id], client, wire)
  BY DEF StreamInv, ConnOK
<1> HIDE DEF t, r
<1>7. QueueAt(c, t, << >>)
  <2>1. Holding(t.dq, 0, << >>) /\ 0 \in Nat
    BY <1>3, <1>4, EmptyHolds, EmptyStream
  <2> QED
    BY <1>1, <1>3, <1>4, <2>1, EmptyIsShaped DEF QueueAt, Starting, Greeting
<1>8. EmptiedAt(t, << >>, client, wire)
  BY DEF EmptiedAt
<1>9. AskedAt(t, H(t.reqId), client, wire)
  BY <1>3, <1>6 DEF AskedAt, Asking, r
<1>10. client.conn = c => CurrentAt(t, << >>, client, wire)
  BY <1>3, <1>6 DEF CurrentAt, r
<1>11. /\ stream'[conn'[c].id] = << >> /\ client' = client /\ wire' = wire
       /\ H(conn[c].reqId)' = H(t.reqId)
  BY <1>3, <1>5 DEF t, H
<1> QED
  BY <1>3, <1>7, <1>8, <1>9, <1>10, <1>11 DEF ConnOK, H, t

LEMMA ResumedConn ==
    ASSUME TypeOK, StreamInv, OwnerInv, NEW c \in Conns,
           conn[c].stage \in {"upgraded", "asked"}, conn[c].reqId # 0,
           NEW n \in Nodes, NEW d \in Inactive(n, conn[c].reqId),
           NEW dq \in Queue, Shaped(dq), NoHelloAgain(dq),
           \E b \in Nat : Holding(dq, b, stream[conn[c].reqId]),
           Count(dq) = 0 => Cardinality(Nodes) > 1 /\ conn[c].reqSeq = H(conn[c].reqId),
           conn'[c] = Resumed(c, conn[d].send, dq),
           UNCHANGED <<stream, client, wire>>
    PROVE  Typed(conn'[c]) /\ ConnOK(c)' /\ conn'[c].stage = "populated"
<1> DEFINE r == conn[c]
           t == conn'[c]
           q == conn[d].send
           i == r.reqId
<1>1. Typed(r) /\ Typed(conn[d]) /\ d \in Conns /\ conn[d].id = i /\ i \in Ids
  BY InactiveIsGone, TypesOfState
<1>2. t = [r EXCEPT !.stage = "populated", !.id = i, !.send = q, !.dq = dq,
                    !.seq = r.reqSeq, !.reused = TRUE]
  BY DEF Resumed
<1>3. /\ Typed(t) /\ t.stage = "populated" /\ t.id = i /\ t.dq = dq /\ t.send = q
      /\ t.seq = r.reqSeq /\ t.reqId = i /\ t.reqSeq = r.reqSeq /\ t.reused
  <2>1. q \in Seq(Message) /\ i \in Ids /\ r.reqSeq \in Nat
    BY <1>1 DEF Typed
  <2> HIDE DEF t, q
  <2> QED
    BY <1>1, <1>2, <2>1 DEF Typed, Fields, Stages
<1>4. c # i
  <2>1. Unissued(c)
    BY FreshOwner
  <2> QED
    BY <1>1, <2>1 DEF OwnerInv, FreshIds
<1>5. /\ AskedAt(r, H(i), client, wire)
      /\ client.conn = c => CurrentAt(r, stream[r.id], client, wire)
      /\ QueueAt(d, conn[d], stream[i])
  BY <1>1 DEF StreamInv, ConnOK
<1>6. r.reqSeq \in 1 .. H(i) /\ (client.id = i => r.reqSeq <= client.seq)
      /\ (Heads(wire) => wire[1].msg.n # i)
  BY <1>5 DEF AskedAt, Asking
<1>7. stream[i] # << >> /\ H(i) \in Nat
  <2>1. stream[i] \in Seq(Recorded)
    BY <1>1, TypesOfState
  <2> QED
    BY <1>6, <2>1, EmptyStream, IntactPart DEF H
<1>8. \A k \in DOMAIN q : q[k].kind # "hello"
  BY <1>5, <1>7 DEF QueueAt
<1> HIDE DEF t, q
<1>9. QueueAt(c, t, stream[i])
  BY <1>3, <1>4, <1>7, <1>8 DEF QueueAt, Starting, Greeting, NoHelloAgain, H
<1>10. EmptiedAt(t, stream[i], client, wire)
  <2>1. client.id = i => client.seq <= H(i)
    BY DEF StreamInv, ClientOK
  <2>2. client.seq \in Nat
    BY TypesOfState
  <2> QED
    BY <1>3, <1>6, <1>7, <2>1, <2>2 DEF EmptiedAt, H
<1>11. AskedAt(t, H(i), client, wire)
  BY <1>3, <1>5 DEF AskedAt, Asking
<1>12. client.conn = c => CurrentAt(t, stream[i], client, wire)
  BY <1>3, <1>5, <1>7 DEF CurrentAt
<1>13. /\ stream'[conn'[c].id] = stream[i] /\ client' = client /\ wire' = wire
       /\ H(conn[c].reqId)' = H(i) /\ conn'[c].reqId = i
  BY <1>3 DEF t, H
<1> QED
  BY <1>3, <1>9, <1>10, <1>11, <1>12, <1>13 DEF ConnOK, H, t

\* A step of a handshake c that does not reach its write pump.
LEMMA OneStarts ==
    ASSUME TypeOK, StreamInv, OwnersKept, Counters', UNCHANGED <<stream, client, wire>>,
           NEW c \in Conns, Typed(conn'[c]), ConnOK(c)', conn'[c].stage # "pumping",
           \A i \in Conns \ {c} : Fades(i)
    PROVE  StreamsKept
<1>1. StreamInv'
  <2>1. {c} \in SUBSET Conns
    OBVIOUS
  <2> QED
    BY <2>1, QuietStep
<1>2. \A i \in Conns : Typed(conn'[i])
  BY FadesTyped
<1> QED
  BY <1>1, <1>2, QuietTypes DEF StreamsKept

LEMMA NewConnectionStreams ==
    ASSUME TypeOK, StreamInv, OwnerInv, OwnersKept, Counters', NEW c \in Conns, NewConnection(c)
    PROVE  StreamsKept
<1>1. UNCHANGED <<stream, client, wire>> /\ conn[c].stage = "upgraded"
  BY DEF NewConnection
<1>2. conn'[c] = Fresh(c) /\ \A i \in Conns \ {c} : conn'[i] = conn[i]
  BY TypesOfState DEF NewConnection
<1>3. \A i \in Conns \ {c} : Fades(i)
  BY <1>2, SameFades
<1> QED
  BY <1>1, <1>2, <1>3, FreshConn, OneStarts

LEMMA ClusterLookupFailsStreams ==
    ASSUME TypeOK, StreamInv, OwnerInv, OwnersKept, Counters', NEW c \in Conns,
           ClusterLookupFails(c)
    PROVE  StreamsKept
<1>1. UNCHANGED <<stream, client, wire>> /\ conn[c].stage = "upgraded"
  BY DEF ClusterLookupFails
<1>2. PICK C \in SUBSET UNION {Inactive(n, conn[c].reqId) : n \in Nodes \ {conn[c].node}} :
          conn' = Removed([conn EXCEPT ![c] = Fresh(c)], C)
  BY DEF ClusterLookupFails
<1>3. conn'[c] = Fresh(c)
  BY <1>1, <1>2, FreshOwner, TypesOfState DEF Removed
<1>4. ASSUME NEW i \in Conns \ {c} PROVE Fades(i)
  <2>1. [conn EXCEPT ![c] = Fresh(c)][i] = conn[i]
    BY TypesOfState
  <2> QED
    BY <1>2, <2>1, RemovedFades
<1> QED
  BY <1>1, <1>3, <1>4, FreshConn, OneStarts

LEMMA LocalLookupStreams ==
    ASSUME TypeOK, StreamInv, OwnerInv, OwnersKept, Counters', ~rewound', NEW c \in Conns,
           LocalLookup(c)
    PROVE  StreamsKept
<1>1. /\ UNCHANGED <<stream, client, wire>> /\ conn[c].stage \in {"upgraded", "asked"}
      /\ conn[c].reqId # 0 /\ conn[c].node \in Nodes
  BY TypesOfState DEF LocalLookup, Typed
<1>2. CASE conn' = [conn EXCEPT ![c] = Fresh(c)]
  <2>1. conn'[c] = Fresh(c) /\ \A i \in Conns \ {c} : conn'[i] = conn[i]
    BY <1>2, TypesOfState
  <2>2. \A i \in Conns \ {c} : Fades(i)
    BY <2>1, SameFades
  <2> QED
    BY <1>1, <2>1, <2>2, FreshConn, OneStarts
<1>3. ASSUME NEW d \in Inactive(conn[c].node, conn[c].reqId),
             conn' = Removed([conn EXCEPT ![c] = Resumed(c, conn[d].send, conn[d].dq)], {d}),
             rewound' = (rewound \/ Rewinds(c, d))
      PROVE  StreamsKept
  <2> DEFINE i == conn[c].reqId
             dq == conn[d].dq
  <2>1. d \in Conns /\ conn[d].id = i /\ d # c /\ conn[d].stage = "gone"
    BY <1>1, InactiveIsGone
  <2>2. /\ QueueAt(d, conn[d], stream[i]) /\ EmptiedAt(conn[d], stream[i], client, wire)
        /\ dq \in Queue
    BY <2>1, TypesOfState DEF StreamInv, ConnOK, Typed
  <2>3. /\ Shaped(dq) /\ NoHelloAgain(dq)
        /\ \E b \in Nat : Holding(dq, b, stream[i])
    BY <1>1, <2>1, <2>2 DEF QueueAt, NoHelloAgain
  <2>4. ASSUME Count(dq) = 0 PROVE Cardinality(Nodes) > 1 /\ conn[c].reqSeq = H(i)
    <3>1. client.conn = c
      BY <1>3, <2>2, <2>3, <2>4, NothingWrittenIffEmpty DEF Rewinds
    <3>2. conn[c].reqSeq = client.seq /\ client.id = i
      BY <1>1, <3>1 DEF StreamInv, ConnOK, CurrentAt
    <3>3. stream[i] # << >>
      <4>1. conn[c].reqSeq \in 1 .. H(i)
        BY <1>1 DEF StreamInv, ConnOK, AskedAt, Asking
      <4> QED
        BY <4>1, EmptyStream DEF H
    <3> QED
      BY <1>1, <2>1, <2>2, <2>4, <3>2, <3>3 DEF EmptiedAt, H
  <2>5. conn'[c] = Resumed(c, conn[d].send, dq)
    BY <1>3, <2>1, TypesOfState DEF Removed
  <2>6. Typed(conn'[c]) /\ ConnOK(c)' /\ conn'[c].stage = "populated"
    BY <1>1, <2>2, <2>3, <2>4, <2>5, ResumedConn
  <2>7. ASSUME NEW k \in Conns \ {c} PROVE Fades(k)
    <3>1. [conn EXCEPT ![c] = Resumed(c, conn[d].send, conn[d].dq)][k] = conn[k]
      BY TypesOfState
    <3> QED
      BY <1>3, <3>1, RemovedFades
  <2> QED
    BY <1>1, <2>6, <2>7, OneStarts
<1> QED
  BY <1>2, <1>3 DEF LocalLookup

LEMMA AskedConn ==
    ASSUME TypeOK, StreamInv, OwnerInv, NEW c \in Conns, conn[c].stage = "upgraded",
           conn'[c] = [conn[c] EXCEPT !.stage = "asked"], UNCHANGED <<stream, client, wire>>
    PROVE  Typed(conn'[c]) /\ ConnOK(c)' /\ conn'[c].stage = "asked"
<1> DEFINE r == conn[c]
           t == conn'[c]
<1>1. Typed(r) /\ t = [r EXCEPT !.stage = "asked"] /\ r.stage = "upgraded"
  BY TypesOfState
<1>2. /\ QueueAt(c, r, stream[r.id]) /\ EmptiedAt(r, stream[r.id], client, wire)
      /\ AskedAt(r, H(r.reqId), client, wire)
      /\ client.conn = c => CurrentAt(r, stream[r.id], client, wire)
  BY DEF StreamInv, ConnOK
<1> HIDE DEF t, r
<1>3. /\ Typed(t) /\ t.stage = "asked" /\ t.id = r.id /\ t.dq = r.dq /\ t.send = r.send
      /\ t.seq = r.seq /\ t.reqId = r.reqId /\ t.reqSeq = r.reqSeq /\ t.reused = r.reused
  BY <1>1 DEF Typed, Fields, Stages
<1>4. QueueAt(c, t, stream[r.id]) /\ EmptiedAt(t, stream[r.id], client, wire)
  BY <1>1, <1>2, <1>3 DEF QueueAt, EmptiedAt
<1>5. AskedAt(t, H(r.reqId), client, wire)
  BY <1>1, <1>2, <1>3 DEF AskedAt, Asking
<1>6. client.conn = c => CurrentAt(t, stream[r.id], client, wire)
  BY <1>1, <1>2, <1>3 DEF CurrentAt
<1>7. /\ stream'[conn'[c].id] = stream[r.id] /\ client' = client /\ wire' = wire
      /\ H(conn[c].reqId)' = H(r.reqId)
  BY <1>3 DEF t, H
<1> QED
  BY <1>3, <1>4, <1>5, <1>6, <1>7 DEF ConnOK, H, t

\* The queues another node hands over are those of a connection that can resume.
LEMMA HandedOver ==
    ASSUME TypeOK, StreamInv, OwnerInv, NEW c \in Conns, conn[c].stage = "upgraded",
           conn[c].reqId # 0, NEW n \in Nodes, NEW d \in Inactive(n, conn[c].reqId),
           ~NothingWritten(conn[d].dq)
    PROVE  LET dq == conn[d].dq
               i == conn[c].reqId
               seq == conn[c].reqSeq
               refilled == Refill(Drain(dq, IndexInDeadQueue(dq, seq)))
           IN  /\ ~HasMsgLoss(dq, seq) => seq = H(i)
               /\ IsInDeadQueue(dq, seq) =>
                     /\ refilled \in Queue /\ Shaped(refilled) /\ NoHelloAgain(refilled)
                     /\ Count(refilled) > 0
                     /\ \E b \in Nat : Holding(refilled, b, stream[i])
<1> DEFINE dq == conn[d].dq
           i == conn[c].reqId
           seq == conn[c].reqSeq
<1>1. d \in Conns /\ conn[d].id = i /\ i \in Ids
  BY InactiveIsGone
<1>2. dq \in Queue /\ QueueAt(d, conn[d], stream[i]) /\ stream[i] \in Seq(Recorded)
  BY <1>1, TypesOfState DEF StreamInv, ConnOK, Typed
<1>3. Shaped(dq) /\ NoHelloAgain(dq) /\ Count(dq) > 0
  <2>1. Shaped(dq) /\ NoHelloAgain(dq)
    BY <1>2 DEF QueueAt, NoHelloAgain
  <2>2. Count(dq) # 0
    BY <1>2, <2>1, NothingWrittenIffEmpty
  <2> QED
    BY <1>2, <2>1, <2>2, QueueFields
<1>4. PICK b \in Nat : Holding(dq, b, stream[i])
  BY <1>1, <1>2 DEF QueueAt
<1>5. seq \in 1 .. H(i) /\ H(i) \in Nat
  BY <1>2, IntactPart DEF StreamInv, ConnOK, AskedAt, Asking, H
<1>6. ASSUME ~HasMsgLoss(dq, seq) PROVE seq = H(i)
  <2>1. seq \in 0 .. Intact(stream[i])
    BY <1>5 DEF H
  <2> QED
    BY <1>2, <1>3, <1>4, <1>6, <2>1, NoLossIsLast DEF H
<1>7. ASSUME IsInDeadQueue(dq, seq)
      PROVE  LET refilled == Refill(Drain(dq, IndexInDeadQueue(dq, seq))) IN
             /\ refilled \in Queue /\ Shaped(refilled) /\ NoHelloAgain(refilled)
             /\ Count(refilled) > 0
             /\ \E a \in Nat : Holding(refilled, a, stream[i])
  <2>1. seq \in 1 .. Intact(stream[i])
    BY <1>5 DEF H
  <2>2. SentAgain(Drain(dq, IndexInDeadQueue(dq, seq)), seq, stream[i])
    BY <1>2, <1>3, <1>4, <1>7, <2>1, DrainSendsAgain
  <2> QED
    BY <1>2, <2>1, <2>2, RefilledHolds
<1> QED
  BY <1>6, <1>7

LEMMA ClusterLookupStreams ==
    ASSUME TypeOK, StreamInv, OwnerInv, OwnersKept, Counters', NEW c \in Conns,
           ClusterLookup(c)
    PROVE  StreamsKept
<1> DEFINE seq == conn[c].reqSeq
           asked == [conn[c] EXCEPT !.stage = "asked"]
           A(d) == Resumed(c, conn[d].send, EmptyDeadQueue)
           R(d) == Refill(Drain(conn[d].dq, IndexInDeadQueue(conn[d].dq, seq)))
           B(d) == Resumed(c, conn[d].send, R(d))
           Queues(d) ==
              IF NothingWritten(conn[d].dq) THEN {}
              ELSE IF ~HasMsgLoss(conn[d].dq, seq) THEN {A(d)}
              ELSE IF IsInDeadQueue(conn[d].dq, seq) THEN {B(d)}
              ELSE {}
<1>1. /\ UNCHANGED <<stream, client, wire>> /\ conn[c].stage = "upgraded" /\ conn[c].reqId # 0
      /\ Cardinality(Nodes) > 1
  BY DEF ClusterLookup, AsksCluster
<1>2. \/ conn' = [conn EXCEPT ![c] = asked]
      \/ \E n \in Nodes \ {conn[c].node} : \E d \in Inactive(n, conn[c].reqId) :
            \E r \in IF Queues(d) = {} THEN {asked} ELSE Queues(d) :
                conn' = Removed([conn EXCEPT ![c] = r], {d})
  BY DEF ClusterLookup
<1> HIDE DEF asked, A, B, R, Queues
<1>3. CASE conn' = [conn EXCEPT ![c] = asked]
  <2>1. conn'[c] = asked /\ \A i \in Conns \ {c} : conn'[i] = conn[i]
    BY <1>3, TypesOfState
  <2>2. Typed(conn'[c]) /\ ConnOK(c)' /\ conn'[c].stage = "asked"
    BY <1>1, <2>1, AskedConn DEF asked
  <2> QED
    BY <1>1, <2>1, <2>2, SameFades, OneStarts
<1>4. ASSUME NEW n \in Nodes \ {conn[c].node}, NEW d \in Inactive(n, conn[c].reqId),
             NEW r \in IF Queues(d) = {} THEN {asked} ELSE Queues(d),
             conn' = Removed([conn EXCEPT ![c] = r], {d})
      PROVE  StreamsKept
  <2>1. d \in Conns /\ d # c
    BY <1>1, InactiveIsGone
  <2>2. conn'[c] = r
    BY <1>4, <2>1, TypesOfState DEF Removed
  <2>3. ASSUME NEW k \in Conns \ {c} PROVE Fades(k)
    <3>1. [conn EXCEPT ![c] = r][k] = conn[k]
      BY TypesOfState
    <3> QED
      BY <1>4, <3>1, RemovedFades
  <2>4. CASE r = asked
    <3>1. Typed(conn'[c]) /\ ConnOK(c)' /\ conn'[c].stage = "asked"
      BY <1>1, <2>2, <2>4, AskedConn DEF asked
    <3> QED
      BY <1>1, <2>3, <3>1, OneStarts
  <2>5. CASE /\ ~NothingWritten(conn[d].dq) /\ ~HasMsgLoss(conn[d].dq, seq) /\ r = A(d)
    <3>1. seq = H(conn[c].reqId)
      BY <1>1, <2>5, HandedOver
    <3>2. /\ EmptyDeadQueue \in Queue /\ Shaped(EmptyDeadQueue) /\ NoHelloAgain(EmptyDeadQueue)
          /\ \E b \in Nat : Holding(EmptyDeadQueue, b, stream[conn[c].reqId])
      <4>1. stream[conn[c].reqId] \in Seq(Recorded)
        BY TypesOfState DEF Typed
      <4> QED
        BY <4>1, EmptyIsShaped, EmptyHolds
    <3>3. Typed(conn'[c]) /\ ConnOK(c)' /\ conn'[c].stage = "populated"
      BY <1>1, <2>2, <2>5, <3>1, <3>2, ResumedConn DEF A
    <3> QED
      BY <1>1, <2>3, <3>3, OneStarts
  <2>6. CASE /\ ~NothingWritten(conn[d].dq) /\ IsInDeadQueue(conn[d].dq, seq) /\ r = B(d)
    <3>1. /\ R(d) \in Queue /\ Shaped(R(d)) /\ NoHelloAgain(R(d)) /\ Count(R(d)) > 0
          /\ \E b \in Nat : Holding(R(d), b, stream[conn[c].reqId])
      BY <1>1, <2>6, HandedOver DEF R
    <3>2. Count(R(d)) # 0
      BY <3>1
    <3>3. Typed(conn'[c]) /\ ConnOK(c)' /\ conn'[c].stage = "populated"
      BY <1>1, <2>2, <2>6, <3>1, <3>2, ResumedConn DEF B
    <3> QED
      BY <1>1, <2>3, <3>3, OneStarts
  <2> QED
    BY <2>4, <2>5, <2>6 DEF Queues
<1> QED
  BY <1>2, <1>3, <1>4

LEMMA RegisterStreams ==
    ASSUME TypeOK, StreamInv, OwnerInv, OwnersKept, Counters', NEW c \in Conns, Register(c)
    PROVE  StreamsKept
<1> DEFINE r == conn[c]
           t == conn'[c]
           s == stream[r.id]
<1>1. Typed(r) /\ r.stage = "populated" /\ UNCHANGED <<stream, client, wire>> /\ r.id # 0
  BY TypesOfState DEF Register, OwnerInv, Lifecycle, Alive
<1>2. /\ \A i \in Conns \ {c} : conn'[i] = conn[i]
      /\ t = [r EXCEPT !.stage = "registered", !.active = TRUE,
                       !.send = IF r.reused THEN @ ELSE Append(@, Hello(r.id))]
  BY TypesOfState DEF Register
<1>3. /\ QueueAt(c, r, s) /\ EmptiedAt(r, s, client, wire)
      /\ AskedAt(r, H(r.reqId), client, wire)
      /\ client.conn = c => CurrentAt(r, s, client, wire)
  BY DEF StreamInv, ConnOK
<1>4. Hello(r.id) \in Message /\ Hello(r.id).kind = "hello" /\ Hello(r.id).n = r.id
  BY <1>1 DEF Hello, Message, Typed, Ids
<1>5. s \in Seq(Recorded)
  BY <1>1, TypesOfState DEF Typed
<1> HIDE DEF r, t, s
<1>6. /\ Typed(t) /\ t.stage = "registered" /\ t.id = r.id /\ t.dq = r.dq
      /\ t.send = IF r.reused THEN r.send ELSE Append(r.send, Hello(r.id))
      /\ t.seq = r.seq /\ t.reqId = r.reqId /\ t.reqSeq = r.reqSeq /\ t.reused = r.reused
  <2>1. Append(r.send, Hello(r.id)) \in Seq(Message)
    BY <1>1, <1>4 DEF Typed
  <2> QED
    BY <1>1, <1>2, <2>1 DEF Typed, Fields, Stages
<1>7. Starting(c, r, s)
  BY <1>1, <1>3 DEF QueueAt
<1>8. r.reused => s # << >>
  <2>1. r.reused => r.reqId # 0 /\ H(r.reqId) = Intact(s)
    BY <1>1, <1>7 DEF Starting, H, s
  <2> QED
    BY <1>1, <1>3, <2>1, EmptyStream DEF AskedAt, Asking
<1>9. ~r.reused => /\ Len(t.send) = 1 /\ t.send[1] = Hello(r.id) /\ t.send # << >>
                   /\ s = << >> /\ r.id = c
  <2> HAVE ~r.reused
  <2>1. r.send = << >> /\ t.send = Append(r.send, Hello(r.id)) /\ s = << >> /\ r.id = c
    BY <1>1, <1>6, <1>7 DEF Starting
  <2> QED
    BY <1>1, <1>4, <2>1
<1>10. \A k \in DOMAIN t.send :
          t.send[k].kind = "hello" => k = 1 /\ t.send[k].n = t.id /\ t.id # 0 /\ s = << >>
  <2>1. CASE r.reused
    BY <1>3, <1>6, <2>1 DEF QueueAt
  <2>2. CASE ~r.reused
    <3>1. t.send \in Seq(Message)
      BY <1>6 DEF Typed
    <3>2. DOMAIN t.send = 1 .. 1
      BY <1>9, <2>2, <3>1
    <3> QED
      BY <1>1, <1>4, <1>6, <1>9, <2>2, <3>2
  <2> QED
    BY <2>1, <2>2
<1>11. s = << >> => Greeting(c, t)
  BY <1>6, <1>7, <1>8, <1>9 DEF Greeting, Starting
<1>12. Starting(c, t, s)
  BY <1>6, <1>7 DEF Starting
<1>13. QueueAt(c, t, s)
  BY <1>3, <1>6, <1>10, <1>11, <1>12 DEF QueueAt
<1>14. EmptiedAt(t, s, client, wire) /\ AskedAt(t, H(r.reqId), client, wire)
  BY <1>1, <1>3, <1>6 DEF EmptiedAt, AskedAt, Asking
<1>15. client.conn = c => CurrentAt(t, s, client, wire)
  BY <1>1, <1>3, <1>6 DEF CurrentAt
<1>16. /\ stream'[conn'[c].id] = s /\ client' = client /\ wire' = wire
       /\ H(conn[c].reqId)' = H(r.reqId)
  BY <1>1, <1>6 DEF t, H, s
<1>17. ConnOK(c)'
  BY <1>6, <1>13, <1>14, <1>15, <1>16 DEF ConnOK, H, t
<1> QED
  BY <1>1, <1>2, <1>6, <1>17, SameFades, OneStarts DEF t

-----------------------------------------------------------------------------
\* The client

LEMMA SameClient ==
    ASSUME TypeOK, StreamInv, UNCHANGED <<conn, stream, wire>>,
           client'.conn = client.conn, client'.id = client.id, client'.seq = client.seq,
           client'.received = client.received, OwnersKept
    PROVE  StreamInv'
<1>1. \A c \in Conns : ConnOK(c)'
  BY DEF StreamInv, ConnOK, QueueAt, Starting, Greeting, EmptiedAt, AskedAt, CurrentAt, H
<1>2. NothingUnissued' /\ stream'[0] = << >>
  BY DEF StreamInv, NothingUnissued, OwnersKept
<1>3. WireOK' /\ PumpsToWire' /\ ClientOK'
  BY DEF StreamInv, WireOK, PumpsToWire, ClientOK, WireId, WireSeq, Running, Heads,
         StreamAgreement, H
<1> QED
  BY <1>1, <1>2, <1>3 DEF StreamInv

LEMMA CutWire ==
    ASSUME TypeOK, StreamInv, OwnersKept, UNCHANGED stream, wire' = << >>,
           client'.id = client.id, client'.seq = client.seq,
           client'.received = client.received,
           \A c \in Conns : client'.conn # c => conn'[c] = conn[c],
           \A c \in Conns : client'.conn = c => ConnOK(c)' /\ conn'[c].stage # "pumping",
           client'.conn \in 0 .. MaxConns
    PROVE  StreamInv'
<1>1. ~Heads(wire') /\ WireId' = client.id /\ WireSeq' = client.seq
  BY DEF Heads, WireId, WireSeq
<1>2. ASSUME NEW c \in Conns PROVE ConnOK(c)'
  <2>1. CASE client'.conn # c
    <3>1. conn'[c] = conn[c] /\ ConnOK(c)
      BY <2>1 DEF StreamInv
    <3>2. /\ QueueAt(c, conn'[c], stream'[conn'[c].id])
          /\ EmptiedAt(conn'[c], stream'[conn'[c].id], client', wire')
          /\ AskedAt(conn'[c], H(conn[c].reqId), client', wire')
      BY <1>1, <3>1 DEF ConnOK, EmptiedAt, AskedAt
    <3>3. H(conn[c].reqId)' = H(conn[c].reqId)
      BY <3>1 DEF H
    <3> QED
      BY <2>1, <3>2, <3>3 DEF ConnOK
  <2> QED
    BY <2>1
<1>3. NothingUnissued' /\ stream'[0] = << >>
  BY DEF StreamInv, NothingUnissued, OwnersKept
<1>4. WireOK'
  BY <1>1 DEF StreamInv, ClientOK, WireOK
<1>5. ClientOK'
  BY DEF StreamInv, ClientOK, StreamAgreement, H
<1>6. PumpsToWire'
  BY DEF PumpsToWire, Conns
<1> QED
  BY <1>2, <1>3, <1>4, <1>5, <1>6 DEF StreamInv

LEMMA ClientTyped == TypeOK => client \in ClientType
BY DEF TypeOK, ClientType

LEMMA DetachStreams ==
    ASSUME TypeOK, StreamInv, OwnersKept, Counters', Detach
    PROVE  StreamsKept
<1>1. /\ client' = [client EXCEPT !.conn = 0] /\ wire' = << >>
      /\ UNCHANGED <<conn, stream>>
  BY DEF Detach
<1>2. client' \in ClientType /\ client'.conn = 0 /\ client'.id = client.id
      /\ client'.seq = client.seq /\ client'.received = client.received
  <2>1. client \in ClientType /\ 0 \in 0 .. MaxConns
    BY ClientTyped, BoundsAssumption
  <2> QED
    BY <1>1, <2>1 DEF ClientType
<1>3. TypeOK'
  BY <1>1, <1>2, TypeOKIs, TypesOfState
<1>4. StreamInv'
  <2>1. \A c \in Conns : client'.conn # c
    BY <1>2 DEF Conns
  <2>2. client'.conn \in 0 .. MaxConns
    BY <1>2 DEF ClientType
  <2> QED
    BY <1>1, <1>2, <2>1, <2>2, CutWire
<1> QED
  BY <1>3, <1>4 DEF StreamsKept

LEMMA RefetchStreams ==
    ASSUME TypeOK, StreamInv, OwnersKept, Counters', Refetch
    PROVE  StreamsKept
<1>1. /\ client' = [client EXCEPT !.stale = FALSE, !.known = 1 .. published]
      /\ UNCHANGED <<conn, wire, stream>>
  BY DEF Refetch
<1>2. /\ client' \in ClientType /\ client'.conn = client.conn /\ client'.id = client.id
      /\ client'.seq = client.seq /\ client'.received = client.received
  <2>1. 1 .. published \in SUBSET Nat
    BY DEF TypeOK
  <2> QED
    BY <1>1, <2>1, ClientTyped DEF ClientType
<1>3. TypeOK'
  BY <1>1, <1>2, TypeOKIs, TypesOfState
<1>4. StreamInv'
  BY <1>1, <1>2, SameClient
<1> QED
  BY <1>3, <1>4 DEF StreamsKept

LEMMA ClientConnectStreams ==
    ASSUME TypeOK, StreamInv, OwnersKept, Counters', NEW n \in Nodes, ClientConnect(n)
    PROVE  StreamsKept
<1>1. PICK c \in Conns :
          /\ conn[c].stage = "unused"
          /\ conn' = [conn EXCEPT ![c] =
                 [Blank EXCEPT !.node = n, !.stage = "upgraded",
                               !.reqId = client.id, !.reqSeq = client.seq]]
          /\ client' = [client EXCEPT !.conn = c, !.stale = @ \/ c # 1]
  BY DEF ClientConnect
<1>2. client.conn = 0 /\ wire' = << >> /\ UNCHANGED stream
  BY DEF ClientConnect
<1>3. /\ client' \in ClientType /\ client'.conn = c /\ client'.id = client.id
      /\ client'.seq = client.seq /\ client'.received = client.received
  <2>1. client \in ClientType /\ c \in 0 .. MaxConns /\ (client.stale \/ c # 1) \in BOOLEAN
    BY ClientTyped DEF Conns
  <2>2. client' = [client EXCEPT !.conn = c, !.stale = client.stale \/ c # 1]
    BY <1>1
  <2> QED
    BY <2>1, <2>2 DEF ClientType
<1> DEFINE t == conn'[c]
<1>4. t = [Blank EXCEPT !.node = n, !.stage = "upgraded",
                        !.reqId = client.id, !.reqSeq = client.seq]
      /\ \A i \in Conns \ {c} : conn'[i] = conn[i]
  BY <1>1, TypesOfState
<1>5. client.id \in Ids /\ client.seq \in Nat /\ (client.id # 0 => client.seq \in 1 .. H(client.id))
  <2>1. client.id \in Ids /\ client.seq \in Nat
    BY TypesOfState DEF StreamInv, ClientOK
  <2>2. H(client.id) \in Nat
    BY <2>1, TypesOfState, IntactPart DEF H
  <2> QED
    BY <2>1, <2>2 DEF StreamInv, ClientOK
<1> HIDE DEF t
<1>6. /\ Typed(t) /\ t.stage = "upgraded" /\ t.id = 0 /\ t.dq = EmptyDeadQueue
      /\ t.send = << >> /\ t.reqId = client.id /\ t.reqSeq = client.seq
  <2>1. Blank.id = 0 /\ Blank.dq = EmptyDeadQueue /\ Blank.send = << >>
    BY DEF Blank
  <2> QED
    BY <1>4, <1>5, <2>1, BlankIsTyped DEF Typed, Fields, Stages
<1>7. QueueAt(c, t, << >>) /\ EmptiedAt(t, << >>, client', << >>)
  BY <1>6, EmptyIsShaped DEF QueueAt, EmptiedAt
<1>8. AskedAt(t, H(client.id), client', << >>) /\ CurrentAt(t, << >>, client', << >>)
  BY <1>3, <1>5, <1>6 DEF AskedAt, CurrentAt, Asking, Heads
<1>9. /\ stream'[conn'[c].id] = << >> /\ H(conn[c].reqId)' = H(client.id)
  BY <1>2, <1>6 DEF t, H, StreamInv
<1>10. ConnOK(c)' /\ conn'[c].stage # "pumping"
  BY <1>2, <1>6, <1>7, <1>8, <1>9 DEF ConnOK, H, t
<1>11. StreamInv'
  <2>1. client'.conn \in 0 .. MaxConns
    BY <1>3 DEF ClientType
  <2> QED
    BY <1>2, <1>3, <1>4, <1>10, <2>1, CutWire
<1>12. TypeOK'
  <2>1. \A i \in Conns : Typed(conn'[i])
    BY <1>4, <1>6, TypesOfState DEF t
  <2> QED
    BY <1>2, <1>3, <2>1, TypeOKIs, TypesOfState
<1> QED
  BY <1>11, <1>12 DEF StreamsKept

\* The frame the client accepts is the next of its stream, or the first of a new one.
LEMMA ReceiveStreams ==
    ASSUME TypeOK, StreamInv, OwnersKept, Counters', ClientReceive
    PROVE  StreamsKept
<1> DEFINE frame == Head(wire)
           seq == IF Restarts(frame) THEN 0 ELSE client.seq
           id == IF frame.msg.kind = "hello" THEN frame.msg.n ELSE client.id
           accepts == frame.seq = seq
           hello == frame.msg.kind = "hello"
<1>1. /\ wire # << >> /\ UNCHANGED <<conn, stream>>
      /\ wire' = IF accepts THEN Tail(wire) ELSE << >>
      /\ client'.conn = IF accepts THEN client.conn ELSE 0
      /\ client'.id = id
      /\ client'.seq = IF accepts THEN seq + 1 ELSE seq
      /\ client'.received =
            LET received == IF Restarts(frame) THEN << >> ELSE client.received
            IN  IF accepts THEN Append(received, frame.msg) ELSE received
  BY DEF ClientReceive
<1>2. /\ wire \in Seq(Entry) /\ frame = wire[1] /\ frame \in Entry /\ Len(wire) \in Nat
      /\ Len(wire) >= 1 /\ 1 \in DOMAIN wire
  BY <1>1, TypesOfState
<1>3. frame.seq \in Nat /\ frame.msg \in Message /\ client.seq \in Nat /\ client.id \in Ids
  BY <1>2, EntryIsSomething, TypesOfState DEF StreamInv, ClientOK
<1>4. Heads(wire) <=> hello
  BY <1>1, <1>2 DEF Heads
<1>5. hello => /\ accepts /\ seq = 0 /\ frame.msg.n # client.id /\ frame.msg.n # 0
               /\ frame.msg.n \in Ids
  <2> HAVE hello
  <2>1. frame.seq = 0 /\ frame.msg.n # client.id /\ frame.msg.n # 0
    BY <1>2 DEF StreamInv, WireOK
  <2>2. WireId \in Ids /\ WireId = frame.msg.n
    BY <1>2, <1>4 DEF StreamInv, WireOK, WireId
  <2>3. seq = 0
    <3>1. CASE client.id = 0
      <4>1. client.seq = 0
        BY <1>3, <3>1 DEF StreamInv, ClientOK
      <4> QED
        BY <4>1
    <3>2. CASE client.id # 0
      <4>1. Restarts(frame)
        BY <2>1, <3>2 DEF Restarts
      <4> QED
        BY <4>1
    <3> QED
      BY <3>1, <3>2
  <2> QED
    BY <2>1, <2>2, <2>3
<1>6. ~hello => seq = client.seq /\ ~Restarts(frame)
  BY DEF Restarts
<1>7. seq = WireSeq /\ id = WireId /\ id \in Ids
  BY <1>2, <1>3, <1>4, <1>5, <1>6 DEF WireSeq, WireId
<1>8. accepts => WireSeq + 1 <= H(WireId) /\ frame.msg = stream[WireId][WireSeq + 1]
  <2> HAVE accepts
  <2>1. Running(1)
    BY <1>2, <1>3, <1>7 DEF Running
  <2> QED
    BY <1>2, <2>1 DEF StreamInv, WireOK
<1>9. ~Heads(wire')
  <2>1. CASE accepts
    <3>1. wire' = Tail(wire)
      BY <1>1, <2>1
    <3>2. Tail(wire) # << >> => 2 \in DOMAIN wire /\ Tail(wire)[1] = wire[2]
      BY <1>2
    <3>3. 2 \in DOMAIN wire => wire[2].msg.kind # "hello"
      BY DEF StreamInv, WireOK
    <3> QED
      BY <3>1, <3>2, <3>3 DEF Heads
  <2>2. CASE ~accepts
    BY <1>1, <2>2 DEF Heads
  <2> QED
    BY <2>1, <2>2
<1>10. H(id) \in Nat /\ H(id) <= Len(stream[id])
  <2>1. stream[id] \in Seq(Recorded)
    BY <1>7, TypesOfState
  <2> QED
    BY <2>1, IntactPart DEF H
<1>a. ~hello => id = client.id
  OBVIOUS
<1>b. hello => id = frame.msg.n
  OBVIOUS
<1> HIDE DEF seq, id, hello, accepts, frame
<1>11. ASSUME NEW c \in Conns PROVE ConnOK(c)'
  <2> DEFINE r == conn[c]
             s == stream[r.id]
  <2>1. /\ QueueAt(c, r, s) /\ EmptiedAt(r, s, client, wire)
        /\ AskedAt(r, H(r.reqId), client, wire)
        /\ client.conn = c => CurrentAt(r, s, client, wire)
    BY DEF StreamInv, ConnOK
  <2> HIDE DEF r, s
  <2>2. EmptiedAt(r, s, client', wire')
    <3> SUFFICES ASSUME r.id # 0, Count(r.dq) = 0, s # << >>, id = r.id
                 PROVE  client'.seq = Intact(s)
      BY <1>1, <1>9, <2>1 DEF EmptiedAt
    <3>1. ~hello
      BY <1>2, <1>4, <1>b, <2>1 DEF EmptiedAt
    <3>2. client.seq = Intact(s) /\ client.id = r.id /\ Intact(s) = H(id)
      BY <1>a, <2>1, <3>1 DEF EmptiedAt, H, s
    <3>3. ~accepts
      BY <1>3, <1>6, <1>7, <1>8, <1>10, <3>1, <3>2
    <3> QED
      BY <1>1, <1>6, <3>1, <3>2, <3>3
  <2>3. AskedAt(r, H(r.reqId), client', wire')
    <3> SUFFICES ASSUME Asking(r)
                 PROVE  /\ r.reqSeq \in 1 .. H(r.reqId)
                        /\ id = r.reqId => r.reqSeq <= client'.seq
      BY <1>1, <1>9 DEF AskedAt
    <3>1. r.reqSeq \in 1 .. H(r.reqId) /\ (client.id = r.reqId => r.reqSeq <= client.seq)
          /\ (hello => frame.msg.n # r.reqId)
      BY <1>2, <1>4, <2>1 DEF AskedAt
    <3>2. ~hello => client'.seq >= client.seq
      BY <1>1, <1>3, <1>6
    <3>3. r.reqSeq \in Int /\ client'.seq \in Int
      BY <1>1, <1>3, <1>5, <1>6, <3>1
    <3> QED
      BY <1>3, <1>a, <1>b, <3>1, <3>2, <3>3
  <2>4. client'.conn = c => CurrentAt(r, s, client', wire')
    <3> HAVE client'.conn = c
    <3>1. client.conn = c
      BY <1>1 DEF Conns
    <3>2. CurrentAt(r, s, client, wire)
      BY <2>1, <3>1
    <3> QED
      BY <1>1, <3>2 DEF CurrentAt
  <2>5. /\ conn'[c] = r /\ stream'[conn'[c].id] = s /\ H(conn[c].reqId)' = H(r.reqId)
    BY <1>1 DEF r, s, H
  <2> QED
    BY <2>1, <2>2, <2>3, <2>4, <2>5 DEF ConnOK
<1>12. NothingUnissued' /\ stream'[0] = << >>
  BY <1>1 DEF StreamInv, NothingUnissued, OwnersKept
<1>14. WireId' = id /\ WireSeq' = client'.seq
  BY <1>1, <1>9 DEF WireId, WireSeq
<1>13. ClientOK'
  <2>1. CASE accepts
    <3> DEFINE old == IF Restarts(frame) THEN << >> ELSE client.received
    <3>1. client'.seq = WireSeq + 1 /\ client'.id = WireId /\ client'.received = Append(old, frame.msg)
      BY <1>1, <1>7, <2>1 DEF accepts
    <3>2. old \in Seq(Message) /\ Len(old) = WireSeq /\ old = SubSeq(stream[WireId], 1, WireSeq)
      <4>1. CASE hello
        <5>1. WireSeq = 0
          BY <1>5, <1>7, <4>1
        <5>2. old = << >>
          <6>1. CASE client.id # 0
            BY <1>5, <4>1, <6>1 DEF Restarts, frame, hello
          <6>2. CASE client.id = 0
            <7>1. client.seq = 0 /\ client.received \in Seq(Message) /\ Len(client.received) = 0
              BY <1>3, <6>2, TypesOfState DEF StreamInv, ClientOK, StreamAgreement
            <7> QED
              BY <7>1
          <6> QED
            BY <6>1, <6>2
        <5>3. stream[WireId] \in Seq(Recorded)
          BY <1>7, TypesOfState
        <5>4. SubSeq(stream[WireId], 1, 0) = << >> /\ Len(<< >>) = 0 /\ << >> \in Seq(Message)
          BY <5>3
        <5> QED
          BY <5>1, <5>2, <5>4
      <4>2. CASE ~hello
        <5>1. old = client.received /\ WireSeq = client.seq /\ WireId = client.id
          BY <1>6, <1>7, <1>a, <4>2
        <5> QED
          BY <5>1, TypesOfState DEF StreamInv, ClientOK, StreamAgreement
      <4> QED
        BY <4>1, <4>2
    <3>3. stream[WireId] \in Seq(Recorded) /\ WireSeq \in Nat /\ WireSeq + 1 <= Len(stream[WireId])
          /\ frame.msg = stream[WireId][WireSeq + 1] /\ WireSeq + 1 <= H(WireId)
      BY <1>3, <1>5, <1>6, <1>7, <1>8, <1>10, <2>1, TypesOfState
    <3> HIDE DEF old
    <3>4. Append(old, frame.msg) = SubSeq(stream[WireId], 1, WireSeq + 1)
          /\ Len(Append(old, frame.msg)) = WireSeq + 1
      BY <3>2, <3>3
    <3>5. client'.id # 0 <=> client'.seq > 0
      <4>1. CASE hello
        BY <1>5, <1>7, <1>b, <3>1, <3>3, <4>1
      <4>2. CASE ~hello
        <5>1. client.id # 0
          <6>1. WireSeq + 1 <= H(client.id)
            BY <1>7, <1>a, <3>3, <4>2
          <6>2. H(0) = 0
            BY EmptyStream DEF StreamInv, H
          <6> QED
            BY <3>3, <6>1, <6>2
        <5> QED
          BY <1>7, <1>a, <3>1, <3>3, <4>2, <5>1
      <4> QED
        BY <4>1, <4>2
    <3>6. H(WireId)' = H(WireId) /\ stream' = stream
      <4>1. stream' = stream
        BY <1>1
      <4>2. WireId' = WireId
        BY <1>7, <1>14
      <4> QED
        BY <4>1, <4>2 DEF H
    <3> QED
      BY <1>7, <3>1, <3>3, <3>4, <3>5, <3>6 DEF ClientOK, StreamAgreement, H
  <2>2. CASE ~accepts
    <3>1. ~hello
      BY <1>5, <2>2
    <3>2. client'.id = client.id /\ client'.seq = client.seq /\ client'.received = client.received
          /\ stream' = stream
      BY <1>1, <1>6, <1>a, <2>2, <3>1
    <3> QED
      BY <3>2 DEF StreamInv, ClientOK, StreamAgreement, H
  <2> QED
    BY <2>1, <2>2
<1>15. WireOK'
  <2>1. CASE ~accepts
    <3>1. wire' = << >>
      BY <1>1, <2>1
    <3> QED
      BY <1>7, <1>14, <3>1 DEF WireOK
  <2>2. CASE accepts
    <3>1. wire' = Tail(wire) /\ WireSeq' = WireSeq + 1 /\ client'.conn = client.conn
      BY <1>1, <1>7, <1>14, <2>2
    <3>2. \A k \in DOMAIN wire' : k + 1 \in DOMAIN wire /\ wire'[k] = wire[k + 1] /\ k \in Nat /\ k >= 1
      BY <1>2, <3>1
    <3>3. client'.conn # 0
      BY <1>1, <3>1 DEF StreamInv, WireOK
    <3>4. \A k \in DOMAIN wire' : wire'[k].msg.kind # "hello"
      BY <3>2 DEF StreamInv, WireOK
    <3>5. ASSUME NEW k \in DOMAIN wire', Running(k)'
          PROVE  /\ WireSeq' + k <= H(WireId)'
                 /\ wire'[k].msg = stream'[WireId'][WireSeq' + k]
      <4>1. k \in Nat /\ k >= 1 /\ k + 1 \in DOMAIN wire /\ WireSeq \in Nat
        BY <1>3, <1>5, <1>6, <1>7, <3>2
      <4>2. Running(k + 1)
        <5> SUFFICES ASSUME NEW j \in 1 .. (k + 1) PROVE wire[j].seq = WireSeq + j - 1
          BY DEF Running
        <5>1. CASE j = 1
          BY <1>2, <1>3, <1>7, <2>2, <4>1, <5>1 DEF accepts
        <5>2. CASE j # 1
          <6>1. j - 1 \in 1 .. k /\ j - 1 \in DOMAIN wire' /\ (j - 1) + 1 = j
            BY <1>2, <3>1, <4>1, <5>2
          <6>2. wire'[j - 1].seq = WireSeq' + (j - 1) - 1 /\ wire'[j - 1] = wire[j]
            BY <3>2, <3>5, <5>2, <6>1 DEF Running
          <6> QED
            BY <3>1, <4>1, <6>1, <6>2
        <5> QED
          BY <5>1, <5>2
      <4>3. WireSeq + (k + 1) <= H(WireId) /\ wire[k + 1].msg = stream[WireId][WireSeq + (k + 1)]
        BY <4>1, <4>2 DEF StreamInv, WireOK
      <4>4. WireSeq' + k = WireSeq + (k + 1) /\ WireId' = WireId /\ stream' = stream
        BY <1>1, <1>7, <1>14, <3>1, <4>1
      <4>5. H(WireId)' = H(WireId)
        BY <4>4 DEF H
      <4> QED
        BY <3>2, <4>3, <4>4, <4>5
    <3> QED
      BY <1>7, <1>14, <3>3, <3>4, <3>5 DEF WireOK
  <2> QED
    BY <2>1, <2>2
<1>16. PumpsToWire'
  <2>1. CASE ~accepts
    BY <1>1, <2>1 DEF PumpsToWire
  <2>2. CASE accepts
    <3>1. client'.conn = client.conn
      BY <1>1, <2>2
    <3> QED
      BY <1>1, <1>7, <1>14, <3>1 DEF StreamInv, PumpsToWire
  <2> QED
    BY <2>1, <2>2
<1>17. StreamInv'
  BY <1>11, <1>12, <1>13, <1>15, <1>16 DEF StreamInv
<1>18. client' \in ClientType
  <2> DEFINE old == IF Restarts(frame) THEN << >> ELSE client.received
  <2>1. /\ client.conn \in 0 .. MaxConns /\ 0 \in 0 .. MaxConns /\ client.stale \in BOOLEAN
        /\ client.known \in SUBSET Nat /\ client.base \in Nat /\ published \in Nat
        /\ old \in Seq(Message)
    BY BoundsAssumption DEF TypeOK
  <2>2. id \in Nat /\ seq \in Nat /\ seq + 1 \in Nat
    BY <1>3, <1>5, <1>6, <1>7 DEF Ids
  <2>3. Append(old, frame.msg) \in Seq(Message)
    BY <1>3, <2>1
  <2>4. frame.msg.n \in Nat
    BY <1>3 DEF Message
  <2>5. \E stale \in BOOLEAN, known \in SUBSET Nat, base \in Nat, cn \in 0 .. MaxConns,
           sq \in Nat, rc \in Seq(Message) :
           client' = [conn |-> cn, id |-> id, seq |-> sq, stale |-> stale,
                      known |-> known, received |-> rc, base |-> base]
    <3>1. client' =
              [conn |-> IF accepts THEN client.conn ELSE 0,
               id |-> id,
               seq |-> IF accepts THEN seq + 1 ELSE seq,
               stale |-> client.stale \/ Restarts(frame),
               known |-> IF accepts THEN client.known \cup
                              (IF frame.msg.kind = "event" THEN {frame.msg.n} ELSE {})
                         ELSE client.known,
               received |-> IF accepts THEN Append(old, frame.msg) ELSE old,
               base |-> IF client.id = 0 THEN published ELSE client.base]
      BY DEF ClientReceive, accepts, id, seq, frame
    <3>2. (client.stale \/ Restarts(frame)) \in BOOLEAN
      OBVIOUS
    <3>3. (IF accepts THEN client.known \cup
                              (IF frame.msg.kind = "event" THEN {frame.msg.n} ELSE {})
                         ELSE client.known) \in SUBSET Nat
      BY <2>1, <2>4
    <3>4. /\ (IF client.id = 0 THEN published ELSE client.base) \in Nat
          /\ (IF accepts THEN client.conn ELSE 0) \in 0 .. MaxConns
          /\ (IF accepts THEN seq + 1 ELSE seq) \in Nat
          /\ (IF accepts THEN Append(old, frame.msg) ELSE old) \in Seq(Message)
      BY <2>1, <2>2, <2>3
    <3> QED
      BY <3>1, <3>2, <3>3, <3>4
  <2> QED
    BY <2>2, <2>5 DEF ClientType
<1>19. wire' \in Seq(Entry)
  BY <1>1, <1>2
<1>20. TypeOK'
  <2>1. \A c \in Conns : Typed(conn'[c])
    BY <1>1, TypesOfState
  <2>2. stream' \in [Ids -> Seq(Recorded)]
    BY <1>1, TypesOfState
  <2> QED
    BY <1>18, <1>19, <2>1, <2>2, TypeOKIs
<1> QED
  BY <1>17, <1>20 DEF StreamsKept

-----------------------------------------------------------------------------
\* The write pump

\* Streams only grow beyond what is intact of them.
Grown ==
    \A j \in Ids :
        /\ stream'[j] \in Seq(Recorded) /\ Intact(stream'[j]) >= H(j)
        /\ \A k \in 1 .. H(j) : stream'[j][k] = stream[j][k]
        /\ stream[j] # << >> => stream'[j] # << >>

\* A hello is only sent as the first message of a stream.
HelloFirst(i) ==
    Heads(wire') => \/ Heads(wire) /\ wire'[1] = wire[1]
                    \/ wire'[1].msg.n = i /\ stream[i] = << >>

LEMMA StreamSet ==
    ASSUME TypeOK, NEW i \in Ids, NEW t \in Seq(Recorded), stream' = [stream EXCEPT ![i] = t],
           Intact(t) >= H(i), \A k \in 1 .. H(i) : t[k] = stream[i][k], t # << >>
    PROVE  /\ Grown /\ stream' \in [Ids -> Seq(Recorded)] /\ stream'[i] = t
           /\ \A j \in Ids \ {i} : stream'[j] = stream[j]
<1>1. /\ stream'[i] = t /\ \A j \in Ids \ {i} : stream'[j] = stream[j]
      /\ stream' \in [Ids -> Seq(Recorded)]
  BY TypesOfState
<1>2. \A j \in Ids : H(j) \in Nat
  BY TypesOfState, IntactPart DEF H
<1>3. Grown
  BY <1>1, <1>2, TypesOfState DEF Grown, H
<1> QED
  BY <1>1, <1>3

LEMMA AgreeingPrefix ==
    ASSUME NEW s \in Seq(Recorded), NEW t \in Seq(Recorded), NEW n \in Nat,
           n <= Len(s), n <= Len(t), \A k \in 1 .. n : t[k] = s[k]
    PROVE  SubSeq(t, 1, n) = SubSeq(s, 1, n)
OBVIOUS

LEMMA OtherConns ==
    ASSUME TypeOK, StreamInv, NEW c \in Conns, NEW i \in Ids, Grown,
           \A j \in Ids \ {i} : stream'[j] = stream[j], client' = client,
           \A d \in Conns \ {c} : conn[d].id # i /\ conn'[d] = conn[d],
           client.conn # c => wire' = wire, HelloFirst(i), NEW d \in Conns \ {c}
    PROVE  ConnOK(d)'
<1> DEFINE r == conn[d]
           s == stream[r.id]
<1>1. /\ QueueAt(d, r, s) /\ EmptiedAt(r, s, client, wire)
      /\ AskedAt(r, H(r.reqId), client, wire)
      /\ client.conn = d => CurrentAt(r, s, client, wire)
  BY DEF StreamInv, ConnOK
<1>2. conn'[d] = r /\ r.id # i /\ r.id \in Ids /\ r.reqId \in Ids /\ stream'[r.id] = s
  BY TypesOfState DEF Typed
<1>3. /\ H(r.reqId) \in Nat /\ Intact(stream'[r.reqId]) \in Nat /\ Intact(stream'[r.reqId]) >= H(r.reqId)
      /\ i = r.reqId /\ stream[i] = << >> => H(r.reqId) = 0
  <2>1. stream[r.reqId] \in Seq(Recorded) /\ stream'[r.reqId] \in Seq(Recorded)
    BY <1>2, TypesOfState DEF Grown
  <2> QED
    BY <1>2, <2>1, IntactPart, EmptyStream DEF Grown, H
<1> HIDE DEF r, s
<1>4. EmptiedAt(r, s, client, wire')
  BY <1>1, <1>2 DEF EmptiedAt, HelloFirst
<1>5. AskedAt(r, Intact(stream'[r.reqId]), client, wire')
  BY <1>1, <1>3 DEF AskedAt, HelloFirst
<1>6. client.conn = d => CurrentAt(r, s, client, wire')
  BY <1>1
<1>7. H(conn[d].reqId)' = Intact(stream'[r.reqId]) /\ stream'[conn'[d].id] = s /\ conn'[d] = r
  BY <1>2 DEF H, r
<1> QED
  BY <1>1, <1>4, <1>5, <1>6, <1>7 DEF ConnOK

LEMMA SameWire ==
    ASSUME TypeOK, StreamInv, Grown, client' = client, wire' = wire
    PROVE  WireOK'
<1>1. WireId' = WireId /\ WireSeq' = WireSeq /\ Heads(wire') = Heads(wire)
      /\ WireId \in Ids
  BY DEF StreamInv, WireOK, WireId, WireSeq, Heads
<1>2. ASSUME NEW k \in DOMAIN wire, Running(k)'
      PROVE  WireSeq + k <= Intact(stream'[WireId]) /\ wire[k].msg = stream'[WireId][WireSeq + k]
  <2>1. Running(k)
    BY <1>1, <1>2 DEF Running
  <2>2. WireSeq + k <= H(WireId) /\ wire[k].msg = stream[WireId][WireSeq + k]
    BY <2>1 DEF StreamInv, WireOK
  <2>3. WireSeq \in Nat /\ k \in Nat /\ k >= 1 /\ H(WireId) \in Nat /\ Intact(stream'[WireId]) \in Nat
    BY <1>1, TypesOfState, IntactPart DEF WireSeq, H, Grown
  <2>4. Intact(stream'[WireId]) >= H(WireId) /\ WireSeq + k \in 1 .. H(WireId)
    BY <1>1, <2>2, <2>3 DEF Grown
  <2> QED
    BY <1>1, <2>2, <2>3, <2>4 DEF Grown
<1>3. H(WireId)' = Intact(stream'[WireId])
  BY <1>1 DEF H
<1> QED
  BY <1>1, <1>2, <1>3 DEF WireOK, StreamInv

LEMMA SameClientOK ==
    ASSUME TypeOK, StreamInv, Grown, client' = client
    PROVE  ClientOK'
<1> DEFINE i == client.id
           n == client.seq
<1>1. /\ i \in Ids /\ n \in Nat /\ n <= H(i) /\ n = Len(client.received)
      /\ n <= Len(stream[i]) /\ client.received = SubSeq(stream[i], 1, n)
  BY TypesOfState DEF StreamInv, ClientOK, StreamAgreement
<1>2. /\ stream[i] \in Seq(Recorded) /\ stream'[i] \in Seq(Recorded)
      /\ H(i) \in Nat /\ Intact(stream'[i]) \in 0 .. Len(stream'[i]) /\ Intact(stream'[i]) >= H(i)
  BY <1>1, TypesOfState, IntactPart DEF Grown, H
<1>3. n <= Len(stream'[i]) /\ n <= Intact(stream'[i])
  BY <1>1, <1>2
<1>4. SubSeq(stream'[i], 1, n) = SubSeq(stream[i], 1, n)
  <2>1. \A k \in 1 .. n : stream'[i][k] = stream[i][k]
    BY <1>1, <1>2 DEF Grown
  <2> QED
    BY <1>1, <1>2, <1>3, <2>1, AgreeingPrefix
<1>5. client' = client /\ H(client.id)' = Intact(stream'[i])
  BY DEF H
<1> QED
  BY <1>1, <1>3, <1>4, <1>5 DEF ClientOK, StreamAgreement, StreamInv

\* A step of the write pump of c that numbers into the stream i.
LEMMA PumpStep ==
    ASSUME TypeOK, StreamInv, OwnersKept, NEW c \in Conns, NEW i \in Ids, i # 0, Grown,
           \A j \in Ids \ {i} : stream'[j] = stream[j], client' = client,
           \A d \in Conns \ {c} : conn[d].id # i /\ conn'[d] = conn[d],
           client.conn # c => wire' = wire, HelloFirst(i), ~Unissued(i)' \/ stream' = stream,
           ConnOK(c)', client.conn = c => WireOK' /\ PumpsToWire'
    PROVE  StreamInv'
<1>1. \A d \in Conns : ConnOK(d)'
  BY OtherConns
<1>2. NothingUnissued' /\ stream'[0] = << >>
  <2>1. stream'[0] = << >> /\ \A j \in Conns : j \in Ids
    BY BoundsAssumption DEF StreamInv, Ids, Conns
  <2>2. ASSUME NEW j \in Conns, Unissued(j)' PROVE stream'[j] = << >>
    <3>1. stream[j] = << >>
      BY <2>2 DEF StreamInv, NothingUnissued, OwnersKept
    <3> QED
      BY <2>1, <2>2, <3>1
  <2> QED
    BY <2>1, <2>2 DEF NothingUnissued
<1>3. ClientOK'
  BY SameClientOK
<1>4. WireOK'
  BY SameWire
<1>5. PumpsToWire'
  <2> SUFFICES ASSUME client.conn # c, client.conn # 0,
                      conn'[client.conn].stage = "pumping"
               PROVE  PumpsToWire'
    BY DEF PumpsToWire
  <2>1. client.conn \in Conns \ {c}
    BY TypesOfState DEF Conns
  <2>2. conn'[client.conn] = conn[client.conn] /\ wire' = wire /\ WireId' = WireId
        /\ stream'[conn[client.conn].id] = stream[conn[client.conn].id]
    BY <2>1, TypesOfState DEF Typed, WireId, Heads
  <2> QED
    BY <2>1, <2>2 DEF StreamInv, PumpsToWire
<1> QED
  BY <1>1, <1>2, <1>3, <1>4, <1>5 DEF StreamInv

-----------------------------------------------------------------------------
\* A message is numbered: what the dead queue then holds of its stream

LEMMA HeldNext ==
    ASSUME NEW dq \in Queue, Shaped(dq), NEW s \in Seq(Recorded), NEW m \in Message,
           Holding(dq, Count(dq), s)
    PROVE  LET added == AddToDeadQueue(dq, [seq |-> Intact(s), msg |-> m])
           IN  Holding(added, Count(added), Numbering(s, Intact(s), m))
<1> DEFINE h == Intact(s)
           n == Count(dq)
           z == Shift(dq)
           e == [seq |-> h, msg |-> m]
           added == AddToDeadQueue(dq, e)
           t == Numbering(s, h, m)
<1>1. h \in Nat /\ n \in Nat /\ z \in {0, 1} /\ (z = 1 => n >= 2)
  BY IntactPart, QueueFields DEF Shift
<1>2. e \in Entry
  BY <1>1 DEF Entry
<1>3. /\ Count(added) = n + 1 - z /\ Nth(added, Count(added)) = e
      /\ \A k \in 1 .. (Count(added) - 1) : Nth(added, k) = Nth(dq, k + z)
  BY <1>2, AddedToQueue
<1>4. Intact(t) = h + 1 /\ t[h + 1] = m /\ \A k \in 1 .. h : t[k] = s[k]
  <2>1. m \in Recorded /\ m # Hole /\ h >= h
    BY <1>1, HoleIsNoMessage DEF Recorded
  <2> QED
    BY <1>1, <2>1, NumberedStream
<1>5. /\ n <= h
      /\ \A k \in 1 .. n : Nth(dq, k).seq = h - n + k - 1 /\ Nth(dq, k).msg = s[h - n + k]
  BY DEF Holding, Numbered
<1>6. e.seq = h /\ e.msg = m
  OBVIOUS
<1> HIDE DEF h, n, z, e, added, t
<1> DEFINE b == n + 1 - z
<1>7. b \in Nat /\ b >= 1 /\ b <= h + 1 /\ b - 1 <= n /\ (h + 1) - b = h - n + z
  BY <1>1, <1>5
<1>8. ASSUME NEW k \in 1 .. b
      PROVE  Nth(added, k).seq = (h + 1) - b + k - 1 /\ Nth(added, k).msg = t[(h + 1) - b + k]
  <2>1. CASE k = b
    <3>1. (h + 1) - b + k = h + 1
      BY <1>1, <1>7, <2>1
    <3> QED
      BY <1>1, <1>3, <1>4, <1>6, <1>7, <2>1, <3>1
  <2>2. CASE k # b
    <3>1. k + z \in 1 .. n /\ k \in 1 .. (b - 1) /\ h - n + (k + z) \in 1 .. h
          /\ h - n + (k + z) = (h + 1) - b + k
      BY <1>1, <1>5, <1>7, <1>8, <2>2
    <3>2. Nth(added, k) = Nth(dq, k + z)
      BY <1>3, <3>1
    <3>3. Nth(dq, k + z).seq = h - n + (k + z) - 1 /\ Nth(dq, k + z).msg = s[h - n + (k + z)]
      BY <1>5, <3>1
    <3>4. t[h - n + (k + z)] = s[h - n + (k + z)]
      BY <1>4, <3>1
    <3>5. Nth(added, k).msg = t[(h + 1) - b + k]
      BY <3>1, <3>2, <3>3, <3>4
    <3>6. h - n + (k + z) - 1 = (h + 1) - b + k - 1
      BY <1>1, <1>7, <3>1
    <3> QED
      BY <3>2, <3>3, <3>5, <3>6
  <2> QED
    BY <2>1, <2>2
<1>9. \A k \in (b + 1) .. Count(added) : Nth(added, k).seq > Intact(t)
  BY <1>3, <1>7
<1>10. b = Count(added) /\ b \in 0 .. Count(added)
  BY <1>3, <1>7
<1> HIDE DEF b
<1>11. Holding(added, b, t)
  BY <1>4, <1>7, <1>8, <1>9, <1>10 DEF Holding, Numbered
<1> QED
  BY <1>10, <1>11 DEF added, t, h, e

LEMMA HeldPast ==
    ASSUME NEW dq \in Queue, Shaped(dq), NEW s \in Seq(Recorded), NEW m \in Message,
           NEW b \in Nat, Holding(dq, b, s), NEW q \in Nat, q > Intact(s)
    PROVE  \E d \in Nat : Holding(AddToDeadQueue(dq, [seq |-> q, msg |-> m]), d,
                                  Numbering(s, q, m))
<1> DEFINE h == Intact(s)
           n == Count(dq)
           z == Shift(dq)
           e == [seq |-> q, msg |-> m]
           added == AddToDeadQueue(dq, e)
           t == Numbering(s, q, m)
<1>1. h \in Nat /\ n \in Nat /\ z \in {0, 1} /\ (z = 1 => n >= 2)
  BY IntactPart, QueueFields DEF Shift
<1>2. e \in Entry
  BY DEF Entry
<1>3. /\ Count(added) = n + 1 - z /\ Nth(added, Count(added)) = e
      /\ \A k \in 1 .. (Count(added) - 1) : Nth(added, k) = Nth(dq, k + z)
  BY <1>2, AddedToQueue
<1>4. Intact(t) = h /\ \A k \in 1 .. h : t[k] = s[k]
  <2>1. m \in Recorded /\ q >= h /\ q # h
    BY <1>1 DEF Recorded
  <2> QED
    BY <1>1, <2>1, NumberedStream
<1>5. /\ b <= h /\ b <= n
      /\ \A k \in 1 .. b : Nth(dq, k).seq = h - b + k - 1 /\ Nth(dq, k).msg = s[h - b + k]
      /\ \A k \in (b + 1) .. n : Nth(dq, k).seq > h
  BY <1>1 DEF Holding, Numbered
<1>6. e.seq = q /\ q > h
  OBVIOUS
<1> HIDE DEF h, n, z, e, added, t
<1> DEFINE d == IF b >= z THEN b - z ELSE 0
<1>7. d \in Nat /\ d <= h /\ d <= n + 1 - z /\ (d > 0 => d = b - z)
  BY <1>1, <1>5
<1>8. ASSUME NEW k \in 1 .. d
      PROVE  Nth(added, k).seq = h - d + k - 1 /\ Nth(added, k).msg = t[h - d + k]
  <2>1. k + z \in 1 .. b /\ k \in 1 .. (Count(added) - 1) /\ h - b + (k + z) = h - d + k
        /\ h - b + (k + z) \in 1 .. h
    BY <1>1, <1>3, <1>5, <1>7, <1>8
  <2>2. Nth(added, k) = Nth(dq, k + z)
    BY <1>3, <2>1
  <2>3. Nth(dq, k + z).seq = h - b + (k + z) - 1 /\ Nth(dq, k + z).msg = s[h - b + (k + z)]
    BY <1>5, <2>1
  <2>4. t[h - b + (k + z)] = s[h - b + (k + z)]
    BY <1>4, <2>1
  <2>5. Nth(added, k).msg = t[h - d + k]
    BY <2>1, <2>2, <2>3, <2>4
  <2>6. h - b + (k + z) - 1 = h - d + k - 1
    BY <1>1, <1>7, <2>1
  <2> QED
    BY <2>2, <2>3, <2>5, <2>6
<1>9. ASSUME NEW k \in (d + 1) .. Count(added)
      PROVE  Nth(added, k).seq > h
  <2>1. CASE k = Count(added)
    BY <1>3, <1>6, <2>1
  <2>2. CASE k # Count(added)
    <3>1. k \in 1 .. (Count(added) - 1) /\ k + z \in (b + 1) .. n
      BY <1>1, <1>3, <1>5, <1>7, <1>9, <2>2
    <3> QED
      BY <1>3, <1>5, <3>1
  <2> QED
    BY <2>1, <2>2
<1>10. d \in 0 .. Count(added)
  BY <1>1, <1>3, <1>7
<1> HIDE DEF d
<1>11. Holding(added, d, t)
  BY <1>4, <1>7, <1>8, <1>9, <1>10 DEF Holding, Numbered
<1> QED
  BY <1>7, <1>11 DEF added, t, e

LEMMA HeldStays ==
    ASSUME NEW dq, NEW b \in Nat, NEW s \in Seq(Recorded), NEW t \in Seq(Recorded),
           Holding(dq, b, s), Intact(t) = Intact(s), \A k \in 1 .. Intact(s) : t[k] = s[k]
    PROVE  Holding(dq, b, t)
<1>1. Intact(s) \in Nat /\ b <= Intact(s)
  BY IntactPart DEF Holding, Numbered
<1>2. \A k \in 1 .. b : Intact(s) - b + k \in 1 .. Intact(s)
  BY <1>1
<1> QED
  BY <1>1, <1>2 DEF Holding

\* What is sure of a connection whose write pump takes a message.
LEMMA PumpingConn ==
    ASSUME TypeOK, StreamInv, OwnerInv, NEW c \in Conns,
           conn[c].stage \in {"registered", "pumping"}
    PROVE  LET r == conn[c]
               s == stream[r.id]
           IN  /\ Typed(r) /\ r.id \in Conns /\ r.id # 0 /\ s \in Seq(Recorded)
               /\ \A d \in Conns \ {c} : conn[d].id # r.id
               /\ QueueAt(c, r, s) /\ EmptiedAt(r, s, client, wire)
               /\ AskedAt(r, H(r.reqId), client, wire)
               /\ client.conn = c => CurrentAt(r, s, client, wire)
               /\ H(r.id) = Intact(s) /\ Intact(s) \in Nat
               /\ r.stage = "pumping" => r.seq >= Intact(s)
<1> DEFINE r == conn[c]
           s == stream[r.id]
<1>1. Typed(r) /\ r.id # 0 /\ r.id \in Ids
  BY TypesOfState DEF OwnerInv, Lifecycle, Alive, Typed
<1>2. r.id \in Conns
  BY <1>1, BoundsAssumption DEF Ids, Conns
<1>3. s \in Seq(Recorded) /\ Intact(s) \in Nat
  BY <1>1, TypesOfState, IntactPart
<1>4. \A d \in Conns \ {c} : conn[d].id # r.id
  BY <1>1 DEF OwnerInv, DistinctIds
<1>5. /\ QueueAt(c, r, s) /\ EmptiedAt(r, s, client, wire)
      /\ AskedAt(r, H(r.reqId), client, wire)
      /\ client.conn = c => CurrentAt(r, s, client, wire)
  BY DEF StreamInv, ConnOK
<1>6. r.seq \in Nat
  BY <1>1 DEF Typed
<1>7. r.stage = "pumping" => r.seq >= Intact(s)
  <2> HIDE DEF r, s
  <2> QED
    BY <1>3, <1>5, <1>6 DEF QueueAt
<1> QED
  BY <1>1, <1>2, <1>3, <1>4, <1>5, <1>7 DEF H

\* The head of send is numbered and in the dead queue.
LEMMA NumberedConn ==
    ASSUME NEW c, NEW r, Typed(r), r.stage = "pumping", r.id # 0, r.send # << >>,
           NEW s \in Seq(Recorded), QueueAt(c, r, s), r.seq >= Intact(s),
           NEW m \in Message, m = Head(r.send),
           NEW t, Typed(t), t.stage \in {"pumping", "stopped"}, t.id = r.id,
           t.seq = r.seq + 1, t.send = Tail(r.send),
           t.dq = AddToDeadQueue(r.dq, [seq |-> r.seq, msg |-> m])
    PROVE  QueueAt(c, t, Numbering(s, r.seq, m)) /\ Count(t.dq) > 0
<1> DEFINE h == Intact(s)
           e == [seq |-> r.seq, msg |-> m]
           u == Numbering(s, r.seq, m)
<1>1. /\ r.dq \in Queue /\ Shaped(r.dq) /\ r.seq \in Nat /\ h \in Nat /\ e \in Entry
      /\ r.send \in Seq(Message) /\ e.seq = r.seq /\ e.msg = m
  BY IntactPart DEF Typed, QueueAt, Entry
<1>2. m = r.send[1] /\ 1 \in DOMAIN r.send
  BY <1>1
<1>3. u \in Seq(Recorded) /\ u # << >>
      /\ Intact(u) = IF r.seq = h THEN r.seq + 1 ELSE h
  <2>1. m \in Recorded /\ m # Hole
    BY HoleIsNoMessage DEF Recorded
  <2> QED
    BY <1>1, <2>1, NumberedStream
<1> HIDE DEF h, e, u
<1>4. /\ Shaped(t.dq) /\ Count(t.dq) = Count(r.dq) + 1 - Shift(r.dq)
      /\ Nth(t.dq, Count(t.dq)) = e
      /\ \A k \in 1 .. (Count(t.dq) - 1) : Nth(t.dq, k) = Nth(r.dq, k + Shift(r.dq))
  BY <1>1, AddedToQueue DEF e
<1>5. /\ Count(r.dq) \in Nat /\ Shift(r.dq) \in {0, 1}
      /\ Shift(r.dq) = 1 => Count(r.dq) >= 2
  BY <1>1, QueueFields DEF Shift
<1>6. Count(t.dq) \in Nat /\ Count(t.dq) > 0
  BY <1>4, <1>5
<1>7. m.kind = "hello" => r.seq = 0
  <2> HAVE m.kind = "hello"
  <2>1. s = << >>
    BY <1>2 DEF QueueAt
  <2> QED
    BY <2>1 DEF QueueAt, Greeting
<1>8. \A k \in 1 .. Count(t.dq) : Nth(t.dq, k).msg.kind = "hello" => Nth(t.dq, k).seq = 0
  <2> TAKE k \in 1 .. Count(t.dq)
  <2>1. CASE k = Count(t.dq)
    BY <1>1, <1>4, <1>7, <2>1
  <2>2. CASE k # Count(t.dq)
    <3>1. k \in 1 .. (Count(t.dq) - 1) /\ k + Shift(r.dq) \in 1 .. Count(r.dq)
      BY <1>4, <1>5, <1>6, <2>2
    <3> QED
      BY <1>4, <3>1 DEF QueueAt
  <2> QED
    BY <2>1, <2>2
<1>9. \/ r.seq = h /\ Holding(t.dq, Count(t.dq), u) /\ t.seq = Intact(u)
      \/ r.seq > h /\ t.seq > Intact(u) /\ \E b \in Nat : Holding(t.dq, b, u)
  <2>1. CASE r.seq = h
    <3>1. Holding(r.dq, Count(r.dq), s)
      BY <1>1, <2>1 DEF QueueAt, h
    <3>2. Holding(t.dq, Count(t.dq), u)
      BY <1>1, <2>1, <3>1, HeldNext DEF h, u
    <3> QED
      BY <1>3, <2>1, <3>2
  <2>2. CASE r.seq # h
    <3>1. r.seq > h
      BY <1>1, <2>2 DEF h
    <3>2. PICK b \in Nat : Holding(r.dq, b, s)
      BY DEF QueueAt
    <3>3. \E d \in Nat : Holding(t.dq, d, u)
      BY <1>1, <3>1, <3>2, HeldPast DEF h, u
    <3> QED
      BY <1>1, <1>3, <3>1, <3>3
  <2> QED
    BY <2>1, <2>2
<1>10. \E b \in Nat : Holding(t.dq, b, u)
  BY <1>6, <1>9
<1>11. \A k \in DOMAIN t.send : t.send[k].kind # "hello"
  <2> TAKE k \in DOMAIN t.send
  <2>1. k + 1 \in DOMAIN r.send /\ t.send[k] = r.send[k + 1] /\ k + 1 # 1
    BY <1>1
  <2> QED
    BY <2>1 DEF QueueAt
<1>12. QueueAt(c, t, u)
  BY <1>3, <1>4, <1>8, <1>9, <1>10, <1>11 DEF QueueAt
<1> QED
  BY <1>6, <1>12 DEF u

\* The frame of a message that was just numbered follows what is under way.
LEMMA SentOnWire ==
    ASSUME TypeOK, StreamInv, OwnerInv, NEW c \in Conns, conn[c].stage = "pumping",
           client.conn = c, client' = client,
           NEW m \in Message, conn[c].send # << >>, m = Head(conn[c].send),
           Grown, stream'[conn[c].id] = Numbering(stream[conn[c].id], conn[c].seq, m),
           wire' = wire \o << [seq |-> conn[c].seq, msg |-> m] >>
    PROVE  WireOK' /\ WireId' = conn[c].id /\ HelloFirst(conn[c].id)
<1> DEFINE r == conn[c]
           i == r.id
           s == stream[i]
           u == Numbering(s, r.seq, m)
           e == [seq |-> r.seq, msg |-> m]
<1>1. /\ Typed(r) /\ i \in Conns /\ i # 0 /\ s \in Seq(Recorded) /\ QueueAt(c, r, s)
      /\ CurrentAt(r, s, client, wire) /\ H(i) = Intact(s) /\ Intact(s) \in Nat
      /\ r.seq >= Intact(s) /\ i \in Ids /\ c # 0
  BY PumpingConn DEF Conns, Ids
<1>2. /\ r.seq \in Nat /\ r.send \in Seq(Message) /\ m = r.send[1] /\ 1 \in DOMAIN r.send
      /\ e.seq = r.seq /\ e.msg = m /\ wire \in Seq(Entry) /\ e \in Entry
  BY <1>1, TypesOfState DEF Typed, Entry
<1>3. stream'[i] = u /\ wire' = wire \o << e >>
  OBVIOUS
<1>4. /\ Intact(u) = IF r.seq = Intact(s) THEN r.seq + 1 ELSE Intact(s)
      /\ r.seq = Intact(s) => u[r.seq + 1] = m
  <2>1. m \in Recorded /\ m # Hole
    BY HoleIsNoMessage DEF Recorded
  <2>2. s \in Seq(Recorded) /\ r.seq \in Nat /\ r.seq >= Intact(s)
    BY <1>1, <1>2
  <2> HIDE DEF r, s
  <2> QED
    BY <2>1, <2>2, NumberedStream DEF u
<1>5. m.kind = "hello" => s = << >>
  BY <1>1, <1>2 DEF QueueAt
<1>6. Intact(stream'[i]) = Intact(u) /\ client.conn = c
  BY <1>3
<1> HIDE DEF e, u
<1>7. CASE s = << >>
  <2>1. wire = << >> /\ r.id = c /\ r.seq = 0 /\ m = Hello(c) /\ Intact(s) = 0
    BY <1>1, <1>2, <1>7, EmptyStream DEF CurrentAt, QueueAt, Greeting
  <2>2. wire' = << e >> /\ Len(wire') = 1 /\ wire'[1] = e /\ m.kind = "hello" /\ m.n = c
    BY <1>2, <1>3, <2>1 DEF Hello
  <2>3. WireId' = c /\ WireSeq' = 0 /\ Heads(wire')
    BY <1>2, <2>2 DEF WireId, WireSeq, Heads
  <2>4. client.id # c
    <3>1. client.id = c => client.seq <= 0 /\ client.seq > 0 /\ client.seq \in Nat
      BY <1>1, <1>7, <2>1, TypesOfState DEF StreamInv, ClientOK
    <3> QED
      BY <3>1
  <2>5. Intact(u) = 1 /\ u[1] = m
    BY <1>4, <2>1
  <2>6. Intact(stream'[c]) = 1 /\ stream'[c][1] = m
    BY <1>3, <1>6, <2>1, <2>5
  <2>7. DOMAIN wire' = {1}
    BY <2>2
  <2>8. /\ WireSeq' + 1 <= H(WireId)' /\ wire'[1].msg = stream'[WireId'][WireSeq' + 1]
    BY <1>2, <2>2, <2>3, <2>6 DEF H
  <2>9. WireOK'
    BY <1>1, <1>2, <2>1, <2>2, <2>3, <2>4, <2>7, <2>8 DEF WireOK
  <2> QED
    BY <1>1, <1>2, <1>7, <2>1, <2>2, <2>3, <2>9 DEF HelloFirst
<1>8. CASE s # << >>
  <2>1. WireId = i
    BY <1>1, <1>8 DEF StreamInv, PumpsToWire
  <2>2. /\ DOMAIN wire' = 1 .. (Len(wire) + 1) /\ Len(wire) \in Nat
        /\ \A k \in DOMAIN wire : wire'[k] = wire[k]
        /\ wire'[Len(wire) + 1] = e
        /\ wire # << >> => wire'[1] = wire[1]
        /\ wire = << >> => wire'[1] = e
        /\ wire' # << >>
    BY <1>2, <1>3
  <2>3. /\ WireId' = WireId /\ WireSeq' = WireSeq /\ Heads(wire') = Heads(wire)
        /\ Heads(wire') => wire'[1] = wire[1]
    BY <1>2, <1>5, <1>8, <2>2 DEF WireId, WireSeq, Heads
  <2>4. WireSeq \in Nat /\ (wire = << >> => WireSeq <= H(i))
    BY <2>1, TypesOfState DEF WireSeq, WireId, Heads, StreamInv, ClientOK
  <2>5. ASSUME NEW k \in DOMAIN wire, Running(k)'
        PROVE  WireSeq + k <= H(i) /\ wire[k].msg = s[WireSeq + k]
    <3>1. Running(k)
      <4>1. \A j \in 1 .. k : j \in DOMAIN wire
        BY <1>2
      <4> QED
        BY <2>2, <2>3, <2>5, <4>1 DEF Running
    <3> QED
      BY <2>1, <3>1 DEF StreamInv, WireOK
  <2>6. ASSUME NEW k \in DOMAIN wire', Running(k)'
        PROVE  WireSeq + k <= Intact(u) /\ wire'[k].msg = u[WireSeq + k]
    <3>1. CASE k # Len(wire) + 1
      <4>1. k \in DOMAIN wire /\ k \in Nat /\ k >= 1
        BY <1>2, <2>2, <3>1
      <4>2. WireSeq + k <= H(i) /\ wire[k].msg = s[WireSeq + k]
        BY <2>5, <2>6, <4>1
      <4>3. WireSeq + k \in 1 .. H(i)
        BY <1>1, <2>4, <4>1, <4>2
      <4>4. Intact(u) >= H(i) /\ u[WireSeq + k] = s[WireSeq + k] /\ Intact(u) \in Nat
        <5>1. Intact(u) \in Nat
          BY <1>1, <1>2, <1>4
        <5>2. Intact(stream'[i]) >= H(i) /\ stream'[i][WireSeq + k] = stream[i][WireSeq + k]
          BY <1>1, <4>3 DEF Grown
        <5> QED
          BY <1>3, <5>1, <5>2
      <4> QED
        BY <1>1, <2>2, <2>4, <4>1, <4>2, <4>4
    <3>2. CASE k = Len(wire) + 1
      <4>1. r.seq = WireSeq + Len(wire)
        <5>1. wire'[k].seq = WireSeq + k - 1
          BY <2>2, <2>3, <2>6, <3>2 DEF Running
        <5> QED
          BY <1>2, <2>2, <2>4, <3>2, <5>1
      <4>2. WireSeq + Len(wire) <= H(i)
        <5>1. CASE wire = << >>
          BY <2>4, <5>1
        <5>2. CASE wire # << >>
          <6>1. PICK l \in DOMAIN wire : l = Len(wire)
            BY <1>2, <5>2
          <6>2. 1 .. l \subseteq 1 .. k
            BY <2>2, <3>2, <6>1
          <6>3. Running(l)'
            BY <2>6, <6>2 DEF Running
          <6> QED
            BY <2>5, <6>1, <6>3
        <5> QED
          BY <5>1, <5>2
      <4>3. r.seq = Intact(s)
        BY <1>1, <1>2, <4>1, <4>2
      <4>4. WireSeq + k = r.seq + 1
        BY <1>2, <2>2, <2>4, <3>2, <4>1
      <4> QED
        BY <1>2, <1>4, <2>2, <3>2, <4>3, <4>4
    <3> QED
      BY <3>1, <3>2
  <2>7. \A k \in DOMAIN wire' :
          wire'[k].msg.kind = "hello" => /\ k = 1 /\ wire'[k].seq = 0
                                         /\ wire'[k].msg.n # client.id /\ wire'[k].msg.n # 0
    <3> TAKE k \in DOMAIN wire'
    <3>1. k = Len(wire) + 1 => wire'[k].msg.kind # "hello"
      BY <1>2, <1>5, <1>8, <2>2
    <3>2. k # Len(wire) + 1 => k \in DOMAIN wire /\ wire'[k] = wire[k]
      BY <1>2, <2>2
    <3> QED
      BY <3>1, <3>2 DEF StreamInv, WireOK
  <2>8. WireOK'
    <3>1. WireId' = i /\ WireSeq' = WireSeq /\ stream'[WireId'] = u /\ H(WireId)' = Intact(u)
      BY <1>3, <2>1, <2>3 DEF H
    <3>2. client'.conn # 0 /\ client'.id = client.id /\ WireId' \in Ids
      BY <1>1, <3>1
    <3>3. ASSUME NEW k \in DOMAIN wire', Running(k)'
          PROVE  WireSeq' + k <= H(WireId)' /\ wire'[k].msg = stream'[WireId'][WireSeq' + k]
      BY <2>6, <3>1, <3>3
    <3> QED
      BY <2>7, <3>2, <3>3 DEF WireOK
  <2> QED
    BY <2>1, <2>3, <2>8 DEF HelloFirst, Heads
<1> QED
  BY <1>7, <1>8

LEMMA NumberGrows ==
    ASSUME TypeOK, StreamInv, OwnerInv, NEW c \in Conns, conn[c].stage = "pumping",
           NEW x \in Recorded, Number(c, x)
    PROVE  LET i == conn[c].id
               u == Numbering(stream[i], conn[c].seq, x)
           IN  /\ Grown /\ stream' \in [Ids -> Seq(Recorded)] /\ stream'[i] = u
               /\ \A j \in Ids \ {i} : stream'[j] = stream[j]
<1> DEFINE r == conn[c]
           i == r.id
           s == stream[i]
           u == Numbering(s, r.seq, x)
<1>1. /\ Typed(r) /\ i \in Conns /\ i # 0 /\ s \in Seq(Recorded) /\ H(i) = Intact(s)
      /\ r.seq >= Intact(s) /\ i \in Ids /\ Intact(s) \in Nat
  BY PumpingConn DEF Conns, Ids
<1>2. r.seq \in Nat
  BY <1>1 DEF Typed
<1>3. /\ u \in Seq(Recorded) /\ u # << >> /\ \A k \in 1 .. H(i) : u[k] = s[k]
      /\ Intact(u) >= H(i)
  <2> HIDE DEF r, i, s
  <2>1. u \in Seq(Recorded) /\ u # << >>
    BY <1>1, <1>2, NumberedStream
  <2>2. \A k \in 1 .. Intact(s) : u[k] = s[k]
    BY <1>1, <1>2, NumberedStream
  <2>3. Intact(u) >= Intact(s)
    <3>1. Intact(u) = r.seq + 1 \/ Intact(u) = Intact(s)
      BY <1>1, <1>2, NumberedStream
    <3> HIDE DEF u
    <3> QED
      BY <1>1, <1>2, <3>1
  <2> QED
    BY <1>1, <2>1, <2>2, <2>3
<1>4. stream' = [stream EXCEPT ![i] = u]
  BY DEF Number, Numbering
<1> HIDE DEF u
<1>5. /\ Grown /\ stream' \in [Ids -> Seq(Recorded)] /\ stream'[i] = u
      /\ \A j \in Ids \ {i} : stream'[j] = stream[j]
  BY <1>1, <1>3, <1>4, StreamSet
<1> QED
  BY <1>5 DEF u

LEMMA StillIssued ==
    ASSUME OwnersKept, NEW c \in Conns, NEW i \in Conns, conn'[c].id = i
    PROVE  ~Unissued(i)'
BY DEF OwnersKept, OwnerInv, FreshIds

\* A message is numbered and in the dead queue, and written or not.
LEMMA SendStreams ==
    ASSUME TypeOK, StreamInv, OwnerInv, OwnersKept, Counters', NEW c \in Conns,
           conn[c].stage = "pumping", conn[c].send # << >>, client' = client,
           NEW m \in Message, m = Head(conn[c].send), Number(c, m),
           NEW stage \in {"pumping", "stopped"},
           conn' = Pumped(c, [seq |-> conn[c].seq, msg |-> m], stage),
           \/ stage = "pumping" /\ Transmit(c, << [seq |-> conn[c].seq, msg |-> m] >>)
           \/ stage = "stopped" /\ wire' = wire
    PROVE  StreamsKept
<1>0. PICK i \in Conns : i = conn[c].id
  BY PumpingConn
<1> DEFINE r == conn[c]
           s == stream[i]
           u == Numbering(s, r.seq, m)
           e == [seq |-> r.seq, msg |-> m]
           t == conn'[c]
<1>1. /\ Typed(r) /\ r.id = i /\ i # 0 /\ s \in Seq(Recorded) /\ QueueAt(c, r, s)
      /\ r.seq >= Intact(s) /\ i \in Ids
      /\ \A d \in Conns \ {c} : conn[d].id # i
  BY <1>0, PumpingConn DEF Conns, Ids
<1>2. /\ e \in Entry /\ r.dq \in Queue /\ Shaped(r.dq) /\ r.seq \in Nat /\ r.send \in Seq(Message)
      /\ m \in Recorded
  BY <1>1 DEF Typed, Entry, QueueAt, Recorded
<1>3. /\ Grown /\ stream' \in [Ids -> Seq(Recorded)] /\ stream'[i] = u
      /\ \A j \in Ids \ {i} : stream'[j] = stream[j]
  BY <1>1, <1>2, NumberGrows
<1>4. /\ t = [r EXCEPT !.send = Tail(@), !.seq = @ + 1, !.dq = AddToDeadQueue(@, e),
                       !.stage = stage]
      /\ \A d \in Conns \ {c} : conn'[d] = conn[d]
  BY TypesOfState DEF Pumped
<1>5. /\ AddToDeadQueue(r.dq, e) \in Queue /\ Tail(r.send) \in Seq(Message) /\ r.seq + 1 \in Nat
  BY <1>2, AddedToQueue
<1>6. /\ Typed(t) /\ t.stage = stage /\ t.id = i /\ t.seq = r.seq + 1 /\ t.send = Tail(r.send)
      /\ t.dq = AddToDeadQueue(r.dq, e)
  <2> HIDE DEF r, e, t
  <2> QED
    BY <1>1, <1>4, <1>5 DEF Typed, Fields, Stages
<1>7. QueueAt(c, t, u) /\ Count(t.dq) > 0 /\ u # << >>
  <2>1. QueueAt(c, t, u) /\ Count(t.dq) > 0
    <3> HIDE DEF r, s, t
    <3> QED
      BY <1>1, <1>6, NumberedConn DEF r
  <2>2. u # << >>
    BY <1>1, <1>2, NumberedStream
  <2> QED
    BY <2>1, <2>2
<1> HIDE DEF u, e
<1>8. ConnOK(c)'
  <2>1. Count(t.dq) # 0 /\ t.stage \in {"pumping", "stopped"}
    BY <1>6, <1>7
  <2> HIDE DEF t
  <2>2. EmptiedAt(t, u, client', wire')
    BY <2>1 DEF EmptiedAt
  <2>3. AskedAt(t, Intact(stream'[t.reqId]), client', wire')
    BY <2>1 DEF AskedAt, Asking
  <2>4. CurrentAt(t, u, client', wire')
    BY <1>7, <2>1 DEF CurrentAt
  <2> QED
    BY <1>3, <1>6, <1>7, <2>2, <2>3, <2>4 DEF ConnOK, H, t
<1>9. ~Unissued(i)'
  BY <1>1, <1>6, StillIssued
<1>10. CASE client.conn = c /\ stage = "pumping"
  <2>1. wire' = wire \o << e >>
    BY <1>10 DEF Transmit, e
  <2>2. WireOK' /\ WireId' = i /\ HelloFirst(i)
    <3>1. /\ WireOK' /\ WireId' = conn[c].id /\ HelloFirst(conn[c].id)
      BY <1>0, <1>3, <1>10, <2>1, SentOnWire DEF e, u
    <3> QED
      BY <1>0, <3>1
  <2>3. PumpsToWire'
    BY <1>6, <1>10, <2>2 DEF PumpsToWire
  <2>4. StreamInv'
    <3>1. i \in Ids /\ i # 0 /\ \A d \in Conns \ {c} : conn[d].id # i /\ conn'[d] = conn[d]
      BY <1>1, <1>4
    <3> HIDE DEF r, s, t
    <3> QED
      BY <1>3, <1>8, <1>9, <1>10, <2>2, <2>3, <3>1, PumpStep
  <2>5. wire' \in Seq(Entry)
    BY <1>2, <2>1, TypesOfState
  <2> QED
    BY <1>3, <1>4, <1>6, <2>4, <2>5, TypesOfState, TypeOKIs, ClientTyped DEF StreamsKept
<1>11. CASE ~(client.conn = c /\ stage = "pumping")
  <2>1. wire' = wire
    BY <1>11 DEF Transmit
  <2>2. WireOK' /\ HelloFirst(i)
    BY <1>3, <2>1, SameWire DEF HelloFirst, Heads
  <2>3. client.conn = c => PumpsToWire'
    BY <1>6, <1>11 DEF PumpsToWire
  <2>4. StreamInv'
    BY <1>1, <1>3, <1>4, <1>8, <1>9, <2>1, <2>2, <2>3, PumpStep
  <2> QED
    BY <1>3, <1>4, <1>6, <2>1, <2>4, TypesOfState, TypeOKIs, ClientTyped DEF StreamsKept
<1> QED
  BY <1>10, <1>11

\* An event that fails to encode takes a number and leaves a hole.
LEMMA EncodeErrorStreams ==
    ASSUME TypeOK, StreamInv, OwnerInv, OwnersKept, Counters', NEW c \in Conns,
           conn[c].stage = "pumping", conn[c].send # << >>, client' = client, wire' = wire,
           Head(conn[c].send).kind = "event", Number(c, Hole),
           conn' = [conn EXCEPT ![c].send = Tail(@), ![c].seq = @ + 1]
    PROVE  StreamsKept
<1>0. PICK i \in Conns : i = conn[c].id
  BY PumpingConn
<1> DEFINE r == conn[c]
           s == stream[i]
           u == Numbering(s, r.seq, Hole)
           t == conn'[c]
<1>1. /\ Typed(r) /\ r.id = i /\ i # 0 /\ s \in Seq(Recorded) /\ QueueAt(c, r, s)
      /\ r.seq >= Intact(s) /\ i \in Ids /\ EmptiedAt(r, s, client, wire)
      /\ \A d \in Conns \ {c} : conn[d].id # i
      /\ Intact(s) \in Nat
  BY <1>0, PumpingConn DEF Conns, Ids
<1>2. r.seq \in Nat /\ r.send \in Seq(Message) /\ Hole \in Recorded
  BY <1>1, HoleIsNoMessage DEF Typed
<1>3. /\ Grown /\ stream' \in [Ids -> Seq(Recorded)] /\ stream'[i] = u
      /\ \A j \in Ids \ {i} : stream'[j] = stream[j]
  BY <1>1, <1>2, NumberGrows
<1>4. /\ t = [r EXCEPT !.send = Tail(@), !.seq = @ + 1]
      /\ \A d \in Conns \ {c} : conn'[d] = conn[d]
  BY TypesOfState
<1>5. Tail(r.send) \in Seq(Message) /\ r.seq + 1 \in Nat
  BY <1>2
<1>6. /\ Typed(t) /\ t.stage = "pumping" /\ t.id = i /\ t.seq = r.seq + 1 /\ t.send = Tail(r.send)
      /\ t.dq = r.dq
  <2>1. r.stage = "pumping"
    OBVIOUS
  <2> HIDE DEF r, t
  <2> QED
    BY <1>1, <1>4, <1>5, <2>1 DEF Typed, Fields
<1>7. s # << >>
  <2>1. r.send[1].kind = "event"
    BY <1>2
  <2> QED
    BY <1>1, <2>1 DEF QueueAt, Greeting, Hello
<1>8. /\ u \in Seq(Recorded) /\ u # << >> /\ Intact(u) = Intact(s)
      /\ \A k \in 1 .. Intact(s) : u[k] = s[k]
  <2> HIDE DEF r, s
  <2>1. u \in Seq(Recorded) /\ u # << >>
    BY <1>1, <1>2, NumberedStream
  <2>2. \A k \in 1 .. Intact(s) : u[k] = s[k]
    BY <1>1, <1>2, NumberedStream
  <2>3. Intact(u) = Intact(s)
    BY <1>1, <1>2, NumberedStream
  <2> QED
    BY <2>1, <2>2, <2>3
<1> HIDE DEF u
<1>9. QueueAt(c, t, u)
  <2>1. \E b \in Nat : Holding(t.dq, b, u)
    <3>1. PICK b \in Nat : Holding(r.dq, b, s)
      BY <1>1 DEF QueueAt
    <3>2. Holding(t.dq, b, u)
      <4> HIDE DEF r, s, t
      <4> QED
        BY <1>1, <1>6, <1>8, <3>1, HeldStays
    <3> QED
      BY <3>2
  <2>2. t.seq > Intact(u)
    BY <1>1, <1>2, <1>6, <1>8
  <2>3. \A k \in DOMAIN t.send : t.send[k].kind # "hello"
    <3> TAKE k \in DOMAIN t.send
    <3>1. k + 1 \in DOMAIN r.send /\ t.send[k] = r.send[k + 1]
      <4>1. r.send # << >>
        OBVIOUS
      <4> HIDE DEF r, t
      <4> QED
        BY <1>2, <1>6, <4>1
    <3> QED
      BY <1>1, <1>7, <3>1 DEF QueueAt
  <2>4. /\ Shaped(t.dq)
        /\ \A k \in 1 .. Count(t.dq) : Nth(t.dq, k).msg.kind = "hello" => Nth(t.dq, k).seq = 0
    BY <1>1, <1>6 DEF QueueAt
  <2> HIDE DEF t
  <2> QED
    BY <1>6, <1>8, <2>1, <2>2, <2>3, <2>4 DEF QueueAt
<1>10. ConnOK(c)'
  <2>1. EmptiedAt(t, u, client, wire)
    BY <1>1, <1>6, <1>7, <1>8 DEF EmptiedAt
  <2>2. AskedAt(t, Intact(stream'[t.reqId]), client, wire) /\ CurrentAt(t, u, client, wire)
    BY <1>6, <1>8 DEF AskedAt, Asking, CurrentAt
  <2> QED
    BY <1>3, <1>6, <1>9, <2>1, <2>2 DEF ConnOK, H
<1>11. ~Unissued(i)'
  BY <1>1, <1>6, StillIssued
<1>12. WireOK' /\ HelloFirst(i)
  BY <1>3, SameWire DEF HelloFirst, Heads
<1>13. client.conn = c => PumpsToWire'
  <2> HAVE client.conn = c
  <2>1. WireId = i /\ WireId' = WireId
    BY <1>1, <1>7 DEF StreamInv, PumpsToWire, WireId, Heads, Conns
  <2> QED
    BY <1>6, <2>1 DEF PumpsToWire
<1>14. StreamInv'
  BY <1>1, <1>3, <1>4, <1>10, <1>11, <1>12, <1>13, PumpStep
<1> QED
  BY <1>3, <1>4, <1>6, <1>14, TypesOfState, TypeOKIs, ClientTyped DEF StreamsKept

LEMMA PumpSendStreams ==
    ASSUME TypeOK, StreamInv, OwnerInv, OwnersKept, Counters', NEW c \in Conns, PumpSend(c)
    PROVE  StreamsKept
<1> DEFINE m == Head(conn[c].send)
           e == [seq |-> conn[c].seq, msg |-> m]
<1>1. conn[c].stage = "pumping" /\ conn[c].send # << >> /\ client' = client
  BY DEF PumpSend
<1>2. m \in Message
  <2>1. conn[c].send \in Seq(Message)
    BY TypesOfState DEF Typed
  <2> QED
    BY <1>1, <2>1
<1>3. CASE Number(c, m) /\ conn' = Pumped(c, e, "pumping") /\ Transmit(c, << e >>)
  BY <1>1, <1>2, <1>3, SendStreams
<1>4. CASE Number(c, m) /\ conn' = Pumped(c, e, "stopped") /\ wire' = wire
  BY <1>1, <1>2, <1>4, SendStreams
<1>5. CASE /\ m.kind = "event" /\ Number(c, Hole) /\ wire' = wire
           /\ conn' = [conn EXCEPT ![c].send = Tail(@), ![c].seq = @ + 1]
  BY <1>1, <1>5, EncodeErrorStreams
<1> QED
  BY <1>3, <1>4, <1>5 DEF PumpSend

\* A connection about to start its write pump that took over the queues of an id.
LEMMA ResumingConn ==
    ASSUME TypeOK, StreamInv, OwnerInv, NEW c \in Conns, conn[c].stage = "registered",
           conn[c].seq # 0
    PROVE  LET r == conn[c]
               s == stream[r.id]
           IN  /\ r.reused /\ r.id = r.reqId /\ r.id # c /\ r.seq = r.reqSeq
               /\ r.seq \in 1 .. Intact(s) /\ s # << >>
               /\ Count(r.dq) = 0 => r.seq = Intact(s)
               /\ \A k \in DOMAIN r.send : r.send[k].kind # "hello"
               /\ client.conn = c => /\ wire = << >> /\ client.id = r.id /\ client.seq = r.seq
<1> DEFINE r == conn[c]
           s == stream[r.id]
<1>1. /\ Typed(r) /\ r.id # 0 /\ s \in Seq(Recorded) /\ QueueAt(c, r, s)
      /\ AskedAt(r, H(r.reqId), client, wire)
      /\ client.conn = c => CurrentAt(r, s, client, wire)
      /\ H(r.id) = Intact(s) /\ Intact(s) \in Nat
  BY PumpingConn
<1>2. Starting(c, r, s) /\ r.reused
  BY <1>1 DEF QueueAt, Starting
<1>3. /\ r.id = r.reqId /\ r.id # c /\ r.seq = r.reqSeq
      /\ Count(r.dq) = 0 => r.seq = Intact(s)
  BY <1>2 DEF Starting
<1>4. r.seq \in 1 .. Intact(s)
  BY <1>1, <1>3 DEF AskedAt, Asking
<1>5. s # << >>
  BY <1>1, <1>4, EmptyStream
<1>6. \A k \in DOMAIN r.send : r.send[k].kind # "hello"
  BY <1>1, <1>5 DEF QueueAt
<1>7. client.conn = c => wire = << >> /\ client.id = r.id /\ client.seq = r.seq
  BY <1>1, <1>3 DEF CurrentAt
<1> QED
  BY <1>2, <1>3, <1>4, <1>5, <1>6, <1>7

LEMMA SameStreams ==
    ASSUME TypeOK, stream' = stream
    PROVE  Grown /\ stream' \in [Ids -> Seq(Recorded)]
<1>1. \A j \in Ids : H(j) \in Nat /\ stream[j] \in Seq(Recorded)
  BY TypesOfState, IntactPart DEF H
<1> QED
  BY <1>1, TypesOfState DEF Grown, H

\* The dead queue is drained: the client gets again what its stream still misses.
LEMMA AgainOnWire ==
    ASSUME TypeOK, StreamInv, OwnerInv, NEW c \in Conns, client.conn = c, client' = client,
           wire = << >>, NEW i \in Ids, client.id = i, stream' = stream,
           NEW sent, SentAgain(sent, client.seq, stream[i]), NEW k \in 0 .. Len(sent),
           wire' = SubSeq(sent, 1, k)
    PROVE  WireOK' /\ WireId' = i /\ ~Heads(wire') /\ wire' \in Seq(Entry)
<1> DEFINE s == stream[i]
           seq == client.seq
           h == Intact(s)
<1>1. /\ sent \in Seq(Entry) /\ h \in Nat /\ seq \in Nat /\ s \in Seq(Recorded)
      /\ h - seq \in 1 .. Len(sent)
      /\ \A j \in 1 .. (h - seq) : sent[j].seq = seq + j - 1 /\ sent[j].msg = s[seq + j]
      /\ \A j \in (h - seq + 1) .. Len(sent) : sent[j].seq > h
      /\ \A j \in 1 .. Len(sent) : sent[j].msg.kind # "hello"
  BY TypesOfState, IntactPart DEF SentAgain
<1> HIDE DEF s, seq, h
<1>2. /\ wire' \in Seq(Entry) /\ DOMAIN wire' = 1 .. k /\ k \in Nat /\ k <= Len(sent)
      /\ \A j \in 1 .. k : wire'[j] = sent[j]
  BY <1>1
<1>3. \A j \in DOMAIN wire' : wire'[j].msg.kind # "hello"
  BY <1>1, <1>2
<1>4. ~Heads(wire')
  BY <1>2, <1>3 DEF Heads
<1>5. WireId' = i /\ WireSeq' = seq /\ client'.conn # 0 /\ client'.id = client.id
  BY <1>4 DEF WireId, WireSeq, seq, Conns
<1>6. ASSUME NEW j \in DOMAIN wire', Running(j)'
      PROVE  seq + j <= h /\ wire'[j].msg = s[seq + j]
  <2>1. j \in Nat /\ j >= 1 /\ j <= k
    BY <1>2
  <2>2. j <= h - seq
    <3> SUFFICES ASSUME j > h - seq PROVE FALSE
      BY <1>1, <2>1
    <3>1. PICK l \in 1 .. j : l = h - seq + 1
      BY <1>1, <2>1
    <3>2. wire'[l].seq = seq + l - 1
      BY <1>5, <1>6 DEF Running
    <3>3. sent[l].seq > h /\ wire'[l] = sent[l]
      BY <1>1, <1>2, <2>1, <3>1
    <3> QED
      BY <1>1, <3>1, <3>2, <3>3
  <2>3. j \in 1 .. k /\ j \in 1 .. (h - seq) /\ seq + j <= h
    BY <1>1, <1>2, <2>1, <2>2
  <2>4. wire'[j] = sent[j] /\ sent[j].msg = s[seq + j]
    BY <1>1, <1>2, <2>3
  <2> QED
    BY <2>3, <2>4
<1>7. stream'[WireId'] = s /\ H(WireId)' = h
  BY <1>5 DEF H, s, h
<1>8. WireOK'
  BY <1>3, <1>5, <1>6, <1>7 DEF WireOK
<1> QED
  BY <1>2, <1>4, <1>5, <1>8

LEMMA HelloOnWire ==
    ASSUME TypeOK, StreamInv, NEW c \in Conns, client.conn = c, client' = client,
           wire = << >>, stream[c] = << >>, stream'[c] = << Hello(c) >>,
           wire' = << [seq |-> 0, msg |-> Hello(c)] >>
    PROVE  WireOK' /\ WireId' = c /\ wire' \in Seq(Entry)
<1> DEFINE e == [seq |-> 0, msg |-> Hello(c)]
<1>1. /\ Hello(c) \in Message /\ Hello(c).kind = "hello" /\ Hello(c).n = c /\ c # 0 /\ c \in Ids
      /\ e.seq = 0 /\ e.msg = Hello(c)
  BY DEF Hello, Message, Conns, Ids
<1>2. e \in Entry
  BY <1>1 DEF Entry
<1>3. Len(wire') = 1 /\ wire'[1] = e /\ DOMAIN wire' = {1} /\ wire' # << >>
  OBVIOUS
<1> HIDE DEF e
<1>4. WireId' = c /\ WireSeq' = 0
  BY <1>1, <1>3 DEF WireId, WireSeq, Heads
<1>5. client.id # c
  <2>1. client.id = c => client.seq <= 0 /\ client.seq > 0 /\ client.seq \in Nat
    BY <1>1, EmptyStream, TypesOfState DEF StreamInv, ClientOK, H
  <2> QED
    BY <2>1
<1>6. Intact(stream'[c]) = 1 /\ stream'[c][1] = Hello(c)
  BY <1>1, OneInStream
<1>7. WireSeq' + 1 <= H(WireId)' /\ wire'[1].msg = stream'[WireId'][WireSeq' + 1]
  BY <1>1, <1>3, <1>4, <1>6 DEF H
<1>8. WireOK'
  BY <1>1, <1>3, <1>4, <1>5, <1>7 DEF WireOK
<1>9. wire' \in Seq(Entry)
  BY <1>2, <1>3
<1> QED
  BY <1>4, <1>8, <1>9

LEMMA StartDrained ==
    ASSUME TypeOK, StreamInv, OwnerInv, OwnersKept, Counters', NEW c \in Conns,
           conn[c].stage = "registered", conn[c].seq # 0,
           IsInDeadQueue(conn[c].dq, conn[c].seq),
           NEW sent, sent = Drain(conn[c].dq, IndexInDeadQueue(conn[c].dq, conn[c].seq)),
           NEW k \in 0 .. Len(sent), Transmit(c, SubSeq(sent, 1, k)),
           conn' = [conn EXCEPT ![c].seq = @ + k,
                                ![c].stage = IF k = Len(sent) THEN "pumping" ELSE "stopped"],
           stream' = stream, client' = client
    PROVE  StreamsKept
<1>0. PICK i \in Conns : i = conn[c].id
  BY PumpingConn
<1> DEFINE r == conn[c]
           s == stream[i]
           t == conn'[c]
           h == Intact(s)
<1>1. /\ Typed(r) /\ r.id = i /\ i # 0 /\ i \in Ids /\ s \in Seq(Recorded) /\ QueueAt(c, r, s)
      /\ EmptiedAt(r, s, client, wire)
      /\ \A d \in Conns \ {c} : conn[d].id # i
  BY <1>0, PumpingConn DEF Conns, Ids
<1>2. /\ r.seq \in 1 .. h /\ s # << >> /\ \A l \in DOMAIN r.send : r.send[l].kind # "hello"
      /\ client.conn = c => wire = << >> /\ client.id = i /\ client.seq = r.seq
  BY <1>0, ResumingConn
<1>3. PICK b \in Nat : Holding(r.dq, b, s)
  BY <1>1 DEF QueueAt
<1>4. SentAgain(sent, r.seq, s) /\ (Len(sent) = h - r.seq => b = Count(r.dq))
  <2>1. r.dq \in Queue /\ Shaped(r.dq) /\ NoHelloAgain(r.dq)
    BY <1>1 DEF Typed, QueueAt, NoHelloAgain
  <2> HIDE DEF s
  <2> QED
    BY <1>1, <1>2, <1>3, <2>1, DrainSendsAgain
<1>5. h - r.seq \in 1 .. Len(sent) /\ h \in Nat /\ r.seq \in Nat /\ k \in Nat /\ Len(sent) \in Nat
  <2>1. h \in Nat /\ r.seq \in 1 .. h /\ k \in 0 .. Len(sent)
    BY <1>1, <1>2, IntactPart
  <2>2. sent \in Seq(Entry) /\ h - r.seq \in 1 .. Len(sent)
    BY <1>4 DEF SentAgain
  <2> QED
    BY <2>1, <2>2
<1>6. /\ t = [r EXCEPT !.seq = @ + k,
                       !.stage = IF k = Len(sent) THEN "pumping" ELSE "stopped"]
      /\ \A d \in Conns \ {c} : conn'[d] = conn[d]
  BY TypesOfState
<1>7. /\ Typed(t) /\ t.seq = r.seq + k /\ t.stage = IF k = Len(sent) THEN "pumping" ELSE "stopped"
      /\ t.id = i /\ t.dq = r.dq /\ t.send = r.send
  <2> HIDE DEF r, t
  <2>1. PICK g \in Stages : g = IF k = Len(sent) THEN "pumping" ELSE "stopped"
    BY DEF Stages
  <2>2. t = [r EXCEPT !.seq = @ + k, !.stage = g]
    BY <1>6, <2>1
  <2>3. /\ Typed(t) /\ t.seq = r.seq + k /\ t.stage = g
        /\ t.id = r.id /\ t.dq = r.dq /\ t.send = r.send
    <3>1. PICK q \in Nat : q = r.seq + k
      BY <1>5
    <3>2. t = [r EXCEPT !.seq = q, !.stage = g]
      BY <2>2, <3>1
    <3>3. Typed(t) /\ t.seq = q /\ t.stage = g /\ t.id = r.id /\ t.dq = r.dq /\ t.send = r.send
      BY <1>1, <2>1, <3>2 DEF Typed, Fields
    <3> QED
      BY <3>1, <3>3
  <2> QED
    BY <1>1, <2>1, <2>3
<1>8. QueueAt(c, t, s)
  <2>1. t.stage = "pumping" => \/ t.seq = h /\ Holding(t.dq, Count(t.dq), s)
                               \/ t.seq > h
    <3> HAVE t.stage = "pumping"
    <3>1. t.seq = r.seq + Len(sent)
      BY <1>7
    <3>2. CASE Len(sent) = h - r.seq
      <4>1. Holding(t.dq, Count(t.dq), s)
        BY <1>3, <1>4, <1>7, <3>2
      <4> QED
        BY <1>5, <3>1, <3>2, <4>1
    <3>3. CASE Len(sent) # h - r.seq
      BY <1>5, <3>1, <3>3
    <3> QED
      BY <3>2, <3>3
  <2>2. \E d \in Nat : Holding(t.dq, d, s)
    BY <1>3, <1>7
  <2>3. t.stage \in {"pumping", "stopped"}
    BY <1>7
  <2>4. /\ Shaped(t.dq)
        /\ \A l \in 1 .. Count(t.dq) : Nth(t.dq, l).msg.kind = "hello" => Nth(t.dq, l).seq = 0
        /\ \A l \in DOMAIN t.send : t.send[l].kind # "hello"
    BY <1>1, <1>2, <1>7 DEF QueueAt
  <2> HIDE DEF t, s
  <2> QED
    BY <1>2, <2>1, <2>2, <2>3, <2>4 DEF QueueAt, h
<1>9. Grown /\ stream' \in [Ids -> Seq(Recorded)]
  BY SameStreams
<1>10. /\ client.conn = c => WireOK' /\ WireId' = i /\ wire' \in Seq(Entry)
       /\ client.conn # c => wire' = wire
       /\ Heads(wire') => Heads(wire) /\ wire'[1] = wire[1]
  <2>1. CASE client.conn = c
    <3>1. wire' = SubSeq(sent, 1, k)
      <4>1. SubSeq(sent, 1, k) \in Seq(Entry)
        <5>1. sent \in Seq(Entry)
          BY <1>4 DEF SentAgain
        <5> HIDE DEF t, s
        <5> QED
          BY <1>5, <5>1
      <4> QED
        BY <1>2, <2>1, <4>1 DEF Transmit
    <3>2. WireOK' /\ WireId' = i /\ ~Heads(wire') /\ wire' \in Seq(Entry)
      <4>1. client.id = i /\ wire = << >> /\ SentAgain(sent, client.seq, stream[i])
        BY <1>2, <1>4, <2>1
      <4> QED
        BY <1>1, <2>1, <3>1, <4>1, AgainOnWire
    <3> QED
      BY <2>1, <3>2
  <2>2. CASE client.conn # c
    BY <2>2 DEF Transmit, Heads
  <2> QED
    BY <2>1, <2>2
<1>11. ConnOK(c)'
  <2>1. EmptiedAt(t, s, client, wire') /\ AskedAt(t, Intact(stream'[t.reqId]), client, wire')
        /\ CurrentAt(t, s, client, wire')
    BY <1>1, <1>2, <1>7, <1>10 DEF EmptiedAt, AskedAt, Asking, CurrentAt
  <2> QED
    BY <1>7, <1>8, <2>1 DEF ConnOK, H
<1>12. client.conn = c => PumpsToWire'
  BY <1>7, <1>10 DEF PumpsToWire
<1>13. StreamInv'
  <2>1. HelloFirst(i)
    BY <1>10 DEF HelloFirst
  <2>2. \A d \in Conns \ {c} : conn[d].id # i /\ conn'[d] = conn[d]
    BY <1>1, <1>6
  <2> HIDE DEF r, s, t
  <2> QED
    BY <1>1, <1>9, <1>10, <1>11, <1>12, <2>1, <2>2, PumpStep
<1>14. wire' \in Seq(Entry)
  BY <1>10, TypesOfState
<1> QED
  BY <1>6, <1>7, <1>9, <1>13, <1>14, TypesOfState, TypeOKIs, ClientTyped DEF StreamsKept

\* The client's next message was evicted: a new id, a new stream, a hello.
LEMMA StartedOver ==
    ASSUME TypeOK, StreamInv, OwnerInv, OwnersKept, Counters', NEW c \in Conns,
           conn[c].stage = "registered", conn[c].seq # 0,
           conn' = [conn EXCEPT
                      ![c].dq = AddToDeadQueue(ClearDeadQueue(conn[c].dq),
                                               [seq |-> 0, msg |-> Hello(c)]),
                      ![c].id = c, ![c].seq = 1, ![c].stage = "pumping"],
           stream' = [stream EXCEPT ![c] = << Hello(c) >>],
           Transmit(c, << [seq |-> 0, msg |-> Hello(c)] >>), client' = client
    PROVE  StreamsKept
<1> DEFINE r == conn[c]
           e == [seq |-> 0, msg |-> Hello(c)]
           u == << Hello(c) >>
           dq == AddToDeadQueue(EmptyDeadQueue, e)
           t == conn'[c]
<1>1. /\ Typed(r) /\ QueueAt(c, r, stream[r.id]) /\ r.dq \in Queue /\ Shaped(r.dq)
      /\ c \in Ids /\ c # 0
  <2>1. Typed(r) /\ QueueAt(c, r, stream[r.id])
    BY PumpingConn
  <2>2. r.dq \in Queue /\ Shaped(r.dq)
    BY <2>1 DEF Typed, QueueAt
  <2>3. c \in Ids /\ c # 0
    BY DEF Conns, Ids
  <2> QED
    BY <2>1, <2>2, <2>3
<1>2. /\ r.id # c /\ \A l \in DOMAIN r.send : r.send[l].kind # "hello"
      /\ client.conn = c => wire = << >>
  BY ResumingConn
<1>3. Unissued(c) /\ (\A d \in Conns : conn[d].id # c) /\ stream[c] = << >>
  <2>1. Unissued(c)
    BY <1>2 DEF Unissued
  <2> QED
    BY <2>1 DEF OwnerInv, FreshIds, StreamInv, NothingUnissued
<1>4. /\ Hello(c) \in Message /\ Hello(c).kind = "hello" /\ e \in Entry
      /\ e.seq = 0 /\ e.msg = Hello(c)
  BY <1>1 DEF Hello, Message, Entry, Ids
<1>5. u \in Seq(Recorded) /\ Intact(u) = 1 /\ u[1] = Hello(c) /\ u # << >>
  BY <1>4, OneInStream
<1>6. dq \in Queue /\ Shaped(dq) /\ Count(dq) = 1 /\ Nth(dq, 1) = e
  <2>1. Shift(EmptyDeadQueue) = 0
    BY DeadQueueSizeAssumption, EmptyIsShaped DEF Shift
  <2>2. /\ dq \in Queue /\ Shaped(dq) /\ Count(dq) = Count(EmptyDeadQueue) + 1 - Shift(EmptyDeadQueue)
        /\ Nth(dq, Count(dq)) = e
    <3> HIDE DEF e
    <3> QED
      BY <1>4, EmptyIsShaped, AddedToQueue
  <2> HIDE DEF dq
  <2>3. Count(dq) = 1
    BY <2>1, <2>2, EmptyIsShaped
  <2> QED
    BY <2>2, <2>3
<1>7. /\ t = [r EXCEPT !.dq = dq, !.id = c, !.seq = 1, !.stage = "pumping"]
      /\ \A d \in Conns \ {c} : conn'[d] = conn[d]
  <2>1. ClearDeadQueue(r.dq) = EmptyDeadQueue
    BY <1>1, ClearEmpties
  <2> QED
    BY <2>1, TypesOfState
<1> HIDE DEF dq, e, u
<1>8. /\ Typed(t) /\ t.dq = dq /\ t.id = c /\ t.seq = 1 /\ t.stage = "pumping" /\ t.send = r.send
  <2> HIDE DEF r, t
  <2> QED
    BY <1>1, <1>6, <1>7 DEF Typed, Fields, Stages
<1>9. QueueAt(c, t, u)
  <2>1. Holding(dq, 1, u)
    BY <1>4, <1>5, <1>6 DEF Holding, Numbered
  <2>2. \A k \in 1 .. Count(t.dq) : Nth(t.dq, k).msg.kind = "hello" => Nth(t.dq, k).seq = 0
    BY <1>4, <1>6, <1>8
  <2>3. \E b \in Nat : Holding(t.dq, b, u)
    BY <1>8, <2>1
  <2>4. \A k \in DOMAIN t.send : t.send[k].kind # "hello"
    BY <1>2, <1>8
  <2> HIDE DEF t
  <2> QED
    BY <1>5, <1>6, <1>8, <2>1, <2>2, <2>3, <2>4 DEF QueueAt
<1>10. /\ Grown /\ stream' \in [Ids -> Seq(Recorded)] /\ stream'[c] = u
       /\ \A j \in Ids \ {c} : stream'[j] = stream[j]
  <2>1. H(c) = 0
    BY <1>3, EmptyStream DEF H
  <2>2. Intact(u) >= H(c) /\ \A k \in 1 .. H(c) : u[k] = stream[c][k]
    BY <1>5, <2>1
  <2>3. stream' = [stream EXCEPT ![c] = u]
    BY DEF u
  <2> QED
    BY <1>1, <1>5, <2>2, <2>3, StreamSet
<1>11. /\ client.conn = c => WireOK' /\ WireId' = c /\ wire' \in Seq(Entry)
       /\ client.conn # c => wire' = wire
       /\ HelloFirst(c)
  <2>1. CASE client.conn = c
    <3>1. wire = << >> /\ wire' = << e >>
      BY <1>2, <1>4, <2>1 DEF Transmit, e
    <3>2. WireOK' /\ WireId' = c /\ wire' \in Seq(Entry)
      BY <1>3, <1>10, <2>1, <3>1, HelloOnWire DEF e, u
    <3>3. wire'[1].msg.n = c
      BY <1>4, <3>1 DEF Hello
    <3> QED
      BY <1>3, <2>1, <3>2, <3>3 DEF HelloFirst
  <2>2. CASE client.conn # c
    BY <2>2 DEF Transmit, HelloFirst, Heads
  <2> QED
    BY <2>1, <2>2
<1>12. ConnOK(c)'
  <2>1. EmptiedAt(t, u, client, wire') /\ AskedAt(t, Intact(stream'[t.reqId]), client, wire')
        /\ CurrentAt(t, u, client, wire')
    BY <1>5, <1>6, <1>8 DEF EmptiedAt, AskedAt, Asking, CurrentAt
  <2> QED
    BY <1>8, <1>9, <1>10, <2>1 DEF ConnOK, H
<1>13. client.conn = c => PumpsToWire'
  BY <1>8, <1>11 DEF PumpsToWire
<1>14. StreamInv'
  <2>1. ~Unissued(c)'
    BY <1>8 DEF Unissued
  <2>2. \A d \in Conns \ {c} : conn[d].id # c /\ conn'[d] = conn[d]
    BY <1>3, <1>7
  <2> HIDE DEF r, t
  <2> QED
    BY <1>1, <1>10, <1>11, <1>12, <1>13, <2>1, <2>2, PumpStep
<1>15. wire' \in Seq(Entry)
  BY <1>11, TypesOfState
<1> QED
  BY <1>7, <1>8, <1>10, <1>14, <1>15, TypesOfState, TypeOKIs, ClientTyped DEF StreamsKept

\* Nothing to send again: the pump goes on.
LEMMA StartedWithoutLoss ==
    ASSUME TypeOK, StreamInv, OwnerInv, OwnersKept, Counters', NEW c \in Conns,
           conn[c].stage = "registered",
           \/ conn[c].seq = 0
           \/ /\ ~IsInDeadQueue(conn[c].dq, conn[c].seq)
              /\ ~HasMsgLoss(conn[c].dq, conn[c].seq),
           conn' = [conn EXCEPT ![c].stage = "pumping"],
           UNCHANGED <<stream, client, wire>>
    PROVE  StreamsKept
<1> DEFINE r == conn[c]
           s == stream[r.id]
           t == conn'[c]
<1>1. /\ Typed(r) /\ r.id # 0 /\ s \in Seq(Recorded) /\ QueueAt(c, r, s)
      /\ EmptiedAt(r, s, client, wire) /\ Intact(s) \in Nat
      /\ client.conn = c => CurrentAt(r, s, client, wire)
  BY PumpingConn
<1>2. t = [r EXCEPT !.stage = "pumping"] /\ \A d \in Conns \ {c} : conn'[d] = conn[d]
  BY TypesOfState
<1>3. /\ Typed(t) /\ t.stage = "pumping" /\ t.id = r.id /\ t.dq = r.dq /\ t.seq = r.seq
      /\ t.send = r.send /\ t.reused = r.reused
  <2> HIDE DEF r, t
  <2> QED
    BY <1>1, <1>2 DEF Typed, Fields, Stages
<1>4. r.seq = Intact(s) /\ Holding(r.dq, Count(r.dq), s)
  <2>1. PICK b \in Nat : Holding(r.dq, b, s)
    BY <1>1 DEF QueueAt
  <2>2. r.dq \in Queue /\ Shaped(r.dq) /\ Count(r.dq) \in Nat
    BY <1>1, QueueFields DEF Typed, QueueAt
  <2>3. Count(r.dq) = 0 => Holding(r.dq, Count(r.dq), s)
    <3> HAVE Count(r.dq) = 0
    <3>1. b = 0
      BY <2>1 DEF Holding, Numbered
    <3> QED
      BY <2>1, <3>1
  <2>4. CASE r.seq = 0
    <3>1. ~r.reused
      BY <1>1, <2>4 DEF QueueAt, Starting, StreamInv, ConnOK, AskedAt, Asking
    <3>2. Count(r.dq) = 0 /\ s = << >>
      BY <1>1, <3>1 DEF QueueAt, Starting
    <3> QED
      BY <2>3, <2>4, <3>2, EmptyStream
  <2>5. CASE r.seq # 0
    <3>1. r.seq \in 1 .. Intact(s) /\ (Count(r.dq) = 0 => r.seq = Intact(s))
      BY <2>5, ResumingConn
    <3>2. CASE Count(r.dq) = 0
      BY <2>3, <3>1, <3>2
    <3>3. CASE Count(r.dq) > 0
      <4>1. r.seq \in 0 .. Intact(s) /\ ~HasMsgLoss(r.dq, r.seq)
        BY <2>5, <3>1
      <4>2. r.seq = Intact(s) /\ b = Count(r.dq)
        <5> HIDE DEF r, s
        <5> QED
          BY <1>1, <2>1, <2>2, <3>3, <4>1, NoLossIsLast
      <4> QED
        BY <2>1, <4>2
    <3> QED
      BY <2>2, <3>2, <3>3
  <2> QED
    BY <2>4, <2>5
<1>5. QueueAt(c, t, s)
  <2>1. s = << >> => Greeting(c, t)
    <3> HAVE s = << >>
    <3>1. Greeting(c, r)
      BY <1>1 DEF QueueAt
    <3> QED
      BY <1>3, <3>1 DEF Greeting
  <2>2. r.stage = "registered"
    OBVIOUS
  <2> HIDE DEF r, s, t
  <2> QED
    BY <1>1, <1>3, <1>4, <2>1 DEF QueueAt
<1>6. ConnOK(c)'
  <2>1. EmptiedAt(t, s, client, wire) /\ AskedAt(t, H(t.reqId), client, wire)
        /\ (client.conn = c => CurrentAt(t, s, client, wire))
    BY <1>1, <1>3 DEF EmptiedAt, AskedAt, Asking, CurrentAt
  <2>2. stream'[t.id] = s /\ H(conn[c].reqId)' = H(t.reqId) /\ client' = client /\ wire' = wire
    BY <1>3 DEF H
  <2> QED
    BY <1>5, <2>1, <2>2 DEF ConnOK, H
<1>7. client.conn = c => PumpsToWire'
  <2> HAVE client.conn = c
  <2>1. s = << >> => wire = << >>
    BY <1>1 DEF CurrentAt
  <2>2. s # << >> => WireId = r.id
    <3> HAVE s # << >>
    <3>1. Starting(c, r, s)
      BY <1>1 DEF QueueAt
    <3>2. r.reused /\ r.id = r.reqId
      BY <3>1 DEF Starting
    <3>3. client.id = r.reqId /\ wire = << >>
      BY <1>1 DEF CurrentAt
    <3> QED
      BY <3>2, <3>3 DEF WireId, Heads
  <2>3. WireId' = WireId
    BY DEF WireId, Heads
  <2> QED
    BY <1>3, <2>1, <2>2, <2>3 DEF PumpsToWire
<1>8. \A d \in Conns \ {c} : Fades(d)
  BY <1>2, SameFades
<1>9. StreamInv'
  <2>1. PICK C \in SUBSET Conns : C = {c}
    OBVIOUS
  <2> HIDE DEF r, s, t
  <2> QED
    BY <1>6, <1>7, <1>8, <2>1, QuietStep
<1> QED
  BY <1>2, <1>3, <1>9, TypesOfState, QuietTypes DEF StreamsKept

LEMMA PumpStartStreams ==
    ASSUME TypeOK, StreamInv, OwnerInv, OwnersKept, Counters', NEW c \in Conns, PumpStart(c)
    PROVE  StreamsKept
<1> DEFINE r == conn[c]
           sent == Drain(r.dq, IndexInDeadQueue(r.dq, r.seq))
<1>1. r.stage = "registered" /\ client' = client
  BY DEF PumpStart
<1> DEFINE Drained ==
             /\ r.seq # 0 /\ IsInDeadQueue(r.dq, r.seq) /\ stream' = stream
             /\ \E k \in 0 .. Len(sent) :
                  /\ Transmit(c, SubSeq(sent, 1, k))
                  /\ conn' = [conn EXCEPT
                         ![c].seq = @ + k,
                         ![c].stage = IF k = Len(sent) THEN "pumping" ELSE "stopped"]
           StartsOver ==
             /\ r.seq # 0 /\ stream' = [stream EXCEPT ![c] = << Hello(c) >>]
             /\ conn' = [conn EXCEPT
                    ![c].dq = AddToDeadQueue(ClearDeadQueue(r.dq), [seq |-> 0, msg |-> Hello(c)]),
                    ![c].id = c, ![c].seq = 1, ![c].stage = "pumping"]
             /\ Transmit(c, << [seq |-> 0, msg |-> Hello(c)] >>)
           GoesOn ==
             /\ ~(r.seq # 0 /\ IsInDeadQueue(r.dq, r.seq))
             /\ ~(r.seq # 0 /\ ~IsInDeadQueue(r.dq, r.seq) /\ HasMsgLoss(r.dq, r.seq))
             /\ conn' = [conn EXCEPT ![c].stage = "pumping"]
             /\ UNCHANGED <<wire, stream>>
<1>2. CASE Drained
  <2>1. PICK d : d = sent
    OBVIOUS
  <2>2. PICK k \in 0 .. Len(d) :
           /\ Transmit(c, SubSeq(d, 1, k))
           /\ conn' = [conn EXCEPT
                  ![c].seq = @ + k,
                  ![c].stage = IF k = Len(d) THEN "pumping" ELSE "stopped"]
    BY <1>2, <2>1
  <2> QED
    BY <1>1, <1>2, <2>1, <2>2, StartDrained
<1>3. CASE StartsOver
  BY <1>1, <1>3, StartedOver
<1>4. CASE GoesOn
  <2>1. \/ r.seq = 0
        \/ ~IsInDeadQueue(r.dq, r.seq) /\ ~HasMsgLoss(r.dq, r.seq)
    BY <1>4
  <2> QED
    BY <1>1, <1>4, <2>1, StartedWithoutLoss
<1>5. Drained \/ StartsOver \/ GoesOn
  BY Zenon DEF PumpStart
<1> QED
  BY <1>2, <1>3, <1>4, <1>5

-----------------------------------------------------------------------------
\* Every step

LEMMA InitStreams == Init => TypeOK /\ StreamInv
<1> SUFFICES ASSUME Init PROVE TypeOK /\ StreamInv
  OBVIOUS
<1>1. /\ conn = [c \in Conns |-> Blank] /\ index = [n \in Nodes |-> {}] /\ wire = << >>
      /\ client = [conn |-> 0, id |-> 0, seq |-> 0, stale |-> FALSE,
                   known |-> {}, received |-> << >>, base |-> 0]
      /\ stream = [i \in Ids |-> << >>]
  BY DEF Init
<1>2. \A c \in Conns : conn[c] = Blank /\ c # 0
  BY <1>1 DEF Conns
<1>3. 0 \in Ids /\ 0 \in 0 .. MaxConns
  BY BoundsAssumption DEF Ids
<1>4. Blank \in ConnType
  BY BlankIsTyped, TypedConn
<1>5. TypeOK
  <2>1. conn \in [Conns -> ConnType] /\ stream \in [Ids -> Seq(Message \cup {Hole})]
    BY <1>1, <1>4
  <2>2. client \in [conn : 0 .. MaxConns, id : Nat, seq : Nat, stale : BOOLEAN,
                    known : SUBSET Nat, received : Seq(Message), base : Nat]
    BY <1>1, <1>3
  <2>3. /\ published \in Nat /\ missed \subseteq Nat /\ inbox \in [Nodes -> SUBSET Nat]
        /\ spent \in [faults : Nat, replies : Nat, errors : Nat]
    BY DEF Init
  <2>4. rewound \in BOOLEAN
    BY DEF Init
  <2>5. index \in [Nodes -> SUBSET Conns] /\ wire \in Seq(Entry)
    BY <1>1
  <2> QED
    BY <2>1, <2>2, <2>3, <2>4, <2>5 DEF TypeOK
<1>6. stream[0] = << >> /\ NothingUnissued
  BY <1>1, <1>3 DEF NothingUnissued, Ids, Conns
<1>7. H(0) = 0 /\ client.id = 0 /\ client.seq = 0 /\ client.conn = 0
      /\ client.received = << >>
  BY <1>1, <1>6, EmptyStream DEF H
<1>8. \A c \in Conns : ConnOK(c)
  <2> TAKE c \in Conns
  <2>1. /\ Blank.id = 0 /\ Blank.reqId = 0 /\ Blank.stage = "unused" /\ Blank.send = << >>
        /\ Blank.dq = EmptyDeadQueue
    BY DEF Blank
  <2>2. QueueAt(c, Blank, << >>)
    BY <2>1, EmptyIsShaped DEF QueueAt
  <2>3. EmptiedAt(Blank, << >>, client, wire) /\ AskedAt(Blank, H(0), client, wire)
    BY <2>1 DEF EmptiedAt, AskedAt, Asking
  <2> QED
    BY <1>2, <1>6, <1>7, <2>1, <2>2, <2>3 DEF ConnOK
<1>9. WireOK /\ PumpsToWire
  BY <1>1, <1>3, <1>7 DEF WireOK, PumpsToWire, WireId, Heads
<1>10. ClientOK
  BY <1>3, <1>6, <1>7 DEF ClientOK, StreamAgreement
<1> QED
  BY <1>5, <1>6, <1>8, <1>9, <1>10 DEF StreamInv

\* As long as nothing is rewound, a step keeps the streams and what the
\* connections, the wire and the client have of them.
LEMMA NextKeepsStreams ==
    ASSUME TypeOK, StreamInv, OwnerInv, Next, ~rewound'
    PROVE  StreamsKept
<1>1. OwnersKept /\ Counters'
  BY NextKeepsOwners, CountersAreTyped
<1>2. ASSUME UNCHANGED <<conn, stream, client, wire>> PROVE StreamsKept
  BY <1>1, <1>2, SameFades, AllFade
<1>3. CASE Publish
  BY <1>2, <1>3 DEF Publish
<1>4. ASSUME NEW n \in Nodes, Hub(n) PROVE StreamsKept
  BY <1>1, <1>4, HubStreams DEF Hub
<1>5. ASSUME NEW c \in Conns, Handshake(c) PROVE StreamsKept
  BY <1>1, <1>5, NewConnectionStreams, ClusterLookupStreams, LocalLookupStreams,
     RegisterStreams DEF Handshake
<1>6. ASSUME NEW c \in Conns, Pump(c) PROVE StreamsKept
  BY <1>1, <1>6, PumpStartStreams, PumpSendStreams, PumpRestStreams DEF Pump
<1>7. ASSUME NEW c \in Conns, Answer(c) \/ ClusterLookupFails(c) \/ RegisterFails(c)
      PROVE  StreamsKept
  BY <1>1, <1>7, AnswerStreams, ClusterLookupFailsStreams, RegisterFailsStreams
<1>8. CASE Client
  <2>1. ASSUME NEW n \in Nodes, ClientConnect(n) PROVE StreamsKept
    BY <1>1, <2>1, ClientConnectStreams
  <2>2. CASE ClientReceive
    BY <1>1, <2>2, ReceiveStreams
  <2>3. CASE ClientDisconnect \/ ClientNotice
    BY <1>1, <2>3, DetachStreams DEF ClientDisconnect, ClientNotice
  <2>4. CASE Refetch
    BY <1>1, <2>4, RefetchStreams
  <2> QED
    BY <1>8, <2>1, <2>2, <2>3, <2>4 DEF Client
<1> QED
  BY <1>3, <1>4, <1>5, <1>6, <1>7, <1>8 DEF Next

LEMMA OnlyLookupsRewind == [Next]_vars => UNCHANGED rewound \/ \E c \in Conns : LocalLookup(c)
<1> SUFFICES ASSUME [Next]_vars, ~\E c \in Conns : LocalLookup(c)
             PROVE  UNCHANGED rewound
  OBVIOUS
<1>1. CASE Publish \/ Client \/ UNCHANGED vars
  BY <1>1 DEF vars, Publish, Client, ClientConnect, ClientReceive, ClientDisconnect,
              ClientNotice, Detach, Refetch
<1>2. ASSUME NEW n \in Nodes, Hub(n) PROVE UNCHANGED rewound
  BY <1>2 DEF Hub, HubBroadcast, Reap, HubPanic, NodeCrash
<1>3. ASSUME NEW c \in Conns, Handshake(c) \/ Answer(c) \/ ClusterLookupFails(c) \/ RegisterFails(c)
      PROVE  UNCHANGED rewound
  BY <1>3 DEF Handshake, NewConnection, ClusterLookup, Register, Answer, ClusterLookupFails,
              RegisterFails
<1>4. ASSUME NEW c \in Conns, Pump(c) PROVE UNCHANGED rewound
  BY <1>4 DEF Pump, PumpStart, PumpSend, PumpReply, PumpClose, PumpStop, Unregister
<1> QED
  BY <1>1, <1>2, <1>3, <1>4 DEF Next

LEMMA RewoundStays == rewound /\ [Next]_vars => rewound'
<1> SUFFICES ASSUME rewound, [Next]_vars PROVE rewound'
  OBVIOUS
<1>1. CASE UNCHANGED rewound
  BY <1>1
<1>2. ASSUME NEW c \in Conns, LocalLookup(c) PROVE rewound'
  BY <1>1, <1>2 DEF LocalLookup
<1>3. UNCHANGED rewound \/ \E c \in Conns : LocalLookup(c)
  BY OnlyLookupsRewind
<1> QED
  BY <1>1, <1>2, <1>3

\* A single node has no emptied queues.
LEMMA OneNodeNeverRewinds ==
    ASSUME TypeOK, StreamInv, OwnerInv, [Next]_vars, Cardinality(Nodes) = 1, ~rewound
    PROVE  ~rewound'
<1>1. ASSUME NEW c \in Conns, LocalLookup(c) PROVE ~rewound'
  <2>1. CASE UNCHANGED rewound
    BY <2>1
  <2>2. ASSUME NEW d \in Inactive(conn[c].node, conn[c].reqId),
               rewound' = (rewound \/ Rewinds(c, d))
        PROVE  ~rewound'
    <3> DEFINE i == conn[c].reqId
               dq == conn[d].dq
    <3>1. i # 0 /\ conn[c].node \in Nodes /\ conn[c].stage \in {"upgraded", "asked"} /\ i \in Ids
      BY <1>1, TypesOfState DEF LocalLookup, Typed
    <3>2. d \in Conns /\ conn[d].id = i
      BY <2>2, <3>1, InactiveIsGone
    <3>3. /\ QueueAt(d, conn[d], stream[i]) /\ EmptiedAt(conn[d], stream[i], client, wire)
          /\ dq \in Queue /\ AskedAt(conn[c], H(i), client, wire)
      BY <3>2, TypesOfState DEF StreamInv, ConnOK, Typed
    <3>4. stream[i] # << >>
      BY <3>1, <3>3, EmptyStream DEF AskedAt, Asking, H
    <3>5. Count(dq) # 0
      BY <3>1, <3>2, <3>3, <3>4 DEF EmptiedAt
    <3>6. ~NothingWritten(dq)
      BY <3>3, <3>5, NothingWrittenIffEmpty DEF QueueAt
    <3> QED
      BY <2>2, <3>6 DEF Rewinds
  <2> QED
    BY <1>1, <2>1, <2>2 DEF LocalLookup
<1>2. UNCHANGED rewound \/ \E c \in Conns : LocalLookup(c)
  BY OnlyLookupsRewind
<1> QED
  BY <1>1, <1>2

\* IInv is inductive.
LEMMA NextKeepsIInv == IInv /\ [Next]_vars => IInv'
<1> SUFFICES ASSUME IInv, [Next]_vars PROVE IInv'
  OBVIOUS
<1>1. OwnerInv'
  BY NextKeepsOwners DEF IInv, OwnersKept
<1>2. CASE rewound'
  <2>1. Cardinality(Nodes) # 1
    BY <1>2, OneNodeNeverRewinds DEF IInv
  <2> QED
    BY <1>1, <1>2, <2>1 DEF IInv
<1>3. CASE ~rewound'
  <2>1. TypeOK /\ StreamInv /\ OwnerInv
    BY <1>3, RewoundStays DEF IInv
  <2>2. CASE Next
    BY <1>1, <1>3, <2>1, <2>2, NextKeepsStreams DEF IInv, StreamsKept
  <2>3. CASE UNCHANGED vars
    <3>1. OwnersKept /\ Counters'
      BY <2>1, <2>3, NextKeepsOwners DEF vars, TypeOK, Counters
    <3>2. StreamsKept
      BY <2>1, <2>3, <3>1, SameFades, AllFade DEF vars
    <3> QED
      BY <1>1, <1>3, <3>2 DEF IInv, StreamsKept
  <2> QED
    BY <2>2, <2>3
<1> QED
  BY <1>2, <1>3

LEMMA IInvariant == Spec => []IInv
<1>1. Init => IInv
  BY InitOwner, InitStreams DEF IInv, Init
<1> QED
  BY <1>1, NextKeepsIInv, PTL DEF Spec

\* AgreementUnlessRewound for every cluster: as long as no handshake its client gave
\* up resumes queues emptied on the way from another node, what the client accepted
\* under its connection id is what the server numbered under it.
THEOREM AgreementUnlessRewoundIsInvariant == Spec => []AgreementUnlessRewound
<1>1. IInv => AgreementUnlessRewound
  BY DEF IInv, StreamInv, ClientOK, AgreementUnlessRewound
<1> QED
  BY <1>1, IInvariant, PTL

\* TypeOK of a single node.
THEOREM SingleNodeTypeOK ==
    ASSUME Cardinality(Nodes) = 1
    PROVE  Spec => []TypeOK
<1>1. IInv => TypeOK
  BY DEF IInv
<1> QED
  BY <1>1, IInvariant, PTL

\* StreamAgreement of a single node.
THEOREM SingleNodeAgreement ==
    ASSUME Cardinality(Nodes) = 1
    PROVE  Spec => []StreamAgreement
<1>1. IInv => StreamAgreement
  BY DEF IInv, StreamInv, ClientOK
<1> QED
  BY <1>1, IInvariant, PTL

===============================================================================
