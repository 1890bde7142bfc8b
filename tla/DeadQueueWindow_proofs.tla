------------------------ MODULE DeadQueueWindow_proofs ------------------------
(***************************************************************************)
(* Proofs that the dead queue keeps its promise, for every size of the     *)
(* queue.                                                                  *)
(***************************************************************************)
EXTENDS DeadQueueWindow, WellFoundedInduction, TLAPS

\* The numbers of the entries go up, with gaps where an event could not be encoded, and
\* the next number is greater than all, unless a client came back behind a gap.
Increasing ==
    \A i, j \in 1 .. Len(window) : i < j => window[i].seq < window[j].seq

Numbered ==
    ~renumbered => Increasing /\ \A i \in 1 .. Len(window) : window[i].seq < next

\* Before the pointer rolls over, the window lies at the start of the slice.
Filling ==
    /\ Len(window) < DeadQueueSize
    /\ dq.ptr = Len(window)
    /\ \A i \in Slots :
           dq.slots[i] = IF i < Len(window) THEN window[i + 1] ELSE NoEntry

\* Afterwards it starts at the pointer and goes around.
PlaceOf(i) == IF i >= dq.ptr THEN i - dq.ptr + 1 ELSE i + DeadQueueSize - dq.ptr + 1

Rolling ==
    /\ Len(window) = DeadQueueSize
    /\ \A i \in Slots : dq.slots[i] = window[PlaceOf(i)]

WindowInv == TypeOK /\ Numbered /\ (Filling \/ Rolling)

-----------------------------------------------------------------------------
\* Arithmetic of the pointer

LEMMA ModSmall ==
    ASSUME NEW n \in Nat, n > 0, NEW a \in Nat, a < n
    PROVE  a % n = a
OBVIOUS

LEMMA ModRound ==
    ASSUME NEW n \in Nat, n > 0, NEW a \in Nat, n <= a, a < 2 * n
    PROVE  a % n = a - n
OBVIOUS

LEMMA Advance ==
    ASSUME NEW p \in Slots
    PROVE  (p + 1) % DeadQueueSize = IF p + 1 = DeadQueueSize THEN 0 ELSE p + 1
BY DeadQueueSizeAssumption, ModSmall, ModRound DEF Slots

LEMMA Least ==
    ASSUME NEW S \in SUBSET Nat, S # {}
    PROVE  \E k \in S : \A j \in S : k <= j
<1> DEFINE R == OpToRel(<, Nat)
<1>1. IsWellFoundedOn(R, Nat)
  BY NatLessThanWellFounded
<1>2. PICK m \in S : TRUE
  OBVIOUS
<1>3. PICK k \in S : \A y \in Nat : << y, k >> \in R => ~(y \in S)
  BY <1>1, <1>2, WFMin
<1>4. \A j \in S : k <= j
  <2> TAKE j \in S
  <2>1. ~(<< j, k >> \in R)
    BY <1>3
  <2>2. ~(j < k)
    BY <2>1 DEF OpToRel
  <2> QED
    BY <2>2
<1> QED
  BY <1>4

LEMMA EntryIsSomething == \A e \in Entry : e # NoEntry /\ e.seq \in Nat
BY DEF Entry, NoEntry

-----------------------------------------------------------------------------
\* What the operations find in a queue that satisfies the invariant

\* The slot of the i-th entry of the window.
SlotOf(i) ==
    IF Len(window) < DeadQueueSize THEN i - 1
    ELSE IF dq.ptr + i - 1 < DeadQueueSize THEN dq.ptr + i - 1
         ELSE dq.ptr + i - 1 - DeadQueueSize

\* Once the pointer rolled over, SlotOf and PlaceOf are inverses of each other.
LEMMA SlotAndPlace ==
    ASSUME dq.ptr \in Slots, Len(window) = DeadQueueSize
    PROVE  /\ \A i \in 1 .. DeadQueueSize : SlotOf(i) \in Slots /\ PlaceOf(SlotOf(i)) = i
           /\ \A s \in Slots : PlaceOf(s) \in 1 .. DeadQueueSize /\ SlotOf(PlaceOf(s)) = s
<1> DEFINE p == dq.ptr
<1> USE DeadQueueSizeAssumption
<1>1. p \in 0 .. (DeadQueueSize - 1)
  BY DEF Slots
<1>2. ASSUME NEW i \in 1 .. DeadQueueSize
      PROVE  SlotOf(i) \in Slots /\ PlaceOf(SlotOf(i)) = i
  <2>1. SlotOf(i) = IF p + i - 1 < DeadQueueSize THEN p + i - 1
                                                 ELSE p + i - 1 - DeadQueueSize
    BY DEF SlotOf
  <2> HIDE DEF p
  <2>2. SlotOf(i) \in Slots
    BY <1>1, <2>1 DEF Slots
  <2>3. PlaceOf(SlotOf(i)) = IF SlotOf(i) >= p THEN SlotOf(i) - p + 1
                                               ELSE SlotOf(i) + DeadQueueSize - p + 1
    BY DEF PlaceOf, p
  <2> QED
    BY <1>1, <2>1, <2>2, <2>3
<1>3. ASSUME NEW s \in Slots
      PROVE  PlaceOf(s) \in 1 .. DeadQueueSize /\ SlotOf(PlaceOf(s)) = s
  <2>1. PlaceOf(s) = IF s >= p THEN s - p + 1 ELSE s + DeadQueueSize - p + 1
    BY DEF PlaceOf
  <2> HIDE DEF p
  <2>2. PlaceOf(s) \in 1 .. DeadQueueSize
    BY <1>1, <2>1 DEF Slots
  <2>3. SlotOf(PlaceOf(s)) =
            IF p + PlaceOf(s) - 1 < DeadQueueSize THEN p + PlaceOf(s) - 1
                                                  ELSE p + PlaceOf(s) - 1 - DeadQueueSize
    BY DEF SlotOf, p
  <2> QED
    BY <1>1, <2>1, <2>2, <2>3 DEF Slots
<1> QED
  BY <1>2, <1>3

LEMMA SlotHolds ==
    ASSUME WindowInv, NEW i \in 1 .. Len(window)
    PROVE  SlotOf(i) \in Slots /\ dq.slots[SlotOf(i)] = window[i]
<1> USE DeadQueueSizeAssumption DEF WindowInv, Slots
<1>1. dq.ptr \in Slots /\ Len(window) \in Nat /\ Len(window) <= DeadQueueSize
  BY DEF TypeOK, DeadQueueOf
<1>2. CASE Filling
  BY <1>1, <1>2 DEF Filling, SlotOf
<1>3. CASE Rolling
  <2>1. SlotOf(i) \in Slots /\ PlaceOf(SlotOf(i)) = i
    BY <1>1, <1>3, DeadQueueSizeAssumption, SlotAndPlace DEF Rolling
  <2> QED
    BY <1>3, <2>1 DEF Rolling
<1> QED
  BY <1>2, <1>3

LEMMA SlotIsHeld ==
    ASSUME WindowInv, NEW s \in Slots, dq.slots[s] # NoEntry
    PROVE  \E i \in 1 .. Len(window) : s = SlotOf(i)
<1> USE DeadQueueSizeAssumption DEF WindowInv, Slots
<1>1. dq.ptr \in Slots /\ Len(window) \in Nat
  BY DEF TypeOK, DeadQueueOf
<1>2. CASE Filling
  <2>1. s + 1 \in 1 .. Len(window) /\ s = SlotOf(s + 1)
    BY <1>1, <1>2 DEF Filling, SlotOf
  <2> QED
    BY <2>1
<1>3. CASE Rolling
  <2>1. PlaceOf(s) \in 1 .. Len(window) /\ s = SlotOf(PlaceOf(s))
    BY <1>1, <1>3, SlotAndPlace DEF Rolling
  <2> QED
    BY <2>1
<1> QED
  BY <1>2, <1>3

LEMMA SlotsBeforeAreWritten ==
    ASSUME WindowInv, NEW i \in 1 .. Len(window), NEW s \in 0 .. SlotOf(i)
    PROVE  s \in Slots /\ dq.slots[s] # NoEntry
<1> USE DeadQueueSizeAssumption DEF WindowInv, Slots
<1>1. /\ dq.ptr \in Slots /\ Len(window) \in Nat /\ SlotOf(i) \in Slots
      /\ \A j \in 1 .. Len(window) : window[j] \in Entry
  BY SlotHolds DEF TypeOK, DeadQueueOf
<1>2. CASE Filling
  <2>1. s + 1 \in 1 .. Len(window)
    BY <1>1, <1>2 DEF Filling, SlotOf
  <2> QED
    BY <1>1, <1>2, <2>1, EntryIsSomething DEF Filling
<1>3. CASE Rolling
  <2>1. PlaceOf(s) \in 1 .. Len(window)
    BY <1>1, <1>3 DEF Rolling, PlaceOf
  <2> QED
    BY <1>1, <1>3, <2>1, EntryIsSomething DEF Rolling
<1> QED
  BY <1>2, <1>3

LEMMA NumbersAreDistinct ==
    ASSUME WindowInv, Increasing, NEW i \in 1 .. Len(window), NEW j \in 1 .. Len(window),
           window[i].seq = window[j].seq
    PROVE  i = j
<1>1. window[i].seq \in Nat /\ window[j].seq \in Nat /\ Len(window) \in Nat
  BY EntryIsSomething DEF WindowInv, TypeOK
<1>2. ~(i < j) /\ ~(j < i)
  BY <1>1 DEF Increasing
<1> QED
  BY <1>1, <1>2

\* An entry of the window is found at its slot, and at no other, if their numbers go up.
LEMMA FoundAtItsSlot ==
    ASSUME WindowInv, Increasing, NEW i \in 1 .. Len(window), NEW s \in Slots
    PROVE  FoundAt(dq, window[i].seq, s) <=> s = SlotOf(i)
<1>1. window[i] \in Entry /\ window[i].seq \in Nat
  BY EntryIsSomething DEF WindowInv, TypeOK
<1>2. ASSUME NEW t \in Slots, dq.slots[t].seq = window[i].seq
      PROVE  t = SlotOf(i)
  <2>1. dq.slots[t] # NoEntry
    BY <1>1, <1>2 DEF NoEntry
  <2>2. PICK j \in 1 .. Len(window) : t = SlotOf(j)
    BY <2>1, SlotIsHeld
  <2> QED
    BY <1>2, <2>2, SlotHolds, NumbersAreDistinct
<1>3. SlotOf(i) \in Slots /\ dq.slots[SlotOf(i)].seq = window[i].seq
  BY SlotHolds
<1>4. \A j \in 0 .. (SlotOf(i) - 1) : j \in Slots /\ j # SlotOf(i)
  BY <1>3, DeadQueueSizeAssumption DEF Slots
<1> QED
  BY <1>2, <1>3, <1>4, SlotsBeforeAreWritten DEF FoundAt

LEMMA IndexIsItsSlot ==
    ASSUME WindowInv, Increasing, NEW i \in 1 .. Len(window)
    PROVE  /\ IsInDeadQueue(dq, window[i].seq)
           /\ IndexInDeadQueue(dq, window[i].seq) = SlotOf(i)
BY FoundAtItsSlot, SlotHolds DEF IsInDeadQueue, IndexInDeadQueue

\* Whatever the numbers, the scan finds the first slot that has the number.
LEMMA ScanFinds ==
    ASSUME WindowInv, NEW i \in 1 .. Len(window)
    PROVE  IsInDeadQueue(dq, window[i].seq)
<1> DEFINE T == {s \in 0 .. SlotOf(i) : dq.slots[s].seq = window[i].seq}
<1>1. SlotOf(i) \in Slots /\ SlotOf(i) \in Nat /\ SlotOf(i) \in T
  BY SlotHolds, DeadQueueSizeAssumption DEF Slots
<1>2. T \in SUBSET Nat /\ T # {}
  BY <1>1
<1>3. PICK s \in T : \A t \in T : s <= t
  <2> HIDE DEF T
  <2> QED
    BY <1>2, Least
<1>4. s \in Slots /\ s \in 0 .. SlotOf(i) /\ dq.slots[s].seq = window[i].seq
  BY <1>1, <1>3, SlotsBeforeAreWritten
<1>5. ASSUME NEW j \in 0 .. (s - 1), dq.slots[j].seq = window[i].seq PROVE FALSE
  <2>1. j \in 0 .. SlotOf(i) /\ j < s
    BY <1>1, <1>4
  <2> QED
    BY <1>3, <1>4, <1>5, <2>1
<1>6. \A j \in 0 .. s : dq.slots[j] # NoEntry
  BY <1>1, <1>4, SlotsBeforeAreWritten
<1> QED
  BY <1>4, <1>5, <1>6 DEF IsInDeadQueue, FoundAt

LEMMA IndexIsFound ==
    ASSUME NEW seq, IsInDeadQueue(dq, seq)
    PROVE  /\ IndexInDeadQueue(dq, seq) \in Slots
           /\ dq.slots[IndexInDeadQueue(dq, seq)] # NoEntry
           /\ dq.slots[IndexInDeadQueue(dq, seq)].seq = seq
<1>1. PICK s \in Slots : FoundAt(dq, seq, s)
  BY DEF IsInDeadQueue
<1>2. /\ IndexInDeadQueue(dq, seq) \in Slots
      /\ FoundAt(dq, seq, IndexInDeadQueue(dq, seq))
  BY <1>1 DEF IndexInDeadQueue
<1> QED
  BY <1>2 DEF FoundAt, Slots

LEMMA NothingWrittenIffEmpty ==
    ASSUME WindowInv
    PROVE  NothingWritten(dq) <=> Len(window) = 0
<1> USE DeadQueueSizeAssumption
<1>1. Len(window) \in Nat /\ 0 \in Slots
  BY DEF WindowInv, TypeOK, Slots
<1>2. CASE Len(window) = 0
  BY <1>1, <1>2 DEF WindowInv, Filling, Rolling, NothingWritten
<1>3. CASE Len(window) > 0
  <2>1. 0 \in 0 .. SlotOf(1) /\ 1 \in 1 .. Len(window)
    BY <1>1, <1>3, SlotHolds DEF Slots
  <2> QED
    BY <1>3, <2>1, SlotsBeforeAreWritten DEF NothingWritten
<1> QED
  BY <1>1, <1>2, <1>3

\* The slot at the pointer is free as long as the queue is not full.
LEMMA FreeIffFilling ==
    ASSUME WindowInv
    PROVE  dq.slots[dq.ptr] = NoEntry <=> Len(window) < DeadQueueSize
<1> USE DeadQueueSizeAssumption DEF WindowInv
<1>1. dq.ptr \in Slots /\ Len(window) \in Nat
      /\ \A j \in 1 .. Len(window) : window[j] \in Entry
  BY DEF TypeOK, DeadQueueOf
<1>2. CASE Filling
  BY <1>1, <1>2 DEF Filling
<1>3. CASE Rolling
  <2>1. PlaceOf(dq.ptr) \in 1 .. Len(window)
    BY <1>1, <1>3 DEF Rolling, PlaceOf, Slots
  <2> QED
    BY <1>1, <1>3, <2>1, EntryIsSomething DEF Rolling
<1> QED
  BY <1>2, <1>3

\* Whatever the numbers, a drain that ends sends entries, no more than the queue can hold.
LEMMA DrainIsTyped ==
    ASSUME WindowInv, NEW s \in Slots, dq.slots[s] # NoEntry, DrainEnds(dq, s)
    PROVE  Drain(dq, s) \in Seq(Entry) /\ Len(Drain(dq, s)) <= DeadQueueSize
<1> USE DeadQueueSizeAssumption
<1>1. /\ dq.ptr \in Slots /\ Len(window) \in Nat /\ Len(window) <= DeadQueueSize
      /\ \A j \in 1 .. Len(window) : window[j] \in Entry
  BY DEF WindowInv, TypeOK, DeadQueueOf
<1>2. CASE NothingWritten(dq)
  BY <1>2 DEF Drain
<1>3. CASE ~NothingWritten(dq) /\ dq.slots[dq.ptr] = NoEntry
  <2>1. Filling
    BY <1>1, <1>3, FreeIffFilling DEF WindowInv, Rolling
  <2>2. s \in 0 .. (dq.ptr - 1) /\ dq.ptr = Len(window)
    BY <1>1, <2>1 DEF Filling, Slots
  <2>3. \A k \in 1 .. (dq.ptr - s) : dq.slots[s + k - 1] \in Entry
    <3> TAKE k \in 1 .. (dq.ptr - s)
    <3> DEFINE t == s + k - 1
    <3>1. t \in Slots /\ t < Len(window) /\ t + 1 \in 1 .. Len(window)
      BY <1>1, <2>2 DEF Slots
    <3> HIDE DEF t
    <3>2. dq.slots[t] = window[t + 1]
      BY <2>1, <3>1 DEF Filling
    <3> QED
      BY <1>1, <3>1, <3>2 DEF t
  <2>4. dq.ptr - s \in Nat /\ dq.ptr - s <= DeadQueueSize
    BY <1>1, <2>2
  <2> QED
    BY <1>3, <2>3, <2>4 DEF Drain
<1>4. CASE ~NothingWritten(dq) /\ dq.slots[dq.ptr] # NoEntry
  <2>1. Rolling
    BY <1>1, <1>4, FreeIffFilling DEF WindowInv, Filling
  <2>2. \A t \in Slots : dq.slots[t] \in Entry
    BY <1>1, <2>1, SlotAndPlace DEF Rolling
  <2>3. \A k \in Nat : After(dq, s, k) \in Entry
    <3> TAKE k \in Nat
    <3>1. (s + k) % DeadQueueSize \in Slots
      BY DEF Slots
    <3> QED
      BY <2>2, <3>1 DEF After
  <2>4. RunFrom(dq, s) \in 1 .. DeadQueueSize
    <3> DEFINE T == {k \in 1 .. DeadQueueSize : GoesDown(dq, s, k)}
    <3>1. T \in SUBSET Nat /\ T # {}
      BY <1>4 DEF DrainEnds
    <3>2. PICK k \in T : \A j \in T : k <= j
      <4> HIDE DEF T
      <4> QED
        BY <3>1, Least
    <3>3. \A j \in 1 .. (k - 1) : j \in 1 .. DeadQueueSize /\ ~(k <= j)
      BY <3>2
    <3> HIDE DEF GoesDown
    <3>4. k \in 1 .. DeadQueueSize /\ GoesDown(dq, s, k)
          /\ \A j \in 1 .. (k - 1) : ~GoesDown(dq, s, j)
      BY <3>2, <3>3
    <3> QED
      BY <3>4 DEF RunFrom
  <2>5. Drain(dq, s) = [k \in 1 .. RunFrom(dq, s) |-> After(dq, s, k - 1)]
    BY <1>4 DEF Drain
  <2> HIDE DEF After, RunFrom
  <2> QED
    BY <2>3, <2>4, <2>5
<1> QED
  BY <1>2, <1>3, <1>4

\* If the numbers go up, a drain sends the rest of the window.
LEMMA DrainWindow ==
    ASSUME WindowInv, Increasing, NEW i \in 1 .. Len(window)
    PROVE  Drain(dq, SlotOf(i)) = SubSeq(window, i, Len(window))
<1> USE DeadQueueSizeAssumption
<1> DEFINE n == Len(window)
           At(k) == After(dq, SlotOf(i), k)
           Wraps(k) == GoesDown(dq, SlotOf(i), k)
<1>1. /\ dq.ptr \in Slots /\ n \in Nat /\ n <= DeadQueueSize /\ window \in Seq(Entry)
      /\ SlotOf(i) \in Slots /\ ~NothingWritten(dq)
  BY SlotHolds, NothingWrittenIffEmpty DEF WindowInv, TypeOK, DeadQueueOf
<1>2. CASE n < DeadQueueSize
  <2>1. Drain(dq, SlotOf(i)) =
            [k \in 1 .. (dq.ptr - SlotOf(i)) |-> dq.slots[SlotOf(i) + k - 1]]
    BY <1>1, <1>2, FreeIffFilling DEF Drain
  <2>2. Filling
    BY <1>2 DEF WindowInv, Rolling
  <2>3. SlotOf(i) = i - 1 /\ dq.ptr - SlotOf(i) = n - i + 1
    BY <1>1, <1>2, <2>2 DEF Filling, SlotOf
  <2>4. \A k \in 1 .. (n - i + 1) : dq.slots[SlotOf(i) + k - 1] = window[i + k - 1]
    <3> TAKE k \in 1 .. (n - i + 1)
    <3> DEFINE t == SlotOf(i) + k - 1
    <3>1. t \in Slots /\ t < n /\ t + 1 = i + k - 1
      BY <1>1, <2>3 DEF Slots
    <3> HIDE DEF t
    <3>2. dq.slots[t] = window[t + 1]
      BY <2>2, <3>1 DEF Filling
    <3> QED
      BY <3>1, <3>2 DEF t
  <2>5. SubSeq(window, i, n) = [k \in 1 .. (n - i + 1) |-> window[i + k - 1]]
    BY <1>1
  <2> QED
    BY <1>1, <2>1, <2>3, <2>4, <2>5
<1>3. CASE n = DeadQueueSize
  <2>1. Drain(dq, SlotOf(i)) = [k \in 1 .. RunFrom(dq, SlotOf(i)) |-> At(k - 1)]
    BY <1>1, <1>3, FreeIffFilling DEF Drain
  <2>2. Rolling /\ n = DeadQueueSize /\ i \in 1 .. n
    BY <1>3 DEF WindowInv, Filling
  <2> HIDE DEF n
  <2>3. ASSUME NEW k \in 0 .. (n - i + 1)
        PROVE  At(k) = IF k = n - i + 1 THEN window[1] ELSE window[i + k]
    <3> DEFINE j == IF k = n - i + 1 THEN 1 ELSE i + k
    <3>1. j \in 1 .. Len(window)
      BY <1>1 DEF n
    <3>2. (SlotOf(i) + k) % DeadQueueSize = SlotOf(j)
      <4>1. SlotOf(i) = IF dq.ptr + i - 1 < n THEN dq.ptr + i - 1 ELSE dq.ptr + i - 1 - n
        BY <2>2 DEF SlotOf, n
      <4>2. SlotOf(j) = IF dq.ptr + j - 1 < n THEN dq.ptr + j - 1 ELSE dq.ptr + j - 1 - n
        BY <2>2 DEF SlotOf, n
      <4>3. /\ SlotOf(i) \in 0 .. (n - 1) /\ SlotOf(j) \in 0 .. (n - 1)
            /\ dq.ptr \in 0 .. (n - 1) /\ n \in Nat /\ n > 0 /\ j \in 1 .. n
        BY <1>1, <2>2, <3>1, SlotHolds DEF Slots, n
      <4> HIDE DEF j
      <4>4. j = IF k = n - i + 1 THEN 1 ELSE i + k
        BY DEF j
      <4>5. i \in 1 .. n /\ k \in 0 .. (n - i + 1)
        BY <2>2
      <4> DEFINE a == SlotOf(i)
                 b == SlotOf(j)
                 p == dq.ptr
      <4>6. /\ a = IF p + i - 1 < n THEN p + i - 1 ELSE p + i - 1 - n
            /\ b = IF p + j - 1 < n THEN p + j - 1 ELSE p + j - 1 - n
            /\ a \in 0 .. (n - 1) /\ b \in 0 .. (n - 1) /\ p \in 0 .. (n - 1)
        BY <4>1, <4>2, <4>3
      <4> HIDE DEF a, b, p
      <4>7. (a + k) % n = b
        <5>1. a + k \in Nat /\ a + k < 2 * n /\ n \in Nat /\ n > 0
          BY <4>3, <4>5, <4>6
        <5>2. CASE a + k < n
          <6>1. (a + k) % n = a + k
            BY <5>1, <5>2, ModSmall
          <6>2. a + k = b
            BY <4>3, <4>4, <4>5, <4>6, <5>2
          <6> QED
            BY <6>1, <6>2
        <5>3. CASE n <= a + k
          <6>1. (a + k) % n = a + k - n
            <7>1. PICK c \in Nat : c = a + k
              BY <5>1
            <7>2. c \in Nat /\ n \in Nat /\ n > 0 /\ n <= c /\ c < 2 * n
              BY <5>1, <5>3, <7>1
            <7>3. c % n = c - n
              BY <7>2, ModRound
            <7> QED
              BY <4>3, <4>5, <4>6, <7>1, <7>3
          <6>2. a + k - n = b
            BY <4>3, <4>4, <4>5, <4>6, <5>3
          <6> QED
            BY <6>1, <6>2
        <5> QED
          BY <5>1, <5>2, <5>3
      <4> QED
        BY <2>2, <4>7 DEF a, b
    <3> QED
      BY <3>1, <3>2, SlotHolds DEF After
  <2>4. /\ \A j \in 1 .. n : window[j].seq \in Nat
        /\ \A j, k \in 1 .. n : j < k => window[j].seq < window[k].seq
    BY <1>1, EntryIsSomething DEF Increasing, n
  <2> HIDE DEF At
  <2>5. n - i + 1 \in 1 .. DeadQueueSize /\ Wraps(n - i + 1)
    <3>1. At(n - i + 1) = window[1] /\ At(n - i) = window[n]
      BY <1>1, <2>2, <2>3
    <3>2. window[n].seq > window[1].seq
      <4>1. 1 \in 1 .. n /\ n \in 1 .. n /\ 1 < n
        BY <1>1, <2>2
      <4> QED
        BY <2>4, <4>1
    <3> QED
      BY <1>1, <2>2, <3>1, <3>2 DEF GoesDown, At
  <2>6. \A j \in 1 .. (n - i) : ~Wraps(j)
    <3> SUFFICES ASSUME NEW j \in 1 .. (n - i) PROVE ~Wraps(j)
      OBVIOUS
    <3>1. At(j) = window[i + j] /\ At(j - 1) = window[i + j - 1]
      BY <1>1, <2>2, <2>3
    <3>2. i + j \in 1 .. n /\ i + j - 1 \in 1 .. n /\ i + j - 1 < i + j
      BY <1>1, <2>2
    <3>3. /\ window[i + j].seq \in Nat /\ window[i + j - 1].seq \in Nat
          /\ window[i + j - 1].seq < window[i + j].seq
      BY <2>4, <3>2
    <3>4. ~(window[i + j - 1].seq > window[i + j].seq)
      BY <3>3
    <3> QED
      BY <3>1, <3>4 DEF GoesDown, At
  <2>7. RunFrom(dq, SlotOf(i)) = n - i + 1
    <3> HIDE DEF Wraps
    <3>1. \A k \in 1 .. DeadQueueSize :
              Wraps(k) /\ (\A j \in 1 .. (k - 1) : ~Wraps(j)) => k = n - i + 1
      BY <1>1, <2>2, <2>5, <2>6 DEF n
    <3>2. \A j \in 1 .. (n - i + 1 - 1) : ~Wraps(j)
      BY <1>1, <2>6 DEF n
    <3> QED
      BY <2>5, <3>1, <3>2 DEF RunFrom, Wraps
  <2>8. SubSeq(window, i, n) = [k \in 1 .. (n - i + 1) |-> window[i + k - 1]]
    BY <1>1 DEF n
  <2>9. \A k \in 1 .. (n - i + 1) : At(k - 1) = window[i + k - 1]
    BY <1>1, <2>3 DEF n
  <2> QED
    BY <2>1, <2>7, <2>8, <2>9 DEF n
<1> QED
  BY <1>1, <1>2, <1>3

\* _hasMsgLoss asks for the entry written last.
LEMMA LossInWindow ==
    ASSUME WindowInv, NEW seq
    PROVE  HasMsgLoss(dq, seq) <=> /\ Len(window) > 0
                                   /\ window[Len(window)].seq # seq - 1
<1> USE DeadQueueSizeAssumption
<1>1. dq.ptr \in Slots /\ Len(window) \in Nat
  BY DEF WindowInv, TypeOK, DeadQueueOf
<1>2. CASE Len(window) = 0
  <2>1. dq.ptr = 0
    BY <1>2 DEF WindowInv, Filling, Rolling
  <2> QED
    BY <1>2, <2>1, NothingWrittenIffEmpty DEF HasMsgLoss
<1>3. CASE Len(window) > 0
  <2>1. LastSlot(dq) = SlotOf(Len(window))
    <3>1. CASE Filling
      BY <1>1, <1>3, <3>1 DEF Filling, LastSlot, SlotOf, Slots
    <3>2. CASE Rolling
      BY <1>1, <1>3, <3>2 DEF Rolling, LastSlot, SlotOf, Slots
    <3> QED
      BY <3>1, <3>2 DEF WindowInv
  <2>2. dq.slots[LastSlot(dq)] = window[Len(window)]
    BY <1>1, <1>3, <2>1, SlotHolds
  <2> QED
    BY <1>3, <2>2, NothingWrittenIffEmpty DEF HasMsgLoss
<1> QED
  BY <1>1, <1>2, <1>3

-----------------------------------------------------------------------------
\* The invariant is inductive

\* A queue filled from slot 0 on.
LEMMA RefillKeeps ==
    ASSUME window' \in Seq(Entry), Len(window') <= DeadQueueSize,
           dq' = Refill(window'), next' \in Nat, renumbered' \in BOOLEAN, Numbered'
    PROVE  WindowInv'
<1> USE DeadQueueSizeAssumption
<1> DEFINE n == Len(window')
<1>1. n \in Nat /\ \A i \in 1 .. n : window'[i] \in Entry
  OBVIOUS
<1>2. dq'.ptr = IF n = DeadQueueSize THEN 0 ELSE n
  BY <1>1, ModSmall, ModRound DEF Refill
<1>3. \A i \in Slots : dq'.slots[i] = IF i < n THEN window'[i + 1] ELSE NoEntry
  BY DEF Refill
<1>4. dq' \in DeadQueueOf(Entry)
  <2>1. dq' = [slots |-> [i \in Slots |-> IF i < n THEN window'[i + 1] ELSE NoEntry],
               ptr |-> IF n = DeadQueueSize THEN 0 ELSE n]
    BY <1>2 DEF Refill
  <2>2. \A i \in Slots :
            (IF i < n THEN window'[i + 1] ELSE NoEntry) \in Entry \cup {NoEntry}
    BY <1>1 DEF Slots
  <2>3. (IF n = DeadQueueSize THEN 0 ELSE n) \in Slots
    BY <1>1 DEF Slots
  <2> HIDE DEF n
  <2> QED
    BY <2>1, <2>2, <2>3 DEF DeadQueueOf
<1>5. CASE n < DeadQueueSize
  <2>1. Filling'
    BY <1>1, <1>2, <1>3, <1>5 DEF Filling
  <2> QED
    BY <1>4, <2>1 DEF WindowInv, TypeOK
<1>6. CASE n = DeadQueueSize
  <2>1. \A i \in Slots : PlaceOf(i)' = i + 1 /\ i < n
    BY <1>1, <1>2, <1>6 DEF PlaceOf, Slots
  <2>2. Rolling'
    BY <1>1, <1>3, <1>6, <2>1 DEF Rolling
  <2> QED
    BY <1>4, <2>2 DEF WindowInv, TypeOK
<1> QED
  BY <1>1, <1>5, <1>6

LEMMA EmptyIsRefilled == EmptyDeadQueue = Refill(<< >>)
<1>1. 0 % DeadQueueSize = 0
  BY DeadQueueSizeAssumption, ModSmall
<1>2. [i \in Slots |-> IF i < Len(<< >>) THEN << >>[i + 1] ELSE NoEntry]
          = [i \in Slots |-> NoEntry]
  BY DeadQueueSizeAssumption DEF Slots
<1> QED
  BY <1>1, <1>2 DEF EmptyDeadQueue, Refill

\* clearDeadQueue stops at the first nil slot, and leaves nothing behind it.
LEMMA ClearEmpties ==
    ASSUME WindowInv
    PROVE  ClearDeadQueue(dq) = EmptyDeadQueue
<1>1. ASSUME NEW i \in Slots
      PROVE  (IF \A j \in 0 .. i : dq.slots[j] # NoEntry
              THEN NoEntry ELSE dq.slots[i]) = NoEntry
  <2>1. CASE dq.slots[i] = NoEntry
    BY <2>1
  <2>2. CASE dq.slots[i] # NoEntry
    BY <2>2, SlotIsHeld, SlotsBeforeAreWritten
  <2> QED
    BY <2>1, <2>2
<1> QED
  BY <1>1 DEF ClearDeadQueue, EmptyDeadQueue

LEMMA InitHolds == Init => WindowInv
<1> SUFFICES ASSUME Init PROVE WindowInv
  OBVIOUS
<1> USE DeadQueueSizeAssumption, MaxSeqAssumption DEF Init, EmptyDeadQueue
<1>1. Len(window) = 0 /\ window \in Seq(Entry) /\ next \in Nat
  OBVIOUS
<1>2. dq \in DeadQueueOf(Entry)
  BY DEF DeadQueueOf, Slots
<1>3. Filling
  BY <1>1 DEF Filling, Slots
<1>4. renumbered = FALSE /\ renumbered \in BOOLEAN
  BY Zenon
<1>5. Numbered
  BY <1>1 DEF Numbered, Increasing
<1> QED
  BY <1>1, <1>2, <1>3, <1>4, <1>5 DEF WindowInv, TypeOK

LEMMA WriteKeeps ==
    ASSUME WindowInv, Write
    PROVE  WindowInv'
<1> USE DeadQueueSizeAssumption
<1> DEFINE n == Len(window)
           e == [seq |-> next]
           more == Append(window, e)
<1>0. CASE UNCHANGED <<dq, window>>
  <2>1. next \in Nat /\ next' = next + 1 /\ renumbered' = renumbered
    BY DEF WindowInv, TypeOK, Write
  <2>2. \A i \in 1 .. n : window[i].seq \in Nat
    BY EntryIsSomething DEF WindowInv, TypeOK
  <2>3. Numbered'
    BY <1>0, <2>1, <2>2 DEF WindowInv, Numbered, Increasing
  <2> QED
    BY <1>0, <2>1, <2>3 DEF WindowInv, TypeOK, Filling, Rolling, PlaceOf
<1> SUFFICES ASSUME /\ dq' = AddToDeadQueue(dq, e)
                    /\ window' = LastOf(more, DeadQueueSize)
             PROVE  WindowInv'
  BY <1>0 DEF Write
<1>1. /\ dq.ptr \in Slots /\ dq.slots \in [Slots -> Entry \cup {NoEntry}]
      /\ next \in Nat /\ window \in Seq(Entry) /\ n \in Nat /\ n <= DeadQueueSize
  BY DEF WindowInv, TypeOK, DeadQueueOf
<1>2. e \in Entry /\ next' = next + 1
  BY <1>1 DEF Entry, Write
<1>3. /\ more \in Seq(Entry) /\ Len(more) = n + 1 /\ more[n + 1] = e
      /\ \A i \in 1 .. n : more[i] = window[i]
  BY <1>1, <1>2
<1>4. dq'.slots = [dq.slots EXCEPT ![dq.ptr] = e]
  BY DEF AddToDeadQueue
<1>5. dq'.ptr = IF dq.ptr + 1 = DeadQueueSize THEN 0 ELSE dq.ptr + 1
  BY <1>1, Advance DEF AddToDeadQueue
<1>6. dq' \in DeadQueueOf(Entry)
  <2>1. dq'.ptr \in Slots
    BY <1>1, <1>5 DEF Slots
  <2>2. dq' = [slots |-> [dq.slots EXCEPT ![dq.ptr] = e], ptr |-> dq'.ptr]
    BY DEF AddToDeadQueue
  <2>3. [dq.slots EXCEPT ![dq.ptr] = e] \in [Slots -> Entry \cup {NoEntry}]
    BY <1>1, <1>2
  <2> QED
    BY <2>1, <2>2, <2>3 DEF DeadQueueOf
<1>7. window' = IF n < DeadQueueSize THEN more ELSE SubSeq(more, 2, n + 1)
  BY <1>1, <1>3 DEF LastOf
<1>8. /\ renumbered' = renumbered /\ renumbered \in BOOLEAN
      /\ ~renumbered =>
             /\ \A i, j \in 1 .. (n + 1) : i < j => more[i].seq < more[j].seq
             /\ \A i \in 1 .. (n + 1) : more[i].seq < next'
  <2>1. renumbered' = renumbered /\ renumbered \in BOOLEAN
    BY DEF Write, WindowInv, TypeOK
  <2>2. /\ e.seq = next /\ \A i \in 1 .. n : window[i].seq \in Nat
        /\ ~renumbered => /\ \A i \in 1 .. n : window[i].seq < next
                          /\ \A i, j \in 1 .. n : i < j => window[i].seq < window[j].seq
    BY <1>1, EntryIsSomething DEF WindowInv, Numbered, Increasing
  <2> HIDE DEF more, e, n
  <2>3. \A i \in 1 .. (n + 1) : i \in 1 .. n \/ i = n + 1
    BY <1>1
  <2>4. ASSUME ~renumbered, NEW i \in 1 .. (n + 1) PROVE more[i].seq < next'
    BY <1>1, <1>2, <1>3, <2>2, <2>3, <2>4
  <2>5. ASSUME ~renumbered, NEW i \in 1 .. (n + 1), NEW j \in 1 .. (n + 1), i < j
        PROVE  more[i].seq < more[j].seq
    <3>1. i \in 1 .. n
      BY <1>1, <2>5
    <3> QED
      BY <1>1, <1>2, <1>3, <2>2, <2>3, <2>5, <3>1
  <2> QED
    BY <2>1, <2>4, <2>5
<1> HIDE DEF more, e
<1>9. CASE n < DeadQueueSize
  <2>1. Filling
    BY <1>9 DEF WindowInv, Rolling
  <2>2. window' = more /\ Len(window') = n + 1 /\ dq.ptr = n
    BY <1>3, <1>7, <1>9, <2>1 DEF Filling
  <2>3. \A i \in Slots : dq'.slots[i] = IF i < n + 1 THEN window'[i + 1] ELSE NoEntry
    <3> TAKE i \in Slots
    <3> HIDE DEF n
    <3>1. i \in Int /\ dq.ptr = n /\ dq'.slots[i] = IF i = n THEN e ELSE dq.slots[i]
      BY <1>1, <1>4, <2>2 DEF Slots
    <3>2. dq.slots[i] = IF i < n THEN window[i + 1] ELSE NoEntry
      BY <2>1 DEF Filling, n
    <3>3. i < n => more[i + 1] = window[i + 1]
      BY <1>1, <1>3, <3>1 DEF Slots
    <3> QED
      BY <1>1, <1>3, <2>2, <3>1, <3>2, <3>3
  <2>4. Numbered' /\ next' \in Nat /\ renumbered' \in BOOLEAN
    BY <1>1, <1>2, <1>8, <2>2 DEF Numbered, Increasing
  <2>5. CASE n + 1 < DeadQueueSize
    <3>1. Filling'
      BY <1>1, <1>5, <2>2, <2>3, <2>5 DEF Filling
    <3> QED
      BY <1>3, <1>6, <2>2, <2>4, <2>5, <3>1 DEF WindowInv, TypeOK
  <2>6. CASE n + 1 = DeadQueueSize
    <3>1. \A i \in Slots : PlaceOf(i)' = i + 1
      BY <1>1, <1>5, <2>2, <2>6 DEF PlaceOf, Slots
    <3>2. Rolling'
      BY <1>1, <2>2, <2>3, <2>6, <3>1 DEF Rolling, Slots
    <3> QED
      BY <1>3, <1>6, <2>2, <2>4, <2>6, <3>2 DEF WindowInv, TypeOK
  <2> QED
    BY <1>1, <1>9, <2>5, <2>6
<1>10. CASE n = DeadQueueSize
  <2>1. Rolling
    BY <1>10 DEF WindowInv, Filling
  <2>2. window' = SubSeq(more, 2, n + 1)
    BY <1>7, <1>10
  <2>3. /\ window' \in Seq(Entry) /\ Len(window') = n
        /\ \A i \in 1 .. n : window'[i] = more[i + 1]
    BY <1>1, <1>3, <2>2
  <2>4. Numbered' /\ next' \in Nat /\ renumbered' \in BOOLEAN
    <3> HIDE DEF n
    <3>1. \A i \in 1 .. n : i + 1 \in 1 .. (n + 1)
      BY <1>1
    <3>2. \A i, j \in 1 .. n : i < j => i + 1 < j + 1
      BY <1>1
    <3>3. ~renumbered => \A i \in 1 .. n : window'[i].seq < next'
      BY <1>8, <2>3, <3>1
    <3>4. ~renumbered => \A i, j \in 1 .. n : i < j => window'[i].seq < window'[j].seq
      BY <1>8, <2>3, <3>1, <3>2
    <3> QED
      BY <1>1, <1>2, <1>8, <2>3, <3>3, <3>4 DEF Numbered, Increasing
  <2>5. ASSUME NEW i \in Slots
        PROVE  dq'.slots[i] = window'[PlaceOf(i)']
    <3>1. CASE i = dq.ptr
      <4>1. PlaceOf(i)' = n
        BY <1>1, <1>5, <1>10, <3>1 DEF PlaceOf, Slots
      <4>2. window'[n] = e
        BY <1>1, <1>3, <1>10, <2>3
      <4> QED
        BY <1>1, <1>4, <3>1, <4>1, <4>2
    <3>2. CASE i # dq.ptr
      <4>1. /\ PlaceOf(i)' \in 1 .. n /\ PlaceOf(i)' + 1 = PlaceOf(i)
            /\ PlaceOf(i) \in 1 .. n
        <5>1. i \in Int /\ 0 <= i /\ i < n /\ dq.ptr \in Int
              /\ 0 <= dq.ptr /\ dq.ptr < n
          BY <1>1, <1>10 DEF Slots
        <5>2. PlaceOf(i) = IF i > dq.ptr THEN i - dq.ptr + 1 ELSE i + n - dq.ptr + 1
          BY <1>10, <3>2, <5>1 DEF PlaceOf
        <5>3. PlaceOf(i)' = IF i >= dq'.ptr THEN i - dq'.ptr + 1
                                            ELSE i + n - dq'.ptr + 1
          BY <1>10 DEF PlaceOf
        <5>4. PlaceOf(i)' = PlaceOf(i) - 1
          BY <1>1, <1>5, <1>10, <3>2, <5>1, <5>2, <5>3
        <5> QED
          BY <1>1, <3>2, <5>1, <5>2, <5>4
      <4>2. window'[PlaceOf(i)'] = window[PlaceOf(i)]
        BY <1>3, <2>3, <4>1
      <4> QED
        BY <1>1, <1>4, <2>1, <3>2, <4>2 DEF Rolling
    <3> QED
      BY <3>1, <3>2
  <2>6. Rolling'
    BY <1>10, <2>3, <2>5 DEF Rolling
  <2> QED
    BY <1>1, <1>6, <2>3, <2>4, <2>6 DEF WindowInv, TypeOK
<1> QED
  BY <1>1, <1>9, <1>10

LEMMA StartOverKeeps ==
    ASSUME WindowInv, NEW seq \in 1 .. (MaxSeq + 1), StartOver(seq)
    PROVE  WindowInv'
<1> USE DeadQueueSizeAssumption
<1>1. /\ window' = << [seq |-> 0] >> /\ next' = 1 /\ renumbered' = FALSE
      /\ dq' = AddToDeadQueue(EmptyDeadQueue, [seq |-> 0])
  BY ClearEmpties DEF StartOver
<1>2. Len(window') = 1 /\ window' \in Seq(Entry) /\ window'[1] = [seq |-> 0]
  BY <1>1 DEF Entry
<1>3. Numbered'
  BY <1>1, <1>2 DEF Numbered, Increasing
<1>4. dq' = Refill(window')
  <2>1. 1 % DeadQueueSize = 1 /\ 0 + 1 = 1
    BY ModSmall
  <2>2. [EmptyDeadQueue.slots EXCEPT ![0] = [seq |-> 0]] =
            [i \in Slots |-> IF i < 1 THEN window'[i + 1] ELSE NoEntry]
    <3> DEFINE e == window'[1]
    <3>1. e = [seq |-> 0]
      BY <1>2
    <3> HIDE DEF e
    <3>2. [EmptyDeadQueue.slots EXCEPT ![0] = e] = [i \in Slots |-> IF i = 0 THEN e ELSE NoEntry]
      BY DEF EmptyDeadQueue
    <3>3. ASSUME NEW i \in Slots
          PROVE  (IF i = 0 THEN e ELSE NoEntry) = (IF i < 1 THEN window'[i + 1] ELSE NoEntry)
      BY DEF e, Slots
    <3>4. [i \in Slots |-> IF i = 0 THEN e ELSE NoEntry]
              = [i \in Slots |-> IF i < 1 THEN window'[i + 1] ELSE NoEntry]
      BY <3>3
    <3> QED
      BY <3>1, <3>2, <3>4
  <2> QED
    BY <1>1, <1>2, <2>1, <2>2 DEF AddToDeadQueue, Refill, EmptyDeadQueue
<1>5. renumbered' \in BOOLEAN
  BY <1>1, Zenon
<1> QED
  BY <1>1, <1>2, <1>3, <1>4, <1>5, RefillKeeps

LEMMA ResumeKeeps ==
    ASSUME WindowInv, NEW seq \in 1 .. (MaxSeq + 1), Resume(seq)
    PROVE  WindowInv'
<1> USE DeadQueueSizeAssumption, MaxSeqAssumption
<1>1. seq \in Nat /\ dq' = dq /\ window' = window /\ Renumber
  BY DEF Resume
<1>2. next' \in Nat
  <2>1. CASE IsInDeadQueue(dq, seq)
    <3>1. Len(Drain(dq, IndexInDeadQueue(dq, seq))) \in Nat
      BY <2>1, IndexIsFound, DrainIsTyped DEF Resume
    <3> QED
      BY <1>1, <2>1, <3>1 DEF Resume
  <2>2. CASE ~IsInDeadQueue(dq, seq)
    BY <1>1, <2>2 DEF Resume
  <2> QED
    BY <2>1, <2>2
<1>3. Numbered' /\ renumbered' \in BOOLEAN
  <2>1. \A i \in 1 .. Len(window) : window[i].seq \in Nat
    BY EntryIsSomething DEF WindowInv, TypeOK
  <2>2. DOMAIN window = 1 .. Len(window)
    BY DEF WindowInv, TypeOK
  <2>3. renumbered' \in BOOLEAN
    BY <1>1, Zenon DEF Renumber
  <2>4. ~renumbered' => ~renumbered /\ \A i \in 1 .. Len(window) : ~(window[i].seq >= next')
    BY <1>1, <2>2, Zenon DEF Renumber
  <2>5. \A i \in 1 .. Len(window) : ~(window[i].seq >= next') => window[i].seq < next'
    BY <1>2, <2>1
  <2>6. ~renumbered => Increasing
    BY DEF WindowInv, Numbered
  <2>7. Increasing => Increasing'
    BY <1>1 DEF Increasing
  <2>8. ASSUME ~renumbered' PROVE \A i \in 1 .. Len(window) : window[i].seq < next'
    BY <2>4, <2>5, <2>8
  <2> QED
    BY <1>1, <2>3, <2>4, <2>6, <2>7, <2>8 DEF Numbered
<1> QED
  BY <1>1, <1>2, <1>3 DEF WindowInv, TypeOK, Filling, Rolling, PlaceOf

LEMMA TakeOverKeeps ==
    ASSUME WindowInv, NEW seq \in 1 .. (MaxSeq + 1), TakeOver(seq)
    PROVE  WindowInv'
<1> USE DeadQueueSizeAssumption, MaxSeqAssumption
<1> DEFINE n == Len(window)
           sent == Drain(dq, IndexInDeadQueue(dq, seq))
<1>1. seq \in Nat /\ window \in Seq(Entry) /\ n \in Nat /\ renumbered \in BOOLEAN
  BY DEF WindowInv, TypeOK
<1>2. CASE dq' = EmptyDeadQueue /\ window' = << >> /\ next' = seq /\ renumbered' = FALSE
  <2>1. window' \in Seq(Entry) /\ Len(window') = 0 /\ dq' = Refill(window')
    BY <1>2, EmptyIsRefilled
  <2>2. Numbered' /\ next' \in Nat
    BY <1>1, <1>2, <2>1 DEF Numbered, Increasing
  <2>3. renumbered' \in BOOLEAN
    BY <1>2, Zenon
  <2> QED
    BY <1>2, <2>1, <2>2, <2>3, RefillKeeps
<1>3. CASE /\ IsInDeadQueue(dq, seq) /\ DrainEnds(dq, IndexInDeadQueue(dq, seq))
           /\ dq' = Refill(sent) /\ window' = sent /\ next' = seq + Len(sent)
           /\ Renumber
  <2>1. sent \in Seq(Entry) /\ Len(sent) <= DeadQueueSize
    BY <1>3, IndexIsFound, DrainIsTyped
  <2> HIDE DEF sent
  <2>2. next' \in Nat /\ renumbered' \in BOOLEAN
    BY <1>1, <1>3, <2>1 DEF Renumber
  <2>3. ASSUME ~renumbered' PROVE Increasing' /\ \A k \in 1 .. Len(sent) : sent[k].seq < next'
    <3>1. ~renumbered /\ \A k \in DOMAIN sent : ~(sent[k].seq >= next')
      BY <1>3, <2>3 DEF Renumber
    <3>2. \A k \in 1 .. Len(sent) : sent[k].seq < next'
      <4> TAKE k \in 1 .. Len(sent)
      <4>1. sent[k] \in Entry /\ k \in DOMAIN sent
        BY <2>1
      <4>2. sent[k].seq \in Nat
        BY <4>1, EntryIsSomething
      <4> QED
        BY <2>2, <3>1, <4>1, <4>2
    <3>3. Increasing
      BY <3>1 DEF WindowInv, Numbered
    <3>4. PICK i \in 1 .. n : IndexInDeadQueue(dq, seq) = SlotOf(i)
      BY <1>3, IndexIsFound, SlotIsHeld
    <3>5. sent = SubSeq(window, i, n)
      BY <3>3, <3>4, DrainWindow DEF sent
    <3>6. /\ Len(sent) = n - i + 1
          /\ \A k \in 1 .. (n - i + 1) : sent[k] = window[i + k - 1]
      BY <1>1, <3>5
    <3>7. ASSUME NEW j \in 1 .. Len(sent), NEW k \in 1 .. Len(sent), j < k
          PROVE  sent[j].seq < sent[k].seq
      <4>1. i + j - 1 \in 1 .. n /\ i + k - 1 \in 1 .. n /\ i + j - 1 < i + k - 1
        BY <1>1, <3>6, <3>7
      <4>2. window[i + j - 1].seq < window[i + k - 1].seq
        BY <3>3, <4>1 DEF Increasing
      <4> QED
        BY <3>6, <4>2
    <3> QED
      BY <1>3, <3>2, <3>7 DEF Increasing
  <2>4. Numbered'
    BY <1>3, <2>3 DEF Numbered
  <2> QED
    BY <1>3, <2>1, <2>2, <2>4, RefillKeeps
<1> QED
  BY <1>2, <1>3 DEF TakeOver

\* The slice always holds the window, laid out as Filling or as Rolling says, with
\* numbers that go up until they are given out again.
THEOREM WindowInvariant == Spec => []WindowInv
<1>1. WindowInv /\ [Next]_vars => WindowInv'
  <2> SUFFICES ASSUME WindowInv, [Next]_vars PROVE WindowInv'
    OBVIOUS
  <2>1. CASE Write
    BY <2>1, WriteKeeps
  <2>2. ASSUME NEW seq \in 1 .. (MaxSeq + 1), StartOver(seq) PROVE WindowInv'
    BY <2>2, StartOverKeeps
  <2>3. ASSUME NEW seq \in 1 .. (MaxSeq + 1), TakeOver(seq) PROVE WindowInv'
    BY <2>3, TakeOverKeeps
  <2>4. ASSUME NEW seq \in 1 .. (MaxSeq + 1), Resume(seq) PROVE WindowInv'
    BY <2>4, ResumeKeeps
  <2>5. CASE UNCHANGED vars
    BY <2>5 DEF vars, WindowInv, TypeOK, Numbered, Increasing, Filling, Rolling, PlaceOf
  <2> QED
    BY <2>1, <2>2, <2>3, <2>4, <2>5 DEF Next
<1> QED
  BY <1>1, InitHolds, PTL DEF Spec

\* Type correctness: the pointer stays in the slice, the window in the size.
THEOREM WindowTypeCorrect == Spec => []TypeOK
BY WindowInvariant, PTL DEF WindowInv

\* _isInDeadQueue finds exactly the events of the window.
THEOREM MembershipIsExact == Spec => []FindsTheWindow
<1>1. WindowInv => FindsTheWindow
  <2> SUFFICES ASSUME WindowInv, NEW seq \in 0 .. (MaxSeq + 1)
               PROVE  IsInDeadQueue(dq, seq) <=> seq \in Held
    BY DEF FindsTheWindow
  <2>1. DOMAIN window = 1 .. Len(window)
    BY DEF WindowInv, TypeOK
  <2>2. ASSUME NEW s \in Slots, FoundAt(dq, seq, s) PROVE seq \in Held
    <3>1. dq.slots[s] # NoEntry /\ dq.slots[s].seq = seq
      BY <2>2 DEF FoundAt, Slots
    <3>2. PICK i \in 1 .. Len(window) : s = SlotOf(i)
      BY <3>1, SlotIsHeld
    <3>3. window[i].seq = seq
      BY <3>1, <3>2, SlotHolds
    <3> QED
      BY <2>1, <3>3 DEF Held
  <2>3. ASSUME NEW i \in DOMAIN window, seq = window[i].seq PROVE IsInDeadQueue(dq, seq)
    BY <2>1, <2>3, ScanFinds
  <2> QED
    BY <2>2, <2>3 DEF IsInDeadQueue, Held
<1> QED
  BY <1>1, WindowInvariant, PTL

\* _hasMsgLoss says that the client's next number does not follow the last event.
THEOREM LossIsExact == Spec => []LossMeansNotNext
<1>1. WindowInv => LossMeansNotNext
  <2> SUFFICES ASSUME WindowInv PROVE LossMeansNotNext
    OBVIOUS
  <2>1. window # << >> <=> Len(window) > 0
    BY DEF WindowInv, TypeOK
  <2> QED
    BY <2>1, LossInWindow DEF LossMeansNotNext
<1> QED
  BY <1>1, WindowInvariant, PTL

\* drainDeadQueue sends the rest of the window, once and in order, across the gaps in
\* its numbers, until numbers that are held are given out again.
THEOREM DrainIsComplete == Spec => []DrainsTheSuffix
<1>1. WindowInv => DrainsTheSuffix
  <2> SUFFICES ASSUME WindowInv, ~renumbered, NEW i \in DOMAIN window
               PROVE  Drain(dq, IndexInDeadQueue(dq, window[i].seq))
                          = SubSeq(window, i, Len(window))
    BY DEF DrainsTheSuffix
  <2>1. i \in 1 .. Len(window)
    BY DEF WindowInv, TypeOK
  <2>2. Increasing
    BY DEF WindowInv, Numbered
  <2> QED
    BY <2>1, <2>2, DrainWindow, IndexIsItsSlot
<1> QED
  BY <1>1, WindowInvariant, PTL
=============================================================================
