----------------------- MODULE ReliableDelivery_proofs ------------------------
(*****************************************************************************)
(* Proofs about what reaches the client on a single node: the streams        *)
(* implement EventStream, no event comes twice, and none is lost but in the  *)
(* window of a resume.  Nodes broadcast the same events in orders of their   *)
(* own, so that a client that goes over to another node may receive one      *)
(* again, or not at all: these hold where one hub has every connection.      *)
(*****************************************************************************)
EXTENDS ReliableWebSocket_proofs

-----------------------------------------------------------------------------
\* The protocol implements the abstract event stream

LEMMA WholeStream ==
    ASSUME NEW s \in Seq(Recorded)
    PROVE  /\ Whole(s) \in Seq(Recorded) /\ Len(Whole(s)) = Intact(s)
           /\ \A k \in 1 .. Intact(s) : Whole(s)[k] = s[k]
<1>1. /\ Intact(s) \in 0 .. Len(s) /\ Len(s) \in Nat /\ Whole(s) = SubSeq(s, 1, Intact(s))
  BY IntactPart
<1> QED
  BY <1>1

LEMMA ExtendedWhole ==
    ASSUME NEW s \in Seq(Recorded), NEW t \in Seq(Recorded),
           Intact(t) = Intact(s) \/ Intact(t) = Intact(s) + 1,
           \A k \in 1 .. Intact(s) : t[k] = s[k]
    PROVE  \/ Whole(t) = Whole(s)
           \/ /\ Len(Whole(t)) = Len(Whole(s)) + 1
              /\ SubSeq(Whole(t), 1, Len(Whole(s))) = Whole(s)
<1> DEFINE v == Whole(s)
           w == Whole(t)
           n == Intact(s)
<1>1. /\ v \in Seq(Recorded) /\ Len(v) = n /\ \A k \in 1 .. n : v[k] = s[k]
      /\ w \in Seq(Recorded) /\ Len(w) = Intact(t) /\ \A k \in 1 .. Intact(t) : w[k] = t[k]
  BY WholeStream
<1>a. n \in Nat
  BY IntactPart
<1>2. Len(w) = n \/ Len(w) = n + 1
  BY <1>1, <1>a
<1>3. \A k \in 1 .. n : w[k] = v[k]
  BY <1>1, <1>a, <1>2
<1>4. SubSeq(w, 1, n) = SubSeq(v, 1, n) /\ SubSeq(v, 1, n) = v /\ SubSeq(w, 1, Len(w)) = w
  <2> HIDE DEF v, w, n
  <2>1. SubSeq(w, 1, n) = SubSeq(v, 1, n)
    BY <1>1, <1>a, <1>2, <1>3, AgreeingPrefix
  <2> QED
    BY <1>1, <1>a, <2>1
<1> HIDE DEF v, w, n
<1>5. \/ w = v
      \/ Len(w) = Len(v) + 1 /\ SubSeq(w, 1, Len(v)) = v
  BY <1>1, <1>a, <1>2, <1>4
<1> QED
  BY <1>5 DEF v, w

Streams == [i \in Ids |-> Whole(stream[i])]

LEMMA OneExtends ==
    ASSUME TypeOK, TypeOK', NEW i \in Ids, \A j \in Ids \ {i} : stream'[j] = stream[j],
           Intact(stream'[i]) = H(i) \/ Intact(stream'[i]) = H(i) + 1,
           \A k \in 1 .. H(i) : stream'[i][k] = stream[i][k],
           client' = client
    PROVE  [Promise!Next]_(Promise!vars)
<1>1. stream[i] \in Seq(Recorded) /\ stream'[i] \in Seq(Recorded)
  BY DEF TypeOK, Recorded
<1>2. \/ Whole(stream'[i]) = Whole(stream[i])
      \/ /\ Len(Whole(stream'[i])) = Len(Whole(stream[i])) + 1
         /\ SubSeq(Whole(stream'[i]), 1, Len(Whole(stream[i]))) = Whole(stream[i])
  BY <1>1, ExtendedWhole DEF H
<1>3. \A j \in Ids : Streams[j] = Whole(stream[j]) /\ Streams'[j] = Whole(stream'[j])
  BY DEF Streams
<1>4. CASE Whole(stream'[i]) = Whole(stream[i])
  <2>1. Streams' = Streams
    BY <1>4 DEF Streams
  <2> QED
    BY <2>1 DEF Promise!vars, Streams
<1>5. CASE /\ Len(Whole(stream'[i])) = Len(Whole(stream[i])) + 1
           /\ SubSeq(Whole(stream'[i]), 1, Len(Whole(stream[i]))) = Whole(stream[i])
  <2>1. Promise!Extend(i)
    BY <1>3, <1>5 DEF Promise!Extend, Streams
  <2> QED
    BY <2>1 DEF Promise!Next
<1> QED
  BY <1>2, <1>4, <1>5

LEMMA NothingReceived ==
    ASSUME UNCHANGED stream, client'.id = client.id, client'.received = client.received
    PROVE  [Promise!Next]_(Promise!vars)
BY DEF Promise!vars

LEMMA SendExtends ==
    ASSUME TypeOK, StreamInv, OwnerInv, TypeOK', NEW c \in Conns, PumpSend(c)
    PROVE  [Promise!Next]_(Promise!vars)
<1> DEFINE r == conn[c]
           i == r.id
           s == stream[i]
<1>1. /\ r.stage = "pumping" /\ client' = client
      /\ \E x \in Recorded : Number(c, x)
  <2>1. r.send \in Seq(Message) /\ r.send # << >>
    BY TypesOfState DEF Typed, PumpSend
  <2>2. Head(r.send) \in Recorded /\ Hole \in Recorded
    BY <2>1, HoleIsNoMessage DEF Recorded
  <2> QED
    BY <2>2 DEF PumpSend
<1>2. PICK x \in Recorded : Number(c, x)
  BY <1>1
<1>3. /\ i \in Ids /\ s \in Seq(Recorded) /\ H(i) = Intact(s) /\ r.seq >= Intact(s)
      /\ Intact(s) \in Nat /\ r.seq \in Nat
  BY <1>1, PumpingConn DEF Conns, Ids, Typed
<1>4. /\ stream'[i] = Numbering(s, r.seq, x)
      /\ \A j \in Ids \ {i} : stream'[j] = stream[j]
  BY <1>1, <1>2, NumberGrows
<1>5. /\ Intact(stream'[i]) = H(i) \/ Intact(stream'[i]) = H(i) + 1
      /\ \A k \in 1 .. H(i) : stream'[i][k] = s[k]
  <2> HIDE DEF r, i, s
  <2>1. \A k \in 1 .. Intact(s) : stream'[i][k] = s[k]
    BY <1>3, <1>4, NumberedStream
  <2>2. \/ Intact(stream'[i]) = Intact(s)
        \/ Intact(stream'[i]) = r.seq + 1 /\ r.seq = Intact(s)
    BY <1>3, <1>4, NumberedStream
  <2> QED
    BY <1>3, <2>1, <2>2
<1> QED
  BY <1>1, <1>3, <1>4, <1>5, OneExtends

LEMMA StartExtends ==
    ASSUME TypeOK, StreamInv, OwnerInv, TypeOK', NEW c \in Conns, PumpStart(c)
    PROVE  [Promise!Next]_(Promise!vars)
<1>1. client' = client /\ conn[c].stage = "registered"
  BY DEF PumpStart
<1>2. CASE stream' = stream
  BY <1>1, <1>2, NothingReceived
<1>3. CASE conn[c].seq # 0 /\ stream' = [stream EXCEPT ![c] = << Hello(c) >>]
  <2>1. c \in Ids /\ stream = [j \in Ids |-> stream[j]]
    BY TypesOfState DEF Conns, Ids
  <2>2. stream'[c] = << Hello(c) >> /\ \A j \in Ids \ {c} : stream'[j] = stream[j]
    BY <1>3, <2>1
  <2>3. Unissued(c)
    BY <1>1, <1>3, ResumingConn DEF Unissued
  <2>4. H(c) = 0
    BY <2>3, EmptyStream DEF H, StreamInv, NothingUnissued
  <2>5. Intact(<< Hello(c) >>) = 1
    <3>1. Hello(c) \in Message
      BY <2>1 DEF Hello, Message, Ids
    <3> QED
      BY <3>1, OneInStream
  <2>6. Intact(stream'[c]) = H(c) + 1 /\ \A k \in 1 .. H(c) : stream'[c][k] = stream[c][k]
    BY <2>2, <2>4, <2>5
  <2> QED
    BY <1>1, <2>1, <2>2, <2>6, OneExtends
<1> QED
  BY <1>2, <1>3 DEF PumpStart

LEMMA ReceiveDelivers ==
    ASSUME TypeOK, StreamInv, ClientReceive
    PROVE  [Promise!Next]_(Promise!vars)
<1> DEFINE frame == wire[1]
           hello == frame.msg.kind = "hello"
           i == client.id
           n == frame.msg.n
<1>1. /\ wire # << >> /\ wire \in Seq(Entry) /\ 1 \in DOMAIN wire /\ Head(wire) = frame
      /\ client.seq \in Nat /\ client.received \in Seq(Message) /\ i \in Ids
      /\ stream' = stream
  BY TypesOfState DEF ClientReceive, StreamInv, ClientOK
<1>2. frame \in Entry /\ frame.msg \in Message
  <2>1. frame \in Entry
    BY <1>1
  <2> HIDE DEF frame
  <2> QED
    BY <2>1, EntryIsSomething
<1>3. \A j \in Ids : Streams[j] = Whole(stream[j]) /\ Streams' = Streams
  BY <1>1 DEF Streams
<1>4. WireOK /\ ClientOK
  BY DEF StreamInv
<1> HIDE DEF frame
<1>5. CASE hello
  <2>1. /\ frame.seq = 0 /\ n # i /\ n # 0 /\ WireId = n /\ WireSeq = 0 /\ n \in Ids
    BY <1>1, <1>4, <1>5 DEF WireOK, WireId, WireSeq, Heads, frame
  <2>2. i = 0 => client.seq = 0 /\ client.received = << >>
    <3> HAVE i = 0
    <3>1. client.seq = 0 /\ client.seq = Len(client.received)
      BY <1>1, <1>4 DEF ClientOK, StreamAgreement
    <3> QED
      BY <1>1, <3>1
  <2>3. client'.id = n /\ client'.received = << frame.msg >>
    <3>1. Append(<< >>, frame.msg) = << frame.msg >>
      OBVIOUS
    <3>2. CASE i = 0
      BY <1>1, <1>5, <2>1, <2>2, <3>1, <3>2 DEF ClientReceive, Restarts
    <3>3. CASE i # 0
      BY <1>1, <1>5, <2>1, <3>1, <3>3 DEF ClientReceive, Restarts
    <3> QED
      BY <3>2, <3>3
  <2>4. Running(1)
    BY <2>1 DEF Running, frame
  <2>5. 1 <= H(n) /\ frame.msg = stream[n][1]
    BY <1>1, <1>4, <2>1, <2>4 DEF WireOK, frame
  <2>6. /\ stream[n] \in Seq(Recorded) /\ Whole(stream[n]) # << >>
        /\ Whole(stream[n])[1] = frame.msg
    <3>1. stream[n] \in Seq(Recorded)
      BY <2>1, TypesOfState
    <3>2. 1 \in 1 .. Intact(stream[n]) /\ Len(Whole(stream[n])) = Intact(stream[n])
          /\ Whole(stream[n]) \in Seq(Recorded)
      BY <2>5, <3>1, WholeStream, IntactPart DEF H
    <3> QED
      BY <2>5, <3>1, <3>2, WholeStream
  <2>7. Promise!StartOver(n)
    BY <1>1, <1>3, <2>1, <2>3, <2>6 DEF Promise!StartOver, Streams
  <2> QED
    BY <2>1, <2>7 DEF Promise!Next
<1>6. CASE ~hello
  <2>1. WireId = i /\ WireSeq = client.seq
    BY <1>1, <1>6 DEF WireId, WireSeq, Heads, frame
  <2>2. client'.id = i
    BY <1>1, <1>6 DEF ClientReceive
  <2>3. ~Restarts(frame)
    BY <1>6 DEF Restarts
  <2>4. CASE frame.seq # client.seq
    <3>1. client'.received = client.received
      BY <1>1, <2>3, <2>4 DEF ClientReceive
    <3> QED
      BY <1>1, <2>2, <3>1, NothingReceived
  <2>5. CASE frame.seq = client.seq
    <3>1. client'.received = Append(client.received, frame.msg)
      BY <1>1, <2>3, <2>5 DEF ClientReceive
    <3>2. Running(1)
      BY <1>1, <2>1, <2>5 DEF Running, frame
    <3>3. client.seq + 1 <= H(i) /\ frame.msg = stream[i][client.seq + 1]
      BY <1>1, <1>4, <2>1, <3>2 DEF WireOK, frame
    <3>4. Len(client.received) = client.seq
      BY <1>4 DEF ClientOK, StreamAgreement
    <3>5. /\ Len(client.received) < Len(Whole(stream[i]))
          /\ Whole(stream[i])[Len(client.received) + 1] = frame.msg
      <4>1. stream[i] \in Seq(Recorded)
        BY <1>1, TypesOfState
      <4>2. client.seq + 1 \in 1 .. Intact(stream[i])
        BY <1>1, <3>3, <4>1, IntactPart DEF H
      <4>3. /\ Len(Whole(stream[i])) = Intact(stream[i]) /\ Intact(stream[i]) \in Nat
            /\ Whole(stream[i])[client.seq + 1] = stream[i][client.seq + 1]
        BY <4>1, <4>2, WholeStream, IntactPart
      <4> HIDE DEF i
      <4> QED
        BY <1>1, <3>3, <3>4, <4>2, <4>3
    <3>6. Promise!Deliver
      BY <1>1, <1>3, <2>2, <3>1, <3>5 DEF Promise!Deliver, Streams
    <3> QED
      BY <3>6 DEF Promise!Next
  <2> QED
    BY <2>4, <2>5
<1> QED
  BY <1>5, <1>6

\* Every step that does not rewind is one of the abstract stream, or changes nothing of it.
LEMMA StepIsPromised ==
    ASSUME IInv, IInv', ~rewound', [Next]_vars
    PROVE  [Promise!Next]_(Promise!vars)
<1>1. TypeOK /\ StreamInv /\ OwnerInv /\ TypeOK'
  BY RewoundStays DEF IInv
<1>2. ASSUME NEW c \in Conns, PumpSend(c) PROVE [Promise!Next]_(Promise!vars)
  BY <1>1, <1>2, SendExtends
<1>3. ASSUME NEW c \in Conns, PumpStart(c) PROVE [Promise!Next]_(Promise!vars)
  BY <1>1, <1>3, StartExtends
<1>4. CASE ClientReceive
  BY <1>1, <1>4, ReceiveDelivers
<1>5. \/ \E c \in Conns : PumpSend(c) \/ PumpStart(c)
      \/ ClientReceive
      \/ UNCHANGED stream /\ client'.id = client.id /\ client'.received = client.received
  <2>1. client \in ClientType
    BY <1>1, ClientTyped
  <2>2. ASSUME NEW n \in Nodes, ClientConnect(n)
        PROVE  UNCHANGED stream /\ client'.id = client.id /\ client'.received = client.received
    BY <2>1, <2>2 DEF ClientConnect, ClientType
  <2>3. ASSUME Detach \/ Refetch
        PROVE  UNCHANGED stream /\ client'.id = client.id /\ client'.received = client.received
    BY <2>1, <2>3 DEF Detach, Refetch, ClientType
  <2>4. CASE Client
    BY <2>2, <2>3, <2>4 DEF Client, ClientDisconnect, ClientNotice
  <2>5. CASE UNCHANGED <<stream, client>>
    BY <2>5
  <2>6. CASE Publish \/ \E n \in Nodes : Hub(n)
    BY <2>5, <2>6 DEF Publish, Hub, HubBroadcast, Reap, HubPanic, NodeCrash
  <2>7. ASSUME NEW c \in Conns,
               Handshake(c) \/ Answer(c) \/ ClusterLookupFails(c) \/ RegisterFails(c)
        PROVE  UNCHANGED <<stream, client>>
    BY <2>7 DEF Handshake, NewConnection, ClusterLookup, LocalLookup, Register, Answer,
                ClusterLookupFails, RegisterFails
  <2>8. ASSUME NEW c \in Conns, Pump(c), ~PumpSend(c), ~PumpStart(c)
        PROVE  UNCHANGED <<stream, client>>
    BY <2>8 DEF Pump, PumpReply, PumpClose, PumpStop, Unregister
  <2> QED
    BY <2>4, <2>5, <2>6, <2>7, <2>8 DEF Next, vars
<1> QED
  BY <1>2, <1>3, <1>4, <1>5, NothingReceived

LEMMA InitIsPromised == Init => Promise!Init
<1> SUFFICES ASSUME Init PROVE Promise!Init
  OBVIOUS
<1>1. /\ stream = [i \in Ids |-> << >>] /\ client.id = 0 /\ client.received = << >>
  BY DEF Init
<1>2. Whole(<< >>) = << >>
  <2>1. Whole(<< >>) \in Seq(Recorded) /\ Len(Whole(<< >>)) = 0
    BY EmptyStream, WholeStream
  <2> QED
    BY <2>1
<1>3. 0 \in Ids
  BY BoundsAssumption DEF Ids
<1> QED
  BY <1>1, <1>2, <1>3 DEF Promise!Init

\* ImplementsEventStream of a single node: every stream only grows, and the client
\* receives one in order, without a gap or a repetition, or starts over with another.
THEOREM SingleNodeImplementsEventStream ==
    ASSUME Cardinality(Nodes) = 1
    PROVE  Spec => ImplementsEventStream
<1>1. Init => Promise!Init
  BY InitIsPromised
<1>2. IInv /\ IInv' /\ [Next]_vars => [Promise!Next]_(Promise!vars)
  BY StepIsPromised DEF IInv
<1> QED
  BY <1>1, <1>2, IInvariant, PTL DEF Spec, ImplementsEventStream, Promise!Spec

-----------------------------------------------------------------------------
\* A single node: which events a queue or a stream holds

Single == Cardinality(Nodes) = 1

LEMMA TheNode ==
    ASSUME Single
    PROVE  \E n \in Nodes : Nodes = {n}
BY NodesAssumption, FS_Singleton DEF Single

EvAt(s) == {k \in DOMAIN s : s[k].kind = "event"}
Evs(s) == {s[k].n : k \in EvAt(s)}

\* No event twice.
Once(s) == \A k, l \in EvAt(s) : s[k] = s[l] => k = l

LEMMA MessageIs ==
    \A m \in Recorded : m = [kind |-> m.kind, n |-> m.n] /\ m.n \in Nat
BY DEF Recorded, Message, Hole

LEMMA NoEvents == Evs(<< >>) = {} /\ Once(<< >>) /\ EvAt(<< >>) = {}
BY DEF Evs, Once, EvAt

LEMMA AppendedEvents ==
    ASSUME NEW s \in Seq(Recorded), NEW m \in Recorded
    PROVE  /\ Evs(Append(s, m)) = Evs(s) \cup (IF m.kind = "event" THEN {m.n} ELSE {})
           /\ Once(s) /\ (m.kind = "event" => m.n \notin Evs(s)) => Once(Append(s, m))
<1> DEFINE t == Append(s, m)
<1>1. /\ DOMAIN t = 1 .. (Len(s) + 1) /\ DOMAIN s = 1 .. Len(s) /\ Len(s) \in Nat
      /\ \A k \in 1 .. Len(s) : t[k] = s[k]
      /\ t[Len(s) + 1] = m
  OBVIOUS
<1> HIDE DEF t
<1>2. /\ \A k \in EvAt(s) : k \in EvAt(t) /\ t[k] = s[k] /\ k # Len(s) + 1
      /\ m.kind = "event" => Len(s) + 1 \in EvAt(t)
  BY <1>1 DEF EvAt
<1>3. \A k \in EvAt(t) : k \in EvAt(s) \/ (k = Len(s) + 1 /\ m.kind = "event")
  <2> TAKE k \in EvAt(t)
  <2>1. k \in DOMAIN t /\ t[k].kind = "event"
    BY DEF EvAt
  <2>2. CASE k \in 1 .. Len(s)
    <3>1. k \in DOMAIN s /\ s[k].kind = "event"
      BY <1>1, <2>1, <2>2
    <3> QED
      BY <3>1 DEF EvAt
  <2>3. CASE k = Len(s) + 1
    BY <1>1, <2>1, <2>3
  <2> QED
    BY <1>1, <2>1, <2>2, <2>3
<1>4. Evs(t) = Evs(s) \cup (IF m.kind = "event" THEN {m.n} ELSE {})
  <2>1. ASSUME NEW e \in Evs(t) PROVE e \in Evs(s) \/ (m.kind = "event" /\ e = m.n)
    <3>1. PICK k \in EvAt(t) : e = t[k].n
      BY <2>1 DEF Evs
    <3>2. CASE k \in EvAt(s)
      <4>1. e = s[k].n
        BY <1>2, <3>1, <3>2
      <4> QED
        BY <3>2, <4>1 DEF Evs
    <3>3. CASE k = Len(s) + 1 /\ m.kind = "event"
      BY <1>1, <3>1, <3>3
    <3> QED
      BY <1>3, <3>2, <3>3
  <2>2. ASSUME NEW e \in Evs(s) PROVE e \in Evs(t)
    BY <1>2 DEF Evs
  <2>3. m.kind = "event" => m.n \in Evs(t)
    BY <1>1, <1>2 DEF Evs
  <2> QED
    BY <2>1, <2>2, <2>3
<1>5. ASSUME Once(s), m.kind = "event" => m.n \notin Evs(s)
      PROVE  Once(t)
  <2>1. \A k \in EvAt(s) : m.kind = "event" => s[k] # m
    BY <1>5 DEF Evs
  <2> QED
    BY <1>1, <1>2, <1>3, <1>5, <2>1 DEF Once
<1> QED
  BY <1>4, <1>5 DEF t

LEMMA TailEvents ==
    ASSUME NEW s \in Seq(Recorded), s # << >>
    PROVE  /\ Evs(Tail(s)) \subseteq Evs(s)
           /\ Once(s) => Once(Tail(s))
           /\ Once(s) /\ Head(s).kind = "event" => Head(s).n \notin Evs(Tail(s))
           /\ Head(s).kind = "event" => Head(s).n \in Evs(s)
           /\ Evs(s) \subseteq Evs(Tail(s)) \cup {Head(s).n}
           /\ Head(s).kind # "event" => Evs(Tail(s)) = Evs(s)
<1> DEFINE t == Tail(s)
<1>1. /\ DOMAIN t = 1 .. (Len(s) - 1) /\ DOMAIN s = 1 .. Len(s) /\ Len(s) \in Nat /\ Len(s) >= 1
      /\ \A k \in 1 .. (Len(s) - 1) : t[k] = s[k + 1]
      /\ Head(s) = s[1] /\ \A k \in 1 .. Len(s) : s[k] \in Recorded
  OBVIOUS
<1> HIDE DEF t
<1>2. \A k \in EvAt(t) : k + 1 \in EvAt(s) /\ t[k] = s[k + 1] /\ k \in Nat
  BY <1>1 DEF EvAt
<1>3. \A k \in EvAt(s) : k \in Nat /\ (k = 1 \/ (k - 1 \in EvAt(t) /\ t[k - 1] = s[k]))
  <2> TAKE k \in EvAt(s)
  <2>1. k \in 1 .. Len(s) /\ s[k].kind = "event"
    BY <1>1 DEF EvAt
  <2>2. CASE k # 1
    <3>1. k - 1 \in 1 .. (Len(s) - 1) /\ (k - 1) + 1 = k
      BY <1>1, <2>1, <2>2
    <3>2. t[k - 1] = s[k]
      BY <1>1, <3>1
    <3> QED
      BY <1>1, <2>1, <3>1, <3>2 DEF EvAt
  <2> QED
    BY <2>1, <2>2
<1>4. Evs(t) \subseteq Evs(s)
  BY <1>2 DEF Evs
<1>5. Once(s) => Once(t)
  <2> SUFFICES ASSUME Once(s), NEW k \in EvAt(t), NEW l \in EvAt(t), t[k] = t[l] PROVE k = l
    BY DEF Once
  <2>1. k + 1 = l + 1
    BY <1>2 DEF Once
  <2> QED
    BY <1>2, <2>1
<1>6. Head(s).kind = "event" => 1 \in EvAt(s) /\ Head(s).n \in Evs(s)
  BY <1>1 DEF EvAt, Evs
<1>7. Once(s) /\ Head(s).kind = "event" => Head(s).n \notin Evs(t)
  <2> SUFFICES ASSUME Once(s), Head(s).kind = "event", NEW k \in EvAt(t), t[k].n = Head(s).n
               PROVE  FALSE
    BY DEF Evs
  <2>1. s[k + 1] = s[1]
    <3>1. /\ s[k + 1] \in Recorded /\ s[1] \in Recorded /\ s[k + 1].n = s[1].n
          /\ s[k + 1].kind = s[1].kind
      BY <1>1, <1>2 DEF EvAt
    <3> QED
      BY <3>1, MessageIs
  <2>2. k + 1 \in EvAt(s) /\ 1 \in EvAt(s) /\ k \in Nat /\ k >= 1
    BY <1>1, <1>2, <1>6 DEF EvAt
  <2>3. k + 1 = 1
    BY <2>1, <2>2 DEF Once
  <2>4. k = 0
    BY <2>2, <2>3
  <2> QED
    BY <2>2, <2>4
<1>8. \A e \in Evs(s) : (e = Head(s).n /\ Head(s).kind = "event") \/ e \in Evs(t)
  <2> TAKE e \in Evs(s)
  <2>1. PICK k \in EvAt(s) : e = s[k].n
    BY DEF Evs
  <2>2. CASE k = 1
    BY <1>1, <2>1, <2>2 DEF EvAt
  <2>3. CASE k # 1
    <3>1. k - 1 \in EvAt(t) /\ t[k - 1].n = e
      BY <1>3, <2>1, <2>3
    <3> QED
      BY <3>1 DEF Evs
  <2> QED
    BY <2>2, <2>3
<1> QED
  BY <1>4, <1>5, <1>6, <1>7, <1>8 DEF t

\* An event numbered into a stream that has not got it.
LEMMA NumberedEvents ==
    ASSUME NEW s \in Seq(Recorded), NEW q \in Nat, NEW m \in Recorded
    PROVE  LET t == Numbering(s, q, m) IN
           /\ Evs(t) \subseteq Evs(s) \cup (IF m.kind = "event" THEN {m.n} ELSE {})
           /\ Once(s) /\ (m.kind = "event" => m.n \notin Evs(s)) => Once(t)
<1> DEFINE t == Numbering(s, q, m)
<1>1. /\ DOMAIN t = 1 .. (q + 1) /\ DOMAIN s = 1 .. Len(s) /\ Len(s) \in Nat
      /\ \A k \in 1 .. (q + 1) : t[k] = IF k > q THEN m ELSE IF k <= Len(s) THEN s[k] ELSE Hole
  BY DEF Numbering
<1> HIDE DEF t
<1>2. Hole.kind # "event"
  BY DEF Hole
<1>3. \A k \in EvAt(t) : \/ k = q + 1 /\ t[k] = m /\ m.kind = "event"
                         \/ k \in EvAt(s) /\ t[k] = s[k] /\ k # q + 1
  BY <1>1, <1>2 DEF EvAt
<1>4. Evs(t) \subseteq Evs(s) \cup (IF m.kind = "event" THEN {m.n} ELSE {})
  BY <1>3 DEF Evs
<1>5. ASSUME Once(s), m.kind = "event" => m.n \notin Evs(s)
      PROVE  Once(t)
  <2>1. \A k \in EvAt(s) : m.kind = "event" => s[k] # m
    BY <1>5 DEF Evs
  <2> QED
    BY <1>3, <1>5, <2>1 DEF Once
<1> QED
  BY <1>4, <1>5 DEF t

-----------------------------------------------------------------------------
\* Steps in which no connection is given or loses an event, nor another id

SendsOn(q, r) ==
    \/ q = r
    \/ \E m \in Message : m.kind # "event" /\ q = Append(r, m)
    \/ r # << >> /\ Head(r).kind = "reply" /\ q = Tail(r)

Quiet(i) ==
    \/ conn'[i] = Gone
    \/ /\ conn'[i].id = conn[i].id /\ conn'[i].dq = conn[i].dq
       /\ SendsOn(conn'[i].send, conn[i].send)
       /\ conn'[i].stage = "populated" => conn[i].stage = "populated"
       /\ \A n \in Nodes : i \in index'[n] => i \in index[n] \/ conn[i].stage = "populated"

AllQuiet == stream' = stream /\ \A i \in Conns : Quiet(i)

LEMMA SameIsQuiet ==
    ASSUME NEW i \in Conns, conn'[i] = conn[i] \/ conn'[i] = Gone,
           \A n \in Nodes : i \in index'[n] => i \in index[n]
    PROVE  Quiet(i)
BY DEF Quiet, SendsOn

LEMMA OneIsQuiet ==
    ASSUME OwnerInv, NEW c \in Conns, stream' = stream, index' = index, Quiet(c),
           \A i \in Conns \ {c} : conn'[i] = conn[i]
    PROVE  AllQuiet
BY SameIsQuiet DEF AllQuiet

LEMMA HubIsQuiet ==
    ASSUME OwnerInv, NEW n \in Nodes, Reap(n) \/ HubPanic(n) \/ NodeCrash(n)
    PROVE  AllQuiet
<1>1. index \in [Nodes -> SUBSET Conns]
  BY DEF OwnerInv, Shape
<1>2. stream' = stream
  BY DEF Reap, HubPanic, NodeCrash
<1>3. \A m \in Nodes : index'[m] \subseteq index[m]
  BY <1>1 DEF Reap, HubPanic, NodeCrash
<1>4. \A i \in Conns : conn'[i] = conn[i] \/ conn'[i] = Gone
  <2>1. CASE Reap(n) \/ HubPanic(n)
    <3>1. \E C : conn' = Removed(conn, C)
      BY <2>1 DEF Reap, HubPanic
    <3> QED
      BY <3>1 DEF Removed
  <2>2. CASE NodeCrash(n)
    BY <2>2 DEF NodeCrash
  <2> QED
    BY <2>1, <2>2
<1> QED
  BY <1>2, <1>3, <1>4, SameIsQuiet DEF AllQuiet

LEMMA AnswerIsQuiet ==
    ASSUME TypeOK, OwnerInv, NEW c \in Conns, Answer(c)
    PROVE  AllQuiet
<1>1. /\ stream' = stream /\ index \in [Nodes -> SUBSET Conns]
      /\ Offer(conn[c].node, {c}, Reply) /\ conn[c].node \in Nodes
  BY DEF Answer, OwnerInv, Shape, FieldsOK
<1>2. \A m \in Nodes : index'[m] \subseteq index[m]
  BY <1>1 DEF Offer
<1>3. Reply \in Message /\ Reply.kind # "event"
  BY DEF Reply, Message
<1>4. ASSUME NEW i \in Conns PROVE Quiet(i)
  <2>1. conn'[i] = IF i # c THEN conn[i]
                   ELSE IF Full(i) THEN Overflown(conn[i])
                   ELSE [conn[i] EXCEPT !.send = Append(@, Reply)]
    BY <1>1 DEF Offer
  <2>2. CASE i # c \/ (Full(i) /\ conn[i].stage = "gone")
    BY <1>2, <2>1, <2>2, SameIsQuiet DEF Overflown
  <2>3. Typed(conn[i])
    BY TypesOfState
  <2>4. CASE i = c /\ Full(i) /\ conn[i].stage # "gone"
    <3>1. conn'[i] = [conn[i] EXCEPT !.closed = TRUE]
      BY <2>1, <2>4 DEF Overflown
    <3> QED
      BY <1>2, <2>3, <3>1 DEF Quiet, SendsOn, Typed, Fields
  <2>5. CASE i = c /\ ~Full(i)
    <3>1. conn'[i] = [conn[i] EXCEPT !.send = Append(@, Reply)]
      BY <2>1, <2>5
    <3>2. /\ conn'[i].id = conn[i].id /\ conn'[i].dq = conn[i].dq
          /\ conn'[i].send = Append(conn[i].send, Reply) /\ conn'[i].stage = conn[i].stage
      BY <2>3, <3>1 DEF Typed, Fields
    <3> QED
      BY <1>2, <1>3, <3>2 DEF Quiet, SendsOn
  <2> QED
    BY <2>2, <2>4, <2>5
<1> QED
  BY <1>1, <1>4 DEF AllQuiet

LEMMA RegisterIsQuiet ==
    ASSUME TypeOK, OwnerInv, NEW c \in Conns, Register(c) \/ RegisterFails(c)
    PROVE  AllQuiet
<1>1. /\ stream' = stream /\ index \in [Nodes -> SUBSET Conns] /\ Typed(conn[c])
      /\ conn = [i \in Conns |-> conn[i]] /\ conn[c].stage = "populated"
  BY TypesOfState DEF Register, RegisterFails, OwnerInv, Shape
<1>2. \A i \in Conns \ {c} : conn'[i] = conn[i]
  BY <1>1 DEF Register, RegisterFails
<1>3. CASE RegisterFails(c)
  <2>1. conn'[c] = Gone /\ index' = index
    BY <1>1, <1>3 DEF RegisterFails
  <2> QED
    BY <1>1, <1>2, <2>1, OneIsQuiet, SameIsQuiet
<1>4. CASE Register(c)
  <2>1. /\ conn'[c] = [conn[c] EXCEPT !.stage = "registered", !.active = TRUE,
                          !.send = IF conn[c].reused THEN @ ELSE Append(@, Hello(conn[c].id))]
        /\ \A i \in Conns \ {c}, n \in Nodes : i \in index'[n] => i \in index[n]
    BY <1>1, <1>4 DEF Register
  <2>2. PICK q : q = IF conn[c].reused THEN conn[c].send ELSE Append(conn[c].send, Hello(conn[c].id))
    OBVIOUS
  <2>3. /\ conn'[c].id = conn[c].id /\ conn'[c].dq = conn[c].dq
        /\ conn'[c].send = q /\ conn'[c].stage = "registered"
    BY <1>1, <2>1, <2>2 DEF Typed, Fields
  <2>4. Hello(conn[c].id) \in Message /\ Hello(conn[c].id).kind # "event"
    BY <1>1 DEF Hello, Message, Typed, Ids
  <2>5. SendsOn(q, conn[c].send)
    BY <2>2, <2>4 DEF SendsOn
  <2>6. Quiet(c)
    BY <1>1, <2>3, <2>5 DEF Quiet
  <2> QED
    BY <1>1, <1>2, <2>1, <2>6, SameIsQuiet DEF AllQuiet
<1> QED
  BY <1>3, <1>4

LEMMA PumpIsQuiet ==
    ASSUME TypeOK, OwnerInv, NEW c \in Conns,
           PumpReply(c) \/ PumpClose(c) \/ PumpStop(c) \/ Unregister(c)
    PROVE  AllQuiet
<1>1. Typed(conn[c]) /\ conn = [i \in Conns |-> conn[i]]
  BY TypesOfState
<1>2. stream' = stream /\ index' = index /\ \A i \in Conns \ {c} : conn'[i] = conn[i]
  BY <1>1 DEF PumpReply, PumpClose, PumpStop, Unregister
<1>3. CASE PumpReply(c)
  <2>1. /\ conn'[c] = [conn[c] EXCEPT !.send = Tail(@)]
        /\ conn[c].send # << >> /\ Head(conn[c].send).kind = "reply"
    BY <1>1, <1>3 DEF PumpReply
  <2>2. Quiet(c)
    BY <1>1, <1>2, <2>1 DEF Quiet, SendsOn, Typed, Fields
  <2> QED
    BY <1>2, <2>2, OneIsQuiet
<1>4. CASE PumpClose(c) \/ PumpStop(c)
  <2>1. conn'[c] = [conn[c] EXCEPT !.stage = "stopped"]
    BY <1>1, <1>4 DEF PumpClose, PumpStop
  <2>2. Quiet(c)
    BY <1>1, <1>2, <2>1 DEF Quiet, SendsOn, Typed, Fields
  <2> QED
    BY <1>2, <2>2, OneIsQuiet
<1>5. CASE Unregister(c)
  <2>1. conn'[c] = [conn[c] EXCEPT !.stage = "gone", !.active = FALSE] \/ conn'[c] = Gone
    BY <1>1, <1>5 DEF Unregister
  <2>2. Quiet(c)
    BY <1>1, <1>2, <2>1 DEF Quiet, SendsOn, Typed, Fields
  <2> QED
    BY <1>2, <2>2, OneIsQuiet
<1> QED
  BY <1>3, <1>4, <1>5

LEMMA ConnectIsQuiet ==
    ASSUME TypeOK, OwnerInv, NEW n \in Nodes, ClientConnect(n)
    PROVE  AllQuiet
<1>1. PICK c \in Conns :
          /\ conn[c].stage = "unused"
          /\ conn' = [conn EXCEPT ![c] =
                 [Blank EXCEPT !.node = n, !.stage = "upgraded",
                               !.reqId = client.id, !.reqSeq = client.seq]]
  BY DEF ClientConnect
<1>2. stream' = stream /\ index' = index
  BY DEF ClientConnect
<1>3. conn[c] = Blank /\ conn = [i \in Conns |-> conn[i]]
  BY <1>1, TypesOfState DEF OwnerInv, Lifecycle, Alive
<1>4. conn'[c] = [Blank EXCEPT !.node = n, !.stage = "upgraded",
                               !.reqId = client.id, !.reqSeq = client.seq]
  BY <1>1, <1>3
<1>5. /\ conn'[c].id = Blank.id /\ conn'[c].dq = Blank.dq /\ conn'[c].send = Blank.send
      /\ conn'[c].stage = "upgraded"
  BY <1>4 DEF Blank
<1>6. Quiet(c)
  BY <1>2, <1>3, <1>5 DEF Quiet, SendsOn
<1> QED
  BY <1>1, <1>2, <1>3, <1>6, OneIsQuiet

\* The start of a pump that does not start the connection over.
LEMMA StartIsQuiet ==
    ASSUME TypeOK, OwnerInv, NEW c \in Conns, PumpStart(c)
    PROVE  \/ AllQuiet
           \/ /\ conn[c].stage = "registered" /\ conn[c].seq # 0 /\ index' = index
              /\ \A i \in Conns \ {c} : conn'[i] = conn[i]
              /\ conn'[c].id = c /\ conn'[c].send = conn[c].send
              /\ stream' = [stream EXCEPT ![c] = << Hello(c) >>]
<1>1. Typed(conn[c]) /\ conn = [i \in Conns |-> conn[i]] /\ index' = index
      /\ conn[c].stage = "registered"
  BY TypesOfState DEF PumpStart
<1> DEFINE sent == Drain(conn[c].dq, IndexInDeadQueue(conn[c].dq, conn[c].seq))
<1>2. \/ /\ stream' = stream
         /\ \E k \in 0 .. Len(sent) :
               conn' = [conn EXCEPT ![c].seq = @ + k,
                           ![c].stage = IF k = Len(sent) THEN "pumping" ELSE "stopped"]
      \/ stream' = stream /\ conn' = [conn EXCEPT ![c].stage = "pumping"]
      \/ /\ conn[c].seq # 0
         /\ conn' = [conn EXCEPT
                     ![c].dq = AddToDeadQueue(ClearDeadQueue(conn[c].dq),
                                              [seq |-> 0, msg |-> Hello(c)]),
                     ![c].id = c, ![c].seq = 1, ![c].stage = "pumping"]
         /\ stream' = [stream EXCEPT ![c] = << Hello(c) >>]
  BY Zenon DEF PumpStart
<1>3. \A i \in Conns \ {c} : conn'[i] = conn[i]
  BY <1>1, <1>2
<1>4. ASSUME stream' = stream, NEW q, NEW g, g # "populated",
             conn' = [conn EXCEPT ![c].seq = q, ![c].stage = g]
      PROVE  AllQuiet
  <2>1. conn'[c] = [conn[c] EXCEPT !.seq = q, !.stage = g]
    BY <1>1, <1>4
  <2>2. Quiet(c)
    BY <1>1, <1>4, <2>1 DEF Quiet, SendsOn, Typed, Fields
  <2> QED
    BY <1>1, <1>3, <1>4, <2>2, OneIsQuiet
<1>5. ASSUME stream' = stream, NEW k \in 0 .. Len(sent),
             conn' = [conn EXCEPT ![c].seq = @ + k,
                           ![c].stage = IF k = Len(sent) THEN "pumping" ELSE "stopped"]
      PROVE  AllQuiet
  <2>1. PICK q : q = conn[c].seq + k
    OBVIOUS
  <2>2. PICK g : g # "populated" /\ g = IF k = Len(sent) THEN "pumping" ELSE "stopped"
    OBVIOUS
  <2>3. conn' = [conn EXCEPT ![c].seq = q, ![c].stage = g]
    BY <1>1, <1>5, <2>1, <2>2
  <2> QED
    BY <1>4, <1>5, <2>2, <2>3
<1>6. ASSUME stream' = stream, conn' = [conn EXCEPT ![c].stage = "pumping"]
      PROVE  AllQuiet
  <2>1. conn'[c] = [conn[c] EXCEPT !.stage = "pumping"]
    BY <1>1, <1>6
  <2>2. Quiet(c)
    BY <1>1, <2>1 DEF Quiet, SendsOn, Typed, Fields
  <2> QED
    BY <1>1, <1>3, <1>6, <2>2, OneIsQuiet
<1>7. ASSUME conn[c].seq # 0, NEW dq,
             conn' = [conn EXCEPT ![c].dq = dq, ![c].id = c, ![c].seq = 1,
                                  ![c].stage = "pumping"],
             stream' = [stream EXCEPT ![c] = << Hello(c) >>]
      PROVE  conn'[c].id = c /\ conn'[c].send = conn[c].send
  <2>1. conn'[c] = [conn[c] EXCEPT !.dq = dq, !.id = c, !.seq = 1, !.stage = "pumping"]
    BY <1>1, <1>7
  <2> QED
    BY <1>1, <2>1 DEF Typed, Fields
<1> QED
  BY <1>1, <1>2, <1>3, <1>5, <1>6, <1>7

\* The only steps of a single node that hand out events.
LEMMA QuietSteps ==
    ASSUME TypeOK, OwnerInv, Single, [Next]_vars
    PROVE  \/ AllQuiet
           \/ \E n \in Nodes : HubBroadcast(n)
           \/ \E c \in Conns : NewConnection(c) \/ LocalLookup(c) \/ PumpSend(c) \/ PumpStart(c)
<1>1. ASSUME UNCHANGED <<conn, index, stream>> PROVE AllQuiet
  BY <1>1, SameIsQuiet DEF AllQuiet
<1>2. \A c \in Conns : ~ClusterLookup(c) /\ ~ClusterLookupFails(c)
  BY DEF Single, ClusterLookup, ClusterLookupFails, AsksCluster
<1>3. CASE Publish \/ UNCHANGED vars
  BY <1>1, <1>3 DEF Publish, vars
<1>4. ASSUME NEW n \in Nodes, Hub(n), ~HubBroadcast(n) PROVE AllQuiet
  BY <1>4, HubIsQuiet DEF Hub
<1>5. ASSUME NEW c \in Conns, Answer(c) \/ Register(c) \/ RegisterFails(c) PROVE AllQuiet
  BY <1>5, AnswerIsQuiet, RegisterIsQuiet
<1>6. ASSUME NEW c \in Conns, PumpReply(c) \/ PumpClose(c) \/ PumpStop(c) \/ Unregister(c)
      PROVE AllQuiet
  BY <1>6, PumpIsQuiet
<1>7. CASE Client
  <2>1. ASSUME NEW n \in Nodes, ClientConnect(n) PROVE AllQuiet
    BY <2>1, ConnectIsQuiet
  <2>2. CASE ClientReceive \/ ClientDisconnect \/ ClientNotice \/ Refetch
    BY <1>1, <2>2 DEF ClientReceive, ClientDisconnect, ClientNotice, Refetch, Detach
  <2> QED
    BY <1>7, <2>1, <2>2 DEF Client
<1> QED
  BY <1>2, <1>3, <1>4, <1>5, <1>6, <1>7 DEF Next, Handshake, Pump

-----------------------------------------------------------------------------
\* No event twice on a single node: NoDuplicateDelivery

\* Events the hub has broadcast, or lost.
Past == {e \in 1 .. published : \A n \in Nodes : e \notin inbox[n]}

\* The queue of a connection and the stream of its id share no event.
Apart(r, s, past) ==
    /\ Once(r.send) /\ Evs(r.send) \subseteq past
    /\ r.id # 0 => Evs(r.send) \cap Evs(s) = {}

EventsOnce ==
    /\ \A n \in Nodes : inbox[n] \subseteq 1 .. published
    /\ \A c \in Conns : Apart(conn[c], stream[conn[c].id], Past)
    /\ \A i \in Ids : Once(stream[i]) /\ Evs(stream[i]) \subseteq Past

LEMMA PastGrows ==
    ASSUME TypeOK, EventsOnce, [Next]_vars
    PROVE  Past \subseteq Past' /\ \A n \in Nodes : inbox'[n] \subseteq 1 .. published'
<1>1. published \in Nat /\ inbox \in [Nodes -> SUBSET Nat]
      /\ \A n \in Nodes : inbox[n] \subseteq 1 .. published
  BY DEF TypeOK, EventsOnce
<1>2. CASE Publish
  <2>1. published' = published + 1 /\ \A n \in Nodes : inbox'[n] = inbox[n] \cup {published + 1}
    BY <1>1, <1>2 DEF Publish
  <2>2. \A e \in Past : e \in 1 .. published /\ e \in 1 .. (published + 1) /\ e # published + 1
    BY <1>1 DEF Past
  <2>3. 1 .. published \subseteq 1 .. (published + 1) /\ published + 1 \in 1 .. (published + 1)
    BY <1>1
  <2> QED
    BY <1>1, <2>1, <2>2, <2>3 DEF Past
<1>3. CASE published' = published /\ \A n \in Nodes : inbox'[n] \subseteq inbox[n]
  BY <1>1, <1>3 DEF Past
<1>4. ASSUME UNCHANGED <<published, inbox>>
      PROVE  published' = published /\ \A n \in Nodes : inbox'[n] \subseteq inbox[n]
  BY <1>4
<1>5. ASSUME NEW n \in Nodes, Hub(n)
      PROVE  published' = published /\ \A m \in Nodes : inbox'[m] \subseteq inbox[m]
  <2>1. CASE HubBroadcast(n)
    BY <1>1, <2>1 DEF HubBroadcast
  <2>2. CASE HubPanic(n)
    BY <1>1, <2>2 DEF HubPanic
  <2>3. CASE Reap(n) \/ NodeCrash(n)
    BY <1>1, <2>3 DEF Reap, NodeCrash
  <2> QED
    BY <1>5, <2>1, <2>2, <2>3 DEF Hub
<1>6. ASSUME NEW c \in Conns, Pump(c) PROVE UNCHANGED <<published, inbox>>
  BY <1>6 DEF Pump, PumpStart, PumpSend, PumpReply, PumpClose, PumpStop, Unregister
<1>7. ASSUME NEW c \in Conns, Handshake(c) PROVE UNCHANGED <<published, inbox>>
  BY <1>7 DEF Handshake, NewConnection, ClusterLookup, LocalLookup, Register
<1>8. ASSUME NEW c \in Conns, Answer(c) \/ ClusterLookupFails(c) \/ RegisterFails(c)
      PROVE  UNCHANGED <<published, inbox>>
  BY <1>8 DEF Answer, ClusterLookupFails, RegisterFails
<1>9. ASSUME Client PROVE UNCHANGED <<published, inbox>>
  BY <1>9 DEF Client, ClientConnect, ClientReceive, ClientDisconnect, ClientNotice, Detach,
              Refetch
<1>10. ASSUME UNCHANGED vars PROVE UNCHANGED <<published, inbox>>
  BY <1>10 DEF vars
<1> QED
  BY <1>2, <1>3, <1>4, <1>5, <1>6, <1>7, <1>8, <1>9, <1>10 DEF Next

LEMMA GoneIsApart == \A s, past : Apart(Gone, s, past)
<1>1. Gone.send = << >> /\ Gone.id = 0
  BY DEF Gone, Blank
<1> QED
  BY <1>1, NoEvents DEF Apart

LEMMA SendOfConn ==
    ASSUME TypeOK, NEW c \in Conns
    PROVE  conn[c].send \in Seq(Recorded) /\ conn[c].id \in Ids /\ stream[conn[c].id] \in Seq(Recorded)
<1>1. Typed(conn[c])
  BY TypesOfState
<1>2. conn[c].send \in Seq(Message) /\ conn[c].id \in Ids
  BY <1>1 DEF Typed
<1>3. \A q \in Seq(Message) : q \in Seq(Recorded)
  BY DEF Recorded
<1> QED
  BY <1>2, <1>3, TypesOfState

LEMMA SendsOnEvents ==
    ASSUME NEW q, NEW r \in Seq(Recorded), SendsOn(q, r)
    PROVE  Evs(q) = Evs(r) /\ (Once(r) => Once(q))
<1>1. ASSUME NEW m \in Message, m.kind # "event", q = Append(r, m)
      PROVE  Evs(q) = Evs(r) /\ (Once(r) => Once(q))
  <2>1. m \in Recorded
    BY DEF Recorded
  <2> QED
    BY <1>1, <2>1, AppendedEvents
<1>2. CASE r # << >> /\ Head(r).kind = "reply" /\ q = Tail(r)
  BY <1>2, TailEvents
<1> QED
  BY <1>1, <1>2 DEF SendsOn

LEMMA QuietIsApart ==
    ASSUME TypeOK, EventsOnce, Past \subseteq Past', NEW i \in Conns, Quiet(i),
           stream'[conn[i].id] = stream[conn[i].id]
    PROVE  Apart(conn'[i], stream'[conn'[i].id], Past')
<1>1. CASE conn'[i] = Gone
  BY <1>1, GoneIsApart
<1>2. CASE conn'[i].id = conn[i].id /\ SendsOn(conn'[i].send, conn[i].send)
  <2>1. /\ Evs(conn'[i].send) = Evs(conn[i].send)
        /\ Once(conn[i].send) => Once(conn'[i].send)
    BY <1>2, SendOfConn, SendsOnEvents
  <2> QED
    BY <1>2, <2>1 DEF Apart, EventsOnce
<1> QED
  BY <1>1, <1>2 DEF Quiet

LEMMA BroadcastOnce ==
    ASSUME TypeOK, OwnerInv, Single, EventsOnce, [Next]_vars, NEW n \in Nodes, HubBroadcast(n)
    PROVE  EventsOnce'
<1>1. PICK e \in inbox[n] : /\ inbox' = [inbox EXCEPT ![n] = @ \ {e}]
                            /\ Offer(n, index[n], Event(e))
  BY DEF HubBroadcast
<1>2. Past \subseteq Past' /\ \A m \in Nodes : inbox'[m] \subseteq 1 .. published'
  BY PastGrows
<1>3. stream' = stream /\ published' = published
  BY DEF HubBroadcast
<1>4. /\ e \in 1 .. published /\ e \in Nat /\ e \notin Past
      /\ Nodes = {n} /\ inbox' \in [Nodes -> SUBSET Nat] /\ e \notin inbox'[n]
  BY <1>1, TheNode DEF EventsOnce, TypeOK, Past
<1>5. e \in Past'
  BY <1>3, <1>4 DEF Past
<1>6. Event(e) \in Recorded /\ Event(e).kind = "event" /\ Event(e).n = e
  BY <1>4 DEF Event, Recorded, Message
<1>7. ASSUME NEW i \in Conns PROVE Apart(conn'[i], stream'[conn'[i].id], Past')
  <2>1. conn'[i] = IF i \notin index[n] THEN conn[i]
                    ELSE IF Full(i) THEN Overflown(conn[i])
                    ELSE [conn[i] EXCEPT !.send = Append(@, Event(e))]
    BY <1>1 DEF Offer
  <2>2. Typed(conn[i]) /\ Apart(conn[i], stream[conn[i].id], Past)
    BY TypesOfState DEF EventsOnce
  <2>3. CASE conn'[i] = conn[i]
    BY <1>2, <1>3, <2>2, <2>3 DEF Apart
  <2>4. CASE conn'[i] = Gone
    BY <2>4, GoneIsApart
  <2>5. CASE conn'[i] = [conn[i] EXCEPT !.closed = TRUE]
    <3>1. conn'[i].id = conn[i].id /\ conn'[i].send = conn[i].send
      BY <2>2, <2>5 DEF Typed, Fields
    <3> QED
      BY <1>2, <1>3, <2>2, <3>1 DEF Apart
  <2>6. CASE conn'[i] = [conn[i] EXCEPT !.send = Append(@, Event(e))]
    <3>1. conn'[i].id = conn[i].id /\ conn'[i].send = Append(conn[i].send, Event(e))
      BY <2>2, <2>6 DEF Typed, Fields
    <3>2. e \notin Evs(conn[i].send) /\ (conn[i].id # 0 => e \notin Evs(stream[conn[i].id]))
      BY <1>4, <2>2, SendOfConn DEF Apart, EventsOnce
    <3>3. /\ Evs(conn'[i].send) = Evs(conn[i].send) \cup {e}
          /\ Once(conn'[i].send)
      BY <1>6, <2>2, <3>1, <3>2, SendOfConn, AppendedEvents DEF Apart
    <3> QED
      BY <1>2, <1>3, <1>5, <2>2, <3>1, <3>2, <3>3 DEF Apart
  <2> QED
    BY <2>1, <2>3, <2>4, <2>5, <2>6 DEF Overflown
<1>8. \A i \in Ids : Once(stream'[i]) /\ Evs(stream'[i]) \subseteq Past'
  BY <1>2, <1>3 DEF EventsOnce
<1> QED
  BY <1>2, <1>7, <1>8 DEF EventsOnce

\* A connection given an id it did not have, and possibly the queue of another one.
LEMMA LookupOnce ==
    ASSUME TypeOK, StreamInv, OwnerInv, Single, EventsOnce, [Next]_vars, NEW c \in Conns,
           NewConnection(c) \/ LocalLookup(c)
    PROVE  EventsOnce'
<1>1. /\ stream' = stream /\ conn = [i \in Conns |-> conn[i]] /\ Typed(conn[c])
      /\ conn[c].stage \in {"upgraded", "asked"} /\ conn[c].send = << >>
      /\ conn[c].node \in Nodes
  BY TypesOfState DEF NewConnection, LocalLookup, OwnerInv, Lifecycle, Alive, NoWriter,
                      NoWriterYet, Typed
<1>2. Past \subseteq Past' /\ \A m \in Nodes : inbox'[m] \subseteq 1 .. published'
  BY PastGrows
<1>3. \A i \in Ids : Once(stream'[i]) /\ Evs(stream'[i]) \subseteq Past'
  BY <1>1, <1>2 DEF EventsOnce
<1>4. ASSUME NEW i \in Conns, conn'[i] = conn[i] \/ conn'[i] = Gone
      PROVE  Apart(conn'[i], stream'[conn'[i].id], Past')
  BY <1>1, <1>2, <1>4, GoneIsApart DEF Apart, EventsOnce
<1>5. CASE conn' = [conn EXCEPT ![c] = Fresh(c)]
  <2>1. conn'[c] = Fresh(c) /\ \A i \in Conns \ {c} : conn'[i] = conn[i]
    BY <1>1, <1>5
  <2>2. Fresh(c).send = << >>
    BY <1>1 DEF Fresh, Typed, Fields
  <2>3. Apart(conn'[c], stream'[conn'[c].id], Past')
    BY <2>1, <2>2, NoEvents DEF Apart
  <2> QED
    BY <1>2, <1>3, <1>4, <2>1, <2>3 DEF EventsOnce
<1>6. ASSUME NEW d \in Inactive(conn[c].node, conn[c].reqId), conn[c].reqId # 0,
             conn' = Removed([conn EXCEPT ![c] = Resumed(c, conn[d].send, conn[d].dq)], {d})
      PROVE  EventsOnce'
  <2>a. conn[c].node \in Nodes /\ conn[c].reqId # 0 /\ d \in Inactive(conn[c].node, conn[c].reqId)
    BY <1>1, <1>6
  <2>0. d \in Conns /\ conn[d].id = conn[c].reqId /\ conn[d].stage = "gone"
    BY <2>a, InactiveIsGone
  <2>1. d \in Conns /\ conn[d].id = conn[c].reqId /\ conn[d].stage = "gone" /\ d # c
    BY <1>1, <2>0
  <2>2. /\ \A i \in Conns \ {c} : conn'[i] = conn[i] \/ conn'[i] = Gone
        /\ conn'[c] = Resumed(c, conn[d].send, conn[d].dq)
    BY <1>1, <1>6, <2>1 DEF Removed
  <2>3. conn'[c].send = conn[d].send /\ conn'[c].id = conn[d].id
    BY <1>1, <2>1, <2>2 DEF Resumed, Typed, Fields
  <2>4. Apart(conn'[c], stream'[conn'[c].id], Past')
    BY <1>1, <1>2, <2>1, <2>3 DEF Apart, EventsOnce
  <2> QED
    BY <1>2, <1>3, <1>4, <2>2, <2>4 DEF EventsOnce
<1> QED
  BY <1>1, <1>5, <1>6 DEF NewConnection, LocalLookup

LEMMA StartOnce ==
    ASSUME TypeOK, StreamInv, OwnerInv, Single, EventsOnce, [Next]_vars, NEW c \in Conns,
           stream' = [stream EXCEPT ![c] = << Hello(c) >>],
           conn'[c].id = c, conn'[c].send = conn[c].send,
           \A i \in Conns \ {c} : conn'[i] = conn[i]
    PROVE  EventsOnce'
<1>1. c \in Ids /\ stream = [i \in Ids |-> stream[i]]
  BY TypesOfState DEF Conns, Ids
<1>2. stream'[c] = << Hello(c) >> /\ \A i \in Ids \ {c} : stream'[i] = stream[i]
  BY <1>1
<1>3. Evs(<< Hello(c) >>) = {} /\ Once(<< Hello(c) >>)
  BY DEF Hello, Evs, EvAt, Once
<1>4. Past \subseteq Past' /\ \A m \in Nodes : inbox'[m] \subseteq 1 .. published'
  BY PastGrows
<1>5. \A i \in Ids : Once(stream'[i]) /\ Evs(stream'[i]) \subseteq Past'
  BY <1>2, <1>3, <1>4 DEF EventsOnce
<1>6. ASSUME NEW i \in Conns PROVE Apart(conn'[i], stream'[conn'[i].id], Past')
  <2>1. Apart(conn[i], stream[conn[i].id], Past) /\ conn[i].id \in Ids
    BY SendOfConn DEF EventsOnce
  <2>2. CASE conn'[i].id = c
    BY <1>2, <1>3, <1>4, <2>1, <2>2 DEF Apart
  <2>3. CASE conn'[i].id # c
    <3>1. conn'[i] = conn[i] /\ stream'[conn[i].id] = stream[conn[i].id]
      BY <1>2, <2>1, <2>3
    <3> QED
      BY <1>4, <2>1, <3>1 DEF Apart
  <2> QED
    BY <2>2, <2>3
<1> QED
  BY <1>4, <1>5, <1>6 DEF EventsOnce

\* The head of the queue is numbered into the stream.
LEMMA SendOnce ==
    ASSUME TypeOK, StreamInv, OwnerInv, Single, EventsOnce, [Next]_vars, NEW c \in Conns,
           PumpSend(c)
    PROVE  EventsOnce'
<1> DEFINE r == conn[c]
           m == Head(r.send)
<1>0. PICK i \in Conns : i = r.id
  BY PumpingConn DEF PumpSend
<1> DEFINE s == stream[i]
<1>1. /\ Typed(r) /\ r.id = i /\ i # 0 /\ i \in Ids /\ s \in Seq(Recorded) /\ r.seq \in Nat
      /\ \A d \in Conns \ {c} : conn[d].id # i
      /\ r.send # << >> /\ r.send \in Seq(Recorded) /\ r.stage = "pumping"
      /\ conn = [d \in Conns |-> conn[d]] /\ stream = [j \in Ids |-> stream[j]]
  BY <1>0, PumpingConn, SendOfConn, TypesOfState DEF PumpSend, Conns, Ids, Typed
<1>2. m \in Recorded /\ Hole \in Recorded /\ Hole.kind # "event"
  <2>1. r.send \in Seq(Recorded) /\ r.send # << >>
    BY <1>1
  <2>2. m \in Recorded
    BY <2>1
  <2> QED
    BY <2>2, HoleIsNoMessage DEF Hole
<1>3. PICK x \in {m, Hole} : Number(c, x)
  BY DEF PumpSend
<1>4. /\ stream'[i] = Numbering(s, r.seq, x)
      /\ \A j \in Ids \ {i} : stream'[j] = stream[j]
  BY <1>1, <1>3 DEF Number, Numbering
<1>5. /\ \A d \in Conns \ {c} : conn'[d] = conn[d]
      /\ conn'[c].send = Tail(r.send) /\ conn'[c].id = i
  <2>1. CASE conn' = [conn EXCEPT ![c].send = Tail(@), ![c].seq = @ + 1]
    <3>1. conn'[c] = [r EXCEPT !.send = Tail(@), !.seq = @ + 1]
      BY <1>1, <2>1
    <3>2. conn'[c].send = Tail(r.send) /\ conn'[c].id = r.id
      <4> HIDE DEF r
      <4> QED
        BY <1>1, <3>1 DEF Typed, Fields
    <3> QED
      BY <1>1, <2>1, <3>2
  <2>2. ASSUME NEW e, NEW g, conn' = Pumped(c, e, g)
        PROVE  /\ \A d \in Conns \ {c} : conn'[d] = conn[d]
               /\ conn'[c].send = Tail(r.send) /\ conn'[c].id = i
    <3>1. conn'[c] = [r EXCEPT !.send = Tail(@), !.seq = @ + 1,
                               !.dq = AddToDeadQueue(@, e), !.stage = g]
      BY <1>1, <2>2 DEF Pumped
    <3>2. conn'[c].send = Tail(r.send) /\ conn'[c].id = r.id
      <4> HIDE DEF r
      <4> QED
        BY <1>1, <3>1 DEF Typed, Fields
    <3> QED
      BY <1>1, <2>2, <3>2 DEF Pumped
  <2> QED
    BY <2>1, <2>2 DEF PumpSend
<1>6. Past \subseteq Past' /\ \A n \in Nodes : inbox'[n] \subseteq 1 .. published'
  BY PastGrows
<1>7. Apart(r, s, Past) /\ Once(s) /\ Evs(s) \subseteq Past
  BY <1>1 DEF EventsOnce
<1>8. /\ Evs(Tail(r.send)) \subseteq Evs(r.send) /\ Once(Tail(r.send))
      /\ m.kind = "event" => m.n \in Evs(r.send) /\ m.n \notin Evs(Tail(r.send))
  BY <1>1, <1>7, TailEvents DEF Apart
<1>9. m.kind = "event" => m.n \notin Evs(s) /\ m.n \in Past
  BY <1>1, <1>7, <1>8 DEF Apart
<1>10. /\ Evs(stream'[i]) \subseteq Evs(s) \cup (IF m.kind = "event" THEN {m.n} ELSE {})
       /\ Once(stream'[i])
  <2>1. x \in Recorded /\ (x.kind = "event" => x = m)
    BY <1>2
  <2> HIDE DEF m, s, r
  <2>2. /\ Evs(stream'[i]) \subseteq Evs(s) \cup (IF x.kind = "event" THEN {x.n} ELSE {})
        /\ Once(stream'[i])
    BY <1>1, <1>4, <1>7, <1>9, <2>1, NumberedEvents
  <2> QED
    BY <2>1, <2>2
<1>11. ASSUME NEW j \in Ids PROVE Once(stream'[j]) /\ Evs(stream'[j]) \subseteq Past'
  BY <1>4, <1>6, <1>7, <1>9, <1>10 DEF EventsOnce
<1>12. ASSUME NEW d \in Conns PROVE Apart(conn'[d], stream'[conn'[d].id], Past')
  <2>1. CASE d = c
    <3>1. Evs(Tail(r.send)) \cap Evs(stream'[i]) = {}
      BY <1>1, <1>7, <1>8, <1>10 DEF Apart
    <3>2. Evs(Tail(r.send)) \subseteq Past'
      BY <1>6, <1>7, <1>8 DEF Apart
    <3> QED
      BY <1>5, <1>8, <2>1, <3>1, <3>2 DEF Apart
  <2>2. CASE d # c
    <3>1. conn'[d] = conn[d] /\ conn[d].id \in Ids /\ conn[d].id # i
      BY <1>1, <1>5, <2>2, SendOfConn
    <3>2. stream'[conn[d].id] = stream[conn[d].id]
      BY <1>4, <3>1
    <3> QED
      BY <1>6, <3>1, <3>2 DEF Apart, EventsOnce
  <2> QED
    BY <2>1, <2>2
<1> QED
  BY <1>6, <1>11, <1>12 DEF EventsOnce

LEMMA NextKeepsEventsOnce ==
    ASSUME TypeOK, StreamInv, OwnerInv, Single, EventsOnce, [Next]_vars
    PROVE  EventsOnce'
<1>1. CASE AllQuiet
  <2>1. Past \subseteq Past' /\ \A n \in Nodes : inbox'[n] \subseteq 1 .. published'
    BY PastGrows
  <2>2. \A i \in Conns : Apart(conn'[i], stream'[conn'[i].id], Past')
    BY <1>1, <2>1, QuietIsApart DEF AllQuiet
  <2>3. \A i \in Ids : Once(stream'[i]) /\ Evs(stream'[i]) \subseteq Past'
    BY <1>1, <2>1 DEF EventsOnce, AllQuiet
  <2> QED
    BY <2>1, <2>2, <2>3 DEF EventsOnce
<1>2. ASSUME NEW c \in Conns, PumpStart(c), ~AllQuiet PROVE EventsOnce'
  BY <1>2, StartIsQuiet, StartOnce
<1> QED
  BY <1>1, <1>2, QuietSteps, BroadcastOnce, LookupOnce, SendOnce

LEMMA InitEventsOnce == Init => EventsOnce
<1> SUFFICES ASSUME Init PROVE EventsOnce
  OBVIOUS
<1>1. /\ inbox = [n \in Nodes |-> {}] /\ conn = [c \in Conns |-> Blank]
      /\ stream = [i \in Ids |-> << >>]
  BY DEF Init
<1>2. Blank.send = << >> /\ Blank.id = 0
  BY DEF Blank
<1> QED
  BY <1>1, <1>2, NoEvents DEF EventsOnce, Apart

LEMMA EventsOnceInvariant ==
    ASSUME Single
    PROVE  Spec => [](IInv /\ EventsOnce)
<1>1. Init => EventsOnce
  BY InitEventsOnce
<1>2. IInv /\ EventsOnce /\ [Next]_vars => EventsOnce'
  BY NextKeepsEventsOnce DEF IInv, Single
<1> QED
  BY <1>1, <1>2, IInvariant, PTL DEF Spec

\* NoDuplicateDelivery of a single node: the hub broadcasts an event once, a resume
\* moves it from one queue to another, and numbering moves it from the queue to the
\* stream, of which the client accepts each message once.
THEOREM SingleNodeNoDuplicateDelivery ==
    ASSUME Cardinality(Nodes) = 1
    PROVE  Spec => []NoDuplicateDelivery
<1>1. Single
  BY DEF Single
<1>2. IInv /\ EventsOnce => NoDuplicateDelivery
  <2> SUFFICES ASSUME IInv, EventsOnce, NEW i \in DOMAIN client.received,
                      NEW j \in DOMAIN client.received, i < j,
                      client.received[i].kind = "event",
                      client.received[i] = client.received[j]
               PROVE  FALSE
    BY DEF NoDuplicateDelivery
  <2> DEFINE s == stream[client.id]
  <2>1. TypeOK /\ ClientOK
    BY DEF IInv, StreamInv
  <2>2. client.id \in Ids /\ s \in Seq(Recorded) /\ client.seq \in Nat
        /\ client.seq = Len(client.received) /\ client.seq <= Len(s)
        /\ client.received = SubSeq(s, 1, client.seq) /\ client.received \in Seq(Message)
    BY <2>1, TypesOfState DEF ClientOK, StreamAgreement
  <2>3. Once(s)
    BY <2>2 DEF EventsOnce
  <2>4. i \in 1 .. client.seq /\ j \in 1 .. client.seq
    BY <2>2
  <2>5. client.received[i] = s[i] /\ client.received[j] = s[j] /\ i \in DOMAIN s /\ j \in DOMAIN s
    <3> HIDE DEF s
    <3> QED
      BY <2>2, <2>4
  <2>6. i = j
    BY <2>3, <2>5 DEF Once, EvAt
  <2> QED
    BY <2>2, <2>4, <2>6
<1> QED
  BY <1>1, <1>2, EventsOnceInvariant, PTL

-----------------------------------------------------------------------------
\* What an owed event can still be on a single node: LossOnlyDuringResume

Pending(e) ==
    \/ e \in client.known \cup missed
    \/ client.stale
    \/ \E n \in Nodes : e \in inbox[n]

\* Numbered, and not yet received.
OnItsWay(e) ==
    \E k \in (client.seq + 1) .. H(client.id) : stream[client.id][k] = Event(e)

Comes(e, c) == Pending(e) \/ e \in Evs(conn[c].send) \/ OnItsWay(e)

\* A connection that holds the client's queues, and nothing past the first hole.
Due(c) ==
    /\ conn[c].id = client.id /\ client.id # 0
    /\ conn[c].stage = "populated" \/ \E n \in Nodes : c \in index[n]
    /\ Holding(conn[c].dq, Count(conn[c].dq), stream[client.id])

Delivered == \A c \in Conns : Due(c) => \A e \in Owed : Comes(e, c)

\* A step that takes nothing from what the client has or may still learn.
Kept ==
    /\ client'.id = client.id /\ client'.seq = client.seq /\ client'.base = client.base
    /\ client'.known = client.known /\ (client.stale => client'.stale)
    /\ missed \subseteq missed'
    /\ \A n \in Nodes : inbox[n] \subseteq inbox'[n]
    /\ \A e \in 1 .. published' : e \in 1 .. published \/ \A n \in Nodes : e \in inbox'[n]

LEMMA KeptSteps ==
    ASSUME TypeOK, [Next]_vars
    PROVE  \/ Kept
           \/ \E n \in Nodes : HubBroadcast(n) \/ HubPanic(n) \/ NodeCrash(n)
           \/ ClientReceive \/ Refetch
<1> DEFINE Same == UNCHANGED <<published, inbox, client>>
<1>1. ASSUME Same, missed \subseteq missed' PROVE Kept
  BY <1>1 DEF Kept
<1>2. ASSUME Same, UNCHANGED missed PROVE Kept
  BY <1>1, <1>2
<1>3. CASE Publish
  <2>1. /\ published' = published + 1 /\ \A n \in Nodes : inbox'[n] = inbox[n] \cup {published + 1}
        /\ client' = client /\ missed' = missed /\ published \in Nat
    BY <1>3 DEF Publish, TypeOK
  <2>2. \A e \in 1 .. (published + 1) : e \in 1 .. published \/ e = published + 1
    BY <2>1
  <2> QED
    BY <2>1, <2>2 DEF Kept
<1>4. ASSUME NEW n \in Nodes, Reap(n) PROVE Kept
  BY <1>2, <1>4 DEF Reap
<1>5. ASSUME NEW c \in Conns, PumpSend(c) PROVE Kept
  <2>1. Same
    BY <1>5 DEF PumpSend
  <2>2. missed \subseteq missed'
    BY <1>5 DEF PumpSend
  <2> QED
    BY <1>1, <2>1, <2>2
<1>6. ASSUME NEW c \in Conns,
             PumpStart(c) \/ PumpReply(c) \/ PumpClose(c) \/ PumpStop(c) \/ Unregister(c)
      PROVE  Kept
  BY <1>2, <1>6 DEF PumpStart, PumpReply, PumpClose, PumpStop, Unregister
<1>7. ASSUME NEW c \in Conns, Handshake(c) PROVE Kept
  BY <1>2, <1>7 DEF Handshake, NewConnection, ClusterLookup, LocalLookup, Register
<1>8. ASSUME NEW c \in Conns, Answer(c) \/ ClusterLookupFails(c) \/ RegisterFails(c)
      PROVE  Kept
  BY <1>2, <1>8 DEF Answer, ClusterLookupFails, RegisterFails
<1>9. ASSUME NEW n \in Nodes, ClientConnect(n) PROVE Kept
  <2>1. UNCHANGED <<published, inbox, missed>> /\ client \in ClientType
    BY <1>9, ClientTyped DEF ClientConnect
  <2>2. /\ client'.id = client.id /\ client'.seq = client.seq /\ client'.base = client.base
        /\ client'.known = client.known /\ (client.stale => client'.stale)
    BY <1>9, <2>1 DEF ClientConnect, ClientType
  <2> QED
    BY <2>1, <2>2 DEF Kept
<1>10. CASE ClientDisconnect \/ ClientNotice
  <2>1. UNCHANGED <<published, inbox, missed>> /\ client \in ClientType
    BY <1>10, ClientTyped DEF ClientDisconnect, ClientNotice, Detach
  <2>2. /\ client'.id = client.id /\ client'.seq = client.seq /\ client'.base = client.base
        /\ client'.known = client.known /\ (client.stale => client'.stale)
    BY <1>10, <2>1 DEF ClientDisconnect, ClientNotice, Detach, ClientType
  <2> QED
    BY <2>1, <2>2 DEF Kept
<1>11. CASE UNCHANGED vars
  BY <1>2, <1>11 DEF vars
<1> QED
  BY <1>3, <1>4, <1>5, <1>6, <1>7, <1>8, <1>9, <1>10, <1>11 DEF Next, Hub, Pump, Client

\* c' has the client's queues from d, with all that was to be sent.
LEMMA CarriedOver ==
    ASSUME Delivered, Kept, stream'[client.id] = stream[client.id],
           NEW c \in Conns, NEW d \in Conns, Due(c)' => Due(d),
           Evs(conn[d].send) \subseteq Evs(conn'[c].send)
    PROVE  (Due(c) => \A e \in Owed : Comes(e, c))'
<1> SUFFICES ASSUME Due(c)', NEW e \in Owed' PROVE Comes(e, c)'
  OBVIOUS
<1>1. Due(d)
  OBVIOUS
<1>2. CASE e \in Owed
  <2>1. Comes(e, d)
    BY <1>1, <1>2 DEF Delivered
  <2>2. Pending(e) => Pending(e)'
    BY DEF Pending, Kept
  <2>3. OnItsWay(e) => OnItsWay(e)'
    BY DEF OnItsWay, Kept, H
  <2> QED
    BY <2>1, <2>2, <2>3 DEF Comes
<1>3. CASE e \notin Owed
  <2>1. e \in 1 .. published' /\ e > client.base
    BY DEF Owed, Kept
  <2>2. \A n \in Nodes : e \in inbox'[n]
    BY <1>3, <2>1 DEF Owed, Kept
  <2> QED
    BY <2>2, NodesAssumption DEF Comes, Pending
<1> QED
  BY <1>2, <1>3

LEMMA QuietDue ==
    ASSUME TypeOK, NEW c \in Conns, Quiet(c), client'.id = client.id,
           stream'[client.id] = stream[client.id]
    PROVE  /\ Due(c)' => Due(c)
           /\ Due(c)' => Evs(conn[c].send) = Evs(conn'[c].send)
<1>1. CASE conn'[c] = Gone
  <2>1. conn'[c].id = 0
    BY <1>1 DEF Gone, Blank
  <2> QED
    BY <2>1 DEF Due
<1>2. CASE /\ conn'[c].id = conn[c].id /\ conn'[c].dq = conn[c].dq
           /\ SendsOn(conn'[c].send, conn[c].send)
           /\ conn'[c].stage = "populated" => conn[c].stage = "populated"
           /\ \A n \in Nodes : c \in index'[n] => c \in index[n] \/ conn[c].stage = "populated"
  <2>1. Evs(conn'[c].send) = Evs(conn[c].send)
    BY <1>2, SendOfConn, SendsOnEvents
  <2>2. Due(c)' => Due(c)
    BY <1>2 DEF Due
  <2> QED
    BY <2>1, <2>2
<1> QED
  BY <1>1, <1>2 DEF Quiet

\* The client's id is that of a stream it received something of.
LEMMA ClientsStream ==
    ASSUME TypeOK, StreamInv, client.id # 0
    PROVE  /\ client.id \in Ids /\ client.seq \in Nat /\ client.seq > 0
           /\ H(client.id) \in Nat /\ client.seq <= H(client.id)
           /\ stream[client.id] \in Seq(Recorded) /\ stream[client.id] # << >>
           /\ \A c \in Conns : Unissued(c) => client.id # c
<1>1. /\ client.id \in Ids /\ client.seq \in Nat /\ client.seq > 0 /\ client.seq <= H(client.id)
      /\ stream[client.id] \in Seq(Recorded)
  BY TypesOfState DEF StreamInv, ClientOK
<1>2. H(client.id) \in Nat
  BY <1>1, IntactPart DEF H
<1>3. stream[client.id] # << >>
  BY <1>1, EmptyStream DEF H
<1> QED
  BY <1>1, <1>2, <1>3 DEF StreamInv, NothingUnissued

\* A populated connection of the client was resumed: its hub loses nothing silently.
LEMMA DueIsResumed ==
    ASSUME TypeOK, StreamInv, OwnerInv, Single, NEW c \in Conns, conn[c].stage = "populated",
           conn[c].id = client.id, client.id # 0, NEW n \in Nodes
    PROVE  Resuming(n) /\ \A m \in Nodes : c \notin index[m]
<1>1. stream[client.id] # << >> /\ QueueAt(c, conn[c], stream[client.id])
  BY ClientsStream DEF StreamInv, ConnOK
<1>2. conn[c].reused
  BY <1>1 DEF QueueAt, Starting
<1>3. conn[c].node = n
  BY TheNode DEF OwnerInv, Shape, FieldsOK
<1>4. \A m \in Nodes : c \notin index[m]
  BY DEF OwnerInv, Indexed, IndexedAt
<1> QED
  BY <1>2, <1>3, <1>4 DEF Resuming

LEMMA BroadcastDelivers ==
    ASSUME TypeOK, StreamInv, OwnerInv, Single, Delivered, NEW n \in Nodes, HubBroadcast(n)
    PROVE  Delivered'
<1>1. PICK b \in inbox[n] : /\ inbox' = [inbox EXCEPT ![n] = @ \ {b}]
                            /\ Offer(n, index[n], Event(b))
                            /\ missed' = IF Resuming(n) THEN missed \cup {b} ELSE missed
  BY DEF HubBroadcast
<1>2. UNCHANGED <<stream, client, published>>
  BY DEF HubBroadcast
<1>3. /\ Nodes = {n} /\ inbox' \in [Nodes -> SUBSET Nat] /\ inbox'[n] = inbox[n] \ {b}
      /\ b \in Nat
  BY <1>1, TheNode DEF TypeOK
<1> SUFFICES ASSUME NEW c \in Conns, Due(c)', NEW e \in Owed' PROVE Comes(e, c)'
  BY DEF Delivered
<1>4. e \in Owed
  BY <1>2 DEF Owed
<1>5. /\ OnItsWay(e) => OnItsWay(e)'
      /\ e # b /\ Pending(e) => Pending(e)'
      /\ Pending(e) /\ e = b /\ b \in missed' => Pending(e)'
  BY <1>1, <1>2, <1>3 DEF OnItsWay, H, Pending
<1>6. /\ conn'[c] = IF c \notin index[n] THEN conn[c]
                    ELSE IF Full(c) THEN Overflown(conn[c])
                    ELSE [conn[c] EXCEPT !.send = Append(@, Event(b))]
      /\ index'[n] = index[n] \ {i \in index[n] : Full(i)}
  BY <1>1 DEF Offer, TypeOK
<1>7. Typed(conn[c])
  BY TypesOfState
<1>8. CASE c \notin index[n]
  <2>1. conn'[c] = conn[c] /\ c \notin index'[n]
    BY <1>6, <1>8
  <2>2. Due(c) /\ conn[c].stage = "populated"
    BY <1>2, <1>3, <2>1 DEF Due
  <2>3. Resuming(n)
    BY <2>2, DueIsResumed DEF Due
  <2>4. b \in missed'
    BY <1>1, <2>3
  <2>5. Comes(e, c)
    BY <1>4, <2>2 DEF Delivered
  <2> QED
    BY <1>5, <2>1, <2>4, <2>5 DEF Comes
<1>9. CASE c \in index[n]
  <2>1. conn[c].stage # "populated"
    BY <1>9 DEF OwnerInv, Indexed, IndexedAt
  <2>2. ~Full(c)
    <3> SUFFICES ASSUME Full(c) PROVE FALSE
      OBVIOUS
    <3>1. c \notin index'[n] /\ conn'[c].stage = "populated"
      BY <1>3, <1>6 DEF Due
    <3>2. conn'[c] = Gone \/ conn'[c] = [conn[c] EXCEPT !.closed = TRUE]
      BY <1>6, <1>9 DEF Overflown
    <3>3. conn'[c].stage # "populated"
      BY <1>7, <2>1, <3>2 DEF Gone, Blank, Typed, Fields
    <3> QED
      BY <3>1, <3>3
  <2>3. conn'[c] = [conn[c] EXCEPT !.send = Append(@, Event(b))]
    BY <1>6, <1>9, <2>2
  <2>4. /\ conn'[c].id = conn[c].id /\ conn'[c].dq = conn[c].dq
        /\ conn'[c].send = Append(conn[c].send, Event(b))
    BY <1>7, <2>3 DEF Typed, Fields
  <2>5. Due(c)
    BY <1>2, <1>9, <2>4 DEF Due
  <2>6. Comes(e, c)
    BY <1>4, <2>5 DEF Delivered
  <2>7. Evs(conn'[c].send) = Evs(conn[c].send) \cup {b}
    <3>1. Event(b) \in Recorded /\ Event(b).kind = "event" /\ Event(b).n = b
      BY <1>3 DEF Event, Recorded, Message
    <3> QED
      BY <2>4, <3>1, SendOfConn, AppendedEvents
  <2> QED
    BY <1>5, <2>6, <2>7 DEF Comes
<1> QED
  BY <1>8, <1>9

LEMMA FailureDelivers ==
    ASSUME TypeOK, StreamInv, OwnerInv, Single, Delivered, NEW n \in Nodes,
           HubPanic(n) \/ NodeCrash(n)
    PROVE  Delivered'
<1>1. UNCHANGED <<stream, client, published>> /\ index'[n] = {} /\ Nodes = {n}
  BY TheNode DEF HubPanic, NodeCrash, TypeOK
<1> SUFFICES ASSUME NEW c \in Conns, Due(c)', NEW e \in Owed' PROVE Comes(e, c)'
  BY DEF Delivered
<1>2. conn'[c].stage = "populated" /\ conn'[c].id = client.id /\ client.id # 0
  BY <1>1 DEF Due
<1>3. Gone.id = 0 /\ Blank.id = 0
  BY DEF Gone, Blank
<1>4. conn'[c] = conn[c] /\ ~NodeCrash(n)
  <2>1. CASE HubPanic(n)
    <3>1. conn'[c] = conn[c] \/ conn'[c] = Gone
      BY <2>1 DEF HubPanic, Removed
    <3>2. ~NodeCrash(n) \/ conn'[c] = Gone \/ conn[c].stage = "unused" \/ conn[c].node # n
      BY DEF NodeCrash
    <3>3. conn[c].node = n
      BY <1>1 DEF OwnerInv, Shape, FieldsOK
    <3> QED
      BY <1>2, <1>3, <3>1, <3>2, <3>3
  <2>2. CASE NodeCrash(n)
    <3>1. conn[c].node = n
      BY <1>1 DEF OwnerInv, Shape, FieldsOK
    <3>2. conn'[c] = Gone \/ (conn[c].stage = "unused" /\ conn'[c] = conn[c])
      BY <2>2, <3>1 DEF NodeCrash
    <3> QED
      BY <1>2, <1>3, <3>2
  <2> QED
    BY <2>1, <2>2
<1>5. Resuming(n) /\ HubPanic(n)
  BY <1>2, <1>4, DueIsResumed
<1>6. PICK E \in SUBSET inbox[n] : /\ inbox' = [inbox EXCEPT ![n] = @ \ E]
                                   /\ missed' = missed \cup E
  BY <1>5 DEF HubPanic
<1>7. inbox'[n] = inbox[n] \ E
  BY <1>6 DEF TypeOK
<1>8. Due(c) /\ e \in Owed
  BY <1>1, <1>2, <1>4 DEF Due, Owed
<1>9. Comes(e, c)
  BY <1>8 DEF Delivered
<1>10. Pending(e) => Pending(e)'
  BY <1>1, <1>6, <1>7 DEF Pending
<1>11. OnItsWay(e) => OnItsWay(e)'
  BY <1>1 DEF OnItsWay, H
<1> QED
  BY <1>4, <1>9, <1>10, <1>11 DEF Comes

LEMMA LookupDelivers ==
    ASSUME TypeOK, StreamInv, OwnerInv, Single, Delivered, Kept, NEW c \in Conns,
           NewConnection(c) \/ LocalLookup(c)
    PROVE  Delivered'
<1>1. /\ stream' = stream /\ conn = [i \in Conns |-> conn[i]] /\ Typed(conn[c])
      /\ conn[c].stage \in {"upgraded", "asked"}
      /\ conn[c].node \in Nodes /\ Unissued(c) /\ index \in [Nodes -> SUBSET Conns]
      /\ client' = client
  BY TypesOfState, FreshOwner DEF NewConnection, LocalLookup, Typed, OwnerInv, Shape
<1>2. ASSUME NEW i \in Conns, conn'[i] = conn[i] \/ conn'[i] = Gone,
             \A n \in Nodes : index'[n] \subseteq index[n]
      PROVE  (Due(i) => \A e \in Owed : Comes(e, i))'
  <2>1. Quiet(i)
    BY <1>2, SameIsQuiet
  <2>2. CASE ~Due(i)'
    BY <2>2
  <2>3. CASE Due(i)'
    <3>1. Due(i) /\ Evs(conn[i].send) \subseteq Evs(conn'[i].send)
      BY <1>1, <2>1, <2>3, QuietDue
    <3> QED
      BY <1>1, <3>1, CarriedOver
  <2> QED
    BY <2>2, <2>3
<1>3. CASE conn' = [conn EXCEPT ![c] = Fresh(c)] /\ index' = index
  <2>1. conn'[c] = Fresh(c) /\ \A i \in Conns \ {c} : conn'[i] = conn[i]
    BY <1>1, <1>3
  <2>2. Fresh(c).id = c
    BY <1>1 DEF Fresh, Typed, Fields
  <2>3. ~Due(c)'
    BY <1>1, <2>1, <2>2, ClientsStream DEF Due
  <2> QED
    BY <1>2, <1>3, <2>1, <2>3 DEF Delivered
<1>4. ASSUME NEW d \in Inactive(conn[c].node, conn[c].reqId), conn[c].reqId # 0,
             index' = [index EXCEPT ![conn[c].node] = @ \ {d}],
             conn' = Removed([conn EXCEPT ![c] = Resumed(c, conn[d].send, conn[d].dq)], {d})
      PROVE  Delivered'
  <2>0. conn[c].node \in Nodes /\ conn[c].reqId # 0 /\ d \in Inactive(conn[c].node, conn[c].reqId)
    BY <1>1, <1>4
  <2>1. /\ d \in Conns /\ conn[d].id = conn[c].reqId /\ conn[d].stage = "gone"
        /\ d \in index[conn[c].node]
    BY <2>0, InactiveIsGone
  <2>2. d # c
    BY <1>1, <2>1
  <2>3. /\ \A i \in Conns \ {c} : conn'[i] = conn[i] \/ conn'[i] = Gone
        /\ conn'[c] = Resumed(c, conn[d].send, conn[d].dq)
        /\ \A n \in Nodes : index'[n] \subseteq index[n]
    BY <1>1, <1>4, <2>1, <2>2 DEF Removed
  <2>4. conn'[c].send = conn[d].send /\ conn'[c].id = conn[d].id /\ conn'[c].dq = conn[d].dq
    BY <1>1, <2>1, <2>3 DEF Resumed, Typed, Fields
  <2>5. Due(c)' => Due(d)
    BY <1>1, <2>0, <2>1, <2>4 DEF Due
  <2>6. (Due(c) => \A e \in Owed : Comes(e, c))'
    BY <1>1, <2>1, <2>4, <2>5, CarriedOver
  <2> QED
    BY <1>2, <2>3, <2>6 DEF Delivered
<1> QED
  BY <1>1, <1>3, <1>4 DEF NewConnection, LocalLookup

LEMMA StartDelivers ==
    ASSUME TypeOK, StreamInv, OwnerInv, Single, Delivered, Kept, NEW c \in Conns,
           PumpStart(c), ~AllQuiet
    PROVE  Delivered'
<1>1. /\ conn[c].stage = "registered" /\ conn[c].seq # 0 /\ index' = index
      /\ \A i \in Conns \ {c} : conn'[i] = conn[i]
      /\ conn'[c].id = c
      /\ stream' = [stream EXCEPT ![c] = << Hello(c) >>]
  BY StartIsQuiet
<1>2. Unissued(c) /\ client' = client /\ stream = [j \in Ids |-> stream[j]]
  BY <1>1, ResumingConn, TypesOfState DEF Unissued, PumpStart
<1>3. ~Due(c)'
  BY <1>1, <1>2, ClientsStream DEF Due
<1>4. ASSUME NEW i \in Conns \ {c}, Due(i)' PROVE (Due(i) => \A e \in Owed : Comes(e, i))'
  <2>1. client.id # 0 /\ client.id # c /\ client.id \in Ids
    BY <1>2, <1>4, ClientsStream DEF Due
  <2>2. stream'[client.id] = stream[client.id]
    BY <1>1, <1>2, <2>1
  <2>3. conn'[i] = conn[i] /\ Due(i)
    BY <1>1, <1>2, <1>4, <2>2 DEF Due
  <2> QED
    BY <2>2, <2>3, CarriedOver
<1> QED
  BY <1>3, <1>4 DEF Delivered

\* The last entry of a queue that holds only intact messages is the last of these.
LEMMA LastHeld ==
    ASSUME NEW dq \in Queue, Shaped(dq), NEW e \in Entry, NEW s \in Seq(Recorded),
           Holding(AddToDeadQueue(dq, e), Count(AddToDeadQueue(dq, e)), s)
    PROVE  e.seq = Intact(s) - 1
<1> DEFINE added == AddToDeadQueue(dq, e)
<1>1. /\ added \in Queue /\ Shaped(added) /\ Nth(added, Count(added)) = e
      /\ Count(added) = Count(dq) + 1 - Shift(dq)
  BY AddedToQueue
<1>2. Count(added) \in Nat /\ Count(added) > 0 /\ Intact(s) \in Nat
  BY <1>1, QueueFields, IntactPart DEF Shift
<1> HIDE DEF added
<1>3. Numbered(added, Count(added), Intact(s))
  BY DEF Holding, added
<1>4. Nth(added, Count(added)).seq = Intact(s) - Count(added) + Count(added) - 1
  BY <1>2, <1>3 DEF Numbered
<1> QED
  BY <1>1, <1>2, <1>4

LEMMA SendDelivers ==
    ASSUME TypeOK, StreamInv, OwnerInv, Single, Delivered, Kept, NEW c \in Conns, PumpSend(c)
    PROVE  Delivered'
<1> DEFINE r == conn[c]
           m == Head(r.send)
           entry == [seq |-> r.seq, msg |-> m]
<1>0. PICK i \in Conns : i = r.id
  BY PumpingConn DEF PumpSend
<1> DEFINE s == stream[i]
<1>1. /\ Typed(r) /\ r.id = i /\ i # 0 /\ i \in Ids /\ s \in Seq(Recorded) /\ r.seq \in Nat
      /\ \A d \in Conns \ {c} : conn[d].id # i
      /\ r.send # << >> /\ r.send \in Seq(Message) /\ r.stage = "pumping"
      /\ conn = [d \in Conns |-> conn[d]] /\ stream = [j \in Ids |-> stream[j]]
      /\ QueueAt(c, r, s) /\ H(i) = Intact(s) /\ Intact(s) \in Nat /\ r.seq >= Intact(s)
      /\ UNCHANGED <<index, client, published, inbox>>
  BY <1>0, PumpingConn, TypesOfState DEF PumpSend, Conns, Ids, Typed
<1>2. m \in Message /\ m \in Recorded /\ Hole \in Recorded
  <2>1. r.send \in Seq(Message) /\ r.send # << >>
    BY <1>1
  <2>2. m \in Message
    BY <2>1
  <2> QED
    BY <2>2, HoleIsNoMessage DEF Recorded
<1>3. PICK x \in {m, Hole} :
         /\ Number(c, x)
         /\ \/ /\ x = m
               /\ \E g \in {"pumping", "stopped"} : conn' = Pumped(c, entry, g)
            \/ /\ x = Hole
               /\ conn' = [conn EXCEPT ![c].send = Tail(@), ![c].seq = @ + 1]
               /\ missed' = missed \cup {m.n}
  BY DEF PumpSend
<1>4. /\ stream'[i] = Numbering(s, r.seq, x)
      /\ \A j \in Ids \ {i} : stream'[j] = stream[j]
  BY <1>1, <1>3 DEF Number, Numbering
<1>5. /\ \A d \in Conns \ {c} : conn'[d] = conn[d]
      /\ conn'[c].send = Tail(r.send) /\ conn'[c].id = i /\ conn'[c].stage # "populated"
      /\ conn'[c].dq = IF x = m THEN AddToDeadQueue(r.dq, entry) ELSE r.dq
  <2>1. CASE conn' = [conn EXCEPT ![c].send = Tail(@), ![c].seq = @ + 1] /\ x = Hole
    <3>1. conn'[c] = [r EXCEPT !.send = Tail(@), !.seq = @ + 1]
      BY <1>1, <2>1
    <3>2. /\ conn'[c].send = Tail(r.send) /\ conn'[c].id = r.id /\ conn'[c].dq = r.dq
          /\ conn'[c].stage = r.stage
      <4> HIDE DEF r
      <4> QED
        BY <1>1, <3>1 DEF Typed, Fields
    <3> QED
      BY <1>1, <1>2, <2>1, <3>2, HoleIsNoMessage
  <2>2. ASSUME NEW g \in {"pumping", "stopped"}, conn' = Pumped(c, entry, g), x = m
        PROVE  /\ \A d \in Conns \ {c} : conn'[d] = conn[d]
               /\ conn'[c].send = Tail(r.send) /\ conn'[c].id = i
               /\ conn'[c].stage # "populated" /\ conn'[c].dq = AddToDeadQueue(r.dq, entry)
    <3>1. PICK e : e = entry
      OBVIOUS
    <3>2. conn'[c] = [r EXCEPT !.send = Tail(@), !.seq = @ + 1,
                               !.dq = AddToDeadQueue(@, e), !.stage = g]
      BY <1>1, <2>2, <3>1 DEF Pumped
    <3>3. /\ conn'[c].send = Tail(r.send) /\ conn'[c].id = r.id /\ conn'[c].stage = g
          /\ conn'[c].dq = AddToDeadQueue(r.dq, e)
      <4> HIDE DEF r, entry
      <4> QED
        BY <1>1, <3>2 DEF Typed, Fields
    <3> QED
      BY <1>1, <2>2, <3>1, <3>3 DEF Pumped
  <2> QED
    BY <1>3, <2>1, <2>2
<1>6. ASSUME NEW d \in Conns \ {c}
      PROVE  (Due(d) => \A e \in Owed : Comes(e, d))'
  <2> SUFFICES ASSUME Due(d)' PROVE (Due(d) => \A e \in Owed : Comes(e, d))'
    OBVIOUS
  <2>1. conn'[d] = conn[d] /\ client.id = conn[d].id /\ client.id # i /\ client.id \in Ids
    BY <1>1, <1>5, SendOfConn DEF Due
  <2>2. stream'[client.id] = stream[client.id]
    BY <1>4, <2>1
  <2>3. Due(d)
    BY <1>1, <2>1, <2>2 DEF Due
  <2> QED
    BY <2>1, <2>2, <2>3, CarriedOver
<1>7. (Due(c) => \A e \in Owed : Comes(e, c))'
  <2> SUFFICES ASSUME Due(c)', NEW e \in Owed' PROVE Comes(e, c)'
    OBVIOUS
  <2> DEFINE u == Numbering(s, r.seq, x)
  <2>1. /\ client.id = i /\ e \in Owed /\ client.seq \in Nat /\ client.seq <= H(i)
        /\ c \in index[r.node] \/ \E n \in Nodes : c \in index[n]
    BY <1>1, <1>5, ClientsStream DEF Due, Owed
  <2>2. /\ Holding(conn'[c].dq, Count(conn'[c].dq), u)
        /\ stream'[i] = u
    BY <1>1, <1>4, <2>1 DEF Due
  <2>3. /\ u \in Seq(Recorded) /\ \A k \in 1 .. Intact(s) : u[k] = s[k]
        /\ Intact(u) = IF r.seq = Intact(s) /\ x # Hole THEN r.seq + 1 ELSE Intact(s)
        /\ r.seq = Intact(s) => u[r.seq + 1] = x
    <3>1. x \in Recorded
      BY <1>2
    <3>2. s \in Seq(Recorded) /\ r.seq \in Nat /\ r.seq >= Intact(s)
      BY <1>1
    <3> HIDE DEF r, s
    <3> QED
      BY <3>1, <3>2, NumberedStream
  <2> HIDE DEF u
  <2>4. Due(c)
    <3>1. \E n \in Nodes : c \in index[n]
      BY <1>1, <1>5 DEF Due
    <3>2. Holding(r.dq, Count(r.dq), s)
      <4>1. r.dq \in Queue /\ Shaped(r.dq) /\ entry \in Entry
        BY <1>1, <1>2 DEF Typed, QueueAt, Entry
      <4>2. CASE x = Hole
        <5>1. conn'[c].dq = r.dq
          BY <1>2, <1>5, <4>2, HoleIsNoMessage
        <5>2. Intact(u) = Intact(s) /\ \A k \in 1 .. Intact(u) : s[k] = u[k]
          BY <2>3, <4>2
        <5>3. Count(r.dq) \in Nat /\ Holding(r.dq, Count(r.dq), u)
          BY <2>2, <4>1, <5>1, QueueFields
        <5> HIDE DEF r, s
        <5> QED
          BY <1>1, <2>3, <5>2, <5>3, HeldStays
      <4>3. CASE x = m /\ r.seq > Intact(s)
        <5>1. conn'[c].dq = AddToDeadQueue(r.dq, entry) /\ Intact(u) = Intact(s)
          BY <1>1, <1>5, <2>3, <4>3
        <5>2. entry.seq = Intact(u) - 1
          <6> HIDE DEF r, s, entry
          <6> QED
            BY <2>2, <2>3, <4>1, <5>1, LastHeld
        <5> QED
          BY <1>1, <4>3, <5>1, <5>2
      <4>4. CASE r.seq = Intact(s)
        BY <1>1, <4>4 DEF QueueAt
      <4> QED
        BY <1>1, <1>3, <4>2, <4>3, <4>4
    <3> QED
      BY <1>1, <2>1, <3>1, <3>2 DEF Due
  <2>5. Comes(e, c)
    BY <2>1, <2>4 DEF Delivered
  <2>6. CASE Pending(e)
    BY <2>6 DEF Pending, Kept, Comes
  <2>7. CASE OnItsWay(e)
    <3>1. PICK k \in (client.seq + 1) .. H(i) : s[k] = Event(e)
      BY <2>1, <2>7 DEF OnItsWay
    <3>2. /\ k \in (client.seq + 1) .. Intact(u) /\ u[k] = s[k]
      BY <1>1, <2>1, <2>3, <3>1
    <3> QED
      BY <1>1, <2>1, <2>2, <3>1, <3>2 DEF Comes, OnItsWay, H
  <2>8. CASE e \in Evs(r.send)
    <3>1. r.send \in Seq(Recorded)
      BY SendOfConn
    <3>2. e \in Evs(Tail(r.send)) \/ (e = m.n /\ m.kind = "event")
      BY <1>1, <2>8, <3>1, TailEvents
    <3>3. CASE e \in Evs(Tail(r.send))
      BY <1>5, <3>3 DEF Comes
    <3>4. CASE e = m.n /\ x = Hole
      <4>1. missed' = missed \cup {m.n}
        BY <1>2, <1>3, <3>4, HoleIsNoMessage
      <4> QED
        BY <3>4, <4>1 DEF Comes, Pending
    <3>5. CASE e = m.n /\ m.kind = "event" /\ x = m
      <4>1. m = Event(e) /\ x # Hole
        BY <1>2, <3>5, MessageIs, HoleIsNoMessage DEF Event
      <4>2. CASE r.seq = Intact(s)
        <5>a. Intact(u) = r.seq + 1 /\ u[r.seq + 1] = Event(e)
          BY <2>3, <3>5, <4>1, <4>2
        <5>b. client.seq <= r.seq /\ r.seq \in Nat /\ client.seq \in Nat
          BY <1>1, <2>1, <4>2 DEF H
        <5>1. r.seq + 1 \in (client.seq + 1) .. Intact(u) /\ u[r.seq + 1] = Event(e)
          BY <5>a, <5>b
        <5>2. \E k \in (client.seq + 1) .. Intact(u) : u[k] = Event(e)
          BY <5>1
        <5> QED
          BY <1>1, <2>1, <2>2, <5>2 DEF Comes, OnItsWay, H
      <4>3. CASE r.seq > Intact(s)
        <5>1. conn'[c].dq = AddToDeadQueue(r.dq, entry) /\ Intact(u) = Intact(s)
          BY <1>1, <1>5, <2>3, <3>5, <4>3
        <5>2. r.dq \in Queue /\ Shaped(r.dq) /\ entry \in Entry
          BY <1>1, <1>2 DEF Typed, QueueAt, Entry
        <5>3. entry.seq = Intact(u) - 1
          <6> HIDE DEF r, s, entry
          <6> QED
            BY <2>2, <2>3, <5>1, <5>2, LastHeld
        <5> QED
          BY <1>1, <4>3, <5>1, <5>3
      <4> QED
        BY <1>1, <4>2, <4>3
    <3> QED
      BY <1>3, <3>2, <3>3, <3>4, <3>5
  <2> QED
    BY <2>5, <2>6, <2>7, <2>8 DEF Comes
<1> QED
  BY <1>6, <1>7 DEF Delivered

LEMMA ReceiveKeepsDelivered ==
    ASSUME TypeOK, StreamInv, Delivered, ClientReceive
    PROVE  Delivered'
<1> DEFINE frame == wire[1]
           hello == frame.msg.kind = "hello"
           i == client.id
<1>1. /\ wire # << >> /\ wire \in Seq(Entry) /\ 1 \in DOMAIN wire /\ Head(wire) = frame
      /\ UNCHANGED <<published, inbox, conn, index, stream, missed>>
      /\ client.seq \in Nat /\ published \in Nat
  BY TypesOfState DEF ClientReceive, TypeOK
<1>2. WireOK
  BY DEF StreamInv
<1> HIDE DEF frame
<1> SUFFICES ASSUME NEW c \in Conns, Due(c)', NEW e \in Owed' PROVE Comes(e, c)'
  BY DEF Delivered
<1>3. CASE hello
  <2>1. frame.msg.n # i
    BY <1>1, <1>2, <1>3 DEF WireOK, frame
  <2>2. CASE i = 0
    <3>1. client'.base = published
      BY <2>2 DEF ClientReceive
    <3> QED
      BY <1>1, <3>1 DEF Owed
  <2>3. CASE i # 0
    <3>1. client'.stale
      BY <1>1, <1>3, <2>1, <2>3 DEF ClientReceive, Restarts
    <3> QED
      BY <3>1 DEF Comes, Pending
  <2> QED
    BY <2>2, <2>3
<1>4. CASE ~hello
  <2>1. client'.id = i /\ ~Restarts(frame)
    BY <1>1, <1>4 DEF ClientReceive, Restarts
  <2>2. i # 0
    BY <2>1 DEF Due
  <2>3. client'.base = client.base /\ (client.stale => client'.stale)
    BY <1>1, <2>1, <2>2 DEF ClientReceive
  <2>4. Due(c) /\ e \in Owed
    BY <1>1, <2>1, <2>3 DEF Due, Owed
  <2>5. Comes(e, c)
    BY <2>4 DEF Delivered
  <2>6. CASE frame.seq # client.seq
    <3>1. client'.seq = client.seq /\ client'.known = client.known
      BY <1>1, <2>1, <2>6 DEF ClientReceive
    <3> QED
      BY <1>1, <2>1, <2>3, <2>5, <3>1 DEF Comes, Pending, OnItsWay, H
  <2>7. CASE frame.seq = client.seq
    <3>1. /\ client'.seq = client.seq + 1
          /\ client'.known = client.known \cup
                (IF frame.msg.kind = "event" THEN {frame.msg.n} ELSE {})
      BY <1>1, <2>1, <2>7 DEF ClientReceive
    <3>2. WireId = i /\ WireSeq = client.seq
      BY <1>1, <1>4 DEF WireId, WireSeq, Heads, frame
    <3>3. Running(1)
      BY <1>1, <2>7, <3>2 DEF Running, frame
    <3>4. client.seq + 1 <= H(i) /\ frame.msg = stream[i][client.seq + 1]
      BY <1>1, <1>2, <3>2, <3>3 DEF WireOK, frame
    <3>5. CASE OnItsWay(e)
      <4>1. PICK k \in (client.seq + 1) .. H(i) : stream[i][k] = Event(e)
        BY <3>5 DEF OnItsWay
      <4>2. CASE k = client.seq + 1
        BY <3>1, <3>4, <4>1, <4>2 DEF Event, Comes, Pending
      <4>3. CASE k # client.seq + 1
        <5>0. PICK h \in Nat : h = H(i)
          BY <2>2, ClientsStream
        <5>1. k \in ((client.seq + 1) + 1) .. H(i)
          BY <1>1, <4>1, <4>3, <5>0
        <5>2. \E l \in (client'.seq + 1) .. H(i) : stream[i][l] = Event(e)
          BY <3>1, <4>1, <5>1
        <5> QED
          BY <1>1, <2>1, <5>2 DEF Comes, OnItsWay, H
      <4> QED
        BY <4>2, <4>3
    <3>6. CASE Pending(e)
      BY <1>1, <2>3, <3>1, <3>6 DEF Comes, Pending
    <3>7. CASE e \in Evs(conn[c].send)
      BY <1>1, <3>7 DEF Comes
    <3> QED
      BY <2>5, <3>5, <3>6, <3>7 DEF Comes
  <2> QED
    BY <2>6, <2>7
<1> QED
  BY <1>3, <1>4

LEMMA NextKeepsDelivered ==
    ASSUME TypeOK, StreamInv, OwnerInv, Single, Delivered, [Next]_vars
    PROVE  Delivered'
<1>1. CASE Refetch
  <2>1. client'.known = 1 .. published /\ UNCHANGED published
    BY <1>1, ClientTyped DEF Refetch, ClientType
  <2> QED
    BY <2>1 DEF Delivered, Comes, Pending, Owed
<1>2. CASE ClientReceive
  BY <1>2, ReceiveKeepsDelivered
<1>3. ASSUME NEW n \in Nodes, HubBroadcast(n) \/ HubPanic(n) \/ NodeCrash(n) PROVE Delivered'
  BY <1>3, BroadcastDelivers, FailureDelivers
<1>4. CASE Kept
  <2>1. CASE AllQuiet
    <3>1. ASSUME NEW c \in Conns, Due(c)' PROVE (Due(c) => \A e \in Owed : Comes(e, c))'
      <4>1. stream' = stream /\ client'.id = client.id /\ Quiet(c)
        BY <1>4, <2>1 DEF AllQuiet, Kept
      <4>2. Due(c) /\ Evs(conn[c].send) \subseteq Evs(conn'[c].send)
        BY <3>1, <4>1, QuietDue
      <4> QED
        BY <1>4, <4>1, <4>2, CarriedOver
    <3> QED
      BY <3>1 DEF Delivered
  <2>2. ASSUME NEW n \in Nodes, HubBroadcast(n) PROVE Delivered'
    BY <2>2, BroadcastDelivers
  <2>3. ASSUME NEW c \in Conns, NewConnection(c) \/ LocalLookup(c) PROVE Delivered'
    BY <1>4, <2>3, LookupDelivers
  <2>4. ASSUME NEW c \in Conns, PumpSend(c) PROVE Delivered'
    BY <1>4, <2>4, SendDelivers
  <2>5. ASSUME NEW c \in Conns, PumpStart(c), ~AllQuiet PROVE Delivered'
    BY <1>4, <2>5, StartDelivers
  <2> QED
    BY <2>1, <2>2, <2>3, <2>4, <2>5, QuietSteps
<1> QED
  BY <1>1, <1>2, <1>3, <1>4, KeptSteps

LEMMA InitDelivered == Init => Delivered
<1> SUFFICES ASSUME Init PROVE Delivered
  OBVIOUS
<1>1. client.id = 0
  BY DEF Init
<1> QED
  BY <1>1 DEF Delivered, Due

LEMMA DeliveredInvariant ==
    ASSUME Single
    PROVE  Spec => [](IInv /\ Delivered)
<1>1. IInv /\ Delivered /\ [Next]_vars => Delivered'
  BY NextKeepsDelivered DEF IInv, Single
<1> QED
  BY <1>1, InitDelivered, IInvariant, PTL DEF Spec

\* LossOnlyDuringResume of a single node: an event the client must know of is in the
\* hub's inbox, in the queue of the connection that holds the client's id or in its
\* stream, until the client knows it; only what the hub broadcast while a resumed
\* connection was not registered, and what could not be encoded, is lost.
THEOREM SingleNodeLossOnlyDuringResume ==
    ASSUME Cardinality(Nodes) = 1
    PROVE  Spec => []LossOnlyDuringResume
<1>1. Single
  BY DEF Single
<1>2. IInv /\ Delivered => LossOnlyDuringResume
  <2> SUFFICES ASSUME IInv, Delivered, CaughtUp, NEW e \in Owed
               PROVE  e \in client.known \cup missed
    BY DEF LossOnlyDuringResume
  <2>1. TypeOK /\ StreamInv /\ OwnerInv
    BY DEF IInv
  <2> DEFINE r == conn[client.conn]
  <2>2. PICK c \in Conns : c = client.conn
    BY <2>1, TypesOfState DEF CaughtUp, Conns
  <2>3. /\ ~client.stale /\ r.stage = "pumping" /\ c \in index[r.node] /\ r.node \in Nodes
        /\ r.id = client.id /\ r.seq = client.seq /\ r.send = << >>
        /\ \A n \in Nodes : inbox[n] = {}
    BY <2>1, <2>2 DEF CaughtUp, OwnerInv, Shape, FieldsOK
  <2>4. /\ r.id # 0 /\ QueueAt(c, r, stream[client.id]) /\ H(client.id) = Intact(stream[client.id])
        /\ r.seq >= Intact(stream[client.id])
    BY <2>1, <2>2, <2>3, PumpingConn
  <2>5. /\ client.seq \in Nat /\ H(client.id) \in Nat /\ client.seq <= H(client.id)
    BY <2>1, <2>3, <2>4, ClientsStream
  <2>6. client.seq = H(client.id)
    BY <2>3, <2>4, <2>5
  <2>7. Holding(r.dq, Count(r.dq), stream[client.id])
    BY <2>3, <2>4, <2>5, <2>6 DEF QueueAt
  <2>8. Due(c)
    BY <2>2, <2>3, <2>4, <2>7 DEF Due
  <2>9. Comes(e, c)
    BY <2>8 DEF Delivered
  <2>10. ~OnItsWay(e)
    BY <2>5, <2>6 DEF OnItsWay
  <2>11. e \notin Evs(conn[c].send)
    BY <2>2, <2>3, NoEvents
  <2> QED
    BY <2>3, <2>9, <2>10, <2>11 DEF Comes, Pending
<1> QED
  BY <1>1, <1>2, DeliveredInvariant, PTL

===============================================================================
