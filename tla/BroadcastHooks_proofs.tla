------------------------ MODULE BroadcastHooks_proofs ------------------------
(***************************************************************************)
(* Proofs about broadcasts with hooks, for any number of connections and   *)
(* events and any size of the send queues.                                 *)
(***************************************************************************)
EXTENDS BroadcastHooks, TLAPS

-----------------------------------------------------------------------------
\* What the hooks of an event make of it.  No list has more than two, so that the fold
\* over the list can be computed.

Unhooked(e) == [own |-> FALSE, data |-> data[e], rejected |-> FALSE, original |-> e \in rejected]

LEMMA NoHooks ==
    ASSUME NEW e, NEW c, hooks[e] = << >>
    PROVE  Hooked(e, c) = Unhooked(e)
<1> DEFINE G(it) == [s \in SUBSET {} |->
                        IF s = {} THEN Unhooked(e)
                        ELSE Process(it[s \ {Max(s)}], hooks[e][Max(s)], c)]
           iter == CHOOSE it : it = G(it)
           done == [s \in SUBSET {} |-> Unhooked(e)]
<1>1. DOMAIN hooks[e] = {} /\ SUBSET {} = {{}}
  OBVIOUS
<1>2. Hooked(e, c) = iter[{}]
  BY <1>1 DEF Hooked, FoldLeft, MapThenFoldSet, Unhooked
<1>3. done = G(done)
  BY <1>1
<1>4. iter = G(iter)
  BY <1>3
<1> QED
  BY <1>1, <1>2, <1>4

LEMMA OneHook ==
    ASSUME NEW e, NEW c, DOMAIN hooks[e] = {1}
    PROVE  Hooked(e, c) = Process(Unhooked(e), hooks[e][1], c)
<1> DEFINE G(it) == [s \in SUBSET {1} |->
                        IF s = {} THEN Unhooked(e)
                        ELSE Process(it[s \ {Max(s)}], hooks[e][Max(s)], c)]
           iter == CHOOSE it : it = G(it)
           done == [s \in SUBSET {1} |->
                        IF s = {} THEN Unhooked(e)
                        ELSE Process(Unhooked(e), hooks[e][1], c)]
<1>1. /\ {} \in SUBSET {1} /\ {1} \in SUBSET {1} /\ {1} # {} /\ {1} \ {1} = {}
      /\ \A s \in SUBSET {1} : s = {} \/ s = {1}
  OBVIOUS
<1>2. Max({1}) = 1
  BY DEF Max
<1>3. Hooked(e, c) = iter[{1}]
  BY DEF Hooked, FoldLeft, MapThenFoldSet, Unhooked
<1>4. done = G(done)
  <2>1. \A s \in SUBSET {1} : done[s] = G(done)[s]
    BY <1>1, <1>2
  <2> QED
    BY <2>1
<1>5. iter = G(iter)
  BY <1>4
<1> HIDE DEF iter
<1>6. iter[{}] = Unhooked(e)
  BY <1>1, <1>5
<1>7. iter[{1}] = Process(iter[{1} \ {Max({1})}], hooks[e][Max({1})], c)
  <2>1. \A s \in SUBSET {1} : iter[s] = IF s = {} THEN Unhooked(e)
                                        ELSE Process(iter[s \ {Max(s)}], hooks[e][Max(s)], c)
    BY <1>5
  <2> QED
    BY <1>1, <2>1
<1>8. iter[{1}] = Process(iter[{}], hooks[e][1], c)
  BY <1>1, <1>2, <1>7
<1> QED
  BY <1>3, <1>6, <1>8

LEMMA TwoHooks ==
    ASSUME NEW e, NEW c, DOMAIN hooks[e] = {1, 2}
    PROVE  Hooked(e, c) = Process(Process(Unhooked(e), hooks[e][1], c), hooks[e][2], c)
<1> DEFINE G(it) == [s \in SUBSET {1, 2} |->
                        IF s = {} THEN Unhooked(e)
                        ELSE Process(it[s \ {Max(s)}], hooks[e][Max(s)], c)]
           iter == CHOOSE it : it = G(it)
           first == Process(Unhooked(e), hooks[e][1], c)
           done == [s \in SUBSET {1, 2} |->
                        IF s = {} THEN Unhooked(e)
                        ELSE IF s = {1} THEN first
                        ELSE IF s = {2} THEN Process(Unhooked(e), hooks[e][2], c)
                        ELSE Process(first, hooks[e][2], c)]
<1>1. /\ {} \in SUBSET {1, 2} /\ {1} \in SUBSET {1, 2} /\ {2} \in SUBSET {1, 2}
      /\ {1, 2} \in SUBSET {1, 2}
      /\ {1} # {} /\ {2} # {} /\ {1, 2} # {} /\ {2} # {1} /\ {1, 2} # {1} /\ {1, 2} # {2}
      /\ {1} \ {1} = {} /\ {2} \ {2} = {} /\ {1, 2} \ {2} = {1}
  OBVIOUS
<1>2. \A s \in SUBSET {1, 2} : s = {} \/ s = {1} \/ s = {2} \/ s = {1, 2}
  <2> SUFFICES ASSUME NEW s \in SUBSET {1, 2} PROVE s = {} \/ s = {1} \/ s = {2} \/ s = {1, 2}
    OBVIOUS
  <2>1. CASE 1 \in s /\ 2 \in s
    BY <2>1
  <2>2. CASE 1 \in s /\ 2 \notin s
    BY <2>2
  <2>3. CASE 1 \notin s /\ 2 \in s
    BY <2>3
  <2>4. CASE 1 \notin s /\ 2 \notin s
    BY <2>4
  <2> QED
    BY <2>1, <2>2, <2>3, <2>4
<1>3. Max({1}) = 1 /\ Max({2}) = 2 /\ Max({1, 2}) = 2
  BY DEF Max
<1>4. Hooked(e, c) = iter[{1, 2}]
  BY DEF Hooked, FoldLeft, MapThenFoldSet, Unhooked
<1>5. done = G(done)
  <2>1. /\ done[{}] = Unhooked(e) /\ done[{1}] = first
        /\ done[{2}] = Process(Unhooked(e), hooks[e][2], c)
        /\ done[{1, 2}] = Process(first, hooks[e][2], c)
    BY <1>1
  <2>2. ASSUME NEW s \in SUBSET {1, 2}
        PROVE  done[s] = IF s = {} THEN Unhooked(e)
                         ELSE Process(done[s \ {Max(s)}], hooks[e][Max(s)], c)
    <3> HIDE DEF done
    <3>1. CASE s = {}
      BY <2>1, <3>1
    <3>2. CASE s = {1}
      BY <1>1, <1>3, <2>1, <3>2
    <3>3. CASE s = {2}
      BY <1>1, <1>3, <2>1, <3>3
    <3>4. CASE s = {1, 2}
      BY <1>1, <1>3, <2>1, <3>4
    <3> QED
      BY <1>2, <3>1, <3>2, <3>3, <3>4
  <2> QED
    BY <2>2
<1>6. iter = G(iter)
  BY <1>5
<1> HIDE DEF iter
<1>7. iter[{}] = Unhooked(e)
  BY <1>1, <1>6
<1>8. iter[{1}] = Process(iter[{1} \ {Max({1})}], hooks[e][Max({1})], c)
  BY <1>1, <1>6
<1>9. iter[{1, 2}] = Process(iter[{1, 2} \ {Max({1, 2})}], hooks[e][Max({1, 2})], c)
  BY <1>1, <1>6
<1>10. iter[{1}] = first
  BY <1>1, <1>3, <1>7, <1>8
<1>11. iter[{1, 2}] = Process(iter[{1}], hooks[e][2], c)
  BY <1>1, <1>3, <1>9
<1> QED
  BY <1>4, <1>10, <1>11

LEMMA Processed ==
    ASSUME NEW he, NEW c, NEW S, NEW T
    PROVE  /\ Process(he, AddHook(S), c) = IF c \in S THEN Add(he, "mentions") ELSE he
           /\ Process(he, AckHook(S, T), c) =
                  IF c \notin T /\ ("mentions" \in he.data \/ c \in S)
                  THEN Add(he, "should_ack") ELSE he
           /\ Process(he, FilterHook(S), c) = IF c \in S THEN he ELSE Reject(he)
BY DEF Process, AddHook, AckHook, FilterHook

\* A recipient is given the fields meant for it, in a copy of its own if there are any;
\* the hooks reject the shared object, for recipients a filter does not let through.
LEMMA HookResult ==
    ASSUME NEW e, hooks[e] \in HookLists, data[e] = {}, NEW c \in Conns,
           NEW he, he = Hooked(e, c)
    PROVE  /\ he.own \in BOOLEAN /\ ~he.rejected /\ he.rejected \in BOOLEAN
           /\ he.data = FieldsFor(e, c)
           /\ ~he.own => he.data = {}
           /\ he.original <=> e \in rejected \/ c \notin Accepted(e)
           /\ he.own => c \in Accepted(e)
<1>1. PICK r \in BOOLEAN : r <=> e \in rejected
  OBVIOUS
<1> DEFINE plain == [own |-> FALSE, data |-> {}, rejected |-> FALSE, original |-> r]
<1>2. Unhooked(e) = plain
  <2>1. r = (e \in rejected)
    BY <1>1
  <2> QED
    BY <2>1 DEF Unhooked
<1>3. CASE hooks[e] = << >>
  <2>1. FieldsFor(e, c) = {} /\ c \in Accepted(e)
    BY <1>3 DEF FieldsFor, Accepted, Fields
  <2>2. he = plain
    BY <1>3, <1>2, NoHooks
  <2> QED
    BY <1>1, <2>1, <2>2
<1>4. ASSUME NEW S, hooks[e] = <<FilterHook(S)>>
      PROVE  /\ he.own \in BOOLEAN /\ ~he.rejected /\ he.rejected \in BOOLEAN
             /\ he.data = FieldsFor(e, c)
             /\ ~he.own => he.data = {}
             /\ he.original <=> e \in rejected \/ c \notin Accepted(e)
             /\ he.own => c \in Accepted(e)
  <2>1. DOMAIN hooks[e] = {1} /\ hooks[e][1] = FilterHook(S)
    BY <1>4
  <2>2. FieldsFor(e, c) = {}
    BY <2>1 DEF FieldsFor, FilterHook, Fields
  <2>3. c \in Accepted(e) <=> c \in S
    BY <2>1 DEF Accepted, FilterHook
  <2>4. he = Process(plain, FilterHook(S), c)
    BY <1>2, <2>1, OneHook
  <2>5. he = IF c \in S THEN plain ELSE Reject(plain)
    BY <2>4, Processed
  <2>6. Reject(plain) = [own |-> FALSE, data |-> {}, rejected |-> FALSE, original |-> TRUE]
    BY DEF Reject
  <2>7. CASE c \in S
    <3>1. he = plain
      BY <2>5, <2>7
    <3> QED
      BY <1>1, <2>2, <2>3, <2>7, <3>1
  <2>8. CASE c \notin S
    <3>1. he = [own |-> FALSE, data |-> {}, rejected |-> FALSE, original |-> TRUE]
      BY <2>5, <2>6, <2>8
    <3> QED
      BY <2>2, <2>3, <2>8, <3>1
  <2> QED
    BY <2>7, <2>8
<1>5. ASSUME NEW S, NEW T, NEW U, hooks[e] = <<AddHook(S), AckHook(T, U)>>
      PROVE  /\ he.own \in BOOLEAN /\ ~he.rejected /\ he.rejected \in BOOLEAN
             /\ he.data = FieldsFor(e, c)
             /\ ~he.own => he.data = {}
             /\ he.original <=> e \in rejected \/ c \notin Accepted(e)
             /\ he.own => c \in Accepted(e)
  <2>1. DOMAIN hooks[e] = {1, 2} /\ hooks[e][1] = AddHook(S) /\ hooks[e][2] = AckHook(T, U)
    BY <1>5
  <2>2. c \in Accepted(e)
    BY <2>1 DEF Accepted, AddHook, AckHook
  <2>3. FieldsFor(e, c) = {f \in Fields : IF f = "mentions" THEN c \in S
                                         ELSE c \notin U /\ (c \in S \/ c \in T)}
    BY <2>1 DEF FieldsFor, AddHook, AckHook
  <2> DEFINE first == IF c \in S THEN Add(plain, "mentions") ELSE plain
  <2>4. /\ Process(plain, AddHook(S), c) = first
        /\ he = Process(Process(plain, AddHook(S), c), AckHook(T, U), c)
    <3>1. he = Process(Process(plain, AddHook(S), c), AckHook(T, U), c)
      BY <1>2, <2>1, TwoHooks
    <3> QED
      BY <3>1, Processed
  <2>5. he = IF c \notin U /\ ("mentions" \in first.data \/ c \in T)
             THEN Add(first, "should_ack") ELSE first
    <3> HIDE DEF first, plain
    <3> QED
      BY <2>4, Processed
  <2>6. CASE c \in S
    <3>1. first = [own |-> TRUE, data |-> {"mentions"}, rejected |-> FALSE, original |-> r]
      BY <2>6 DEF Add
    <3>2. he = IF c \notin U THEN [own |-> TRUE, data |-> {"mentions", "should_ack"},
                                 rejected |-> FALSE, original |-> r]
               ELSE first
      <4> HIDE DEF first
      <4> QED
        BY <2>5, <3>1 DEF Add
    <3>3. FieldsFor(e, c) = IF c \notin U THEN {"mentions", "should_ack"} ELSE {"mentions"}
      BY <2>3, <2>6 DEF Fields
    <3>4. CASE c \notin U
      <4>1. he = [own |-> TRUE, data |-> {"mentions", "should_ack"}, rejected |-> FALSE,
                  original |-> r]
        BY <3>2, <3>4
      <4> QED
        BY <1>1, <2>2, <3>3, <3>4, <4>1
    <3>5. CASE c \in U
      <4>1. he = [own |-> TRUE, data |-> {"mentions"}, rejected |-> FALSE, original |-> r]
        BY <3>1, <3>2, <3>5
      <4> QED
        BY <1>1, <2>2, <3>3, <3>5, <4>1
    <3> QED
      BY <3>4, <3>5
  <2>7. CASE c \notin S
    <3>1. first = plain
      BY <2>7
    <3>2. he = IF c \notin U /\ c \in T
               THEN [own |-> TRUE, data |-> {"should_ack"}, rejected |-> FALSE, original |-> r]
               ELSE plain
      BY <2>5, <3>1 DEF Add
    <3>3. FieldsFor(e, c) = IF c \notin U /\ c \in T THEN {"should_ack"} ELSE {}
      BY <2>3, <2>7 DEF Fields
    <3> QED
      BY <1>1, <2>2, <3>2, <3>3
  <2> QED
    BY <2>6, <2>7
<1> QED
  BY <1>3, <1>4, <1>5 DEF HookLists

-----------------------------------------------------------------------------
\* The invariant

\* The shared objects are as they were published, and only filters reject them.
Shared ==
    /\ todo # {} => Len(hooks) > 0
    /\ \A e \in 1 .. Len(hooks) : data[e] = {}
    /\ \A e \in rejected : Accepted(e) # Conns

\* What c has queued is meant for c, or the flag of its shared object is set; a copy is
\* never rejected.
Entry(c, ref) ==
    /\ ref.event \in 1 .. Len(hooks)
    /\ ~ref.rejected
    /\ DataOf(ref) = FieldsFor(ref.event, c)
    /\ c \notin moved /\ c \notin Accepted(ref.event) => ~ref.own /\ ref.event \in rejected
Entries ==
    \A c \in Conns :
        /\ \A i \in DOMAIN send[c] : Entry(c, send[c][i])
        /\ \A i, j \in DOMAIN send[c] : i < j => send[c][i].event < send[c][j].event

\* Where the events are that were offered to c
Queued(c) == {send[c][i].event : i \in DOMAIN send[c]}
Written(c) == {m.event : m \in got[c]}
Settled(c) ==
    /\ Queued(c) \cap Written(c) = {} /\ Queued(c) \cap skipped[c] = {}
    /\ Written(c) \cap skipped[c] = {}
    /\ lost[c] \cap (Queued(c) \cup Written(c) \cup skipped[c]) = {}
    /\ Queued(c) \cup Written(c) \cup skipped[c] \cup lost[c] \subseteq 1 .. Len(hooks)
    /\ c \in todo => Len(hooks) \notin Queued(c) \cup Written(c) \cup skipped[c] \cup lost[c]
    /\ c \in open => \A e \in 1 .. Len(hooks) :
          (e = Len(hooks) /\ c \in todo) \/ e \in Queued(c) \cup Written(c) \cup skipped[c]

HooksInv ==
    /\ TypeOK /\ Shared /\ Entries /\ OwnFieldsOnly /\ RejectedNeverReceived
    /\ SkippedOnlyIfFiltered
    /\ \A c \in Conns : Settled(c)

LEMMA SettledAccounts ==
    ASSUME \A c \in Conns : Settled(c) PROVE Accounted
<1> SUFFICES ASSUME NEW c \in Conns, NEW e \in 1 .. Len(hooks)
    PROVE  LET queued == \E i \in DOMAIN send[c] : send[c][i].event = e
               written == \E m \in got[c] : m.event = e
               offered == c \in open /\ ~(e = Len(hooks) /\ c \in todo)
           IN  /\ offered => queued \/ written \/ e \in skipped[c]
               /\ ~(queued /\ written) /\ ~(queued /\ e \in skipped[c])
               /\ ~(written /\ e \in skipped[c])
               /\ e \in lost[c] => ~queued /\ ~written /\ e \notin skipped[c]
  BY DEF Accounted
<1>1. /\ e \in Queued(c) <=> \E i \in DOMAIN send[c] : send[c][i].event = e
      /\ e \in Written(c) <=> \E m \in got[c] : m.event = e
  BY DEF Queued, Written
<1>2. Settled(c)
  OBVIOUS
<1> QED
  BY <1>1, <1>2 DEF Settled

\* What the hooks of an event mean does not change.
LEMMA MeaningKept ==
    ASSUME NEW e, hooks'[e] = hooks[e]
    PROVE  Accepted(e)' = Accepted(e) /\ \A c : FieldsFor(e, c)' = FieldsFor(e, c)
BY DEF Accepted, FieldsFor

LEMMA HooksInit == Init => HooksInv
<1> SUFFICES ASSUME Init PROVE HooksInv
  OBVIOUS
<1> USE DEF Init
<1>1. TypeOK
  BY BroadcastAssumption DEF TypeOK
<1>2. Shared /\ Entries /\ OwnFieldsOnly /\ RejectedNeverReceived /\ SkippedOnlyIfFiltered
  BY DEF Shared, Entries, OwnFieldsOnly, RejectedNeverReceived, SkippedOnlyIfFiltered
<1>3. \A c \in Conns : Settled(c)
  BY DEF Settled, Queued, Written
<1> QED
  BY <1>1, <1>2, <1>3 DEF HooksInv

\* A new event: nobody has it yet.
LEMMA StartKeeps == HooksInv /\ StartBroadcast => HooksInv'
<1> SUFFICES ASSUME HooksInv, StartBroadcast PROVE HooksInv'
  OBVIOUS
<1>1. PICK list \in HookLists : hooks' = Append(hooks, list)
  BY DEF StartBroadcast
<1>2. /\ todo = {} /\ Len(hooks) < MaxEvents /\ data' = Append(data, {}) /\ todo' = open
      /\ UNCHANGED <<rejected, open, send, got, skipped, lost, moved>>
  BY DEF StartBroadcast
<1>3. TypeOK
  BY DEF HooksInv
<1>4. /\ hooks' \in Seq(HookLists) /\ Len(hooks') = Len(hooks) + 1 /\ Len(hooks) \in Nat
      /\ data' \in Seq(SUBSET Fields) /\ Len(data') = Len(hooks')
      /\ \A e \in 1 .. Len(hooks) : hooks'[e] = hooks[e] /\ data'[e] = data[e]
      /\ data'[Len(hooks) + 1] = {}
  BY <1>1, <1>2, <1>3 DEF TypeOK
<1>5. \A e \in 1 .. Len(hooks) :
          Accepted(e)' = Accepted(e) /\ \A c : FieldsFor(e, c)' = FieldsFor(e, c)
  BY <1>4, MeaningKept
<1>6. TypeOK'
  BY <1>2, <1>3, <1>4, BroadcastAssumption DEF TypeOK
<1>7. Shared'
  <2>1. \A e \in 1 .. Len(hooks') : data'[e] = {}
    BY <1>4 DEF HooksInv, Shared
  <2>2. \A e \in rejected' : Accepted(e)' # Conns
    BY <1>2, <1>3, <1>5 DEF HooksInv, Shared, TypeOK
  <2> QED
    BY <1>4, <2>1, <2>2 DEF Shared
<1>8. Entries'
  <2>1. ASSUME NEW c \in Conns, NEW i \in DOMAIN send[c] PROVE Entry(c, send[c][i])'
    <3>1. Entry(c, send[c][i])
      BY DEF HooksInv, Entries
    <3>2. send'[c][i] = send[c][i] /\ moved' = moved /\ rejected' = rejected
      BY <1>2
    <3> QED
      BY <1>4, <1>5, <3>1, <3>2 DEF Entry, DataOf
  <2> QED
    BY <1>2, <2>1 DEF HooksInv, Entries
<1>9. \A c \in Conns : Settled(c)'
  <2>1. \A c : Queued(c)' = Queued(c) /\ Written(c)' = Written(c)
    BY <1>2 DEF Queued, Written
  <2>2. ASSUME NEW c \in Conns PROVE Settled(c)'
    <3>1. Settled(c) /\ c \notin todo
      BY <1>2 DEF HooksInv
    <3>2. 1 .. Len(hooks') = 1 .. Len(hooks) \cup {Len(hooks')} /\ Len(hooks') \notin 1 .. Len(hooks)
      BY <1>4
    <3>3. \A e \in 1 .. Len(hooks) : e # Len(hooks')
      BY <1>4
    <3> QED
      BY <1>2, <2>1, <3>1, <3>2, <3>3 DEF Settled
  <2> QED
    BY <2>2
<1>10. \A c \in Conns : Written(c) \subseteq 1 .. Len(hooks) /\ skipped[c] \subseteq 1 .. Len(hooks)
  BY DEF HooksInv, Settled
<1>11. OwnFieldsOnly' /\ RejectedNeverReceived'
  <2>1. \A c \in Conns : \A m \in got[c] : m.event \in 1 .. Len(hooks)
    BY <1>10 DEF Written
  <2> QED
    BY <1>2, <1>5, <2>1 DEF HooksInv, OwnFieldsOnly, RejectedNeverReceived
<1>12. SkippedOnlyIfFiltered'
  BY <1>2, <1>5, <1>10 DEF HooksInv, SkippedOnlyIfFiltered
<1> QED
  BY <1>6, <1>7, <1>8, <1>9, <1>11, <1>12 DEF HooksInv

\* What an offer makes of the shared object
LEMMA OfferFacts ==
    ASSUME HooksInv, NEW c \in Conns, Offer(c), NEW e, e = Len(hooks),
           NEW he, he = Hooked(e, c)
    PROVE  /\ c \in todo /\ todo' = todo \ {c} /\ e \in 1 .. Len(hooks)
           /\ UNCHANGED <<hooks, data, got, skipped, moved>>
           /\ he.own \in BOOLEAN /\ ~he.rejected /\ he.rejected \in BOOLEAN
           /\ he.data = FieldsFor(e, c) /\ (~he.own => data[e] = he.data)
           /\ (he.own => c \in Accepted(e))
           /\ rejected \subseteq rejected' /\ rejected' \subseteq rejected \cup {e}
           /\ (c \notin Accepted(e) => e \in rejected')
           /\ (e \in rejected' => e \in rejected \/ c \notin Accepted(e))
<1>1. c \in todo /\ todo' = todo \ {c} /\ UNCHANGED <<hooks, got, skipped, moved>>
  BY DEF Offer
<1>2. e \in 1 .. Len(hooks)
  BY <1>1 DEF HooksInv, Shared, TypeOK
<1>3. hooks[e] \in HookLists /\ data[e] = {} /\ data \in Seq(SUBSET Fields) /\ Len(data) = Len(hooks)
  BY <1>2 DEF HooksInv, Shared, TypeOK
<1>4. /\ he.own \in BOOLEAN /\ ~he.rejected /\ he.rejected \in BOOLEAN
      /\ he.data = FieldsFor(e, c)
      /\ (~he.own => he.data = {})
      /\ (he.original <=> e \in rejected \/ c \notin Accepted(e))
      /\ (he.own => c \in Accepted(e))
  BY <1>3, HookResult
<1>5. /\ rejected' = IF he.original THEN rejected \cup {e} ELSE rejected
      /\ data' = IF he.own THEN data ELSE [data EXCEPT ![e] = he.data]
  BY DEF Offer
<1>6. data' = data
  <2>1. CASE he.own
    BY <1>5, <2>1
  <2>2. CASE ~he.own
    <3>1. data' = [data EXCEPT ![e] = data[e]]
      BY <1>3, <1>4, <1>5, <2>2
    <3>2. [data EXCEPT ![e] = data[e]] = data
      <4>1. data = [i \in DOMAIN data |-> data[i]]
        BY <1>3
      <4> QED
        BY <4>1
    <3> QED
      BY <3>1, <3>2
  <2> QED
    BY <2>1, <2>2
<1> QED
  BY <1>1, <1>2, <1>3, <1>4, <1>5, <1>6

LEMMA EntriesNext ==
    ASSUME \A d \in Conns : \A r : (\E i \in DOMAIN send'[d] : r = send'[d][i]) => Entry(d, r)',
           \A d \in Conns : \A i, j \in DOMAIN send'[d] :
               i < j => send'[d][i].event < send'[d][j].event
    PROVE  Entries'
BY DEF Entries, Entry, DataOf

LEMMA OfferKeeps ==
    ASSUME HooksInv, NEW c \in Conns, Offer(c) PROVE HooksInv'
<1>1. PICK e : e = Len(hooks)
  OBVIOUS
<1>2. PICK he : he = Hooked(e, c)
  OBVIOUS
<1>3. PICK ref : ref = [event |-> e, own |-> he.own, data |-> he.data, rejected |-> he.rejected]
  OBVIOUS
<1>4. /\ c \in todo /\ todo' = todo \ {c} /\ e \in 1 .. Len(hooks)
      /\ UNCHANGED <<hooks, data, got, skipped, moved>>
      /\ he.own \in BOOLEAN /\ ~he.rejected /\ he.rejected \in BOOLEAN
      /\ he.data = FieldsFor(e, c) /\ (~he.own => data[e] = he.data)
      /\ (he.own => c \in Accepted(e))
      /\ rejected \subseteq rejected' /\ rejected' \subseteq rejected \cup {e}
      /\ (c \notin Accepted(e) => e \in rejected')
      /\ (e \in rejected' => e \in rejected \/ c \notin Accepted(e))
  BY <1>1, <1>2, OfferFacts
<1>5. \/ /\ Len(send[c]) < SendQueueSize
         /\ send' = [send EXCEPT ![c] = Append(@, ref)] /\ UNCHANGED <<open, lost>>
      \/ /\ open' = open \ {c} /\ lost' = [lost EXCEPT ![c] = @ \cup {e}]
         /\ UNCHANGED send
  BY <1>1, <1>2, <1>3 DEF Offer
<1>6. TypeOK
  BY DEF HooksInv
<1>7. e \in Events /\ Len(hooks) \in Nat /\ ref \in Ref
  <2>1. FieldsFor(e, c) \subseteq Fields
    BY DEF FieldsFor
  <2>2. e \in Events /\ Len(hooks) \in Nat
    BY <1>1, <1>4, <1>6, BroadcastAssumption DEF TypeOK, Events
  <2> QED
    BY <1>3, <1>4, <2>1, <2>2 DEF Ref
<1>8. \A x : Accepted(x)' = Accepted(x) /\ \A d : FieldsFor(x, d)' = FieldsFor(x, d)
  BY <1>4, MeaningKept
<1>9. TypeOK'
  <2>1. /\ rejected' \subseteq 1 .. Len(hooks') /\ open' \subseteq Conns /\ todo' \subseteq open'
        /\ moved' \subseteq Conns \ open'
    BY <1>4, <1>5, <1>6 DEF TypeOK
  <2>2. /\ send' \in [Conns -> Seq(Ref)] /\ \A d \in Conns : Len(send'[d]) <= SendQueueSize
        /\ lost' \in [Conns -> SUBSET Events]
    <3>1. CASE /\ Len(send[c]) < SendQueueSize
               /\ send' = [send EXCEPT ![c] = Append(@, ref)] /\ UNCHANGED <<open, lost>>
      <4>1. /\ Append(send[c], ref) \in Seq(Ref) /\ Len(Append(send[c], ref)) = Len(send[c]) + 1
            /\ Len(send[c]) \in Nat
        BY <1>6, <1>7 DEF TypeOK
      <4> QED
        BY <1>6, <3>1, <4>1, BroadcastAssumption DEF TypeOK
    <3>2. CASE /\ open' = open \ {c} /\ lost' = [lost EXCEPT ![c] = @ \cup {e}]
               /\ UNCHANGED send
      BY <1>6, <1>7, <3>2 DEF TypeOK
    <3> QED
      BY <1>5, <3>1, <3>2
  <2> QED
    BY <1>4, <1>6, <2>1, <2>2 DEF TypeOK
<1>10. Shared'
  <2>1. \A x \in rejected' : Accepted(x) # Conns
    BY <1>4 DEF HooksInv, Shared
  <2> QED
    BY <1>4, <1>8, <2>1 DEF HooksInv, Shared
<1>11. \A d \in Conns : \A r : Entry(d, r) => Entry(d, r)'
  BY <1>4, <1>8 DEF Entry, DataOf
<1>12. Settled(c)
  BY DEF HooksInv
<1>13. CASE /\ Len(send[c]) < SendQueueSize
            /\ send' = [send EXCEPT ![c] = Append(@, ref)] /\ UNCHANGED <<open, lost>>
  <2>1. /\ send'[c] = Append(send[c], ref) /\ send[c] \in Seq(Ref)
        /\ DOMAIN send'[c] = DOMAIN send[c] \cup {Len(send[c]) + 1}
        /\ send'[c][Len(send[c]) + 1] = ref /\ Len(send[c]) \in Nat
        /\ \A i \in DOMAIN send[c] : send'[c][i] = send[c][i] /\ i < Len(send[c]) + 1
        /\ \A i \in DOMAIN send[c] : i \in Nat
        /\ \A d \in Conns \ {c} : send'[d] = send[d]
    BY <1>6, <1>7, <1>13 DEF TypeOK
  <2>2. Entry(c, ref)'
    BY <1>3, <1>4, <1>8 DEF Entry, DataOf
  <2>3. \A i \in DOMAIN send[c] : send[c][i].event < e
    <3>1. \A i \in DOMAIN send[c] : send[c][i].event \in Queued(c)
      BY DEF Queued
    <3> QED
      BY <1>1, <1>4, <1>12, <3>1 DEF Settled
  <2>4. Entries'
    <3>1. ASSUME NEW d \in Conns, NEW r, \E i \in DOMAIN send'[d] : r = send'[d][i]
          PROVE  Entry(d, r)'
      <4>1. \A i \in DOMAIN send[d] : Entry(d, send[d][i])
        BY DEF HooksInv, Entries
      <4>2. CASE d = c /\ r = ref
        BY <2>2, <4>2
      <4>3. CASE ~(d = c /\ r = ref)
        <5>1. \E i \in DOMAIN send[d] : r = send[d][i]
          BY <2>1, <3>1, <4>3
        <5>2. Entry(d, r)
          BY <4>1, <5>1
        <5> QED
          BY <1>11, <5>2
      <4> QED
        BY <4>2, <4>3
    <3>2. \A i, j \in DOMAIN send'[c] : i < j => send'[c][i].event < send'[c][j].event
      <4>1. ref.event = e
        BY <1>3
      <4> QED
        BY <2>1, <2>3, <4>1 DEF HooksInv, Entries
    <3>3. ASSUME NEW d \in Conns, NEW i \in DOMAIN send'[d], NEW j \in DOMAIN send'[d], i < j
          PROVE  send'[d][i].event < send'[d][j].event
      <4>1. CASE d = c
        BY <3>2, <3>3, <4>1
      <4>2. CASE d # c
        BY <2>1, <3>3, <4>2 DEF HooksInv, Entries
      <4> QED
        BY <4>1, <4>2
    <3> QED
      BY <3>1, <3>3, EntriesNext
  <2>5. Queued(c)' = Queued(c) \cup {e}
    <3>1. \A x : (\E i \in DOMAIN send'[c] : x = send'[c][i].event)
                     <=> (x = e \/ \E i \in DOMAIN send[c] : x = send[c][i].event)
      BY <1>3, <2>1
    <3> QED
      BY <3>1 DEF Queued
  <2>6. /\ \A d \in Conns \ {c} : Queued(d)' = Queued(d)
        /\ \A d \in Conns : Written(d)' = Written(d)
    BY <1>4, <2>1 DEF Queued, Written
  <2>7. ASSUME NEW d \in Conns PROVE Settled(d)'
    <3>1. Settled(d)
      BY DEF HooksInv
    <3>2. CASE d = c
      BY <1>1, <1>4, <1>13, <2>5, <2>6, <3>1, <3>2 DEF Settled
    <3>3. CASE d # c
      BY <1>4, <1>13, <2>6, <3>1, <3>3 DEF Settled
    <3> QED
      BY <3>2, <3>3
  <2> QED
    BY <1>4, <1>8, <1>9, <1>10, <2>4, <2>7
       DEF HooksInv, OwnFieldsOnly, RejectedNeverReceived, SkippedOnlyIfFiltered
<1>14. CASE /\ open' = open \ {c} /\ lost' = [lost EXCEPT ![c] = @ \cup {e}]
            /\ UNCHANGED send
  <2>1. Entries'
    BY <1>11, <1>14 DEF HooksInv, Entries
  <2>2. \A d : Queued(d)' = Queued(d) /\ Written(d)' = Written(d)
    BY <1>4, <1>14 DEF Queued, Written
  <2>3. lost'[c] = lost[c] \cup {e} /\ \A d \in Conns \ {c} : lost'[d] = lost[d]
    BY <1>6, <1>14 DEF TypeOK
  <2>4. ASSUME NEW d \in Conns PROVE Settled(d)'
    <3>1. Settled(d)
      BY DEF HooksInv
    <3>2. CASE d = c
      BY <1>1, <1>4, <1>14, <2>2, <2>3, <3>1, <3>2 DEF Settled
    <3>3. CASE d # c
      BY <1>4, <1>14, <2>2, <2>3, <3>1, <3>3 DEF Settled
    <3> QED
      BY <3>2, <3>3
  <2> QED
    BY <1>4, <1>8, <1>9, <1>10, <2>1, <2>4
       DEF HooksInv, OwnFieldsOnly, RejectedNeverReceived, SkippedOnlyIfFiltered
<1> QED
  BY <1>5, <1>13, <1>14

\* A pump takes the oldest event, which its queue does not hold a second time.
LEMMA PumpKeeps ==
    ASSUME HooksInv, NEW c \in Conns, Pump(c) PROVE HooksInv'
<1>1. PICK ref : ref = Head(send[c])
  OBVIOUS
<1>2. /\ send[c] # << >> /\ send' = [send EXCEPT ![c] = Tail(@)]
      /\ UNCHANGED <<hooks, data, rejected, open, todo, lost, moved>>
  BY DEF Pump
<1>3. \/ /\ IsRejected(ref) /\ got' = got
         /\ skipped' = [skipped EXCEPT ![c] = @ \cup {ref.event}]
      \/ /\ ~IsRejected(ref) /\ skipped' = skipped
         /\ got' = [got EXCEPT ![c] = @ \cup {[event |-> ref.event, data |-> DataOf(ref)]}]
  BY <1>1 DEF Pump
<1>4. TypeOK
  BY DEF HooksInv
<1>5. PICK n \in Nat : n = Len(send[c])
  BY <1>4 DEF TypeOK
<1>6. /\ send[c] \in Seq(Ref) /\ n > 0 /\ DOMAIN send[c] = 1 .. n /\ ref = send[c][1]
      /\ ref \in Ref /\ 1 \in DOMAIN send[c]
      /\ send'[c] \in Seq(Ref) /\ Len(send'[c]) = n - 1 /\ DOMAIN send'[c] = 1 .. (n - 1)
      /\ \A i \in 1 .. (n - 1) : send'[c][i] = send[c][i + 1]
      /\ send' \in [Conns -> Seq(Ref)]
      /\ \A d \in Conns \ {c} : send'[d] = send[d]
  BY <1>1, <1>2, <1>4, <1>5 DEF TypeOK
<1>7. Entry(c, ref)
  BY <1>6 DEF HooksInv, Entries
<1>8. \A x : Accepted(x)' = Accepted(x) /\ \A d : FieldsFor(x, d)' = FieldsFor(x, d)
  BY <1>2, MeaningKept
<1>9. ref.event \in 1 .. Len(hooks) /\ ref.event \in Events /\ DataOf(ref) = FieldsFor(ref.event, c)
      /\ FieldsFor(ref.event, c) \subseteq Fields
  BY <1>6, <1>7 DEF Entry, Ref, FieldsFor
<1>10. TypeOK'
  <2>1. \A d \in Conns : Len(send'[d]) <= SendQueueSize
    <3>1. \A d \in Conns : Len(send[d]) <= SendQueueSize
      BY <1>4 DEF TypeOK
    <3>2. Len(send'[c]) <= SendQueueSize
      BY <1>5, <1>6, <3>1, BroadcastAssumption
    <3> QED
      BY <1>6, <3>1, <3>2
  <2>2. [event |-> ref.event, data |-> DataOf(ref)] \in [event : Events, data : SUBSET Fields]
    BY <1>9
  <2>3. /\ got' \in [Conns -> SUBSET [event : Events, data : SUBSET Fields]]
        /\ skipped' \in [Conns -> SUBSET Events]
    <3>1. /\ got \in [Conns -> SUBSET [event : Events, data : SUBSET Fields]]
          /\ skipped \in [Conns -> SUBSET Events]
      BY <1>4 DEF TypeOK
    <3>2. [skipped EXCEPT ![c] = @ \cup {ref.event}] \in [Conns -> SUBSET Events]
      BY <1>9, <3>1
    <3>3. [got EXCEPT ![c] = @ \cup {[event |-> ref.event, data |-> DataOf(ref)]}]
              \in [Conns -> SUBSET [event : Events, data : SUBSET Fields]]
      <4> DEFINE Messages == [event : Events, data : SUBSET Fields]
                 m == [event |-> ref.event, data |-> DataOf(ref)]
      <4>1. m \in Messages /\ got \in [Conns -> SUBSET Messages]
        BY <2>2, <3>1
      <4> HIDE DEF Messages, m
      <4>2. [got EXCEPT ![c] = @ \cup {m}] \in [Conns -> SUBSET Messages]
        BY <4>1
      <4> QED
        BY <4>2 DEF Messages, m
    <3> QED
      BY <1>3, <3>1, <3>2, <3>3
  <2> QED
    BY <1>2, <1>4, <1>6, <2>1, <2>3 DEF TypeOK
<1>11. Shared'
  BY <1>2, <1>8 DEF HooksInv, Shared
<1>12. Entries'
  <2>1. \A d \in Conns : \A r : Entry(d, r) => Entry(d, r)'
    BY <1>2, <1>8 DEF Entry, DataOf
  <2>2. ASSUME NEW d \in Conns, NEW r, \E i \in DOMAIN send'[d] : r = send'[d][i]
        PROVE  Entry(d, r)'
    <3>1. \A i \in DOMAIN send[d] : Entry(d, send[d][i])
      BY DEF HooksInv, Entries
    <3>2. \E i \in DOMAIN send[d] : r = send[d][i]
      <4>1. CASE d = c
        <5>1. PICK i \in 1 .. (n - 1) : r = send[c][i + 1]
          BY <1>6, <2>2, <4>1
        <5>2. i + 1 \in DOMAIN send[c]
          BY <1>6
        <5> QED
          BY <4>1, <5>1, <5>2
      <4>2. CASE d # c
        BY <1>6, <2>2, <4>2
      <4> QED
        BY <4>1, <4>2
    <3>3. Entry(d, r)
      BY <3>1, <3>2
    <3> QED
      BY <2>1, <3>3
  <2>3. ASSUME NEW d \in Conns, NEW i \in DOMAIN send'[d], NEW j \in DOMAIN send'[d], i < j
        PROVE  send'[d][i].event < send'[d][j].event
    <3>1. \A k, l \in DOMAIN send[d] : k < l => send[d][k].event < send[d][l].event
      BY DEF HooksInv, Entries
    <3>2. CASE d = c
      <4>1. /\ i \in Nat /\ j \in Nat /\ i + 1 \in DOMAIN send[c] /\ j + 1 \in DOMAIN send[c]
            /\ i + 1 < j + 1
            /\ send'[c][i] = send[c][i + 1] /\ send'[c][j] = send[c][j + 1]
        BY <1>6, <2>3, <3>2
      <4> QED
        BY <3>1, <3>2, <4>1
    <3>3. CASE d # c
      BY <1>6, <2>3, <3>1, <3>3
    <3> QED
      BY <3>2, <3>3
  <2> QED
    BY <2>2, <2>3, EntriesNext
<1>13. ref.event \in Queued(c) /\ Queued(c)' = Queued(c) \ {ref.event}
  <2>1. \A i \in DOMAIN send[c] : 1 < i => send[c][1].event < send[c][i].event
    BY <1>6 DEF HooksInv, Entries
  <2>2. \A i \in DOMAIN send[c] : send[c][i].event \in Nat
    <3>1. \A i \in DOMAIN send[c] : send[c][i] \in Ref
      BY <1>6
    <3> QED
      BY <3>1 DEF Ref, Events
  <2>3. \A x : (\E i \in DOMAIN send'[c] : x = send'[c][i].event)
                   <=> (x # ref.event /\ \E i \in DOMAIN send[c] : x = send[c][i].event)
    <3> SUFFICES ASSUME NEW x
        PROVE  (\E i \in DOMAIN send'[c] : x = send'[c][i].event)
                   <=> (x # ref.event /\ \E i \in DOMAIN send[c] : x = send[c][i].event)
      OBVIOUS
    <3>1. ASSUME NEW i \in DOMAIN send'[c], x = send'[c][i].event
          PROVE  x # ref.event /\ \E j \in DOMAIN send[c] : x = send[c][j].event
      <4>1. i + 1 \in DOMAIN send[c] /\ 1 < i + 1 /\ x = send[c][i + 1].event
        BY <1>6, <3>1
      <4>2. send[c][1].event < send[c][i + 1].event /\ send[c][1].event \in Nat
            /\ send[c][i + 1].event \in Nat
        BY <1>6, <2>1, <2>2, <4>1
      <4> QED
        BY <1>6, <4>1, <4>2
    <3>2. ASSUME x # ref.event, NEW i \in DOMAIN send[c], x = send[c][i].event
          PROVE  \E j \in DOMAIN send'[c] : x = send'[c][j].event
      <4>1. i # 1 /\ i \in 1 .. n
        BY <1>6, <3>2
      <4>2. i - 1 \in DOMAIN send'[c] /\ send'[c][i - 1] = send[c][(i - 1) + 1] /\ (i - 1) + 1 = i
        BY <1>6, <4>1
      <4> QED
        BY <3>2, <4>2
    <3> QED
      BY <3>1, <3>2
  <2>4. ref.event \in Queued(c)
    BY <1>6 DEF Queued
  <2>5. \A x : x \in Queued(c)' <=> \E i \in DOMAIN send'[c] : x = send'[c][i].event
    BY DEF Queued
  <2>6. \A x : x \in Queued(c) <=> \E i \in DOMAIN send[c] : x = send[c][i].event
    BY DEF Queued
  <2>7. \A x : x \in Queued(c)' <=> x \in Queued(c) \ {ref.event}
    BY <2>3, <2>5, <2>6
  <2> QED
    BY <2>4, <2>7
<1>14. \A d \in Conns \ {c} : Queued(d)' = Queued(d) /\ Written(d)' = Written(d) /\ skipped'[d] = skipped[d]
  BY <1>3, <1>4, <1>6 DEF Queued, Written, TypeOK
<1>15. CASE /\ IsRejected(ref) /\ got' = got
            /\ skipped' = [skipped EXCEPT ![c] = @ \cup {ref.event}]
  <2>1. skipped'[c] = skipped[c] \cup {ref.event}
    BY <1>4, <1>15 DEF TypeOK
  <2>2. Written(c)' = Written(c)
    BY <1>15 DEF Written
  <2>3. Accepted(ref.event) # Conns
    BY <1>7, <1>15 DEF IsRejected, Entry, HooksInv, Shared
  <2>4. ASSUME NEW d \in Conns PROVE Settled(d)'
    <3>1. Settled(d)
      BY DEF HooksInv
    <3>2. CASE d = c
      BY <1>2, <1>9, <1>13, <2>1, <2>2, <3>1, <3>2 DEF Settled
    <3>3. CASE d # c
      BY <1>2, <1>14, <3>1, <3>3 DEF Settled
    <3> QED
      BY <3>2, <3>3
  <2>5. SkippedOnlyIfFiltered'
    BY <1>8, <1>14, <2>1, <2>3 DEF HooksInv, SkippedOnlyIfFiltered
  <2>6. OwnFieldsOnly' /\ RejectedNeverReceived'
    BY <1>2, <1>8, <1>15 DEF HooksInv, OwnFieldsOnly, RejectedNeverReceived
  <2> QED
    BY <1>10, <1>11, <1>12, <2>4, <2>5, <2>6 DEF HooksInv
<1>16. CASE /\ ~IsRejected(ref) /\ skipped' = skipped
            /\ got' = [got EXCEPT ![c] = @ \cup {[event |-> ref.event, data |-> DataOf(ref)]}]
  <2>1. /\ got'[c] = got[c] \cup {[event |-> ref.event, data |-> DataOf(ref)]}
        /\ \A d \in Conns \ {c} : got'[d] = got[d]
    BY <1>4, <1>16 DEF TypeOK
  <2>2. Written(c)' = Written(c) \cup {ref.event}
    <3>1. \A x : (\E m \in got'[c] : x = m.event)
                     <=> (x = ref.event \/ \E m \in got[c] : x = m.event)
      <4>1. PICK m0 : m0 = [event |-> ref.event, data |-> DataOf(ref)]
        OBVIOUS
      <4>2. m0.event = ref.event /\ got'[c] = got[c] \cup {m0}
        BY <2>1, <4>1
      <4> QED
        BY <4>2
    <3>2. \A x : x \in Written(c)' <=> \E m \in got'[c] : x = m.event
      BY DEF Written
    <3>3. \A x : x \in Written(c) <=> \E m \in got[c] : x = m.event
      BY DEF Written
    <3>4. \A x : x \in Written(c)' <=> x \in Written(c) \cup {ref.event}
      BY <3>1, <3>2, <3>3
    <3> QED
      BY <3>4
  <2>3. c \notin moved => c \in Accepted(ref.event)
    BY <1>7, <1>16 DEF IsRejected, Entry
  <2>4. ASSUME NEW d \in Conns PROVE Settled(d)'
    <3>1. Settled(d)
      BY DEF HooksInv
    <3>2. CASE d = c
      BY <1>2, <1>9, <1>13, <1>16, <2>2, <3>1, <3>2 DEF Settled
    <3>3. CASE d # c
      BY <1>2, <1>14, <3>1, <3>3 DEF Settled
    <3> QED
      BY <3>2, <3>3
  <2>5. OwnFieldsOnly'
    <3> SUFFICES ASSUME NEW d \in Conns, NEW m \in got'[d] PROVE m.data = FieldsFor(m.event, d)
      BY <1>8 DEF OwnFieldsOnly
    <3>1. CASE m \in got[d]
      BY <3>1 DEF HooksInv, OwnFieldsOnly
    <3>2. CASE m \notin got[d]
      <4>1. d = c /\ m = [event |-> ref.event, data |-> DataOf(ref)]
        BY <2>1, <3>2
      <4> QED
        BY <1>9, <4>1
    <3> QED
      BY <3>1, <3>2
  <2>6. RejectedNeverReceived'
    <3> SUFFICES ASSUME NEW d \in Conns \ moved, NEW m \in got'[d] PROVE d \in Accepted(m.event)
      BY <1>2, <1>8 DEF RejectedNeverReceived
    <3>1. CASE m \in got[d]
      BY <3>1 DEF HooksInv, RejectedNeverReceived
    <3>2. CASE m \notin got[d]
      <4>1. d = c /\ m = [event |-> ref.event, data |-> DataOf(ref)]
        BY <2>1, <3>2
      <4> QED
        BY <2>3, <4>1
    <3> QED
      BY <3>1, <3>2
  <2>7. SkippedOnlyIfFiltered'
    BY <1>8, <1>16 DEF HooksInv, SkippedOnlyIfFiltered
  <2> QED
    BY <1>10, <1>11, <1>12, <2>4, <2>5, <2>6, <2>7 DEF HooksInv
<1> QED
  BY <1>3, <1>15, <1>16

\* A connection that moves takes its queue along, as copies with the data they had.
LEMMA QueueMoves ==
    ASSUME HooksInv, NEW c \in Conns, Move(c) PROVE HooksInv'
<1>1. /\ c \in open /\ todo = {} /\ open' = open \ {c} /\ moved' = moved \cup {c}
      /\ send' = [send EXCEPT ![c] =
             [i \in DOMAIN @ |-> [event |-> @[i].event, own |-> TRUE,
                                  data |-> DataOf(@[i]), rejected |-> FALSE]]]
      /\ UNCHANGED <<hooks, data, rejected, todo, got, skipped, lost>>
  BY DEF Move
<1>2. TypeOK
  BY DEF HooksInv
<1>3. PICK n \in Nat : n = Len(send[c])
  BY <1>2 DEF TypeOK
<1>4. /\ send[c] \in Seq(Ref) /\ DOMAIN send[c] = 1 .. n
      /\ send'[c] = [i \in 1 .. n |-> [event |-> send[c][i].event, own |-> TRUE,
                                      data |-> DataOf(send[c][i]), rejected |-> FALSE]]
      /\ DOMAIN send'[c] = 1 .. n
      /\ \A d \in Conns \ {c} : send'[d] = send[d]
  BY <1>1, <1>2, <1>3 DEF TypeOK
<1>5. \A i \in 1 .. n : Entry(c, send[c][i]) /\ send[c][i] \in Ref
  BY <1>4 DEF HooksInv, Entries
<1>6. \A x : Accepted(x)' = Accepted(x) /\ \A d : FieldsFor(x, d)' = FieldsFor(x, d)
  BY <1>1, MeaningKept
<1>7. TypeOK'
  <2>1. ASSUME NEW i \in 1 .. n PROVE send'[c][i] \in Ref
    <3>1. DataOf(send[c][i]) = FieldsFor(send[c][i].event, c)
      BY <1>5 DEF Entry
    <3>2. FieldsFor(send[c][i].event, c) \subseteq Fields
      BY DEF FieldsFor
    <3>3. send[c][i].event \in Events
      BY <1>5 DEF Ref
    <3> QED
      BY <1>4, <3>1, <3>2, <3>3 DEF Ref
  <2>2. send'[c] \in Seq(Ref) /\ Len(send'[c]) = n
    BY <1>4, <2>1
  <2>3. send' \in [Conns -> Seq(Ref)] /\ \A d \in Conns : Len(send'[d]) <= SendQueueSize
    BY <1>1, <1>2, <1>3, <1>4, <2>2 DEF TypeOK
  <2> QED
    BY <1>1, <1>2, <2>3 DEF TypeOK
<1>8. Shared'
  BY <1>1, <1>6 DEF HooksInv, Shared
<1>9. Entries'
  <2>1. ASSUME NEW d \in Conns, NEW r, \E i \in DOMAIN send'[d] : r = send'[d][i]
        PROVE  Entry(d, r)'
    <3>1. CASE d = c
      <4>1. PICK i \in 1 .. n : r = send'[c][i]
        BY <1>4, <2>1, <3>1
      <4>2. r = [event |-> send[c][i].event, own |-> TRUE,
                 data |-> DataOf(send[c][i]), rejected |-> FALSE]
        BY <1>4, <4>1
      <4>3. /\ send[c][i].event \in 1 .. Len(hooks)
            /\ DataOf(send[c][i]) = FieldsFor(send[c][i].event, c)
        BY <1>5 DEF Entry
      <4>4. r.event \in 1 .. Len(hooks) /\ ~r.rejected /\ r.own /\ r.data = FieldsFor(r.event, c)
        BY <4>2, <4>3
      <4>5. c \in moved'
        BY <1>1
      <4> QED
        BY <1>1, <1>6, <3>1, <4>4, <4>5 DEF Entry, DataOf
    <3>2. CASE d # c
      <4>1. Entry(d, r)
        BY <1>4, <2>1, <3>2 DEF HooksInv, Entries
      <4> QED
        BY <1>1, <1>6, <3>2, <4>1 DEF Entry, DataOf
    <3> QED
      BY <3>1, <3>2
  <2>2. ASSUME NEW d \in Conns, NEW i \in DOMAIN send'[d], NEW j \in DOMAIN send'[d], i < j
        PROVE  send'[d][i].event < send'[d][j].event
    <3>1. \A k, l \in DOMAIN send[d] : k < l => send[d][k].event < send[d][l].event
      BY DEF HooksInv, Entries
    <3>2. CASE d = c
      BY <1>4, <2>2, <3>1, <3>2
    <3>3. CASE d # c
      BY <1>4, <2>2, <3>1, <3>3
    <3> QED
      BY <3>2, <3>3
  <2> QED
    BY <2>1, <2>2, EntriesNext
<1>10. \A d \in Conns : Queued(d)' = Queued(d) /\ Written(d)' = Written(d)
  <2>1. \A i \in 1 .. n : send'[c][i].event = send[c][i].event
    BY <1>4
  <2>2. \A x : (\E i \in DOMAIN send'[c] : x = send'[c][i].event)
                   <=> (\E i \in DOMAIN send[c] : x = send[c][i].event)
    BY <1>4, <2>1
  <2>3. Queued(c)' = Queued(c)
    BY <2>2 DEF Queued
  <2>4. \A d \in Conns \ {c} : Queued(d)' = Queued(d)
    BY <1>4 DEF Queued
  <2>5. \A d \in Conns : Written(d)' = Written(d)
    BY <1>1 DEF Written
  <2> QED
    BY <2>3, <2>4, <2>5
<1>11. ASSUME NEW d \in Conns PROVE Settled(d)'
  <2>1. Settled(d)
    BY DEF HooksInv
  <2> QED
    BY <1>1, <1>10, <2>1 DEF Settled
<1>12. OwnFieldsOnly' /\ RejectedNeverReceived' /\ SkippedOnlyIfFiltered'
  BY <1>1, <1>6 DEF HooksInv, OwnFieldsOnly, RejectedNeverReceived, SkippedOnlyIfFiltered
<1> QED
  BY <1>7, <1>8, <1>9, <1>11, <1>12 DEF HooksInv

LEMMA IdleKeeps == HooksInv /\ UNCHANGED vars => HooksInv'
<1> SUFFICES ASSUME HooksInv, UNCHANGED vars PROVE HooksInv'
  OBVIOUS
<1> USE DEF vars
<1>1. \A x : Accepted(x)' = Accepted(x) /\ \A d : FieldsFor(x, d)' = FieldsFor(x, d)
  BY MeaningKept
<1>2. TypeOK' /\ Shared'
  BY <1>1 DEF HooksInv, TypeOK, Shared
<1>3. Entries'
  BY <1>1 DEF HooksInv, Entries, Entry, DataOf
<1>4. OwnFieldsOnly' /\ RejectedNeverReceived' /\ SkippedOnlyIfFiltered'
  BY <1>1 DEF HooksInv, OwnFieldsOnly, RejectedNeverReceived, SkippedOnlyIfFiltered
<1>5. \A c \in Conns : Settled(c)'
  BY DEF HooksInv, Settled, Queued, Written
<1> QED
  BY <1>2, <1>3, <1>4, <1>5 DEF HooksInv

-----------------------------------------------------------------------------
\* The inductive invariant: shared objects carry no recipient's fields, queues hold the
\* events in their order and only what is meant for the connection or flagged, and no
\* event is in two places.
THEOREM HooksInvariant == Spec => []HooksInv
<1>1. HooksInv /\ [Next]_vars => HooksInv'
  BY StartKeeps, OfferKeeps, PumpKeeps, QueueMoves, IdleKeeps DEF Next
<1> QED
  BY <1>1, HooksInit, PTL DEF Spec

\* The state keeps its shape: no send queue holds more than it has room for, and the hub
\* offers an event only to connections of its index.
THEOREM HooksTypeCorrect == Spec => []TypeOK
<1>1. HooksInv => TypeOK
  BY DEF HooksInv
<1> QED
  BY <1>1, HooksInvariant, PTL

\* HookedWebSocketEvent: what a recipient reads from an event are the fields meant for
\* it, whatever the hooks added for the recipients before and after it.
THEOREM RecipientsOwnFields == Spec => []OwnFieldsOnly
<1>1. HooksInv => OwnFieldsOnly
  BY DEF HooksInv
<1> QED
  BY <1>1, HooksInvariant, PTL

\* A recipient that a filter turns away never receives the event while it stays on its
\* node, although the flag that says so is set on an object that other pumps read.
THEOREM RejectedAreNotDelivered == Spec => []RejectedNeverReceived
<1>1. HooksInv => RejectedNeverReceived
  BY DEF HooksInv
<1> QED
  BY <1>1, HooksInvariant, PTL

\* Every event offered to a connection is in exactly one place: its queue, written,
\* dropped as rejected, or the one that closed it.
THEOREM OffersAccounted == Spec => []Accounted
<1>1. HooksInv => Accounted
  BY SettledAccounts DEF HooksInv
<1> QED
  BY <1>1, HooksInvariant, PTL

\* A write pump drops an event only if a filter rejected it for some recipient.
THEOREM SkippedWasFiltered == Spec => []SkippedOnlyIfFiltered
<1>1. HooksInv => SkippedOnlyIfFiltered
  BY DEF HooksInv
<1> QED
  BY <1>1, HooksInvariant, PTL
=============================================================================
