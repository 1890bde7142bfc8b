--------------------------- MODULE JobServer_proofs ---------------------------
(***************************************************************************)
(* Proofs about the job server, for any nodes, jobs, types and batches:    *)
(* types and runners, then the statuses of jobs; then migrations, and the  *)
(* progress of jobs.                                                       *)
(*                                                                         *)
(* OneRunner is not inductive: that a job is not claimed twice follows     *)
(* from HeldNotWaiting, a job that a worker has is not pending, and that a *)
(* worker's job exists from Linked. Only ClaimJob makes a new holder, and  *)
(* only Stop, ResetJob and UpdateJobStatus make a held job pending: the    *)
(* lemmas about kinds of steps say what all the others have in common.     *)
(***************************************************************************)
EXTENDS JobServer, TLAPS

\* A worker that is busy has a job of its type that was created, and the syncs a request
\* is going to cancel are syncs.
Linked ==
    /\ \A w \in Workers :
          IF worker[w].stage \in {"off", "idle"} THEN worker[w].job = NoJob
          ELSE /\ worker[w].job \in Jobs
               /\ row[worker[w].job].type = TypeOf(w)
               /\ row[worker[w].job].status # "new"
    /\ \A n \in Nodes :
          /\ request[n].open => "sync" \in registered
          /\ \A j \in request[n].listed : row[j].type = "sync"

\* A job that a worker has does not wait for another one.
HeldNotWaiting ==
    \A w \in Workers, j \in Jobs : Holds(w, j) /\ j \notin requeued => row[j].status # "pending"

JobInv == TypeOK /\ Linked /\ OneRunner /\ HeldNotWaiting

-----------------------------------------------------------------------------
(* Kinds of steps *)

RowsStay ==
    \A j \in Jobs : row[j].status # "new" =>
        row'[j].type = row[j].type /\ row'[j].status # "new"

JobsStay ==
    \A w \in Workers :
        \/ worker'[w].stage \in {"off", "idle"} /\ worker'[w].job = NoJob
        \/ /\ worker'[w].stage \notin {"off", "idle"} /\ worker[w].stage \notin {"off", "idle"}
           /\ worker'[w].job = worker[w].job

ListsStay ==
    /\ UNCHANGED registered
    /\ \A n \in Nodes : /\ request'[n].open => request[n].open
                       /\ request'[n].listed \subseteq request[n].listed

NoNewHolder == \A w \in Workers, j \in Jobs : Holds(w, j)' => Holds(w, j)

NothingFreed ==
    \A j \in Jobs \ requeued' : row'[j].status = "pending" =>
        row[j].status = "pending" \/ \A w \in Workers : ~Holds(w, j)'

LEMMA KeepsLinked ==
    ASSUME TypeOK, Linked, RowsStay, JobsStay, ListsStay
    PROVE  Linked'
<1>1. ASSUME NEW n \in Nodes, NEW j \in request'[n].listed
      PROVE  row'[j].type = "sync"
  <2>1. j \in Jobs /\ row[j].type = "sync"
    BY <1>1 DEF ListsStay, Linked, TypeOK
  <2>2. row[j].status # "new"
    BY <2>1 DEF TypeOK, Row, Status, Final
  <2> QED
    BY <2>1, <2>2 DEF RowsStay
<1>2. ASSUME NEW w \in Workers
      PROVE  IF worker'[w].stage \in {"off", "idle"} THEN worker'[w].job = NoJob
             ELSE /\ worker'[w].job \in Jobs
                  /\ row'[worker'[w].job].type = TypeOf(w)
                  /\ row'[worker'[w].job].status # "new"
  BY <1>2 DEF JobsStay, Linked, RowsStay
<1> QED
  BY <1>1, <1>2 DEF Linked, ListsStay

LEMMA KeepsRunners ==
    ASSUME OneRunner, HeldNotWaiting, NoNewHolder, NothingFreed, requeued \subseteq requeued'
    PROVE  OneRunner' /\ HeldNotWaiting'
<1>1. OneRunner'
  BY DEF OneRunner, NoNewHolder
<1>2. HeldNotWaiting'
  BY DEF HeldNotWaiting, NoNewHolder, NothingFreed
<1> QED
  BY <1>1, <1>2

\* A worker that is busy.
LEMMA Busy ==
    ASSUME TypeOK, Linked, NEW w \in Workers, worker[w].stage \notin {"off", "idle"}
    PROVE  /\ worker[w].job \in Jobs /\ worker[w] \in WorkerState
           /\ row[worker[w].job] \in Row
           /\ row[worker[w].job].type = TypeOf(w) /\ row[worker[w].job].status # "new"
           /\ row[worker[w].job].done \in 0 .. Batches
BY BatchesAssumption DEF TypeOK, Linked, Row

LEMMA TroubleType ==
    ASSUME TypeOK, Trouble \/ UNCHANGED troubles
    PROVE  troubles' \in 0 .. MaxTroubles
BY BatchesAssumption DEF TypeOK, Trouble

LEMMA RowType ==
    ASSUME NEW r \in Row, r.status # "new", NEW s \in Status \ {"new"}, NEW d \in 0 .. Batches
    PROVE  /\ [r EXCEPT !.status = s] \in Row
           /\ [r EXCEPT !.done = d] \in Row
           /\ [r EXCEPT !.status = s, !.done = d] \in Row
BY DEF Row, Status, Final

LEMMA StatusStep ==
    ASSUME TypeOK, NEW j \in Jobs, row[j].status # "new", NEW x \in Status \ {"new"},
           row' = [row EXCEPT ![j].status = x]
    PROVE  row' \in [Jobs -> Row] /\ RowsStay
<1>1. row[j] \in Row
  BY DEF TypeOK
<1>2. [row[j] EXCEPT !.status = x] \in Row
  BY <1>1 DEF Row, Status, Final
<1>3. row' \in [Jobs -> Row]
  BY <1>2 DEF TypeOK
<1>4. RowsStay
  BY <1>1 DEF RowsStay, TypeOK, Row
<1> QED
  BY <1>3, <1>4

\* A store call on a row that exists, which keeps the type of the row.
LEMMA StoreStep ==
    ASSUME TypeOK, NEW j \in Jobs, NEW r \in Row, NEW ok \in BOOLEAN, Store(j, r, ok),
           r.status # "new", r.type = row[j].type
    PROVE  /\ row' \in [Jobs -> Row] /\ hurt' \subseteq Jobs
           /\ \A i \in Jobs \ {j} : row'[i] = row[i]
           /\ row'[j] \in {row[j], r}
           /\ RowsStay
<1>1. row' = row \/ row' = [row EXCEPT ![j] = r]
  BY DEF Store
<1>2. hurt' \subseteq Jobs
  BY DEF Store, TypeOK
<1> QED
  BY <1>1, <1>2 DEF TypeOK, RowsStay

\* A worker that goes on with its job, or without it.
LEMMA WorkerStep ==
    ASSUME TypeOK, Linked, NEW w \in Workers, NEW s \in WorkerState, Become(w, s),
           \/ s = Idle \/ s = Off
           \/ s.stage \in Holding /\ worker[w].stage \in Holding /\ s.job = worker[w].job
    PROVE  /\ worker' \in [Workers -> WorkerState]
           /\ \A v \in Workers : v # w => worker'[v] = worker[v]
           /\ worker'[w] = s
           /\ JobsStay /\ NoNewHolder
<1>1. worker' = [worker EXCEPT ![w] = s]
  BY DEF Become
<1>2. /\ worker' \in [Workers -> WorkerState]
      /\ \A v \in Workers : v # w => worker'[v] = worker[v]
      /\ worker'[w] = s
  BY <1>1 DEF TypeOK
<1>3. NoNewHolder
  BY <1>2 DEF NoNewHolder, Holds, Idle, Off, Holding
<1>4. JobsStay
  BY <1>2 DEF JobsStay, Idle, Off, Holding, Linked
<1> QED
  BY <1>2, <1>3, <1>4

LEMMA GotoStep ==
    ASSUME TypeOK, Linked, NEW w \in Workers, worker[w].stage \in Holding,
           NEW stage \in Holding \cup {"idle"}, Goto(w, stage)
    PROVE  /\ worker' \in [Workers -> WorkerState]
           /\ \A v \in Workers : v # w => worker'[v] = worker[v]
           /\ worker'[w] = IF stage = "idle" THEN Idle ELSE [worker[w] EXCEPT !.stage = stage]
           /\ JobsStay /\ NoNewHolder
<1> DEFINE s == IF stage = "idle" THEN Idle ELSE [worker[w] EXCEPT !.stage = stage]
<1>1. worker[w] \in WorkerState
  BY DEF TypeOK
<1>2. s \in WorkerState /\ Become(w, s)
  BY <1>1, BatchesAssumption DEF WorkerState, Idle, Goto, Holding
<1>3. s = Idle \/ (s.stage \in Holding /\ s.job = worker[w].job)
  BY <1>1 DEF WorkerState, Holding
<1> QED
  BY <1>2, <1>3, WorkerStep

\* A worker that is left alone.
LEMMA NoWorkerStep ==
    ASSUME Linked, UNCHANGED worker
    PROVE  JobsStay /\ NoNewHolder
BY DEF JobsStay, NoNewHolder, Linked, Holds

LEMMA NoRowStep ==
    ASSUME UNCHANGED row
    PROVE  RowsStay /\ NothingFreed
BY DEF RowsStay, NothingFreed

\* All the kinds together.
LEMMA Keeps ==
    ASSUME JobInv, TypeOK', RowsStay, JobsStay, ListsStay, NoNewHolder, NothingFreed,
           requeued \subseteq requeued'
    PROVE  JobInv'
BY KeepsLinked, KeepsRunners DEF JobInv

-----------------------------------------------------------------------------
(* Creating jobs *)

LEMMA AddKeeps ==
    ASSUME JobInv, NEW j \in Jobs, NEW t \in Types, Add(j, t), ListsStay,
           request' \in [Nodes -> [open : BOOLEAN, listed : SUBSET Jobs]]
    PROVE  JobInv'
<1> USE DEF Add, rest
<1>1. TypeOK'
  BY BatchesAssumption DEF JobInv, TypeOK, Row, Status
<1>2. RowsStay
  BY DEF RowsStay, JobInv, TypeOK
<1>3. NothingFreed
  <2>1. ASSUME NEW w \in Workers, Holds(w, j)'  PROVE FALSE
    BY <2>1 DEF Holds, Holding, JobInv, Linked
  <2> QED
    BY <2>1 DEF NothingFreed, JobInv, TypeOK
<1> QED
  BY <1>1, <1>2, <1>3, NoWorkerStep, Keeps DEF JobInv

LEMMA CreateKeeps ==
    ASSUME JobInv, Create
    PROVE  JobInv'
<1>1. ASSUME NEW j \in Jobs, NEW t \in Types, CreateJob(j, t) \/ CreateJobOnce(j, t)
      PROVE  JobInv'
  BY <1>1, AddKeeps DEF CreateJob, CreateJobOnce, Add, rest, ListsStay, JobInv, TypeOK
<1>2. ASSUME NEW n \in Nodes, SyncList(n)
      PROVE  JobInv'
  <2> USE <1>2 DEF SyncList, rest
  <2>1. troubles' \in 0 .. MaxTroubles
    BY TroubleType DEF JobInv, TroubleIf
  <2>2. PICK ok \in BOOLEAN :
           request' = [request EXCEPT ![n] =
              [open |-> TRUE,
               listed |-> IF ok THEN {j \in Jobs : row[j].type = "sync" /\
                                          row[j].status \in {"pending", "in_progress"}}
                          ELSE {}]]
    OBVIOUS
  <2>3. TypeOK'
    BY <2>1, <2>2 DEF JobInv, TypeOK
  <2>4. Linked'
    BY <2>2 DEF JobInv, TypeOK, Linked
  <2>5. OneRunner' /\ HeldNotWaiting'
    BY NoWorkerStep, NoRowStep, KeepsRunners DEF JobInv
  <2> QED
    BY <2>3, <2>4, <2>5 DEF JobInv
<1>3. ASSUME NEW n \in Nodes, NEW j \in Jobs, SyncCancel(n, j)
      PROVE  JobInv'
  <2> USE <1>3 DEF SyncCancel, rest
  <2>1. row[j] \in Row /\ row[j].type = "sync"
    BY DEF JobInv, TypeOK, Linked
  <2>2. /\ WithStatus(j, "canceled") \in Row
        /\ WithStatus(j, "canceled").status # "new"
        /\ WithStatus(j, "canceled").type = row[j].type
        /\ \/ WithStatus(j, "canceled").status # "pending"
           \/ WithStatus(j, "canceled") = row[j]
    BY <2>1 DEF WithStatus, Row, Status, Final, Exists
  <2>3. PICK ok \in BOOLEAN : TroubleIf(~ok) /\ Store(j, WithStatus(j, "canceled"), ok)
    OBVIOUS
  <2>4. /\ row' \in [Jobs -> Row] /\ hurt' \subseteq Jobs
        /\ \A i \in Jobs \ {j} : row'[i] = row[i]
        /\ row'[j] \in {row[j], WithStatus(j, "canceled")}
        /\ RowsStay
    BY <2>2, <2>3, StoreStep DEF JobInv
  <2>5. troubles' \in 0 .. MaxTroubles
    BY <2>3, TroubleType DEF JobInv, TroubleIf
  <2>6. TypeOK'
    BY <2>4, <2>5 DEF JobInv, TypeOK
  <2>7. ListsStay
    BY DEF ListsStay, JobInv, TypeOK
  <2>8. NothingFreed
    BY <2>2, <2>4 DEF NothingFreed
  <2> QED
    BY <2>4, <2>6, <2>7, <2>8, NoWorkerStep, Keeps DEF JobInv
<1>4. ASSUME NEW n \in Nodes, NEW j \in Jobs, SyncCreate(n, j)
      PROVE  JobInv'
  <2>1. ListsStay /\ request' \in [Nodes -> [open : BOOLEAN, listed : SUBSET Jobs]]
    BY <1>4 DEF SyncCreate, Add, rest, NoRequest, ListsStay, JobInv, TypeOK
  <2>2. "sync" \in Types
    BY <1>4, TypesAssumption DEF SyncCreate, JobInv, TypeOK, Linked
  <2> QED
    BY <1>4, <2>1, <2>2, AddKeeps DEF SyncCreate
<1> QED
  BY <1>1, <1>2, <1>3, <1>4 DEF Create

-----------------------------------------------------------------------------
(* Administrators and the cleanup *)

LEMMA ManageKeeps ==
    ASSUME JobInv, Manage
    PROVE  JobInv'
<1> USE DEF rest
<1>1. PICK j \in Jobs : \/ RequestCancellation(j)
                        \/ \E s \in {"pending", "canceled"} : UpdateJobStatus(j, s)
                        \/ Cleanup(j)
  BY DEF Manage
<1>2. row[j] \in Row
  BY DEF JobInv, TypeOK
<1>3. CASE RequestCancellation(j)
  <2> USE <1>3 DEF RequestCancellation
  <2>1. row[j].status # "new"
    OBVIOUS
  <2>2. row' \in [Jobs -> Row] /\ RowsStay
    <3>1. /\ "canceled" \in Status \ {"new"}
          /\ "cancel_requested" \in Status \ {"new"}
      BY DEF Status, Final
    <3>2. \/ row' = [row EXCEPT ![j].status = "canceled"]
          \/ row' = [row EXCEPT ![j].status = "cancel_requested"]
      OBVIOUS
    <3> QED
      BY <2>1, <3>1, <3>2, StatusStep DEF JobInv
  <2>3. TypeOK'
    BY <2>2 DEF JobInv, TypeOK
  <2>4. NothingFreed /\ ListsStay
    BY DEF NothingFreed, ListsStay, JobInv, TypeOK
  <2> QED
    BY <2>2, <2>3, <2>4, NoWorkerStep, Keeps DEF JobInv
<1>4. CASE \E s \in {"pending", "canceled"} : UpdateJobStatus(j, s)
  <2>1. PICK s \in {"pending", "canceled"} : UpdateJobStatus(j, s)
    BY <1>4
  <2> USE <2>1 DEF UpdateJobStatus
  <2>2. row[j].status # "new"
    BY DEF Exists
  <2>3. s \in Status \ {"new"}
    BY DEF Status, Final
  <2>4. row' \in [Jobs -> Row] /\ RowsStay
    BY <2>2, <2>3, StatusStep DEF JobInv
  <2>5. TypeOK'
    BY <2>4, TroubleType DEF JobInv, TypeOK
  <2>6. NothingFreed /\ ListsStay
    BY DEF NothingFreed, ListsStay, JobInv, TypeOK
  <2> QED
    BY <2>4, <2>5, <2>6, NoWorkerStep, Keeps DEF JobInv
<1>5. CASE Cleanup(j)
  <2> USE <1>5 DEF Cleanup
  <2>1. row[j].status # "new"
    BY DEF Exists
  <2>2. "deleted" \in Status \ {"new"}
    BY DEF Status, Final
  <2>3. row' \in [Jobs -> Row] /\ RowsStay
    BY <2>1, <2>2, StatusStep DEF JobInv
  <2>4. TypeOK'
    BY <2>3, TroubleType DEF JobInv, TypeOK
  <2>5. NothingFreed /\ ListsStay
    BY DEF NothingFreed, ListsStay, JobInv, TypeOK
  <2> QED
    BY <2>3, <2>4, <2>5, NoWorkerStep, Keeps DEF JobInv
<1> QED
  BY <1>1, <1>3, <1>4, <1>5

-----------------------------------------------------------------------------
(* The workers *)

LEMMA PollKeeps ==
    ASSUME JobInv, NEW w \in Workers, NEW j \in Jobs, PollAndNotify(w, j)
    PROVE  JobInv'
<1> DEFINE s == [stage |-> "claiming", job |-> j, seen |-> row[j].done, cursor |-> 0]
<1> USE DEF PollAndNotify, At, rest
<1>1. row[j] \in Row /\ row[j].status = "pending" /\ row[j].type = TypeOf(w)
  BY DEF JobInv, TypeOK
<1>2. s \in WorkerState
  BY <1>1, BatchesAssumption DEF WorkerState, Row
<1>3. worker' = [worker EXCEPT ![w] = s]
  BY DEF Become
<1>4. TypeOK'
  BY <1>2, <1>3 DEF JobInv, TypeOK
<1>5. Linked'
  BY <1>1, <1>3 DEF JobInv, TypeOK, Linked
<1>6. NoNewHolder
  BY <1>3 DEF NoNewHolder, Holds, Holding, JobInv, TypeOK
<1> QED
  BY <1>4, <1>5, <1>6, NoRowStep, KeepsRunners DEF JobInv

LEMMA ClaimJobKeeps ==
    ASSUME JobInv, NEW w \in Workers, ClaimJob(w)
    PROVE  JobInv'
<1> DEFINE j == worker[w].job
           r == [row[j] EXCEPT !.status = "in_progress"]
           s == [worker[w] EXCEPT !.stage = "running", !.cursor = row[j].done]
<1>1. /\ worker[w].stage = "claiming"
      /\ j \in Jobs /\ worker[w] \in WorkerState /\ row[j] \in Row
      /\ row[j].status # "new" /\ row[j].done \in 0 .. Batches
  BY Busy DEF ClaimJob, At, JobInv
<1>2. PICK ok \in BOOLEAN :
         /\ TroubleIf(~ok)
         /\ Store(j, IfIn(j, {"pending"}, r), ok)
         /\ IF ok /\ row[j].status = "pending" THEN Become(w, s) ELSE Become(w, Idle)
  BY DEF ClaimJob
<1>3. UNCHANGED <<request, ran, rest>>
  BY DEF ClaimJob
<1>4. r \in Row /\ r.status = "in_progress" /\ r.type = row[j].type
  BY <1>1, RowType DEF Row, Status
<1>5. /\ row' \in [Jobs -> Row] /\ hurt' \subseteq Jobs
      /\ \A i \in Jobs \ {j} : row'[i] = row[i]
      /\ row'[j] \in {row[j], IfIn(j, {"pending"}, r)}
      /\ RowsStay
  <2>1. /\ IfIn(j, {"pending"}, r) \in Row
        /\ IfIn(j, {"pending"}, r).status # "new"
        /\ IfIn(j, {"pending"}, r).type = row[j].type
    BY <1>1, <1>4 DEF IfIn
  <2> QED
    BY <1>1, <1>2, <2>1, StoreStep DEF JobInv
<1>6. NothingFreed
  BY <1>4, <1>5 DEF NothingFreed, IfIn
<1>7. troubles' \in 0 .. MaxTroubles
  BY <1>2, TroubleType DEF JobInv, TroubleIf
<1>8. ListsStay
  BY <1>3 DEF ListsStay, rest
<1>9. CASE ok /\ row[j].status = "pending"
  <2>1. s \in WorkerState /\ worker' = [worker EXCEPT ![w] = s]
    BY <1>1, <1>2, <1>9 DEF WorkerState, Holding, Become
  <2>2. TypeOK'
    BY <1>3, <1>5, <1>7, <2>1 DEF JobInv, TypeOK, rest
  <2>3. JobsStay
    BY <1>1, <2>1 DEF JobsStay, JobInv, TypeOK, Linked, WorkerState
  <2>4. row'[j].status = "in_progress"
    BY <1>1, <1>2, <1>4, <1>9 DEF Store, IfIn, JobInv, TypeOK
  <2>5. ASSUME NEW v \in Workers, NEW i \in Jobs \ requeued, Holds(v, i)'
        PROVE  IF v = w THEN i = j ELSE i # j /\ Holds(v, i)
    <3>1. CASE v = w
      BY <1>1, <2>1, <2>5, <3>1 DEF Holds, JobInv, TypeOK, WorkerState
    <3>2. CASE v # w
      <4>1. Holds(v, i)
        BY <2>1, <2>5, <3>2 DEF Holds, JobInv, TypeOK
      <4> QED
        BY <1>9, <3>2, <4>1 DEF JobInv, HeldNotWaiting
    <3> QED
      BY <3>1, <3>2
  <2>6. OneRunner' /\ HeldNotWaiting'
    BY <1>3, <1>5, <2>4, <2>5 DEF OneRunner, HeldNotWaiting, JobInv, rest
  <2> QED
    BY <1>5, <1>8, <2>2, <2>3, <2>6, KeepsLinked DEF JobInv
<1>10. CASE ~(ok /\ row[j].status = "pending")
  <2>1. Idle \in WorkerState
    BY BatchesAssumption DEF Idle, WorkerState
  <2>2. worker' \in [Workers -> WorkerState] /\ JobsStay /\ NoNewHolder
    BY <1>2, <1>10, <2>1, WorkerStep DEF JobInv
  <2>3. TypeOK'
    BY <1>3, <1>5, <1>7, <2>2 DEF JobInv, TypeOK, rest
  <2> QED
    BY <1>3, <1>5, <1>6, <1>8, <2>2, <2>3, Keeps DEF rest
<1> QED
  BY <1>9, <1>10

\* Steps of a worker that leave the rows alone.
LEMMA QuietKeeps ==
    ASSUME JobInv, NEW w \in Workers, worker' \in [Workers -> WorkerState], JobsStay, NoNewHolder,
           ran' \in [Jobs -> SUBSET AllBatches], UNCHANGED <<row, request, rest, hurt, troubles>>
    PROVE  JobInv'
<1>1. TypeOK'
  BY DEF JobInv, TypeOK, rest
<1>2. ListsStay
  BY DEF ListsStay, rest
<1> QED
  BY <1>1, <1>2, NoRowStep, Keeps DEF rest

LEMMA RunBatchKeeps ==
    ASSUME JobInv, NEW w \in Workers, RunBatch(w)
    PROVE  JobInv'
<1> DEFINE s == [worker[w] EXCEPT !.stage = "saving", !.cursor = @ + 1]
<1> USE DEF RunBatch
<1>1. /\ worker[w].job \in Jobs /\ worker[w] \in WorkerState
      /\ worker[w].stage = "running" /\ worker[w].cursor < Batches
  BY Busy DEF JobInv, At
<1>2. worker[w].cursor + 1 \in AllBatches /\ s \in WorkerState
  <2>1. worker[w].cursor \in 0 .. Batches
    BY <1>1 DEF WorkerState
  <2>2. worker[w].cursor + 1 \in AllBatches /\ worker[w].cursor + 1 \in 0 .. Batches
    BY <1>1, <2>1, BatchesAssumption DEF AllBatches
  <2> QED
    BY <1>1, <2>2 DEF WorkerState, Holding
<1>3. worker' \in [Workers -> WorkerState] /\ JobsStay /\ NoNewHolder
  BY <1>1, <1>2, WorkerStep DEF JobInv, Holding, WorkerState
<1>4. ran' \in [Jobs -> SUBSET AllBatches]
  BY <1>1, <1>2 DEF JobInv, TypeOK
<1> QED
  BY <1>3, <1>4, QuietKeeps

LEMMA OtherQuietKeeps ==
    ASSUME JobInv, NEW w \in Workers,
           Execute(w) \/ NoBatchLeft(w) \/ ExecutionFails(w) \/ NoticeCancellation(w)
    PROVE  JobInv'
<1> USE DEF Execute, NoBatchLeft, ExecutionFails, NoticeCancellation
<1>1. worker[w].stage = "running" /\ worker[w].job \in Jobs
  BY Busy DEF JobInv, At
<1>2. PICK stage \in Holding : Goto(w, stage)
  BY DEF Holding
<1>3. worker' \in [Workers -> WorkerState] /\ JobsStay /\ NoNewHolder
  BY <1>1, <1>2, GotoStep DEF JobInv, Holding
<1>4. ran' \in [Jobs -> SUBSET AllBatches]
  BY <1>1 DEF JobInv, TypeOK
<1> QED
  BY <1>3, <1>4, QuietKeeps

LEMMA RunKeeps ==
    ASSUME JobInv, NEW w \in Workers, Run(w)
    PROVE  JobInv'
<1> USE DEF Run
<1>1. Idle \in WorkerState
  BY BatchesAssumption DEF Idle, WorkerState
<1>2. worker' \in [Workers -> WorkerState] /\ JobsStay /\ NoNewHolder
  BY <1>1, WorkerStep DEF JobInv
<1> QED
  BY <1>2, QuietKeeps DEF JobInv, TypeOK

\* Store calls of a worker about its job: a row that becomes pending is given up.
LEMMA OwnStoreKeeps ==
    ASSUME JobInv, NEW w \in Workers, worker[w].stage \in Holding,
           NEW r \in Row, r.status # "new", r.type = row[worker[w].job].type,
           NEW ok \in BOOLEAN, Store(worker[w].job, r, ok),
           worker' \in [Workers -> WorkerState], JobsStay, NoNewHolder,
           r.status = "pending" => \/ row[worker[w].job].status = "pending"
                                   \/ worker'[w].stage \notin Holding,
           ran' \in [Jobs -> SUBSET AllBatches], Trouble \/ UNCHANGED troubles,
           UNCHANGED <<request, rest>>
    PROVE  JobInv'
<1> DEFINE j == worker[w].job
<1>1. j \in Jobs
  BY Busy DEF JobInv, Holding
<1>2. /\ row' \in [Jobs -> Row] /\ hurt' \subseteq Jobs
      /\ \A i \in Jobs \ {j} : row'[i] = row[i]
      /\ row'[j] \in {row[j], r}
      /\ RowsStay
  BY <1>1, StoreStep DEF JobInv
<1>3. TypeOK'
  BY <1>2, TroubleType DEF JobInv, TypeOK, rest
<1>4. ListsStay
  BY DEF ListsStay, rest
<1>5. NothingFreed
  <2>1. ASSUME NEW i \in Jobs \ requeued', row'[i].status = "pending",
               row[i].status # "pending", NEW v \in Workers, Holds(v, i)'
        PROVE  FALSE
    <3>1. i = j /\ r.status = "pending" /\ row[j].status # "pending"
      BY <1>2, <2>1
    <3>2. Holds(v, j) /\ Holds(w, j)
      BY <2>1, <3>1 DEF NoNewHolder, Holds
    <3>3. v = w
      BY <2>1, <3>1, <3>2 DEF JobInv, OneRunner, rest
    <3>4. worker'[w].stage \in Holding
      BY <2>1, <3>3 DEF Holds
    <3> QED
      BY <3>1, <3>4
  <2> QED
    BY <2>1 DEF NothingFreed
<1> QED
  BY <1>2, <1>3, <1>4, <1>5, Keeps DEF rest

LEMMA SetJobProgressKeeps ==
    ASSUME JobInv, NEW w \in Workers, SetJobProgress(w)
    PROVE  JobInv'
<1> DEFINE j == worker[w].job
           r == [row[j] EXCEPT !.done = worker[w].cursor]
           next(ok) == IF At(w, "finishing") THEN IF ok THEN "succeeding" ELSE "doubting"
                         ELSE IF ok \/ TypeOf(w) = "migration" THEN "running" ELSE "failing"
<1>1. worker[w].stage \in {"saving", "finishing"}
  BY DEF SetJobProgress, At
<1>2. /\ j \in Jobs /\ worker[w] \in WorkerState /\ worker[w].stage \in Holding
      /\ row[j] \in Row /\ row[j].status # "new"
  BY <1>1, Busy DEF JobInv, Holding
<1>3. PICK ok \in BOOLEAN :
         /\ TroubleIf(~ok)
         /\ Store(j, IfIn(j, {"in_progress"}, r), ok)
         /\ Goto(w, next(ok))
  BY DEF SetJobProgress
<1>4. UNCHANGED <<request, ran, rest>>
  BY DEF SetJobProgress
<1>5. r \in Row /\ r.status = row[j].status /\ r.type = row[j].type
  <2>1. worker[w].cursor \in 0 .. Batches
    BY <1>2 DEF WorkerState
  <2> QED
    BY <1>2, <2>1 DEF Row
<1>6. /\ IfIn(j, {"in_progress"}, r) \in Row
      /\ IfIn(j, {"in_progress"}, r).status = row[j].status
      /\ IfIn(j, {"in_progress"}, r).type = row[j].type
  BY <1>2, <1>5 DEF IfIn
<1>7. next(ok) \in Holding
  BY DEF Holding
<1>8. worker' \in [Workers -> WorkerState] /\ JobsStay /\ NoNewHolder
  BY <1>2, <1>3, <1>7, GotoStep DEF JobInv
<1> QED
  BY <1>2, <1>3, <1>4, <1>6, <1>8, OwnStoreKeeps DEF TroubleIf, JobInv, TypeOK

LEMMA SetJobStatusKeeps ==
    ASSUME JobInv, NEW w \in Workers, NEW x \in {"success", "canceled"},
           worker[w].stage \in Holding, NEW stage \in Holding \cup {"idle"}, Goto(w, stage),
           NEW ok \in BOOLEAN, Store(worker[w].job, WithStatus(worker[w].job, x), ok),
           Trouble \/ UNCHANGED troubles, UNCHANGED <<request, ran, rest>>
    PROVE  JobInv'
<1> DEFINE j == worker[w].job
           r == WithStatus(j, x)
<1>1. /\ j \in Jobs /\ row[j] \in Row /\ row[j].status # "new"
  BY Busy DEF JobInv, Holding
<1>2. /\ r \in Row /\ r.status # "new" /\ r.type = row[j].type
      /\ r.status = "pending" => row[j].status = "pending"
  <2>1. x \in Status \ {"new"} /\ x # "pending"
    BY DEF Status, Final
  <2>2. [row[j] EXCEPT !.status = x] \in Row
    BY <1>1, <2>1 DEF Row
  <2> QED
    BY <1>1, <2>1, <2>2 DEF WithStatus, Row
<1>3. worker' \in [Workers -> WorkerState] /\ JobsStay /\ NoNewHolder
  BY GotoStep DEF JobInv
<1> QED
  BY <1>1, <1>2, <1>3, OwnStoreKeeps DEF JobInv, TypeOK

LEMMA SetJobSuccessKeeps ==
    ASSUME JobInv, NEW w \in Workers, SetJobSuccess(w)
    PROVE  JobInv'
<1>1. PICK ok \in BOOLEAN :
         /\ TroubleIf(~ok)
         /\ Store(worker[w].job, WithStatus(worker[w].job, "success"), ok)
         /\ Goto(w, IF ok /\ Exists(worker[w].job) THEN "idle" ELSE "failing")
  BY DEF SetJobSuccess
<1>2. worker[w].stage \in Holding /\ UNCHANGED <<request, ran, rest>>
  BY DEF SetJobSuccess, At, Holding
<1>3. (IF ok /\ Exists(worker[w].job) THEN "idle" ELSE "failing") \in Holding \cup {"idle"}
  BY DEF Holding
<1> QED
  BY <1>1, <1>2, <1>3, SetJobStatusKeeps DEF TroubleIf

LEMMA SetJobCanceledKeeps ==
    ASSUME JobInv, NEW w \in Workers, SetJobCanceled(w)
    PROVE  JobInv'
<1>1. PICK ok \in BOOLEAN :
         TroubleIf(~ok) /\ Store(worker[w].job, WithStatus(worker[w].job, "canceled"), ok)
  BY DEF SetJobCanceled
<1>2. /\ worker[w].stage \in Holding /\ UNCHANGED <<request, ran, rest>>
      /\ Goto(w, "idle")
  BY DEF SetJobCanceled, At, Holding
<1> QED
  BY <1>1, <1>2, SetJobStatusKeeps DEF TroubleIf

\* The row that a failing job leaves.
LEMMA FailedRow ==
    ASSUME JobInv, NEW j \in Jobs, row[j].status # "new", NEW d \in 0 .. Batches
    PROVE  /\ Failed(j, d) \in Row /\ Failed(j, d).status # "new"
           /\ Failed(j, d).type = row[j].type
           /\ Failed(j, d).status = "pending" => row[j].status = "pending"
<1>1. row[j] \in Row
  BY DEF JobInv, TypeOK
<1>2. [row[j] EXCEPT !.status = "error", !.done = d] \in Row
  BY <1>1, RowType DEF Status, Final
<1> QED
  BY <1>1, <1>2 DEF Failed, IfIn, Row

LEMMA SetJobErrorKeeps ==
    ASSUME JobInv, NEW w \in Workers, SetJobError(w)
    PROVE  JobInv'
<1>1. PICK ok \in BOOLEAN :
         /\ TroubleIf(~ok)
         /\ Store(worker[w].job, Failed(worker[w].job, worker[w].cursor), ok)
  BY DEF SetJobError
<1>2. worker[w].stage \in Holding /\ UNCHANGED <<request, ran, rest>>
  BY DEF SetJobError, At, Holding
<1>3. PICK stage \in Holding \cup {"idle"} : Goto(w, stage)
  BY DEF SetJobError, Holding
<1>4. /\ worker[w].job \in Jobs /\ row[worker[w].job].status # "new"
      /\ worker[w].cursor \in 0 .. Batches
  BY <1>2, Busy DEF JobInv, Holding, WorkerState
<1>5. worker' \in [Workers -> WorkerState] /\ JobsStay /\ NoNewHolder
  BY <1>2, <1>3, GotoStep DEF JobInv
<1> QED
  BY <1>1, <1>2, <1>4, <1>5, FailedRow, OwnStoreKeeps DEF TroubleIf, JobInv, TypeOK

LEMMA ResetJobKeeps ==
    ASSUME JobInv, NEW w \in Workers, ResetJob(w)
    PROVE  JobInv'
<1> DEFINE j == worker[w].job
           reset == [row[j] EXCEPT !.status = "pending", !.done = 0]
           r == IfIn(j, {"in_progress"}, reset)
<1>1. /\ worker[w].stage = "running" /\ Trouble /\ Goto(w, "idle")
      /\ UNCHANGED <<request, rest>>
      /\ ran' = [ran EXCEPT ![j] = IF row'[j] = row[j] THEN @ ELSE {}]
  BY DEF ResetJob, At
<1>2. PICK ok \in BOOLEAN : Store(j, r, ok)
  BY DEF ResetJob
<1>3. /\ j \in Jobs /\ row[j] \in Row /\ row[j].status # "new"
      /\ worker[w].stage \in Holding
  BY <1>1, Busy DEF JobInv, Holding
<1>4. r \in Row /\ r.status # "new" /\ r.type = row[j].type
  <2>1. 0 \in 0 .. Batches /\ "pending" \in Status \ {"new"}
    BY BatchesAssumption DEF Status
  <2>2. reset \in Row
    BY <1>3, <2>1 DEF Row
  <2> QED
    BY <1>3, <2>1, <2>2 DEF IfIn, Row
<1>5. /\ worker' \in [Workers -> WorkerState] /\ JobsStay /\ NoNewHolder
      /\ worker'[w] = Idle
  BY <1>1, <1>3, GotoStep DEF JobInv
<1>6. worker'[w].stage \notin Holding
  BY <1>5 DEF Idle, Holding
<1>7. ran' \in [Jobs -> SUBSET AllBatches]
  BY <1>1 DEF JobInv, TypeOK
<1> QED
  BY <1>1, <1>2, <1>3, <1>4, <1>5, <1>6, <1>7, OwnStoreKeeps

LEMMA StopKeeps ==
    ASSUME JobInv, NEW w \in Workers, Stop(w)
    PROVE  JobInv'
<1> DEFINE j == worker[w].job
           r == WithStatus(j, IF TypeOf(w) = "migration" THEN "pending" ELSE "canceled")
<1>1. Trouble /\ Become(w, Off) /\ UNCHANGED <<request, ran, rest>>
  BY DEF Stop
<1>2. Off \in WorkerState
  BY BatchesAssumption DEF Off, Idle, WorkerState
<1>3. /\ worker' \in [Workers -> WorkerState] /\ JobsStay /\ NoNewHolder
      /\ worker'[w] = Off
  BY <1>1, <1>2, WorkerStep DEF JobInv
<1>4. CASE At(w, "idle") /\ UNCHANGED <<row, hurt>>
  <2>1. TypeOK'
    BY <1>1, <1>3, <1>4, TroubleType DEF JobInv, TypeOK, rest
  <2>2. ListsStay
    BY <1>1 DEF ListsStay, rest
  <2> QED
    BY <1>1, <1>3, <1>4, <2>1, <2>2, NoRowStep, Keeps DEF rest
<1>5. CASE At(w, "running") /\ \E ok \in BOOLEAN : Store(j, r, ok)
  <2>1. PICK ok \in BOOLEAN : Store(j, r, ok)
    BY <1>5
  <2>2. /\ j \in Jobs /\ row[j] \in Row /\ row[j].status # "new"
        /\ worker[w].stage \in Holding
    BY <1>5, Busy DEF JobInv, Holding, At
  <2>3. r \in Row /\ r.status # "new" /\ r.type = row[j].type
    <3>1. {"pending", "canceled"} \subseteq Status \ {"new"}
      BY DEF Status, Final
    <3> QED
      BY <2>2, <3>1 DEF WithStatus, Row
  <2>4. worker'[w].stage \notin Holding
    BY <1>3 DEF Off, Idle, Holding
  <2> QED
    BY <1>1, <1>3, <2>1, <2>2, <2>3, <2>4, OwnStoreKeeps DEF JobInv, TypeOK
<1> QED
  BY <1>4, <1>5 DEF Stop

LEMMA RestartedStep ==
    ASSUME JobInv, NEW n \in Nodes, Restarted(n)
    PROVE  /\ worker' \in [Workers -> WorkerState] /\ JobsStay /\ NoNewHolder /\ ListsStay
           /\ request' \in [Nodes -> [open : BOOLEAN, listed : SUBSET Jobs]]
           /\ orphans' \subseteq Jobs
           /\ UNCHANGED <<registered, ran, requeued, overruled>>
<1> USE DEF Restarted
<1>1. worker' = [w \in Workers |-> IF w[1] = n THEN Idle ELSE worker[w]]
  OBVIOUS
<1>2. worker' \in [Workers -> WorkerState]
  <2>1. Idle \in WorkerState
    BY BatchesAssumption DEF Idle, WorkerState
  <2> QED
    BY <1>1, <2>1 DEF JobInv, TypeOK
<1>3. JobsStay
  BY <1>1 DEF JobsStay, Idle, JobInv, Linked
<1>4. NoNewHolder
  BY <1>1 DEF NoNewHolder, Holds, Holding, Idle
<1>5. ListsStay /\ request' \in [Nodes -> [open : BOOLEAN, listed : SUBSET Jobs]]
  BY DEF ListsStay, NoRequest, JobInv, TypeOK
<1>6. orphans' \subseteq Jobs
  BY DEF JobInv, TypeOK
<1> QED
  BY <1>2, <1>3, <1>4, <1>5, <1>6

LEMMA CrashKeeps ==
    ASSUME JobInv, NEW n \in Nodes, Crash(n)
    PROVE  JobInv'
<1>1. Trouble /\ Restarted(n) /\ UNCHANGED <<row, hurt>>
  BY DEF Crash
<1>2. TypeOK'
  BY <1>1, RestartedStep, TroubleType DEF JobInv, TypeOK
<1> QED
  BY <1>1, <1>2, RestartedStep, NoRowStep, Keeps

LEMMA HandleJobPanicKeeps ==
    ASSUME JobInv, NEW w \in Workers, HandleJobPanic(w)
    PROVE  JobInv'
<1> DEFINE j == worker[w].job
           r == Failed(j, worker[w].seen)
<1>1. /\ Trouble /\ Restarted(w[1]) /\ w[1] \in Nodes
      /\ worker[w].stage = "running"
  BY DEF HandleJobPanic, At, Workers
<1>2. PICK ok \in BOOLEAN : Store(j, r, ok)
  BY DEF HandleJobPanic
<1>3. /\ j \in Jobs /\ row[j].status # "new" /\ worker[w].seen \in 0 .. Batches
  BY <1>1, Busy DEF JobInv, WorkerState
<1>4. /\ r \in Row /\ r.status # "new" /\ r.type = row[j].type
      /\ r.status = "pending" => row[j].status = "pending"
  BY <1>3, FailedRow
<1>5. /\ row' \in [Jobs -> Row] /\ hurt' \subseteq Jobs
      /\ \A i \in Jobs \ {j} : row'[i] = row[i]
      /\ row'[j] \in {row[j], r}
      /\ RowsStay
  BY <1>2, <1>3, <1>4, StoreStep DEF JobInv
<1>6. NothingFreed
  BY <1>3, <1>4, <1>5 DEF NothingFreed
<1>7. TypeOK'
  BY <1>1, <1>5, RestartedStep, TroubleType DEF JobInv, TypeOK
<1> QED
  BY <1>1, <1>5, <1>6, <1>7, RestartedStep, Keeps

-----------------------------------------------------------------------------
(* The theorems *)

LEMMA InitInv ==
    Init => JobInv
<1> SUFFICES ASSUME Init PROVE JobInv
  OBVIOUS
<1> USE DEF Init
<1>1. TypeOK
  BY BatchesAssumption DEF TypeOK, Row, Blank, WorkerState, Idle, NoRequest
<1>2. Linked
  BY DEF Linked, Idle, NoRequest
<1>3. OneRunner /\ HeldNotWaiting
  BY DEF OneRunner, HeldNotWaiting, Holds, Holding, Idle
<1> QED
  BY <1>1, <1>2, <1>3 DEF JobInv

LEMMA StepInv ==
    JobInv /\ [Next]_vars => JobInv'
<1> SUFFICES ASSUME JobInv, [Next]_vars PROVE JobInv'
  OBVIOUS
<1>1. CASE Create
  BY <1>1, CreateKeeps
<1>2. CASE Manage
  BY <1>2, ManageKeeps
<1>3. ASSUME NEW w \in Workers, Proceed(w)
      PROVE  JobInv'
  BY <1>3, ClaimJobKeeps, OtherQuietKeeps, RunBatchKeeps, SetJobProgressKeeps,
     SetJobSuccessKeeps, SetJobErrorKeeps, SetJobCanceledKeeps DEF Proceed
<1>4. ASSUME NEW w \in Workers, Interrupt(w)
      PROVE  JobInv'
  BY <1>4, OtherQuietKeeps, ResetJobKeeps, StopKeeps, HandleJobPanicKeeps DEF Interrupt
<1>5. ASSUME NEW w \in Workers, Run(w) \/ \E j \in Jobs : PollAndNotify(w, j)
      PROVE  JobInv'
  BY <1>5, RunKeeps, PollKeeps
<1>6. ASSUME NEW n \in Nodes, Crash(n)
      PROVE  JobInv'
  BY <1>6, CrashKeeps
<1>7. CASE UNCHANGED vars
  BY <1>7 DEF vars, rest, JobInv, TypeOK, Linked, OneRunner, HeldNotWaiting, Holds
<1> QED
  BY <1>1, <1>2, <1>3, <1>4, <1>5, <1>6, <1>7 DEF Next

\* The inductive invariant of the job server.
THEOREM JobInvariant == Spec => []JobInv
BY InitInv, StepInv, PTL DEF Spec

\* Rows, workers and requests are what the code can hold.
THEOREM JobServerTypeCorrect == Spec => []TypeOK
<1>1. JobInv => TypeOK
  BY DEF JobInv
<1> QED
  BY <1>1, JobInvariant, PTL

\* One worker at most has a job, unless an administrator set it to pending.
THEOREM JobsHaveOneRunner == Spec => []OneRunner
<1>1. JobInv => OneRunner
  BY DEF JobInv
<1> QED
  BY <1>1, JobInvariant, PTL


-----------------------------------------------------------------------------
(* Statuses: a row in progress has a worker, and the status in which a job *)
(* ended stays.  Both follow from what holds between a worker and the row  *)
(* it has, HeldIsActive, with Unmanaged for migrations (a reset gives up a *)
(* row only when it is in progress) and Stages for what two of the stages  *)
(* mean.                                                                   *)

Active == {"in_progress", "cancel_requested"}

\* A job that a worker has did not end behind its back.
HeldIsActive ==
    \A w \in Workers, j \in Jobs : Holds(w, j) /\ ~Excused(j) =>
        row[j].status \in Active \cup {"deleted"}

\* Nobody but workers and the cleanup touches a migration.
Unmanaged ==
    \A j \in Jobs : row[j].type \in {"migration", "none"} =>
        /\ j \notin requeued \cup overruled
        /\ row[j].status \notin {"cancel_requested", "canceled"}

Stages ==
    \A w \in Workers :
        /\ worker[w].stage = "canceling" => TypeOf(w) = "watched"
        /\ worker[w].stage = "doubting" => worker[w].job \in hurt

StatusInv == HeldIsActive /\ ActiveIsHeld /\ Unmanaged /\ Stages

FinalStays ==
    \A j \in Jobs : row[j].status \in Final =>
        row'[j].status \in {row[j].status, "deleted"} \/ Excused(j)'

-----------------------------------------------------------------------------
(* Kinds of steps *)

LEMMA StagesStep ==
    ASSUME Stages, NEW w \in Workers, \A v \in Workers : v # w => worker'[v] = worker[v],
           hurt \subseteq hurt',
           worker'[w].stage = "canceling" => TypeOf(w) = "watched",
           worker'[w].stage = "doubting" => worker'[w].job \in hurt'
    PROVE  Stages'
BY DEF Stages

\* Steps of a worker that leave the rows alone and keep its job.
LEMMA QuietKeepsStatus ==
    ASSUME StatusInv, NEW w \in Workers, \A v \in Workers : v # w => worker'[v] = worker[v],
           \A j \in Jobs : Holds(w, j)' <=> Holds(w, j),
           UNCHANGED <<row, rest, hurt>>,
           worker'[w].stage = "canceling" => TypeOf(w) = "watched",
           worker'[w].stage # "doubting"
    PROVE  StatusInv' /\ FinalStays
<1>1. ASSUME NEW v \in Workers, NEW j \in Jobs
      PROVE  Holds(v, j)' <=> Holds(v, j)
  BY DEF Holds
<1>2. ASSUME NEW j \in Jobs PROVE Excused(j)' <=> Excused(j)
  BY DEF Excused, rest
<1>3. HeldIsActive' /\ ActiveIsHeld'
  BY <1>1, <1>2 DEF StatusInv, HeldIsActive, ActiveIsHeld
<1>4. Unmanaged'
  BY DEF StatusInv, Unmanaged, rest
<1>5. Stages'
  BY StagesStep DEF StatusInv
<1>6. FinalStays
  BY DEF FinalStays
<1> QED
  BY <1>3, <1>4, <1>5, <1>6 DEF StatusInv

\* Store calls of a worker about its job.
LEMMA OwnStoreKeepsStatus ==
    ASSUME JobInv, StatusInv, NEW w \in Workers, worker[w].stage \in Holding,
           NEW r \in Row, r.type = row[worker[w].job].type,
           NEW ok \in BOOLEAN, Store(worker[w].job, r, ok),
           \A v \in Workers : v # w => worker'[v] = worker[v], NoNewHolder,
           UNCHANGED rest,
           worker'[w].stage \in Holding => worker'[w].job = worker[w].job,
           \/ r.status \in Active \cup {"deleted"}
           \/ r.status = row[worker[w].job].status
           \/ worker'[w].stage \notin Holding
           \/ worker[w].job \in hurt',
           \/ worker'[w].stage \in Holding
           \/ r.status \notin Active
           \/ worker[w].job \in hurt',
           \/ TypeOf(w) # "migration"
           \/ r.status \notin {"cancel_requested", "canceled"}
           \/ r.status = row[worker[w].job].status,
           Stages'
    PROVE  StatusInv' /\ FinalStays
<1>1. PICK j \in Jobs : j = worker[w].job /\ row[j].type = TypeOf(w) /\ TypeOf(w) # "none"
  BY Busy, TypesAssumption DEF JobInv, Holding, Workers, TypeOf
<1>2. /\ \A i \in Jobs \ {j} : row'[i] = row[i]
      /\ row'[j] \in {row[j], r}
      /\ hurt \subseteq hurt'
      /\ j \notin hurt' => row'[j] = r
  BY <1>1 DEF Store, JobInv, TypeOK
<1>3. ASSUME NEW i \in Jobs, Excused(i) PROVE Excused(i)'
  BY <1>2, <1>3 DEF Excused, rest
<1>4. Holds(w, j)
  BY <1>1 DEF Holds
<1>5. j \in hurt' => Excused(j)'
  BY DEF Excused
<1>6. HeldIsActive'
  <2> SUFFICES ASSUME NEW v \in Workers, NEW i \in Jobs, Holds(v, i)', ~Excused(i)'
               PROVE  row'[i].status \in Active \cup {"deleted"}
    BY DEF HeldIsActive, Active
  <2>1. Holds(v, i) /\ ~Excused(i) /\ row[i].status \in Active \cup {"deleted"}
    BY <1>3 DEF NoNewHolder, StatusInv, HeldIsActive
  <2>2. CASE i # j
    BY <1>2, <2>1, <2>2
  <2>3. CASE i = j
    <3>1. v = w
      BY <1>4, <2>1, <2>3 DEF JobInv, OneRunner, Excused
    <3> QED
      BY <1>1, <1>2, <1>5, <2>1, <2>3, <3>1 DEF Holds
  <2> QED
    BY <2>2, <2>3
<1>7. ActiveIsHeld'
  <2> SUFFICES ASSUME NEW i \in Jobs, row'[i].status \in Active, ~Excused(i)'
               PROVE  \E v \in Workers : Holds(v, i)'
    BY DEF ActiveIsHeld, Active
  <2>1. CASE i # j
    <3>1. PICK v \in Workers : Holds(v, i)
      BY <1>2, <1>3, <2>1 DEF StatusInv, ActiveIsHeld, Active
    <3>2. v # w
      BY <1>1, <2>1, <3>1 DEF Holds
    <3> QED
      BY <3>1, <3>2 DEF Holds
  <2>2. CASE i = j
    <3>1. j \notin hurt' /\ row'[j] = r
      BY <1>2, <1>5, <2>2
    <3>2. worker'[w].stage \in Holding /\ worker'[w].job = j
      BY <1>1, <2>2, <3>1
    <3> QED
      BY <2>2, <3>2 DEF Holds
  <2> QED
    BY <2>1, <2>2
<1>8. Unmanaged'
  BY <1>1, <1>2 DEF StatusInv, Unmanaged, rest
<1>9. FinalStays
  <2>1. row[j].status \in Final => Excused(j)
    BY <1>1, <1>4 DEF StatusInv, HeldIsActive, Final, Active
  <2> QED
    BY <1>2, <1>3, <2>1 DEF FinalStays
<1> QED
  BY <1>6, <1>7, <1>8, <1>9 DEF StatusInv

-----------------------------------------------------------------------------
(* Creating jobs, administrators and the cleanup *)

LEMMA AddKeepsStatus ==
    ASSUME JobInv, StatusInv, NEW j \in Jobs, NEW t \in Types, Add(j, t)
    PROVE  StatusInv' /\ FinalStays
<1> USE DEF Add, rest
<1>1. /\ \A i \in Jobs \ {j} : row'[i] = row[i]
      /\ row'[j].type = t /\ row'[j].status = "pending" /\ row[j].status = "new"
  BY DEF JobInv, TypeOK
<1>2. row[j].type = "none"
  BY <1>1 DEF JobInv, TypeOK, Row
<1>3. \A w \in Workers : ~Holds(w, j)
  BY <1>1 DEF Holds, Holding, JobInv, Linked
<1>4. ASSUME NEW v \in Workers, NEW i \in Jobs PROVE Holds(v, i)' <=> Holds(v, i)
  BY DEF Holds
<1>5. ASSUME NEW i \in Jobs PROVE Excused(i)' <=> Excused(i)
  BY DEF Excused
<1>6. HeldIsActive' /\ ActiveIsHeld'
  BY <1>1, <1>3, <1>4, <1>5 DEF StatusInv, HeldIsActive, ActiveIsHeld, Active
<1>7. Unmanaged'
  BY <1>1, <1>2 DEF StatusInv, Unmanaged
<1>8. Stages'
  BY DEF StatusInv, Stages
<1>9. FinalStays
  BY <1>1 DEF FinalStays, Final
<1> QED
  BY <1>6, <1>7, <1>8, <1>9 DEF StatusInv

\* A row changes from outside: nobody minds, or the job is excused.
LEMMA OutsideKeepsStatus ==
    ASSUME JobInv, StatusInv, NEW j \in Jobs, UNCHANGED worker,
           \A i \in Jobs \ {j} : row'[i] = row[i],
           row'[j].type = row[j].type,
           requeued \subseteq requeued', overruled \subseteq overruled',
           hurt \subseteq hurt', orphans \subseteq orphans',
           \A i \in Jobs \ {j} : i \in requeued' \cup overruled' => i \in requeued \cup overruled,
           row[j].type \in {"migration", "none"} =>
               /\ UNCHANGED <<requeued, overruled>>
               /\ row'[j].status \in {row[j].status, "deleted"},
           \/ Excused(j)'
           \/ row'[j].status \in {row[j].status, "deleted"}
           \/ row[j].status = "in_progress" /\ row'[j].status = "cancel_requested"
           \/ row[j].status = "pending" /\ row'[j].status = "canceled"
    PROVE  StatusInv' /\ FinalStays
<1>4. ASSUME NEW v \in Workers, NEW i \in Jobs PROVE Holds(v, i)' <=> Holds(v, i)
  BY DEF Holds
<1>5. ASSUME NEW i \in Jobs, Excused(i) PROVE Excused(i)'
  BY <1>5 DEF Excused
<1>6. HeldIsActive'
  <2> SUFFICES ASSUME NEW v \in Workers, NEW i \in Jobs, Holds(v, i)', ~Excused(i)'
               PROVE  row'[i].status \in Active \cup {"deleted"}
    BY DEF HeldIsActive, Active
  <2>1. row[i].status \in Active \cup {"deleted"}
    BY <1>4, <1>5 DEF StatusInv, HeldIsActive
  <2> QED
    BY <2>1 DEF Active
<1>7. ActiveIsHeld'
  <2> SUFFICES ASSUME NEW i \in Jobs, row'[i].status \in Active, ~Excused(i)'
               PROVE  \E v \in Workers : Holds(v, i)'
    BY DEF ActiveIsHeld, Active
  <2>1. row[i].status \in Active /\ ~Excused(i)
    BY <1>5 DEF Active
  <2>2. PICK v \in Workers : Holds(v, i)
    BY <2>1 DEF StatusInv, ActiveIsHeld, Active
  <2> QED
    BY <1>4, <2>2
<1>8. Unmanaged'
  BY DEF StatusInv, Unmanaged
<1>9. Stages'
  BY DEF StatusInv, Stages
<1>10. FinalStays
  BY DEF FinalStays, Final
<1> QED
  BY <1>6, <1>7, <1>8, <1>9, <1>10 DEF StatusInv

LEMMA CreateKeepsStatus ==
    ASSUME JobInv, StatusInv, Create
    PROVE  StatusInv' /\ FinalStays
<1>1. ASSUME NEW j \in Jobs, NEW t \in Types, CreateJob(j, t) \/ CreateJobOnce(j, t)
      PROVE  StatusInv' /\ FinalStays
  BY <1>1, AddKeepsStatus DEF CreateJob, CreateJobOnce
<1>2. ASSUME NEW n \in Nodes, SyncList(n)
      PROVE  StatusInv' /\ FinalStays
  BY <1>2 DEF SyncList, rest, StatusInv, HeldIsActive, ActiveIsHeld, Unmanaged, Stages,
     FinalStays, Holds, Excused
<1>3. ASSUME NEW n \in Nodes, NEW j \in Jobs, SyncCancel(n, j)
      PROVE  StatusInv' /\ FinalStays
  <2> USE <1>3 DEF SyncCancel
  <2>1. row[j] \in Row /\ row[j].type = "sync"
    BY DEF JobInv, TypeOK, Linked
  <2>2. PICK ok \in BOOLEAN : Store(j, WithStatus(j, "canceled"), ok)
    OBVIOUS
  <2>3. WithStatus(j, "canceled").type = row[j].type
    BY <2>1 DEF WithStatus, Row
  <2>4. /\ \A i \in Jobs \ {j} : row'[i] = row[i]
        /\ row'[j].type = row[j].type /\ hurt \subseteq hurt'
    BY <2>2, <2>3 DEF Store, JobInv, TypeOK
  <2>5. Excused(j)'
    BY DEF Excused
  <2> QED
    BY <2>1, <2>4, <2>5, OutsideKeepsStatus
<1>4. ASSUME NEW n \in Nodes, NEW j \in Jobs, SyncCreate(n, j)
      PROVE  StatusInv' /\ FinalStays
  <2>1. "sync" \in Types
    BY <1>4, TypesAssumption DEF SyncCreate, JobInv, TypeOK, Linked
  <2> QED
    BY <1>4, <2>1, AddKeepsStatus DEF SyncCreate
<1> QED
  BY <1>1, <1>2, <1>3, <1>4 DEF Create

LEMMA ManageKeepsStatus ==
    ASSUME JobInv, StatusInv, Manage
    PROVE  StatusInv' /\ FinalStays
<1> USE DEF rest
<1>1. PICK j \in Jobs : \/ RequestCancellation(j)
                        \/ \E s \in {"pending", "canceled"} : UpdateJobStatus(j, s)
                        \/ Cleanup(j)
  BY DEF Manage
<1>2. row[j] \in Row
  BY DEF JobInv, TypeOK
<1>3. CASE RequestCancellation(j)
  <2> USE <1>3 DEF RequestCancellation, Managed
  <2>1. /\ \A i \in Jobs \ {j} : row'[i] = row[i]
        /\ row'[j].type = row[j].type
        /\ \/ row[j].status = "in_progress" /\ row'[j].status = "cancel_requested"
           \/ row[j].status = "pending" /\ row'[j].status = "canceled"
    BY <1>2 DEF JobInv, TypeOK, Row
  <2>2. row[j].type \notin {"migration", "none"}
    OBVIOUS
  <2> QED
    BY <2>1, <2>2, OutsideKeepsStatus
<1>4. CASE \E s \in {"pending", "canceled"} : UpdateJobStatus(j, s)
  <2>1. PICK s \in {"pending", "canceled"} : UpdateJobStatus(j, s)
    BY <1>4
  <2> USE <2>1 DEF UpdateJobStatus, Managed
  <2>2. /\ \A i \in Jobs \ {j} : row'[i] = row[i]
        /\ row'[j].type = row[j].type
    BY <1>2 DEF JobInv, TypeOK, Row
  <2>3. row[j].type \notin {"migration", "none"}
    OBVIOUS
  <2>4. Excused(j)'
    BY DEF Excused
  <2> QED
    BY <2>2, <2>3, <2>4, OutsideKeepsStatus
<1>5. CASE Cleanup(j)
  <2> USE <1>5 DEF Cleanup
  <2>1. /\ \A i \in Jobs \ {j} : row'[i] = row[i]
        /\ row'[j].type = row[j].type /\ row'[j].status = "deleted"
    BY <1>2 DEF JobInv, TypeOK, Row
  <2> QED
    BY <2>1, OutsideKeepsStatus
<1> QED
  BY <1>1, <1>3, <1>4, <1>5

-----------------------------------------------------------------------------
(* The workers *)

LEMMA PollKeepsStatus ==
    ASSUME JobInv, StatusInv, NEW w \in Workers, NEW j \in Jobs, PollAndNotify(w, j)
    PROVE  StatusInv' /\ FinalStays
<1> USE DEF PollAndNotify, At, Become
<1>1. /\ \A v \in Workers : v # w => worker'[v] = worker[v]
      /\ worker'[w].stage = "claiming" /\ worker[w].stage = "idle"
  BY DEF JobInv, TypeOK
<1>2. \A i \in Jobs : Holds(w, i)' <=> Holds(w, i)
  BY <1>1 DEF Holds, Holding
<1> QED
  BY <1>1, <1>2, QuietKeepsStatus

LEMMA ClaimJobKeepsStatus ==
    ASSUME JobInv, StatusInv, NEW w \in Workers, ClaimJob(w)
    PROVE  StatusInv' /\ FinalStays
<1>1. PICK j \in Jobs : /\ j = worker[w].job /\ row[j] \in Row
                        /\ worker[w].stage = "claiming" /\ worker[w] \in WorkerState
  BY Busy DEF ClaimJob, At, JobInv
<1> DEFINE r == [row[j] EXCEPT !.status = "in_progress"]
           s == [worker[w] EXCEPT !.stage = "running", !.cursor = row[j].done]
<1>2. PICK ok \in BOOLEAN :
         /\ Store(j, IfIn(j, {"pending"}, r), ok)
         /\ IF ok /\ row[j].status = "pending" THEN Become(w, s) ELSE Become(w, Idle)
  BY <1>1 DEF ClaimJob
<1>3. UNCHANGED rest
  BY DEF ClaimJob
<1>4. /\ \A i \in Jobs \ {j} : row'[i] = row[i]
      /\ row'[j] \in {row[j], IfIn(j, {"pending"}, r)}
      /\ hurt \subseteq hurt'
      /\ ~ok => j \in hurt'
      /\ ok => row'[j] = IfIn(j, {"pending"}, r)
  BY <1>2 DEF Store, JobInv, TypeOK
<1>5. /\ row'[j].type = row[j].type
      /\ \/ row'[j] = row[j]
         \/ row[j].status = "pending" /\ row'[j].status = "in_progress"
  BY <1>1, <1>4 DEF IfIn, Row
<1>6. /\ \A v \in Workers : v # w => worker'[v] = worker[v]
      /\ IF ok /\ row[j].status = "pending" THEN worker'[w] = s ELSE worker'[w] = Idle
  BY <1>2 DEF Become, JobInv, TypeOK
<1>7. \A i \in Jobs : ~Holds(w, i)
  BY <1>1 DEF Holds, Holding
<1>8. ASSUME NEW i \in Jobs, Excused(i) PROVE Excused(i)'
  BY <1>3, <1>4, <1>8 DEF Excused, rest
<1>9. ASSUME ~ok \/ row[j].status # "pending", NEW i \in Jobs PROVE ~Holds(w, i)'
  BY <1>6, <1>9 DEF Holds, Holding, Idle
<1>10. ok /\ row[j].status = "pending" => Holds(w, j)' /\ row'[j].status = "in_progress"
  <2>1. s.stage = "running" /\ s.job = j /\ r.status = "in_progress"
    BY <1>1 DEF WorkerState, Row
  <2> QED
    BY <1>4, <1>6, <2>1 DEF Holds, Holding, IfIn
<1>11. HeldIsActive'
  <2> SUFFICES ASSUME NEW v \in Workers, NEW i \in Jobs, Holds(v, i)', ~Excused(i)'
               PROVE  row'[i].status \in Active \cup {"deleted"}
    BY DEF HeldIsActive, Active
  <2>1. CASE v = w
    <3>1. ok /\ row[j].status = "pending"
      BY <1>9, <2>1
    <3>2. i = j
      BY <1>1, <1>6, <2>1, <3>1 DEF Holds, WorkerState
    <3> QED
      BY <1>10, <3>1, <3>2 DEF Active
  <2>2. CASE v # w
    <3>1. Holds(v, i)
      BY <1>6, <2>2 DEF Holds
    <3>2. row[i].status \in Active \cup {"deleted"}
      BY <1>8, <3>1 DEF StatusInv, HeldIsActive, Active
    <3> QED
      BY <1>4, <1>5, <3>2 DEF Active
  <2> QED
    BY <2>1, <2>2
<1>12. ActiveIsHeld'
  <2> SUFFICES ASSUME NEW i \in Jobs, row'[i].status \in Active, ~Excused(i)'
               PROVE  \E v \in Workers : Holds(v, i)'
    BY DEF ActiveIsHeld, Active
  <2>1. CASE i = j /\ row[j].status = "pending"
    <3>1. ok
      BY <1>4, <2>1 DEF Excused
    <3> QED
      BY <1>10, <2>1, <3>1
  <2>2. CASE ~(i = j /\ row[j].status = "pending")
    <3>1. row[i].status \in Active
      BY <1>4, <1>5, <2>2
    <3>2. PICK v \in Workers : Holds(v, i)
      BY <1>8, <3>1 DEF StatusInv, ActiveIsHeld, Active
    <3>3. v # w
      BY <1>7, <3>2
    <3> QED
      BY <1>6, <3>2, <3>3 DEF Holds
  <2> QED
    BY <2>1, <2>2
<1>13. Unmanaged'
  BY <1>3, <1>4, <1>5 DEF StatusInv, Unmanaged, rest
<1>14. Stages'
  <2>1. s.stage = "running" /\ Idle.stage = "idle"
    BY <1>1 DEF Idle, WorkerState
  <2>2. worker'[w].stage \in {"running", "idle"}
    BY <1>6, <2>1
  <2> QED
    BY <1>4, <1>6, <2>2, StagesStep DEF StatusInv
<1>15. FinalStays
  BY <1>4, <1>5 DEF FinalStays, Final
<1> QED
  BY <1>11, <1>12, <1>13, <1>14, <1>15 DEF StatusInv

LEMMA OtherQuietKeepsStatus ==
    ASSUME JobInv, StatusInv, NEW w \in Workers,
           \/ Execute(w) \/ RunBatch(w) \/ NoBatchLeft(w)
           \/ ExecutionFails(w) \/ NoticeCancellation(w)
    PROVE  StatusInv' /\ FinalStays
<1> USE DEF Execute, RunBatch, NoBatchLeft, ExecutionFails, NoticeCancellation, At
<1>1. worker[w].stage = "running" /\ worker[w] \in WorkerState
  BY DEF JobInv, TypeOK
<1>2. /\ \A v \in Workers : v # w => worker'[v] = worker[v]
      /\ worker'[w].stage \in Holding /\ worker'[w].stage # "doubting"
      /\ worker'[w].job = worker[w].job
      /\ worker'[w].stage = "canceling" => TypeOf(w) = "watched"
  <2>1. PICK s : /\ worker' = [worker EXCEPT ![w] = s]
                 /\ s.stage \in Holding /\ s.stage # "doubting" /\ s.job = worker[w].job
                 /\ s.stage = "canceling" => TypeOf(w) = "watched"
    <3>1. CASE RunBatch(w)
      <4> DEFINE s == [worker[w] EXCEPT !.stage = "saving", !.cursor = @ + 1]
      <4>1. s.stage = "saving" /\ s.job = worker[w].job
        BY <1>1 DEF WorkerState
      <4>2. worker' = [worker EXCEPT ![w] = s]
        BY <3>1 DEF Become
      <4> HIDE DEF s
      <4> QED
        BY <4>1, <4>2 DEF Holding
    <3>2. CASE Execute(w) \/ NoBatchLeft(w) \/ ExecutionFails(w) \/ NoticeCancellation(w)
      <4>1. PICK stage \in {"finishing", "succeeding", "failing", "canceling"} :
               Goto(w, stage) /\ (stage = "canceling" => TypeOf(w) = "watched")
        BY <3>2
      <4> DEFINE s == [worker[w] EXCEPT !.stage = stage]
      <4>2. s.stage = stage /\ s.job = worker[w].job
        BY <1>1 DEF WorkerState
      <4>3. worker' = [worker EXCEPT ![w] = s]
        BY <4>1 DEF Goto, Become
      <4> HIDE DEF s
      <4> QED
        BY <4>1, <4>2, <4>3 DEF Holding
    <3> QED
      BY <3>1, <3>2
  <2> QED
    BY <2>1 DEF JobInv, TypeOK
<1>3. \A j \in Jobs : Holds(w, j)' <=> Holds(w, j)
  BY <1>1, <1>2 DEF Holds, Holding
<1>4. UNCHANGED <<row, rest, hurt>>
  OBVIOUS
<1> QED
  BY <1>2, <1>3, <1>4, QuietKeepsStatus

LEMMA RunKeepsStatus ==
    ASSUME JobInv, StatusInv, NEW w \in Workers, Run(w)
    PROVE  StatusInv' /\ FinalStays
<1> USE DEF Run, At, Become
<1>1. /\ \A v \in Workers : v # w => worker'[v] = worker[v]
      /\ worker'[w].stage = "idle" /\ worker[w].stage = "off"
  BY DEF JobInv, TypeOK, Idle
<1>2. \A i \in Jobs : Holds(w, i)' <=> Holds(w, i)
  BY <1>1 DEF Holds, Holding
<1> QED
  BY <1>1, <1>2, QuietKeepsStatus

\* Where Goto leads a worker that has a job.
LEMMA GotoStatus ==
    ASSUME JobInv, StatusInv, NEW w \in Workers, worker[w].stage \in Holding,
           NEW stage \in Holding \cup {"idle"}, Goto(w, stage)
    PROVE  /\ \A v \in Workers : v # w => worker'[v] = worker[v]
           /\ worker'[w].stage = stage
           /\ worker'[w].stage \in Holding => worker'[w].job = worker[w].job
           /\ NoNewHolder
<1>1. worker[w] \in WorkerState
  BY DEF JobInv, TypeOK
<1>2. /\ \A v \in Workers : v # w => worker'[v] = worker[v]
      /\ worker'[w] = IF stage = "idle" THEN Idle ELSE [worker[w] EXCEPT !.stage = stage]
      /\ NoNewHolder
  BY GotoStep DEF JobInv
<1> QED
  BY <1>1, <1>2 DEF WorkerState, Idle, Holding

LEMMA SetJobProgressKeepsStatus ==
    ASSUME JobInv, StatusInv, NEW w \in Workers, SetJobProgress(w)
    PROVE  StatusInv' /\ FinalStays
<1> DEFINE j == worker[w].job
           r == [row[j] EXCEPT !.done = worker[w].cursor]
           next(ok) == IF At(w, "finishing") THEN IF ok THEN "succeeding" ELSE "doubting"
                         ELSE IF ok \/ TypeOf(w) = "migration" THEN "running" ELSE "failing"
<1>1. worker[w].stage \in Holding /\ UNCHANGED rest
  BY DEF SetJobProgress, At, Holding
<1>2. /\ j \in Jobs /\ row[j] \in Row /\ worker[w].cursor \in 0 .. Batches
      /\ row[j].status # "new"
  BY <1>1, Busy DEF JobInv, Holding, WorkerState
<1>3. PICK ok \in BOOLEAN : Store(j, IfIn(j, {"in_progress"}, r), ok) /\ Goto(w, next(ok))
  BY DEF SetJobProgress
<1>4. /\ r \in Row /\ r.status = row[j].status /\ r.type = row[j].type
  BY <1>2 DEF Row
<1>5. /\ IfIn(j, {"in_progress"}, r) \in Row
      /\ IfIn(j, {"in_progress"}, r).type = row[j].type
      /\ IfIn(j, {"in_progress"}, r).status = row[j].status
  BY <1>2, <1>4 DEF IfIn
<1>6. /\ next(ok) \in Holding /\ next(ok) # "canceling"
      /\ next(ok) = "doubting" => ~ok
  BY DEF Holding
<1>7. /\ \A v \in Workers : v # w => worker'[v] = worker[v]
      /\ worker'[w].stage = next(ok)
      /\ worker'[w].stage \in Holding => worker'[w].job = j
      /\ NoNewHolder
  BY <1>1, <1>3, <1>6, GotoStatus
<1>8. hurt \subseteq hurt' /\ (~ok => j \in hurt')
  BY <1>3 DEF Store
<1>9. Stages'
  BY <1>6, <1>7, <1>8, StagesStep DEF StatusInv
<1> QED
  BY <1>1, <1>3, <1>5, <1>6, <1>7, <1>9, OwnStoreKeepsStatus

LEMMA SetJobSuccessKeepsStatus ==
    ASSUME JobInv, StatusInv, NEW w \in Workers, SetJobSuccess(w)
    PROVE  StatusInv' /\ FinalStays
<1> DEFINE j == worker[w].job
           r == WithStatus(j, "success")
           next(ok) == IF ok /\ Exists(j) THEN "idle" ELSE "failing"
<1>1. worker[w].stage \in Holding /\ UNCHANGED rest
  BY DEF SetJobSuccess, At, Holding
<1>2. j \in Jobs /\ row[j] \in Row /\ row[j].status # "new"
  BY <1>1, Busy DEF JobInv, Holding
<1>3. PICK ok \in BOOLEAN : Store(j, r, ok) /\ Goto(w, next(ok))
  BY DEF SetJobSuccess
<1>4. /\ r \in Row /\ r.type = row[j].type
      /\ IF Exists(j) THEN r.status = "success" ELSE r.status = "deleted"
  BY <1>2 DEF WithStatus, Row, Exists, Status, Final
<1>5. next(ok) \in {"idle", "failing"}
  OBVIOUS
<1>6. /\ \A v \in Workers : v # w => worker'[v] = worker[v]
      /\ worker'[w].stage = next(ok)
      /\ worker'[w].stage \in Holding => worker'[w].job = j
      /\ NoNewHolder
  BY <1>1, <1>3, <1>5, GotoStatus DEF Holding
<1>7. hurt \subseteq hurt' /\ (~ok => j \in hurt')
  BY <1>3 DEF Store
<1>8. Stages'
  BY <1>5, <1>6, <1>7, StagesStep DEF StatusInv
<1>9. /\ \/ r.status = "deleted" \/ worker'[w].stage \notin Holding \/ j \in hurt'
      /\ r.status \notin Active /\ r.status # "cancel_requested" /\ r.status # "canceled"
  BY <1>4, <1>6, <1>7 DEF Holding, Active
<1> QED
  BY <1>1, <1>3, <1>4, <1>6, <1>8, <1>9, OwnStoreKeepsStatus

LEMMA SetJobCanceledKeepsStatus ==
    ASSUME JobInv, StatusInv, NEW w \in Workers, SetJobCanceled(w)
    PROVE  StatusInv' /\ FinalStays
<1> DEFINE j == worker[w].job
           r == WithStatus(j, "canceled")
<1>1. worker[w].stage \in Holding /\ UNCHANGED rest /\ Goto(w, "idle") /\ TypeOf(w) = "watched"
  BY DEF SetJobCanceled, At, Holding, StatusInv, Stages
<1>2. j \in Jobs /\ row[j] \in Row /\ row[j].status # "new"
  BY <1>1, Busy DEF JobInv, Holding
<1>3. PICK ok \in BOOLEAN : Store(j, r, ok)
  BY DEF SetJobCanceled
<1>4. r \in Row /\ r.type = row[j].type /\ r.status \notin Active
  BY <1>2 DEF WithStatus, Row, Exists, Status, Final, Active
<1>5. /\ \A v \in Workers : v # w => worker'[v] = worker[v]
      /\ worker'[w].stage = "idle"
      /\ worker'[w].stage \in Holding => worker'[w].job = j
      /\ NoNewHolder
  BY <1>1, GotoStatus
<1>6. Stages'
  BY <1>3, <1>5, StagesStep DEF StatusInv, Store
<1>7. worker'[w].stage \notin Holding /\ TypeOf(w) # "migration"
  BY <1>1, <1>5 DEF Holding
<1> QED
  BY <1>1, <1>3, <1>4, <1>5, <1>6, <1>7, OwnStoreKeepsStatus

\* The row that a failing job leaves.
LEMMA FailedStatus ==
    ASSUME JobInv, NEW j \in Jobs, row[j].status # "new", NEW d \in 0 .. Batches
    PROVE  /\ Failed(j, d) \in Row /\ Failed(j, d).type = row[j].type
           /\ \/ Failed(j, d) = row[j] /\ row[j].status \notin Active
              \/ Failed(j, d).status = "error" /\ row[j].status \in Active
<1>1. row[j] \in Row
  BY DEF JobInv, TypeOK
<1>2. [row[j] EXCEPT !.status = "error", !.done = d].status = "error"
  BY <1>1 DEF Row
<1> QED
  BY <1>2, FailedRow DEF Failed, IfIn, Active

LEMMA SetJobErrorKeepsStatus ==
    ASSUME JobInv, StatusInv, NEW w \in Workers, SetJobError(w)
    PROVE  StatusInv' /\ FinalStays
<1> DEFINE j == worker[w].job
           r == Failed(j, worker[w].cursor)
           next == IF At(w, "doubting") THEN "succeeding" ELSE "idle"
<1>1. /\ worker[w].stage \in Holding /\ UNCHANGED rest /\ Goto(w, next)
  BY DEF SetJobError, At, Holding
<1>2. j \in Jobs /\ row[j].status # "new" /\ worker[w].cursor \in 0 .. Batches
  BY <1>1, Busy DEF JobInv, Holding, WorkerState
<1>3. PICK ok \in BOOLEAN : Store(j, r, ok)
  BY DEF SetJobError
<1>4. /\ r \in Row /\ r.type = row[j].type /\ r.status \notin Active
      /\ r = row[j] \/ r.status = "error"
  <2>1. "error" \notin Active
    BY DEF Active
  <2> QED
    BY <1>2, <2>1, FailedStatus
<1>5. next \in Holding \cup {"idle"} /\ next \notin {"canceling", "doubting"}
  BY DEF Holding
<1>6. /\ \A v \in Workers : v # w => worker'[v] = worker[v]
      /\ worker'[w].stage = next
      /\ worker'[w].stage \in Holding => worker'[w].job = j
      /\ NoNewHolder
  BY <1>1, <1>5, GotoStatus
<1>7. hurt \subseteq hurt'
  BY <1>3 DEF Store
<1>8. Stages'
  BY <1>5, <1>6, <1>7, StagesStep DEF StatusInv
<1>9. worker'[w].stage \notin Holding \/ j \in hurt'
  BY <1>6, <1>7 DEF At, Holding, StatusInv, Stages
<1>10. \/ TypeOf(w) # "migration"
       \/ r.status \notin {"cancel_requested", "canceled"}
       \/ r.status = row[j].status
  BY <1>4
<1> HIDE DEF j, r, next
<1> QED
  BY <1>1, <1>3, <1>4, <1>6, <1>8, <1>9, <1>10, OwnStoreKeepsStatus DEF j

LEMMA ResetJobKeepsStatus ==
    ASSUME JobInv, StatusInv, NEW w \in Workers, ResetJob(w)
    PROVE  StatusInv' /\ FinalStays
<1> DEFINE j == worker[w].job
           reset == [row[j] EXCEPT !.status = "pending", !.done = 0]
           r == IfIn(j, {"in_progress"}, reset)
<1>1. /\ worker[w].stage \in Holding /\ UNCHANGED rest /\ Goto(w, "idle")
      /\ TypeOf(w) = "migration"
  BY DEF ResetJob, At, Holding
<1>2. /\ j \in Jobs /\ row[j] \in Row /\ row[j].status # "new"
      /\ row[j].type = "migration"
  BY <1>1, Busy DEF JobInv, Holding
<1>3. PICK ok \in BOOLEAN : Store(j, r, ok)
  BY DEF ResetJob
<1>4. /\ r \in Row /\ r.type = row[j].type
      /\ \/ r.status = "pending"
         \/ r = row[j] /\ row[j].status # "in_progress"
  <2>1. 0 \in 0 .. Batches /\ "pending" \in Status \ {"new"}
    BY BatchesAssumption DEF Status
  <2>2. reset \in Row /\ reset.status = "pending" /\ reset.type = row[j].type
    BY <1>2, <2>1 DEF Row
  <2>3. r = IF row[j].status = "in_progress" THEN reset ELSE row[j]
    BY DEF IfIn
  <2> HIDE DEF reset, r
  <2> QED
    BY <1>2, <2>2, <2>3
<1>5. r.status \notin Active /\ (r.status = "canceled" => r.status = row[j].status)
  BY <1>2, <1>4 DEF StatusInv, Unmanaged, Active
<1>6. /\ \A v \in Workers : v # w => worker'[v] = worker[v]
      /\ worker'[w].stage = "idle"
      /\ worker'[w].stage \in Holding => worker'[w].job = j
      /\ NoNewHolder
  BY <1>1, GotoStatus
<1>7. Stages'
  BY <1>3, <1>6, StagesStep DEF StatusInv, Store
<1>8. worker'[w].stage \notin Holding
  BY <1>6 DEF Holding
<1>9. \/ r.status \notin {"cancel_requested", "canceled"}
      \/ r.status = row[j].status
  BY <1>5 DEF Active
<1> HIDE DEF j, r
<1> QED
  BY <1>1, <1>3, <1>4, <1>5, <1>6, <1>7, <1>8, <1>9, OwnStoreKeepsStatus DEF j

LEMMA StopKeepsStatus ==
    ASSUME JobInv, StatusInv, NEW w \in Workers, Stop(w)
    PROVE  StatusInv' /\ FinalStays
<1> DEFINE j == worker[w].job
           back == IF TypeOf(w) = "migration" THEN "pending" ELSE "canceled"
           r == WithStatus(j, back)
<1>1. Become(w, Off) /\ UNCHANGED rest
  BY DEF Stop
<1>2. /\ \A v \in Workers : v # w => worker'[v] = worker[v]
      /\ worker'[w].stage = "off"
  BY <1>1 DEF Become, Off, Idle, JobInv, TypeOK
<1>3. worker'[w].stage \notin Holding
  BY <1>2 DEF Holding
<1>4. CASE At(w, "idle") /\ UNCHANGED <<row, hurt>>
  <2>1. \A i \in Jobs : Holds(w, i)' <=> Holds(w, i)
    BY <1>3, <1>4 DEF Holds, Holding, At
  <2> QED
    BY <1>1, <1>2, <1>4, <2>1, QuietKeepsStatus
<1>5. CASE At(w, "running") /\ \E ok \in BOOLEAN : Store(j, r, ok)
  <2>1. PICK ok \in BOOLEAN : Store(j, r, ok)
    BY <1>5
  <2>2. /\ j \in Jobs /\ row[j] \in Row /\ row[j].status # "new"
        /\ worker[w].stage \in Holding
    BY <1>5, Busy DEF JobInv, Holding, At
  <2>3. /\ r \in Row /\ r.type = row[j].type
        /\ r.status = back \/ r.status = "deleted"
    <3>1. back \in Status \ {"new"}
      BY DEF Status, Final
    <3>2. /\ [row[j] EXCEPT !.status = back] \in Row
          /\ [row[j] EXCEPT !.status = back].status = back
          /\ [row[j] EXCEPT !.status = back].type = row[j].type
      BY <2>2, <3>1 DEF Row
    <3> QED
      BY <2>2, <3>2 DEF WithStatus, Exists
  <2>4. /\ r.status \notin Active
        /\ \/ TypeOf(w) # "migration"
           \/ r.status \notin {"cancel_requested", "canceled"}
    BY <2>3 DEF Active
  <2>5. NoNewHolder
    BY <1>2, <1>3 DEF NoNewHolder, Holds
  <2>6. Stages'
    BY <1>2, <2>1, StagesStep DEF StatusInv, Store
  <2> HIDE DEF j, r
  <2> QED
    BY <1>1, <1>2, <1>3, <2>1, <2>2, <2>3, <2>4, <2>5, <2>6, OwnStoreKeepsStatus DEF j
<1> QED
  BY <1>4, <1>5 DEF Stop

\* A node ends: the jobs its workers had are orphans, and only their rows may change.
LEMMA RestartedKeepsStatus ==
    ASSUME JobInv, StatusInv, NEW n \in Nodes, Restarted(n), hurt \subseteq hurt',
           \A i \in Jobs :
              \/ row'[i] = row[i]
              \/ /\ \E w \in Workers : w[1] = n /\ Holds(w, i)
                 /\ row'[i].type = row[i].type /\ row'[i].status = "error"
    PROVE  StatusInv' /\ FinalStays
<1>1. /\ worker' = [w \in Workers |-> IF w[1] = n THEN Idle ELSE worker[w]]
      /\ orphans' = orphans \cup {j \in Jobs : \E w \in Workers : w[1] = n /\ Holds(w, j)}
      /\ UNCHANGED <<requeued, overruled>>
  BY DEF Restarted
<1>2. ASSUME NEW i \in Jobs, Excused(i) PROVE Excused(i)'
  BY <1>1, <1>2 DEF Excused
<1>3. ASSUME NEW i \in Jobs, NEW w \in Workers, w[1] = n, Holds(w, i)  PROVE Excused(i)'
  BY <1>1, <1>3 DEF Excused
<1>4. ASSUME NEW i \in Jobs, ~Excused(i)'  PROVE row'[i] = row[i] /\ ~Excused(i)
  BY <1>2, <1>3, <1>4
<1>5. HeldIsActive'
  <2> SUFFICES ASSUME NEW v \in Workers, NEW i \in Jobs, Holds(v, i)', ~Excused(i)'
               PROVE  row'[i].status \in Active \cup {"deleted"}
    BY DEF HeldIsActive, Active
  <2>1. Holds(v, i)
    BY <1>1 DEF Holds, Idle, Holding
  <2> QED
    BY <1>4, <2>1 DEF StatusInv, HeldIsActive, Active
<1>6. ActiveIsHeld'
  <2> SUFFICES ASSUME NEW i \in Jobs, row'[i].status \in Active, ~Excused(i)'
               PROVE  \E v \in Workers : Holds(v, i)'
    BY DEF ActiveIsHeld, Active
  <2>1. PICK v \in Workers : Holds(v, i)
    BY <1>4 DEF StatusInv, ActiveIsHeld, Active
  <2>2. v[1] # n
    BY <1>3, <2>1
  <2> QED
    BY <1>1, <2>1, <2>2 DEF Holds
<1>7. Unmanaged'
  BY <1>1 DEF StatusInv, Unmanaged
<1>8. Stages'
  BY <1>1 DEF StatusInv, Stages, Idle
<1>9. FinalStays
  BY <1>4 DEF FinalStays
<1> QED
  BY <1>5, <1>6, <1>7, <1>8, <1>9 DEF StatusInv

LEMMA CrashKeepsStatus ==
    ASSUME JobInv, StatusInv, NEW n \in Nodes, Crash(n)
    PROVE  StatusInv' /\ FinalStays
BY RestartedKeepsStatus DEF Crash

LEMMA HandleJobPanicKeepsStatus ==
    ASSUME JobInv, StatusInv, NEW w \in Workers, HandleJobPanic(w)
    PROVE  StatusInv' /\ FinalStays
<1>1. /\ Restarted(w[1]) /\ w[1] \in Nodes
      /\ worker[w].stage = "running"
  BY DEF HandleJobPanic, At, Workers
<1>2. PICK j \in Jobs : /\ j = worker[w].job /\ row[j].status # "new"
                        /\ worker[w].seen \in 0 .. Batches
  BY <1>1, Busy DEF JobInv, WorkerState
<1> DEFINE r == Failed(j, worker[w].seen)
<1>3. PICK ok \in BOOLEAN : Store(j, r, ok)
  BY <1>2 DEF HandleJobPanic
<1>4. r.type = row[j].type /\ (r = row[j] \/ r.status = "error")
  BY <1>2, FailedStatus
<1>5. /\ \A i \in Jobs \ {j} : row'[i] = row[i]
      /\ row'[j] \in {row[j], r}
      /\ hurt \subseteq hurt'
  BY <1>3 DEF Store, JobInv, TypeOK
<1>6. w[1] = w[1] /\ Holds(w, j)
  BY <1>1, <1>2 DEF Holds, Holding
<1> QED
  BY <1>1, <1>4, <1>5, <1>6, RestartedKeepsStatus

-----------------------------------------------------------------------------
(* The theorems *)

LEMMA StatusInit ==
    Init => StatusInv
<1> SUFFICES ASSUME Init PROVE StatusInv
  OBVIOUS
<1> USE DEF Init
<1>1. HeldIsActive /\ ActiveIsHeld
  BY DEF HeldIsActive, ActiveIsHeld, Holds, Holding, Idle, Blank
<1>2. Unmanaged /\ Stages
  BY DEF Unmanaged, Stages, Idle, Blank
<1> QED
  BY <1>1, <1>2 DEF StatusInv

LEMMA StatusNext ==
    ASSUME JobInv, StatusInv, [Next]_vars
    PROVE  StatusInv' /\ FinalStays
<1>1. CASE Create
  BY <1>1, CreateKeepsStatus
<1>2. CASE Manage
  BY <1>2, ManageKeepsStatus
<1>3. ASSUME NEW w \in Workers, Proceed(w)
      PROVE  StatusInv' /\ FinalStays
  BY <1>3, ClaimJobKeepsStatus, OtherQuietKeepsStatus, SetJobProgressKeepsStatus,
     SetJobSuccessKeepsStatus, SetJobErrorKeepsStatus, SetJobCanceledKeepsStatus DEF Proceed
<1>4. ASSUME NEW w \in Workers, Interrupt(w)
      PROVE  StatusInv' /\ FinalStays
  BY <1>4, OtherQuietKeepsStatus, ResetJobKeepsStatus, StopKeepsStatus,
     HandleJobPanicKeepsStatus DEF Interrupt
<1>5. ASSUME NEW w \in Workers, Run(w) \/ \E j \in Jobs : PollAndNotify(w, j)
      PROVE  StatusInv' /\ FinalStays
  BY <1>5, RunKeepsStatus, PollKeepsStatus
<1>6. ASSUME NEW n \in Nodes, Crash(n)
      PROVE  StatusInv' /\ FinalStays
  BY <1>6, CrashKeepsStatus
<1>7. CASE UNCHANGED vars
  BY <1>7 DEF vars, rest, StatusInv, HeldIsActive, ActiveIsHeld, Unmanaged, Stages,
     Holds, Excused, FinalStays
<1> QED
  BY <1>1, <1>2, <1>3, <1>4, <1>5, <1>6, <1>7 DEF Next

\* What holds between the statuses of rows and the workers, always.
THEOREM StatusInvariant == Spec => []StatusInv
<1>1. JobInv /\ StatusInv /\ [Next]_vars => StatusInv'
  BY StatusNext
<1> QED
  BY <1>1, StatusInit, JobInvariant, PTL DEF Spec

\* A row in progress has a worker, unless a crash, a failed store call or an update from
\* outside excuses it.
THEOREM ActiveJobsAreHeld == Spec => []ActiveIsHeld
<1>1. StatusInv => ActiveIsHeld
  BY DEF StatusInv
<1> QED
  BY <1>1, StatusInvariant, PTL

\* The status in which a job ended stays, although some updates do not look at it.
THEOREM FinalStatusesStay == Spec => FinalIsFinal
<1>1. JobInv /\ StatusInv /\ [Next]_vars =>
         [\A j \in Jobs : row[j].status \in Final =>
             row'[j].status \in {row[j].status, "deleted"} \/ Excused(j)']_vars
  BY StatusNext DEF FinalStays
<1> QED
  BY <1>1, JobInvariant, StatusInvariant, PTL DEF Spec, FinalIsFinal

-----------------------------------------------------------------------------
(* Migrations: at most one waits or runs, and while a worker executes      *)
(* batches the row says so, so that no second job is created and no second *)
(* worker claims it; then the progress of jobs of any type.                *)

IsOpen(r) == r.type = "migration" /\ r.status \in {"pending", "in_progress"}

\* There is one migration at a time that waits or runs.
OneActive == \A i, j \in Jobs : IsOpen(row[i]) /\ IsOpen(row[j]) => i = j

\* While batches of a migration are executed its row says so, whatever call failed.
ExecutedInProgress ==
    \A w \in Workers, j \in Jobs :
        worker[w].job = j /\ row[j].type = "migration" /\ Executes(w)
            => row[j].status = "in_progress"

MigrationInv == OneActive /\ ExecutedInProgress

-----------------------------------------------------------------------------
(* Kinds of steps *)

NoneOpened == \A j \in Jobs : IsOpen(row'[j]) => IsOpen(row[j])

LEMMA KeepsOneActive ==
    ASSUME OneActive, NoneOpened
    PROVE  OneActive'
BY DEF OneActive, NoneOpened, IsOpen

\* Steps of a worker that leave the rows alone.
LEMMA QuietKeepsMigration ==
    ASSUME MigrationInv, NEW w \in Workers, \A v \in Workers : v # w => worker'[v] = worker[v],
           UNCHANGED row,
           worker'[w].stage \in {"running", "saving"} =>
               worker[w].stage \in {"running", "saving"} /\ worker'[w].job = worker[w].job
    PROVE  MigrationInv'
BY DEF MigrationInv, OneActive, ExecutedInProgress, Executes, IsOpen

\* Store calls of a worker about its job.
LEMMA OwnStoreKeepsMigration ==
    ASSUME JobInv, StatusInv, MigrationInv, NEW w \in Workers, worker[w].stage \in Holding,
           NEW r, r.type = row[worker[w].job].type,
           NEW ok \in BOOLEAN, Store(worker[w].job, r, ok),
           \A v \in Workers : v # w => worker'[v] = worker[v],
           TypeOf(w) = "migration" /\ r.status \in {"pending", "in_progress"} =>
               row[worker[w].job].status \in {"pending", "in_progress"},
           worker'[w].stage \in {"running", "saving"} =>
               /\ worker[w].stage \in {"running", "saving"}
               /\ worker'[w].job = worker[w].job
               /\ r.status = row[worker[w].job].status
    PROVE  MigrationInv'
<1>1. PICK j \in Jobs : j = worker[w].job /\ row[j].type = TypeOf(w)
  BY Busy DEF JobInv, Holding
<1>2. /\ \A i \in Jobs \ {j} : row'[i] = row[i]
      /\ row'[j] = row[j] \/ row'[j] = r
  BY <1>1 DEF Store, JobInv, TypeOK
<1>3. NoneOpened
  BY <1>1, <1>2 DEF NoneOpened, IsOpen
<1>4. ExecutedInProgress'
  <2> SUFFICES ASSUME NEW v \in Workers, NEW i \in Jobs,
                      worker'[v].job = i, row'[i].type = "migration", Executes(v)'
               PROVE  row'[i].status = "in_progress"
    BY DEF ExecutedInProgress
  <2>1. row[i].type = "migration"
    BY <1>1, <1>2
  <2>2. CASE v = w
    <3>1. i = j /\ row[j].status = "in_progress"
      BY <1>1, <2>1, <2>2 DEF Executes, MigrationInv, ExecutedInProgress
    <3> QED
      BY <1>1, <1>2, <2>2, <3>1 DEF Executes
  <2>3. CASE v # w
    <3>1. Executes(v) /\ worker[v].job = i
      BY <2>3 DEF Executes
    <3>2. row[i].status = "in_progress"
      BY <2>1, <3>1 DEF MigrationInv, ExecutedInProgress
    <3>3. i # j
      <4> SUFFICES ASSUME i = j PROVE FALSE
        OBVIOUS
      <4>1. Holds(v, i) /\ Holds(w, i)
        BY <1>1, <3>1 DEF Holds, Executes, Holding
      <4>2. i \notin requeued
        BY <2>1 DEF StatusInv, Unmanaged
      <4> QED
        BY <2>3, <4>1, <4>2 DEF JobInv, OneRunner
    <3> QED
      BY <1>2, <3>2, <3>3
  <2> QED
    BY <2>2, <2>3
<1> QED
  BY <1>3, <1>4, KeepsOneActive DEF MigrationInv

\* A row changes from outside, but not under a migration that runs.
LEMMA OutsideKeepsMigration ==
    ASSUME MigrationInv, NEW j \in Jobs, UNCHANGED worker,
           \A i \in Jobs \ {j} : row'[i] = row[i],
           \/ row'[j].type # "migration"
           \/ row[j].status \notin {"pending", "in_progress"} /\ row'[j].type = row[j].type
              /\ row'[j].status = "deleted"
    PROVE  MigrationInv'
<1>1. NoneOpened
  BY DEF NoneOpened, IsOpen
<1>2. ExecutedInProgress'
  BY DEF MigrationInv, ExecutedInProgress, Executes
<1> QED
  BY <1>1, <1>2, KeepsOneActive DEF MigrationInv

LEMMA AddKeepsMigration ==
    ASSUME JobInv, MigrationInv, NEW j \in Jobs, NEW t \in Types, Add(j, t),
           t = "migration" => \A i \in Jobs : ~IsOpen(row[i])
    PROVE  MigrationInv'
<1> USE DEF Add
<1>1. /\ \A i \in Jobs \ {j} : row'[i] = row[i]
      /\ row'[j].type = t /\ row[j].status = "new"
  BY DEF JobInv, TypeOK
<1>2. OneActive'
  BY <1>1 DEF MigrationInv, OneActive, IsOpen
<1>3. \A w \in Workers : Executes(w) => worker[w].job # j
  BY <1>1 DEF Executes, JobInv, Linked
<1>4. ExecutedInProgress'
  BY <1>1, <1>3 DEF MigrationInv, ExecutedInProgress, Executes
<1> QED
  BY <1>2, <1>4 DEF MigrationInv

LEMMA CreateKeepsMigration ==
    ASSUME JobInv, StatusInv, MigrationInv, Create
    PROVE  MigrationInv'
<1>1. ASSUME NEW j \in Jobs, NEW t \in Types, CreateJob(j, t) \/ CreateJobOnce(j, t)
      PROVE  MigrationInv'
  BY <1>1, AddKeepsMigration DEF CreateJob, CreateJobOnce, IsOpen
<1>2. ASSUME NEW n \in Nodes, SyncList(n)
      PROVE  MigrationInv'
  BY <1>2 DEF SyncList, MigrationInv, OneActive, ExecutedInProgress, Executes, IsOpen
<1>3. ASSUME NEW n \in Nodes, NEW j \in Jobs, SyncCancel(n, j)
      PROVE  MigrationInv'
  <2> USE <1>3 DEF SyncCancel
  <2>1. row[j] \in Row /\ row[j].type = "sync"
    BY DEF JobInv, TypeOK, Linked
  <2>2. PICK ok \in BOOLEAN : Store(j, WithStatus(j, "canceled"), ok)
    OBVIOUS
  <2>3. WithStatus(j, "canceled").type = row[j].type
    BY <2>1 DEF WithStatus, Row
  <2>4. /\ \A i \in Jobs \ {j} : row'[i] = row[i]
        /\ row'[j].type = row[j].type
    BY <2>2, <2>3 DEF Store, JobInv, TypeOK
  <2> QED
    BY <2>1, <2>4, OutsideKeepsMigration
<1>4. ASSUME NEW n \in Nodes, NEW j \in Jobs, SyncCreate(n, j)
      PROVE  MigrationInv'
  <2>1. "sync" \in Types
    BY <1>4, TypesAssumption DEF SyncCreate, JobInv, TypeOK, Linked
  <2> QED
    BY <1>4, <2>1, AddKeepsMigration DEF SyncCreate
<1> QED
  BY <1>1, <1>2, <1>3, <1>4 DEF Create

LEMMA ManageKeepsMigration ==
    ASSUME JobInv, StatusInv, MigrationInv, Manage
    PROVE  MigrationInv'
<1>1. PICK j \in Jobs : \/ RequestCancellation(j)
                        \/ \E s \in {"pending", "canceled"} : UpdateJobStatus(j, s)
                        \/ Cleanup(j)
  BY DEF Manage
<1>2. row[j] \in Row
  BY DEF JobInv, TypeOK
<1>3. /\ UNCHANGED worker
      /\ \A i \in Jobs \ {j} : row'[i] = row[i]
      /\ row'[j].type = row[j].type
  BY <1>1, <1>2 DEF RequestCancellation, UpdateJobStatus, Cleanup, JobInv, TypeOK, Row
<1>4. \/ row[j].type \in Managed
      \/ row[j].status \notin {"pending", "in_progress"} /\ row'[j].status = "deleted"
  BY <1>1, <1>2 DEF RequestCancellation, UpdateJobStatus, Cleanup, JobInv, TypeOK, Row
<1> QED
  BY <1>3, <1>4, OutsideKeepsMigration DEF Managed

-----------------------------------------------------------------------------
(* The workers *)

LEMMA PollRunKeepMigration ==
    ASSUME JobInv, MigrationInv, NEW w \in Workers,
           Run(w) \/ \E j \in Jobs : PollAndNotify(w, j)
    PROVE  MigrationInv'
<1>1. /\ \A v \in Workers : v # w => worker'[v] = worker[v]
      /\ worker'[w].stage \in {"idle", "claiming"}
      /\ UNCHANGED row
  BY DEF Run, PollAndNotify, Become, Idle, JobInv, TypeOK
<1> QED
  BY <1>1, QuietKeepsMigration

LEMMA OtherQuietKeepsMigration ==
    ASSUME JobInv, MigrationInv, NEW w \in Workers,
           \/ Execute(w) \/ RunBatch(w) \/ NoBatchLeft(w)
           \/ ExecutionFails(w) \/ NoticeCancellation(w)
    PROVE  MigrationInv'
<1> USE DEF Execute, RunBatch, NoBatchLeft, ExecutionFails, NoticeCancellation, At
<1>1. worker[w].stage = "running" /\ worker[w] \in WorkerState
  BY DEF JobInv, TypeOK
<1>2. /\ \A v \in Workers : v # w => worker'[v] = worker[v]
      /\ worker'[w].job = worker[w].job
  <2>1. CASE RunBatch(w)
    <3> DEFINE s == [worker[w] EXCEPT !.stage = "saving", !.cursor = @ + 1]
    <3>1. s.job = worker[w].job /\ worker' = [worker EXCEPT ![w] = s]
      BY <1>1, <2>1 DEF WorkerState, Become
    <3> HIDE DEF s
    <3> QED
      BY <3>1 DEF JobInv, TypeOK
  <2>2. CASE Execute(w) \/ NoBatchLeft(w) \/ ExecutionFails(w) \/ NoticeCancellation(w)
    <3>1. PICK stage \in Holding : Goto(w, stage)
      BY <2>2 DEF Holding
    <3> DEFINE s == [worker[w] EXCEPT !.stage = stage]
    <3>2. s.job = worker[w].job /\ worker' = [worker EXCEPT ![w] = s]
      BY <1>1, <3>1 DEF WorkerState, Goto, Become, Holding
    <3> HIDE DEF s
    <3> QED
      BY <3>2 DEF JobInv, TypeOK
  <2> QED
    BY <2>1, <2>2
<1>3. UNCHANGED row
  OBVIOUS
<1> QED
  BY <1>1, <1>2, <1>3, QuietKeepsMigration

LEMMA ClaimJobKeepsMigration ==
    ASSUME JobInv, MigrationInv, NEW w \in Workers, ClaimJob(w)
    PROVE  MigrationInv'
<1>1. PICK j \in Jobs : /\ j = worker[w].job /\ row[j] \in Row
                        /\ worker[w].stage = "claiming" /\ worker[w] \in WorkerState
  BY Busy DEF ClaimJob, At, JobInv
<1> DEFINE r == [row[j] EXCEPT !.status = "in_progress"]
           s == [worker[w] EXCEPT !.stage = "running", !.cursor = row[j].done]
<1>2. PICK ok \in BOOLEAN :
         /\ Store(j, IfIn(j, {"pending"}, r), ok)
         /\ IF ok /\ row[j].status = "pending" THEN Become(w, s) ELSE Become(w, Idle)
  BY <1>1 DEF ClaimJob
<1>3. s.stage = "running" /\ s.job = j /\ r.status = "in_progress" /\ r.type = row[j].type
  BY <1>1 DEF WorkerState, Row
<1>4. /\ \A i \in Jobs \ {j} : row'[i] = row[i]
      /\ row'[j].type = row[j].type
      /\ \/ row'[j] = row[j]
         \/ row[j].status = "pending" /\ row'[j].status = "in_progress"
      /\ ok /\ row[j].status = "pending" => row'[j].status = "in_progress"
  BY <1>2, <1>3 DEF Store, IfIn, JobInv, TypeOK
<1>5. /\ \A v \in Workers : v # w => worker'[v] = worker[v]
      /\ Executes(w)' => worker'[w].job = j /\ row'[j].status = "in_progress"
  <2>1. IF ok /\ row[j].status = "pending" THEN worker' = [worker EXCEPT ![w] = s]
        ELSE worker' = [worker EXCEPT ![w] = Idle]
    BY <1>2 DEF Become
  <2> HIDE DEF s
  <2> QED
    BY <1>3, <1>4, <2>1 DEF Executes, Idle, JobInv, TypeOK
<1>6. NoneOpened
  BY <1>4 DEF NoneOpened, IsOpen
<1>7. ExecutedInProgress'
  <2> SUFFICES ASSUME NEW v \in Workers, NEW i \in Jobs,
                      worker'[v].job = i, row'[i].type = "migration", Executes(v)', v # w
               PROVE  row'[i].status = "in_progress"
    BY <1>5 DEF ExecutedInProgress
  <2>1. row[i].status = "in_progress"
    BY <1>4, <1>5 DEF MigrationInv, ExecutedInProgress, Executes
  <2> QED
    BY <1>4, <2>1
<1> QED
  BY <1>6, <1>7, KeepsOneActive DEF MigrationInv

LEMMA StoreCallsKeepMigration ==
    ASSUME JobInv, StatusInv, MigrationInv, NEW w \in Workers,
           \/ SetJobProgress(w) \/ SetJobSuccess(w) \/ SetJobError(w) \/ SetJobCanceled(w)
           \/ ResetJob(w)
           \/ Stop(w) /\ ~At(w, "idle")
    PROVE  MigrationInv'
<1>1. worker[w].stage \in Holding
  BY DEF SetJobProgress, SetJobSuccess, SetJobError, SetJobCanceled, ResetJob, Stop, At, Holding
<1>2. PICK j \in Jobs :
         /\ j = worker[w].job /\ row[j] \in Row /\ worker[w].cursor \in 0 .. Batches
         /\ row[j].status # "new" /\ row[j].type = TypeOf(w) /\ worker[w] \in WorkerState
  BY <1>1, Busy DEF JobInv, Holding, WorkerState
<1>3. CASE SetJobProgress(w)
  <2> DEFINE r == IfIn(j, {"in_progress"}, [row[j] EXCEPT !.done = worker[w].cursor])
             next(ok) == IF At(w, "finishing") THEN IF ok THEN "succeeding" ELSE "doubting"
                           ELSE IF ok \/ TypeOf(w) = "migration" THEN "running" ELSE "failing"
  <2>1. PICK ok \in BOOLEAN : Store(j, r, ok) /\ Goto(w, next(ok))
    BY <1>2, <1>3 DEF SetJobProgress
  <2>2. r.type = row[j].type /\ r.status = row[j].status
    BY <1>2 DEF IfIn, Row
  <2>3. /\ next(ok) \in Holding
        /\ next(ok) \in {"running", "saving"} => worker[w].stage \in {"running", "saving"}
    <3>1. worker[w].stage \in {"saving", "finishing"}
      BY <1>3 DEF SetJobProgress, At
    <3>2. ASSUME At(w, "finishing") PROVE next(ok) \in {"succeeding", "doubting"}
      BY <3>2
    <3>3. next(ok) \in Holding
      BY DEF Holding
    <3> HIDE DEF next
    <3> QED
      BY <3>1, <3>2, <3>3 DEF At
  <2>4. /\ \A v \in Workers : v # w => worker'[v] = worker[v]
        /\ worker'[w].stage = next(ok) /\ worker'[w].job = worker[w].job
    <3> HIDE DEF next
    <3>1. next(ok) \in Holding \cup {"idle"}
      BY <2>3
    <3> QED
      BY <1>1, <2>1, <2>3, <3>1, GotoStatus
  <2> HIDE DEF r
  <2> QED
    BY <1>1, <1>2, <2>1, <2>2, <2>3, <2>4, OwnStoreKeepsMigration
<1>4. CASE ~SetJobProgress(w)
  <2>1. /\ \A v \in Workers : v # w => worker'[v] = worker[v]
        /\ worker'[w].stage \notin {"running", "saving"}
    <3>1. CASE Stop(w)
      BY <3>1 DEF Stop, Become, Off, Idle, JobInv, TypeOK
    <3>2. CASE ~Stop(w)
      <4>1. PICK stage \in {"idle", "failing", "succeeding"} : Goto(w, stage)
        BY <1>4, <3>2 DEF SetJobSuccess, SetJobError, SetJobCanceled, ResetJob
      <4> QED
        BY <1>1, <4>1, GotoStatus DEF Holding
    <3> QED
      BY <3>1, <3>2
  <2>2. CASE SetJobSuccess(w)
    <3>1. PICK ok \in BOOLEAN : Store(j, WithStatus(j, "success"), ok)
      BY <1>2, <2>2 DEF SetJobSuccess
    <3>2. /\ WithStatus(j, "success").type = row[j].type
          /\ WithStatus(j, "success").status \notin {"pending", "in_progress"}
      BY <1>2 DEF WithStatus, Row, Exists
    <3> QED
      BY <1>1, <1>2, <2>1, <3>1, <3>2, OwnStoreKeepsMigration
  <2>3. CASE SetJobError(w)
    <3>1. PICK ok \in BOOLEAN : Store(j, Failed(j, worker[w].cursor), ok)
      BY <1>2, <2>3 DEF SetJobError
    <3>2. /\ Failed(j, worker[w].cursor).type = row[j].type
          /\ \/ Failed(j, worker[w].cursor) = row[j]
             \/ Failed(j, worker[w].cursor).status = "error"
      BY <1>2, FailedStatus
    <3> QED
      BY <1>1, <1>2, <2>1, <3>1, <3>2, OwnStoreKeepsMigration
  <2>4. CASE SetJobCanceled(w)
    <3>1. PICK ok \in BOOLEAN : Store(j, WithStatus(j, "canceled"), ok)
      BY <1>2, <2>4 DEF SetJobCanceled
    <3>2. /\ WithStatus(j, "canceled").type = row[j].type
          /\ WithStatus(j, "canceled").status \notin {"pending", "in_progress"}
      BY <1>2 DEF WithStatus, Row, Exists
    <3> QED
      BY <1>1, <1>2, <2>1, <3>1, <3>2, OwnStoreKeepsMigration
  <2>5. CASE ResetJob(w)
    <3> DEFINE reset == [row[j] EXCEPT !.status = "pending", !.done = 0]
               r == IfIn(j, {"in_progress"}, reset)
    <3>1. PICK ok \in BOOLEAN : Store(j, r, ok)
      BY <1>2, <2>5 DEF ResetJob
    <3>2. reset.type = row[j].type
      BY <1>2 DEF Row
    <3>3. r = IF row[j].status = "in_progress" THEN reset ELSE row[j]
      BY DEF IfIn
    <3> HIDE DEF r, reset
    <3> QED
      BY <1>1, <1>2, <2>1, <3>1, <3>2, <3>3, OwnStoreKeepsMigration
  <2>6. CASE Stop(w) /\ ~At(w, "idle")
    <3> DEFINE back == IF TypeOf(w) = "migration" THEN "pending" ELSE "canceled"
               r == WithStatus(j, back)
    <3>1. PICK ok \in BOOLEAN : Store(j, r, ok)
      BY <1>2, <2>6 DEF Stop
    <3>2. r.type = row[j].type
      BY <1>2 DEF WithStatus, Row
    <3>3. TypeOf(w) = "migration" => row[j].status = "in_progress"
      BY <1>2, <2>6 DEF Stop, At, MigrationInv, ExecutedInProgress, Executes
    <3> HIDE DEF r
    <3> QED
      BY <1>1, <1>2, <2>1, <3>1, <3>2, <3>3, OwnStoreKeepsMigration
  <2> QED
    BY <1>4, <2>2, <2>3, <2>4, <2>5, <2>6
<1> QED
  BY <1>3, <1>4

LEMMA StopIdleKeepsMigration ==
    ASSUME JobInv, MigrationInv, NEW w \in Workers, Stop(w), At(w, "idle")
    PROVE  MigrationInv'
<1>1. UNCHANGED row
  BY DEF Stop, At
<1>2. /\ \A v \in Workers : v # w => worker'[v] = worker[v]
      /\ worker'[w].stage = "off"
  BY DEF Stop, Become, Off, Idle, JobInv, TypeOK
<1> QED
  BY <1>1, <1>2, QuietKeepsMigration

\* A node ends: only the rows of jobs its workers had may change, to error.
LEMMA RestartedKeepsMigration ==
    ASSUME JobInv, StatusInv, MigrationInv, NEW n \in Nodes, Restarted(n),
           \A i \in Jobs :
              \/ row'[i] = row[i]
              \/ /\ \E w \in Workers : w[1] = n /\ Holds(w, i)
                 /\ row'[i].type = row[i].type /\ row'[i].status = "error"
    PROVE  MigrationInv'
<1>1. NoneOpened
  BY DEF NoneOpened, IsOpen
<1>2. ExecutedInProgress'
  <2> SUFFICES ASSUME NEW v \in Workers, NEW i \in Jobs,
                      worker'[v].job = i, row'[i].type = "migration", Executes(v)'
               PROVE  row'[i].status = "in_progress"
    BY DEF ExecutedInProgress
  <2>1. v[1] # n /\ Executes(v) /\ worker[v].job = i /\ row[i].type = "migration"
    BY DEF Restarted, Executes, Idle
  <2>2. row[i].status = "in_progress" /\ Holds(v, i) /\ i \notin requeued
    BY <2>1 DEF MigrationInv, ExecutedInProgress, Holds, Executes, Holding, StatusInv, Unmanaged
  <2>3. row'[i] = row[i]
    BY <2>1, <2>2 DEF JobInv, OneRunner
  <2> QED
    BY <2>2, <2>3
<1> QED
  BY <1>1, <1>2, KeepsOneActive DEF MigrationInv

LEMMA CrashKeepsMigration ==
    ASSUME JobInv, StatusInv, MigrationInv, NEW n \in Nodes, Crash(n)
    PROVE  MigrationInv'
BY RestartedKeepsMigration DEF Crash

LEMMA HandleJobPanicKeepsMigration ==
    ASSUME JobInv, StatusInv, MigrationInv, NEW w \in Workers, HandleJobPanic(w)
    PROVE  MigrationInv'
<1>1. /\ Restarted(w[1]) /\ w[1] \in Nodes
      /\ worker[w].stage = "running"
  BY DEF HandleJobPanic, At, Workers
<1>2. PICK j \in Jobs : /\ j = worker[w].job /\ row[j].status # "new"
                        /\ worker[w].seen \in 0 .. Batches
  BY <1>1, Busy DEF JobInv, WorkerState
<1> DEFINE r == Failed(j, worker[w].seen)
<1>3. PICK ok \in BOOLEAN : Store(j, r, ok)
  BY <1>2 DEF HandleJobPanic
<1>4. r.type = row[j].type /\ (r = row[j] \/ r.status = "error")
  BY <1>2, FailedStatus
<1>5. /\ \A i \in Jobs \ {j} : row'[i] = row[i]
      /\ row'[j] \in {row[j], r}
  BY <1>3 DEF Store, JobInv, TypeOK
<1>6. w[1] = w[1] /\ Holds(w, j)
  BY <1>1, <1>2 DEF Holds, Holding
<1> QED
  BY <1>1, <1>4, <1>5, <1>6, RestartedKeepsMigration

-----------------------------------------------------------------------------
(* The theorems *)

LEMMA MigrationInit ==
    Init => MigrationInv
BY DEF Init, MigrationInv, OneActive, ExecutedInProgress, IsOpen, Executes, Idle, Blank

LEMMA MigrationNext ==
    ASSUME JobInv, StatusInv, MigrationInv, [Next]_vars
    PROVE  MigrationInv'
<1>1. CASE Create
  BY <1>1, CreateKeepsMigration
<1>2. CASE Manage
  BY <1>2, ManageKeepsMigration
<1>3. ASSUME NEW w \in Workers, Proceed(w)
      PROVE  MigrationInv'
  BY <1>3, ClaimJobKeepsMigration, OtherQuietKeepsMigration, StoreCallsKeepMigration
  DEF Proceed
<1>4. ASSUME NEW w \in Workers, Interrupt(w)
      PROVE  MigrationInv'
  BY <1>4, OtherQuietKeepsMigration, StoreCallsKeepMigration, StopIdleKeepsMigration,
     HandleJobPanicKeepsMigration DEF Interrupt
<1>5. ASSUME NEW w \in Workers, Run(w) \/ \E j \in Jobs : PollAndNotify(w, j)
      PROVE  MigrationInv'
  BY <1>5, PollRunKeepMigration
<1>6. ASSUME NEW n \in Nodes, Crash(n)
      PROVE  MigrationInv'
  BY <1>6, CrashKeepsMigration
<1>7. CASE UNCHANGED vars
  BY <1>7 DEF vars, rest, MigrationInv, OneActive, ExecutedInProgress, IsOpen, Executes
<1> QED
  BY <1>1, <1>2, <1>3, <1>4, <1>5, <1>6, <1>7 DEF Next

\* At most one migration waits or runs, and one that is executed is in progress, always.
THEOREM MigrationInvariant == Spec => []MigrationInv
<1>1. JobInv /\ StatusInv /\ MigrationInv /\ [Next]_vars => MigrationInv'
  BY MigrationNext
<1> QED
  BY <1>1, MigrationInit, JobInvariant, StatusInvariant, PTL DEF Spec

LEMMA InvariantsImplyOneMigration ==
    JobInv /\ StatusInv /\ MigrationInv => OneMigration
<1> SUFFICES ASSUME JobInv, StatusInv, MigrationInv,
                    NEW v \in Workers, NEW w \in Workers,
                    TypeOf(v) = "migration", TypeOf(w) = "migration",
                    Executes(v), Executes(w)
             PROVE  v = w
  BY DEF OneMigration
<1>1. /\ worker[v].job \in Jobs /\ row[worker[v].job].type = "migration"
      /\ worker[w].job \in Jobs /\ row[worker[w].job].type = "migration"
  BY DEF JobInv, Linked, Executes
<1>2. IsOpen(row[worker[v].job]) /\ IsOpen(row[worker[w].job])
  BY <1>1 DEF MigrationInv, ExecutedInProgress, IsOpen
<1>3. PICK j \in Jobs : worker[v].job = j /\ worker[w].job = j
  BY <1>1, <1>2 DEF MigrationInv, OneActive
<1>4. j \notin requeued
  BY <1>1, <1>3 DEF StatusInv, Unmanaged
<1> QED
  BY <1>3, <1>4 DEF JobInv, OneRunner, Holds, Holding, Executes

\* No two workers, on whatever nodes, execute batches of a migration, through stops,
\* crashes, panics, resets and store calls that fail.
THEOREM MigrationsRunAlone == Spec => []OneMigration
BY InvariantsImplyOneMigration, JobInvariant, StatusInvariant, MigrationInvariant, PTL


-----------------------------------------------------------------------------
(* Progress: what a row says was done was done, so that a node that goes   *)
(* on with a job skips no batch.  A failed migration is the exception:     *)
(* nobody goes on with it.                                                 *)

\* What the progress of a row promises of the batches that were executed
RowFits(r, batches) ==
    /\ (r.type = "migration" => r.status \notin {"error", "deleted"}) => 1 .. r.done \subseteq batches
    /\ r.status = "success" => AllBatches \subseteq batches

\* What a worker with a job of the type knows of them, by its copy and by the row it
\* was handed, which HandleJobPanic writes back. Only migrations are reset.
WorkerFits(s, type, batches) ==
    /\ s.stage \in Holding => 1 .. s.cursor \subseteq batches
    /\ s.stage \in {"finishing", "doubting", "succeeding"} => AllBatches \subseteq batches
    /\ type # "migration" => 1 .. s.seen \subseteq batches

RowsFit == \A j \in Jobs : RowFits(row[j], ran[j])
WorkersFit ==
    \A w \in Workers, j \in Jobs :
        worker[w].job = j => WorkerFits(worker[w], row[j].type, ran[j])

ProgressInv == RowsFit /\ WorkersFit

-----------------------------------------------------------------------------
(* Kinds of steps *)

\* A step that forgets nothing: the rows it changes fit, and so does the worker.
LEMMA StepKeepsProgress ==
    ASSUME JobInv, ProgressInv, RowsStay, NEW w \in Workers,
           \A j \in Jobs : ran[j] \subseteq ran'[j],
           \A j \in Jobs : row'[j] = row[j] \/ RowFits(row'[j], ran'[j]),
           \A v \in Workers : v # w => worker'[v] = worker[v] \/ worker'[v].job = NoJob,
           \A j \in Jobs : worker'[w].job = j => WorkerFits(worker'[w], row'[j].type, ran'[j])
    PROVE  ProgressInv'
<1>1. \A j \in Jobs : RowFits(row'[j], ran'[j])
  BY DEF ProgressInv, RowsFit, RowFits
<1>2. ASSUME NEW v \in Workers, NEW j \in Jobs, worker'[v].job = j
      PROVE  WorkerFits(worker'[v], row'[j].type, ran'[j])
  <2>1. CASE v = w
    BY <1>2, <2>1
  <2>2. CASE v # w
    <3>1. worker'[v] = worker[v]
      BY <1>2, <2>2, NoJobAssumption
    <3>2. row'[j].type = row[j].type
      BY <1>2, <3>1, NoJobAssumption DEF JobInv, Linked, RowsStay
    <3>3. WorkerFits(worker[v], row[j].type, ran[j])
      BY <1>2, <3>1 DEF ProgressInv, WorkersFit
    <3> QED
      BY <3>1, <3>2, <3>3 DEF WorkerFits
  <2> QED
    BY <2>1, <2>2
<1> QED
  BY <1>1, <1>2 DEF ProgressInv, RowsFit, WorkersFit

\* Steps that leave the workers alone, or end them.
LEMMA OutsideKeepsProgress ==
    ASSUME JobInv, ProgressInv, RowsStay, UNCHANGED ran,
           \A j \in Jobs : row'[j] = row[j] \/ RowFits(row'[j], ran[j]),
           \A v \in Workers : worker'[v] = worker[v] \/ worker'[v].job = NoJob
    PROVE  ProgressInv'
<1>1. \A j \in Jobs : RowFits(row'[j], ran'[j])
  BY DEF ProgressInv, RowsFit
<1>2. ASSUME NEW v \in Workers, NEW j \in Jobs, worker'[v].job = j
      PROVE  WorkerFits(worker'[v], row'[j].type, ran'[j])
  <2>1. worker'[v] = worker[v]
    BY <1>2, NoJobAssumption
  <2>2. row'[j].type = row[j].type
    BY <1>2, <2>1, NoJobAssumption DEF JobInv, Linked, RowsStay
  <2> QED
    BY <1>2, <2>1, <2>2 DEF ProgressInv, WorkersFit
<1> QED
  BY <1>1, <1>2 DEF ProgressInv, RowsFit, WorkersFit

\* A row that changes its status only, to one that promises nothing more.
LEMMA SameProgressFits ==
    ASSUME JobInv, ProgressInv, NEW j \in Jobs, NEW r, r.type = row[j].type, r.done = row[j].done,
           r.status # "success",
           \/ r.type # "migration"
           \/ r.status \in {"error", "deleted"}
           \/ row[j].status \notin {"error", "deleted"}
    PROVE  RowFits(r, ran[j])
BY DEF ProgressInv, RowsFit, RowFits

\* Store calls of a worker about its job.
LEMMA OwnStoreKeepsProgress ==
    ASSUME JobInv, ProgressInv, NEW w \in Workers, worker[w].stage \notin {"off", "idle"},
           NEW r \in Row, r.type = row[worker[w].job].type, r.status # "new",
           r = row[worker[w].job] \/ RowFits(r, ran[worker[w].job]),
           NEW ok \in BOOLEAN, Store(worker[w].job, r, ok), UNCHANGED ran,
           \A v \in Workers : v # w => worker'[v] = worker[v],
           \/ worker'[w].job = NoJob
           \/ /\ worker'[w].job = worker[w].job
              /\ WorkerFits(worker'[w], row[worker[w].job].type, ran[worker[w].job])
    PROVE  ProgressInv'
<1>1. PICK j \in Jobs : j = worker[w].job
  BY Busy DEF JobInv
<1>2. /\ \A i \in Jobs \ {j} : row'[i] = row[i]
      /\ row'[j] \in {row[j], r}
      /\ RowsStay
  BY <1>1, StoreStep DEF JobInv
<1>3. \A i \in Jobs : row'[i] = row[i] \/ RowFits(row'[i], ran'[i])
  BY <1>1, <1>2
<1>4. row'[j].type = row[j].type
  BY <1>1, <1>2
<1>5. \A i \in Jobs : worker'[w].job = i => WorkerFits(worker'[w], row'[i].type, ran'[i])
  BY <1>1, <1>4, NoJobAssumption
<1> QED
  BY <1>2, <1>3, <1>5, StepKeepsProgress

\* What a worker still knows when it goes on to another stage
LEMMA GotoFits ==
    ASSUME JobInv, ProgressInv, NEW w \in Workers, worker[w].stage \in Holding,
           NEW stage \in Holding \cup {"idle"}, Goto(w, stage),
           stage \in {"finishing", "doubting", "succeeding"} =>
               AllBatches \subseteq ran[worker[w].job]
    PROVE  /\ \A v \in Workers : v # w => worker'[v] = worker[v]
           /\ \/ worker'[w].job = NoJob
              \/ /\ worker'[w].job = worker[w].job
                 /\ WorkerFits(worker'[w], row[worker[w].job].type, ran[worker[w].job])
<1>1. PICK j \in Jobs : j = worker[w].job /\ worker[w] \in WorkerState
  BY Busy DEF JobInv, Holding
<1>2. /\ \A v \in Workers : v # w => worker'[v] = worker[v]
      /\ worker'[w] = IF stage = "idle" THEN Idle ELSE [worker[w] EXCEPT !.stage = stage]
  BY GotoStep DEF JobInv
<1>3. WorkerFits(worker[w], row[j].type, ran[j])
  BY <1>1 DEF ProgressInv, WorkersFit
<1>4. CASE stage = "idle"
  BY <1>2, <1>4 DEF Idle
<1>5. CASE stage # "idle"
  <2> DEFINE s == [worker[w] EXCEPT !.stage = stage]
  <2>1. /\ s.stage = stage /\ s.job = j /\ s.cursor = worker[w].cursor /\ s.seen = worker[w].seen
    BY <1>1 DEF WorkerState
  <2>2. worker'[w] = s
    BY <1>2, <1>5
  <2> HIDE DEF s
  <2>3. WorkerFits(s, row[j].type, ran[j])
    BY <1>1, <1>3, <1>5, <2>1 DEF WorkerFits
  <2> QED
    BY <1>1, <1>2, <2>1, <2>2, <2>3
<1> QED
  BY <1>4, <1>5

-----------------------------------------------------------------------------
(* Creating jobs, administrators and the cleanup *)

LEMMA AddKeepsProgress ==
    ASSUME JobInv, ProgressInv, NEW j \in Jobs, NEW t \in Types, Add(j, t)
    PROVE  ProgressInv'
<1> USE DEF Add
<1>1. /\ \A i \in Jobs \ {j} : row'[i] = row[i]
      /\ row'[j] = [type |-> t, status |-> "pending", done |-> 0]
      /\ row[j].status = "new"
  BY DEF JobInv, TypeOK
<1>2. RowsStay
  BY <1>1 DEF RowsStay
<1>3. RowFits(row'[j], ran[j])
  <2>1. 1 .. 0 = {}
    OBVIOUS
  <2> QED
    BY <1>1, <2>1 DEF RowFits
<1> QED
  BY <1>1, <1>2, <1>3, OutsideKeepsProgress

LEMMA CreateKeepsProgress ==
    ASSUME JobInv, ProgressInv, Create
    PROVE  ProgressInv'
<1>1. ASSUME NEW j \in Jobs, NEW t \in Types, CreateJob(j, t) \/ CreateJobOnce(j, t)
      PROVE  ProgressInv'
  BY <1>1, AddKeepsProgress DEF CreateJob, CreateJobOnce
<1>2. ASSUME NEW n \in Nodes, SyncList(n)
      PROVE  ProgressInv'
  BY <1>2, NoRowStep, OutsideKeepsProgress DEF SyncList
<1>3. ASSUME NEW n \in Nodes, NEW j \in Jobs, SyncCancel(n, j)
      PROVE  ProgressInv'
  <2> USE <1>3 DEF SyncCancel
  <2>1. row[j] \in Row /\ row[j].type = "sync" /\ row[j].status # "new"
    BY DEF JobInv, TypeOK, Linked, Row
  <2> DEFINE r == WithStatus(j, "canceled")
  <2>2. PICK ok \in BOOLEAN : Store(j, r, ok)
    OBVIOUS
  <2>3. /\ [row[j] EXCEPT !.status = "canceled"].type = row[j].type
        /\ [row[j] EXCEPT !.status = "canceled"].done = row[j].done
        /\ [row[j] EXCEPT !.status = "canceled"].status = "canceled"
        /\ [row[j] EXCEPT !.status = "canceled"] \in Row
    BY <2>1, BatchesAssumption DEF Row, Status, Final
  <2>4. /\ r \in Row /\ r.type = row[j].type /\ r.done = row[j].done
        /\ r = row[j] \/ r.status = "canceled"
    BY <2>1, <2>3 DEF WithStatus
  <2> HIDE DEF r
  <2>5. r = row[j] \/ RowFits(r, ran[j])
    BY <2>1, <2>4, SameProgressFits
  <2>6. /\ \A i \in Jobs \ {j} : row'[i] = row[i]
        /\ row'[j] \in {row[j], r} /\ RowsStay
    BY <2>1, <2>2, <2>4, StoreStep DEF JobInv
  <2> QED
    BY <2>5, <2>6, OutsideKeepsProgress
<1>4. ASSUME NEW n \in Nodes, NEW j \in Jobs, SyncCreate(n, j)
      PROVE  ProgressInv'
  <2>1. "sync" \in Types
    BY <1>4, TypesAssumption DEF SyncCreate, JobInv, TypeOK, Linked
  <2> QED
    BY <1>4, <2>1, AddKeepsProgress DEF SyncCreate
<1> QED
  BY <1>1, <1>2, <1>3, <1>4 DEF Create

LEMMA ManageKeepsProgress ==
    ASSUME JobInv, ProgressInv, Manage
    PROVE  ProgressInv'
<1>1. PICK j \in Jobs : \/ RequestCancellation(j)
                        \/ \E s \in {"pending", "canceled"} : UpdateJobStatus(j, s)
                        \/ Cleanup(j)
  BY DEF Manage
<1>2. row[j] \in Row
  BY DEF JobInv, TypeOK
<1>3. PICK s \in {"pending", "canceled", "cancel_requested", "deleted"} :
         row' = [row EXCEPT ![j].status = s]
  BY <1>1 DEF RequestCancellation, UpdateJobStatus, Cleanup
<1>4. /\ UNCHANGED <<worker, ran>> /\ row[j].status # "new"
      /\ row[j].type \in Managed \/ s = "deleted"
  BY <1>1, <1>2, <1>3 DEF RequestCancellation, UpdateJobStatus, Cleanup, Exists, JobInv, TypeOK, Row
<1>5. /\ \A i \in Jobs \ {j} : row'[i] = row[i]
      /\ row'[j].type = row[j].type /\ row'[j].done = row[j].done /\ row'[j].status = s
  BY <1>2, <1>3 DEF JobInv, TypeOK, Row
<1>6. RowsStay
  BY <1>3, <1>5 DEF RowsStay
<1>7. RowFits(row'[j], ran[j])
  BY <1>4, <1>5, SameProgressFits DEF Managed
<1> QED
  BY <1>4, <1>5, <1>6, <1>7, OutsideKeepsProgress

-----------------------------------------------------------------------------
(* The workers *)

LEMMA PollRunKeepProgress ==
    ASSUME JobInv, ProgressInv, NEW w \in Workers,
           Run(w) \/ \E j \in Jobs : PollAndNotify(w, j)
    PROVE  ProgressInv'
<1>1. CASE Run(w)
  <2>1. /\ \A v \in Workers : worker'[v] = worker[v] \/ worker'[v].job = NoJob
        /\ UNCHANGED <<row, ran>>
    BY <1>1 DEF Run, Become, Idle, JobInv, TypeOK
  <2> QED
    BY <2>1, NoRowStep, OutsideKeepsProgress
<1>2. ASSUME NEW j \in Jobs, PollAndNotify(w, j)
      PROVE  ProgressInv'
  <2> DEFINE s == [stage |-> "claiming", job |-> j, seen |-> row[j].done, cursor |-> 0]
  <2>1. /\ \A v \in Workers : v # w => worker'[v] = worker[v]
        /\ worker'[w] = s /\ row[j].status = "pending" /\ UNCHANGED <<row, ran>>
    BY <1>2 DEF PollAndNotify, Become, JobInv, TypeOK
  <2>2. RowFits(row[j], ran[j])
    BY DEF ProgressInv, RowsFit
  <2>3. WorkerFits(s, row[j].type, ran[j])
    BY <2>1, <2>2 DEF WorkerFits, RowFits, Holding
  <2>4. s.job = j
    OBVIOUS
  <2> HIDE DEF s
  <2> QED
    BY <2>1, <2>3, <2>4, NoRowStep, StepKeepsProgress
<1> QED
  BY <1>1, <1>2

\* A claim reads the progress together with the status.
LEMMA ClaimJobKeepsProgress ==
    ASSUME JobInv, ProgressInv, NEW w \in Workers, ClaimJob(w)
    PROVE  ProgressInv'
<1>1. PICK j \in Jobs : /\ j = worker[w].job /\ row[j] \in Row /\ row[j].status # "new"
                        /\ worker[w].stage = "claiming" /\ worker[w] \in WorkerState
  BY Busy DEF ClaimJob, At, JobInv
<1> DEFINE claimed == [row[j] EXCEPT !.status = "in_progress"]
           r == IfIn(j, {"pending"}, claimed)
           s == [worker[w] EXCEPT !.stage = "running", !.cursor = row[j].done]
<1>2. PICK ok \in BOOLEAN :
         /\ Store(j, r, ok)
         /\ IF ok /\ row[j].status = "pending" THEN Become(w, s) ELSE Become(w, Idle)
  BY <1>1 DEF ClaimJob
<1>3. /\ claimed \in Row /\ claimed.type = row[j].type /\ claimed.done = row[j].done
      /\ claimed.status = "in_progress"
  BY <1>1 DEF Row, Status, Final
<1>4. /\ r \in Row /\ r.type = row[j].type /\ r.status # "new"
      /\ r = row[j] \/ (r = claimed /\ row[j].status = "pending")
  BY <1>1, <1>3 DEF IfIn
<1> HIDE DEF r, claimed
<1>5. r = row[j] \/ RowFits(r, ran[j])
  BY <1>3, <1>4, SameProgressFits
<1>6. /\ s.stage = "running" /\ s.job = j /\ s.cursor = row[j].done /\ s.seen = worker[w].seen
  BY <1>1 DEF WorkerState
<1>7. row[j].status = "pending" => WorkerFits(s, row[j].type, ran[j])
  <2> HIDE DEF s
  <2>1. RowFits(row[j], ran[j]) /\ WorkerFits(worker[w], row[j].type, ran[j])
    BY <1>1 DEF ProgressInv, RowsFit, WorkersFit
  <2> QED
    BY <1>6, <2>1 DEF WorkerFits, RowFits
<1>8. /\ \A v \in Workers : v # w => worker'[v] = worker[v]
      /\ IF ok /\ row[j].status = "pending" THEN worker'[w] = s ELSE worker'[w] = Idle
  BY <1>2 DEF Become, JobInv, TypeOK
<1>9. \/ worker'[w].job = NoJob
      \/ worker'[w].job = worker[w].job /\ WorkerFits(worker'[w], row[j].type, ran[j])
  <2> HIDE DEF s
  <2> QED
    BY <1>1, <1>6, <1>7, <1>8 DEF Idle
<1>10. UNCHANGED ran
  BY DEF ClaimJob
<1> QED
  BY <1>1, <1>2, <1>4, <1>5, <1>8, <1>9, <1>10, OwnStoreKeepsProgress

\* The next batch is the one after those the copy says were done.
LEMMA RunBatchKeepsProgress ==
    ASSUME JobInv, ProgressInv, NEW w \in Workers, RunBatch(w)
    PROVE  ProgressInv'
<1>1. PICK j \in Jobs : /\ j = worker[w].job /\ worker[w] \in WorkerState
                        /\ worker[w].stage = "running"
  BY Busy DEF RunBatch, At, JobInv
<1>2. PICK k \in 0 .. Batches : k = worker[w].cursor
  BY <1>1 DEF WorkerState
<1> DEFINE s == [worker[w] EXCEPT !.stage = "saving", !.cursor = @ + 1]
<1>3. /\ worker' = [worker EXCEPT ![w] = s] /\ UNCHANGED row
      /\ ran' = [ran EXCEPT ![j] = @ \cup {k + 1}]
  BY <1>1, <1>2 DEF RunBatch, Become
<1>4. /\ s.stage = "saving" /\ s.job = j /\ s.cursor = k + 1 /\ s.seen = worker[w].seen
  BY <1>1, <1>2 DEF WorkerState
<1> HIDE DEF s
<1>5. /\ \A v \in Workers : v # w => worker'[v] = worker[v]
      /\ worker'[w] = s
      /\ \A i \in Jobs : ran[i] \subseteq ran'[i]
      /\ ran'[j] = ran[j] \cup {k + 1}
  BY <1>3 DEF JobInv, TypeOK
<1>6. WorkerFits(worker[w], row[j].type, ran[j])
  BY <1>1 DEF ProgressInv, WorkersFit
<1>7. 1 .. k \subseteq ran[j]
  BY <1>1, <1>2, <1>6 DEF WorkerFits, Holding
<1>8. 1 .. (k + 1) \subseteq ran'[j]
  <2>1. 1 .. (k + 1) \subseteq 1 .. k \cup {k + 1}
    BY BatchesAssumption
  <2> QED
    BY <1>5, <1>7, <2>1
<1>9. WorkerFits(s, row[j].type, ran'[j])
  BY <1>4, <1>5, <1>6, <1>8 DEF WorkerFits
<1> QED
  <2>1. \A i \in Jobs : worker'[w].job = i => WorkerFits(worker'[w], row'[i].type, ran'[i])
    BY <1>3, <1>4, <1>5, <1>9
  <2>2. RowsStay /\ \A i \in Jobs : row'[i] = row[i]
    BY <1>3, NoRowStep
  <2> QED
    BY <1>5, <2>1, <2>2, StepKeepsProgress

LEMMA OtherQuietKeepsProgress ==
    ASSUME JobInv, ProgressInv, NEW w \in Workers,
           Execute(w) \/ NoBatchLeft(w) \/ ExecutionFails(w) \/ NoticeCancellation(w)
    PROVE  ProgressInv'
<1>1. PICK j \in Jobs : /\ j = worker[w].job /\ worker[w] \in WorkerState
                        /\ worker[w].stage = "running"
  BY Busy DEF Execute, NoBatchLeft, ExecutionFails, NoticeCancellation, At, JobInv
<1>2. UNCHANGED row
  BY DEF Execute, NoBatchLeft, ExecutionFails, NoticeCancellation
<1>3. WorkerFits(worker[w], row[j].type, ran[j]) /\ ran[j] \subseteq AllBatches
  BY <1>1 DEF ProgressInv, WorkersFit, JobInv, TypeOK
<1>4. PICK stage \in {"finishing", "succeeding", "failing", "canceling"} :
         /\ Goto(w, stage)
         /\ \A i \in Jobs : ran[i] \subseteq ran'[i]
         /\ stage \in {"finishing", "succeeding"} => AllBatches \subseteq ran'[j]
  <2>1. CASE Execute(w)
    <3>1. ran' = [ran EXCEPT ![j] = AllBatches] /\ Goto(w, "finishing")
      BY <1>1, <2>1 DEF Execute
    <3>2. ran'[j] = AllBatches /\ \A i \in Jobs : ran[i] \subseteq ran'[i]
      BY <1>3, <3>1 DEF JobInv, TypeOK
    <3> QED
      BY <3>1, <3>2
  <2>2. CASE NoBatchLeft(w)
    <3>1. AllBatches \subseteq ran[j]
      BY <1>1, <1>3, <2>2 DEF NoBatchLeft, WorkerFits, Holding, AllBatches
    <3> QED
      BY <2>2, <3>1 DEF NoBatchLeft
  <2>3. CASE ExecutionFails(w)
    BY <2>3 DEF ExecutionFails
  <2>4. CASE NoticeCancellation(w)
    BY <2>4 DEF NoticeCancellation
  <2> QED
    BY <2>1, <2>2, <2>3, <2>4
<1> DEFINE s == [worker[w] EXCEPT !.stage = stage]
<1>5. /\ s.stage = stage /\ s.job = j /\ s.cursor = worker[w].cursor /\ s.seen = worker[w].seen
  BY <1>1 DEF WorkerState
<1>6. worker' = [worker EXCEPT ![w] = s]
  BY <1>4 DEF Goto, Become
<1> HIDE DEF s
<1>7. (\A v \in Workers : v # w => worker'[v] = worker[v]) /\ worker'[w] = s
  BY <1>6 DEF JobInv, TypeOK
<1>8. WorkerFits(s, row[j].type, ran'[j])
  BY <1>1, <1>3, <1>4, <1>5 DEF WorkerFits, Holding
<1> QED
  BY <1>2, <1>4, <1>5, <1>7, <1>8, NoRowStep, StepKeepsProgress

LEMMA SetJobProgressKeepsProgress ==
    ASSUME JobInv, ProgressInv, NEW w \in Workers, SetJobProgress(w)
    PROVE  ProgressInv'
<1>1. worker[w].stage \in {"saving", "finishing"} /\ worker[w].stage \in Holding
  BY DEF SetJobProgress, At, Holding
<1>2. PICK j \in Jobs : /\ j = worker[w].job /\ row[j] \in Row /\ row[j].status # "new"
                        /\ worker[w].cursor \in 0 .. Batches
  BY <1>1, Busy DEF JobInv, WorkerState
<1> DEFINE saved == [row[j] EXCEPT !.done = worker[w].cursor]
           r == IfIn(j, {"in_progress"}, saved)
           next(ok) == IF At(w, "finishing") THEN IF ok THEN "succeeding" ELSE "doubting"
                         ELSE IF ok \/ TypeOf(w) = "migration" THEN "running" ELSE "failing"
<1>3. PICK ok \in BOOLEAN : Store(j, r, ok) /\ Goto(w, next(ok))
  BY <1>2 DEF SetJobProgress
<1>4. WorkerFits(worker[w], row[j].type, ran[j])
  BY <1>2 DEF ProgressInv, WorkersFit
<1>5. /\ saved \in Row /\ saved.type = row[j].type /\ saved.status = row[j].status
      /\ saved.done = worker[w].cursor
  BY <1>2 DEF Row
<1>6. r \in Row /\ r.type = row[j].type /\ r.status # "new"
  BY <1>2, <1>5 DEF IfIn
<1>7. r = row[j] \/ RowFits(r, ran[j])
  <2>1. r = row[j] \/ (r = saved /\ row[j].status = "in_progress")
    BY DEF IfIn
  <2> HIDE DEF r, saved
  <2> QED
    BY <1>1, <1>4, <1>5, <2>1 DEF WorkerFits, RowFits
<1>8. /\ next(ok) \in Holding \cup {"idle"}
      /\ next(ok) \in {"doubting", "succeeding"} => worker[w].stage = "finishing"
      /\ next(ok) # "finishing"
  BY DEF Holding, At
<1>9. next(ok) \in {"finishing", "doubting", "succeeding"} => AllBatches \subseteq ran[j]
  BY <1>4, <1>8 DEF WorkerFits
<1> HIDE DEF r, next
<1>10. /\ \A v \in Workers : v # w => worker'[v] = worker[v]
       /\ \/ worker'[w].job = NoJob
          \/ /\ worker'[w].job = worker[w].job
             /\ WorkerFits(worker'[w], row[worker[w].job].type, ran[worker[w].job])
  BY <1>1, <1>2, <1>3, <1>8, <1>9, GotoFits
<1>11. UNCHANGED ran /\ worker[w].stage \notin {"off", "idle"}
  BY <1>1 DEF SetJobProgress
<1> QED
  BY <1>2, <1>3, <1>6, <1>7, <1>10, <1>11, OwnStoreKeepsProgress

\* Only a worker that executed everything gets here.
LEMMA SetJobSuccessKeepsProgress ==
    ASSUME JobInv, ProgressInv, NEW w \in Workers, SetJobSuccess(w)
    PROVE  ProgressInv'
<1>1. worker[w].stage = "succeeding" /\ worker[w].stage \in Holding
  BY DEF SetJobSuccess, At, Holding
<1>2. PICK j \in Jobs : j = worker[w].job /\ row[j] \in Row /\ row[j].status # "new"
  BY <1>1, Busy DEF JobInv
<1> DEFINE ended == [row[j] EXCEPT !.status = "success"]
           r == WithStatus(j, "success")
           next(ok) == IF ok /\ Exists(j) THEN "idle" ELSE "failing"
<1>3. PICK ok \in BOOLEAN : Store(j, r, ok) /\ Goto(w, next(ok))
  BY <1>2 DEF SetJobSuccess
<1>4. AllBatches \subseteq ran[j]
  BY <1>1, <1>2 DEF ProgressInv, WorkersFit, WorkerFits
<1>5. /\ ended \in Row /\ ended.type = row[j].type /\ ended.status = "success"
      /\ ended.done \in 0 .. Batches
  BY <1>2, BatchesAssumption DEF Row, Status, Final
<1>6. r = row[j] \/ r = ended
  BY DEF WithStatus
<1>7. RowFits(ended, ran[j])
  <2> HIDE DEF ended
  <2>1. 1 .. ended.done \subseteq AllBatches
    BY <1>5, BatchesAssumption DEF AllBatches
  <2> QED
    BY <1>4, <2>1 DEF RowFits
<1>8. next(ok) \in {"idle", "failing"} /\ next(ok) \in Holding \cup {"idle"}
  BY DEF Holding
<1> HIDE DEF r, ended, next
<1>9. /\ \A v \in Workers : v # w => worker'[v] = worker[v]
      /\ \/ worker'[w].job = NoJob
         \/ /\ worker'[w].job = worker[w].job
            /\ WorkerFits(worker'[w], row[worker[w].job].type, ran[worker[w].job])
  BY <1>1, <1>2, <1>3, <1>8, GotoFits
<1>10. UNCHANGED ran
  BY DEF SetJobSuccess
<1>11. r \in Row /\ r.type = row[j].type /\ r.status # "new" /\ (r = row[j] \/ RowFits(r, ran[j]))
  BY <1>2, <1>5, <1>6, <1>7
<1> QED
  BY <1>1, <1>2, <1>3, <1>9, <1>10, <1>11, OwnStoreKeepsProgress

LEMMA SetJobErrorKeepsProgress ==
    ASSUME JobInv, ProgressInv, NEW w \in Workers, SetJobError(w)
    PROVE  ProgressInv'
<1>1. worker[w].stage \in {"failing", "doubting"} /\ worker[w].stage \in Holding
  BY DEF SetJobError, At, Holding
<1>2. PICK j \in Jobs : /\ j = worker[w].job /\ row[j] \in Row /\ row[j].status # "new"
                        /\ worker[w].cursor \in 0 .. Batches
  BY <1>1, Busy DEF JobInv, WorkerState
<1> DEFINE r == Failed(j, worker[w].cursor)
           next == IF At(w, "doubting") THEN "succeeding" ELSE "idle"
<1>3. PICK ok \in BOOLEAN : Store(j, r, ok)
  BY <1>2 DEF SetJobError
<1>4. WorkerFits(worker[w], row[j].type, ran[j])
  BY <1>2 DEF ProgressInv, WorkersFit
<1>5. r \in Row /\ r.type = row[j].type /\ r.status # "new"
  BY <1>2, FailedRow
<1>6. r = row[j] \/ RowFits(r, ran[j])
  BY <1>1, <1>2, <1>4 DEF Failed, IfIn, Row, WorkerFits, RowFits
<1>7. /\ next \in Holding \cup {"idle"} /\ Goto(w, next) /\ next \in {"succeeding", "idle"}
      /\ next = "succeeding" => AllBatches \subseteq ran[j]
  BY <1>4 DEF SetJobError, At, Holding, WorkerFits
<1> HIDE DEF r, next
<1>8. /\ \A v \in Workers : v # w => worker'[v] = worker[v]
      /\ \/ worker'[w].job = NoJob
         \/ /\ worker'[w].job = worker[w].job
            /\ WorkerFits(worker'[w], row[worker[w].job].type, ran[worker[w].job])
  BY <1>1, <1>2, <1>7, GotoFits
<1>9. UNCHANGED ran /\ worker[w].stage \notin {"off", "idle"}
  BY <1>1 DEF SetJobError
<1> QED
  BY <1>2, <1>3, <1>5, <1>6, <1>8, <1>9, OwnStoreKeepsProgress

\* A worker that gives its job up has none.
LEMMA IdleStep ==
    ASSUME TypeOK, NEW w \in Workers, Goto(w, "idle")
    PROVE  /\ \A v \in Workers : v # w => worker'[v] = worker[v]
           /\ worker'[w].job = NoJob
<1>1. worker' = [worker EXCEPT ![w] = Idle]
  BY DEF Goto, Become
<1>2. worker'[w] = Idle /\ \A v \in Workers : v # w => worker'[v] = worker[v]
  BY <1>1 DEF TypeOK
<1> QED
  BY <1>2 DEF Idle

LEMMA SetJobCanceledKeepsProgress ==
    ASSUME JobInv, StatusInv, ProgressInv, NEW w \in Workers, SetJobCanceled(w)
    PROVE  ProgressInv'
<1>1. worker[w].stage = "canceling" /\ worker[w].stage \in Holding /\ TypeOf(w) # "migration"
  BY DEF SetJobCanceled, At, Holding, StatusInv, Stages
<1>2. PICK j \in Jobs : /\ j = worker[w].job /\ row[j] \in Row /\ row[j].status # "new"
                        /\ row[j].type # "migration"
  BY <1>1, Busy DEF JobInv
<1> DEFINE ended == [row[j] EXCEPT !.status = "canceled"]
           r == WithStatus(j, "canceled")
<1>3. PICK ok \in BOOLEAN : Store(j, r, ok)
  BY <1>2 DEF SetJobCanceled
<1>4. /\ ended \in Row /\ ended.type = row[j].type /\ ended.status = "canceled"
      /\ ended.done = row[j].done
  BY <1>2, BatchesAssumption DEF Row, Status, Final
<1>5. r = row[j] \/ r = ended
  BY DEF WithStatus
<1> HIDE DEF r, ended
<1>6. RowFits(ended, ran[j])
  BY <1>2, <1>4, SameProgressFits
<1>7. /\ \A v \in Workers : v # w => worker'[v] = worker[v]
      /\ worker'[w].job = NoJob /\ UNCHANGED ran
  <2>1. Goto(w, "idle") /\ UNCHANGED ran
    BY DEF SetJobCanceled
  <2> QED
    BY <1>1, <2>1, IdleStep DEF JobInv
<1>8. r \in Row /\ r.type = row[j].type /\ r.status # "new" /\ (r = row[j] \/ RowFits(r, ran[j]))
  BY <1>2, <1>4, <1>5, <1>6
<1> QED
  BY <1>1, <1>2, <1>3, <1>7, <1>8, OwnStoreKeepsProgress

\* A reset forgets the batches of a migration that no other worker has.
LEMMA ResetJobKeepsProgress ==
    ASSUME JobInv, StatusInv, ProgressInv, NEW w \in Workers, ResetJob(w)
    PROVE  ProgressInv'
<1>1. /\ worker[w].stage = "running" /\ worker[w].stage \in Holding
      /\ TypeOf(w) = "migration" /\ Goto(w, "idle")
  BY DEF ResetJob, At, Holding
<1>2. PICK j \in Jobs : /\ j = worker[w].job /\ row[j] \in Row /\ row[j].status # "new"
                        /\ row[j].type = "migration"
  BY <1>1, Busy DEF JobInv
<1> DEFINE reset == [row[j] EXCEPT !.status = "pending", !.done = 0]
           r == IfIn(j, {"in_progress"}, reset)
<1>3. PICK ok \in BOOLEAN : Store(j, r, ok)
  BY <1>2 DEF ResetJob
<1>4. ran' = [ran EXCEPT ![j] = IF row'[j] = row[j] THEN @ ELSE {}]
  BY <1>2 DEF ResetJob
<1>5. /\ reset \in Row /\ reset.type = "migration" /\ reset.status = "pending" /\ reset.done = 0
  <2>1. 0 \in 0 .. Batches /\ "pending" \in Status \ {"new"}
    BY BatchesAssumption DEF Status
  <2> QED
    BY <1>2, <2>1 DEF Row
<1>6. r = row[j] \/ r = reset
  BY DEF IfIn
<1> HIDE DEF r, reset
<1>7. /\ \A i \in Jobs \ {j} : row'[i] = row[i]
      /\ row'[j] = row[j] \/ row'[j] = reset
      /\ row'[j].type = row[j].type /\ RowsStay
  BY <1>2, <1>3, <1>5, <1>6, StoreStep DEF JobInv
<1>8. /\ \A i \in Jobs \ {j} : ran'[i] = ran[i]
      /\ row'[j] = row[j] => ran'[j] = ran[j]
  BY <1>4 DEF JobInv, TypeOK
<1>9. RowFits(reset, ran'[j])
  <2>1. 1 .. 0 = {}
    OBVIOUS
  <2> QED
    BY <1>5, <2>1 DEF RowFits
<1>10. \A i \in Jobs : RowFits(row'[i], ran'[i])
  <2>1. \A i \in Jobs : RowFits(row[i], ran[i])
    BY DEF ProgressInv, RowsFit
  <2> QED
    BY <1>7, <1>8, <1>9, <2>1
<1>11. (\A v \in Workers : v # w => worker'[v] = worker[v]) /\ worker'[w].job = NoJob
  BY <1>1, IdleStep DEF JobInv
<1>12. ASSUME NEW v \in Workers, NEW i \in Jobs, worker'[v].job = i
       PROVE  WorkerFits(worker'[v], row'[i].type, ran'[i])
  <2>1. v # w /\ worker'[v] = worker[v] /\ WorkerFits(worker[v], row[i].type, ran[i])
    BY <1>11, <1>12, NoJobAssumption DEF ProgressInv, WorkersFit
  <2>2. CASE i # j
    BY <1>7, <1>8, <2>1, <2>2
  <2>3. CASE i = j
    <3>1. ~Holds(v, j)
      <4>1. Holds(w, j) /\ j \notin requeued
        BY <1>1, <1>2 DEF Holds, StatusInv, Unmanaged
      <4> QED
        BY <2>1, <4>1 DEF JobInv, OneRunner
    <3>2. worker[v].stage \notin Holding
      BY <1>12, <2>1, <2>3, <3>1 DEF Holds
    <3> QED
      BY <1>2, <1>7, <2>1, <2>3, <3>2 DEF WorkerFits, Holding
  <2> QED
    BY <2>2, <2>3
<1> QED
  BY <1>10, <1>12 DEF ProgressInv, RowsFit, WorkersFit

\* A migration that is given back was in progress, so that its row counts.
LEMMA StopKeepsProgress ==
    ASSUME JobInv, MigrationInv, ProgressInv, NEW w \in Workers, Stop(w)
    PROVE  ProgressInv'
<1>1. /\ \A v \in Workers : v # w => worker'[v] = worker[v]
      /\ worker'[w].job = NoJob /\ UNCHANGED ran
  BY DEF Stop, Become, Off, Idle, JobInv, TypeOK
<1>2. CASE At(w, "idle") /\ UNCHANGED row
  BY <1>1, <1>2, NoRowStep, OutsideKeepsProgress
<1>3. CASE ~At(w, "idle")
  <2>1. worker[w].stage = "running"
    BY <1>3 DEF Stop, At
  <2>2. PICK j \in Jobs : /\ j = worker[w].job /\ row[j] \in Row /\ row[j].status # "new"
                          /\ row[j].type = TypeOf(w)
    BY <2>1, Busy DEF JobInv
  <2> DEFINE back == IF TypeOf(w) = "migration" THEN "pending" ELSE "canceled"
             given == [row[j] EXCEPT !.status = back]
             r == WithStatus(j, back)
  <2>3. PICK ok \in BOOLEAN : Store(j, r, ok)
    BY <1>3, <2>2 DEF Stop
  <2>4. back \in Status \ {"new"} /\ back \in {"pending", "canceled"}
    BY DEF Status, Final
  <2> HIDE DEF back
  <2>5. /\ given \in Row /\ given.type = row[j].type /\ given.done = row[j].done
        /\ given.status = back
    BY <2>2, <2>4 DEF Row
  <2>6. r = row[j] \/ r = given
    BY DEF WithStatus
  <2>7. TypeOf(w) = "migration" => row[j].status = "in_progress"
    BY <2>1, <2>2 DEF MigrationInv, ExecutedInProgress, Executes
  <2> HIDE DEF r, given
  <2>8. RowFits(given, ran[j])
    BY <2>2, <2>4, <2>5, <2>7, SameProgressFits
  <2>9. r \in Row /\ r.type = row[j].type /\ r.status # "new" /\ (r = row[j] \/ RowFits(r, ran[j]))
    BY <2>2, <2>4, <2>5, <2>6, <2>8
  <2> QED
    BY <1>1, <2>1, <2>2, <2>3, <2>9, OwnStoreKeepsProgress
<1> QED
  BY <1>2, <1>3 DEF Stop, At

LEMMA CrashKeepsProgress ==
    ASSUME JobInv, ProgressInv, NEW n \in Nodes, Crash(n)
    PROVE  ProgressInv'
<1>1. /\ \A v \in Workers : worker'[v] = worker[v] \/ worker'[v].job = NoJob
      /\ UNCHANGED <<row, ran>>
  BY DEF Crash, Restarted, Idle
<1> QED
  BY <1>1, NoRowStep, OutsideKeepsProgress

\* The progress a panic writes back is old, but not too far: of a migration it does not
\* count, and of the others nothing is ever forgotten.
LEMMA HandleJobPanicKeepsProgress ==
    ASSUME JobInv, ProgressInv, NEW w \in Workers, HandleJobPanic(w)
    PROVE  ProgressInv'
<1>1. /\ \A v \in Workers : worker'[v] = worker[v] \/ worker'[v].job = NoJob
      /\ UNCHANGED ran /\ worker[w].stage = "running"
  BY DEF HandleJobPanic, At, Restarted, Idle
<1>2. PICK j \in Jobs : /\ j = worker[w].job /\ row[j] \in Row /\ row[j].status # "new"
                        /\ worker[w].seen \in 0 .. Batches
  BY <1>1, Busy DEF JobInv, WorkerState
<1> DEFINE r == Failed(j, worker[w].seen)
<1>3. PICK ok \in BOOLEAN : Store(j, r, ok)
  BY <1>2 DEF HandleJobPanic
<1>4. WorkerFits(worker[w], row[j].type, ran[j])
  BY <1>2 DEF ProgressInv, WorkersFit
<1>5. r \in Row /\ r.type = row[j].type /\ r.status # "new"
  BY <1>2, FailedRow
<1>6. r = row[j] \/ RowFits(r, ran[j])
  BY <1>2, <1>4 DEF Failed, IfIn, Row, WorkerFits, RowFits
<1> HIDE DEF r
<1>7. /\ \A i \in Jobs \ {j} : row'[i] = row[i]
      /\ row'[j] \in {row[j], r} /\ RowsStay
  BY <1>2, <1>3, <1>5, StoreStep DEF JobInv
<1> QED
  BY <1>1, <1>6, <1>7, OutsideKeepsProgress

-----------------------------------------------------------------------------
(* The theorems *)

LEMMA ProgressInit ==
    Init => ProgressInv
<1> SUFFICES ASSUME Init PROVE ProgressInv
  OBVIOUS
<1>1. 1 .. 0 = {}
  OBVIOUS
<1>2. RowsFit
  BY <1>1 DEF Init, RowsFit, RowFits, Blank
<1>3. WorkersFit
  BY NoJobAssumption DEF Init, WorkersFit, Idle
<1> QED
  BY <1>2, <1>3 DEF ProgressInv

LEMMA ProgressNext ==
    ASSUME JobInv, StatusInv, MigrationInv, ProgressInv, [Next]_vars
    PROVE  ProgressInv'
<1>1. CASE Create
  BY <1>1, CreateKeepsProgress
<1>2. CASE Manage
  BY <1>2, ManageKeepsProgress
<1>3. ASSUME NEW w \in Workers, Proceed(w)
      PROVE  ProgressInv'
  BY <1>3, ClaimJobKeepsProgress, OtherQuietKeepsProgress, RunBatchKeepsProgress,
     SetJobProgressKeepsProgress, SetJobSuccessKeepsProgress, SetJobErrorKeepsProgress,
     SetJobCanceledKeepsProgress DEF Proceed
<1>4. ASSUME NEW w \in Workers, Interrupt(w)
      PROVE  ProgressInv'
  BY <1>4, OtherQuietKeepsProgress, ResetJobKeepsProgress, StopKeepsProgress,
     HandleJobPanicKeepsProgress DEF Interrupt
<1>5. ASSUME NEW w \in Workers, Run(w) \/ \E j \in Jobs : PollAndNotify(w, j)
      PROVE  ProgressInv'
  BY <1>5, PollRunKeepProgress
<1>6. ASSUME NEW n \in Nodes, Crash(n)
      PROVE  ProgressInv'
  BY <1>6, CrashKeepsProgress
<1>7. CASE UNCHANGED vars
  BY <1>7 DEF vars, ProgressInv, RowsFit, WorkersFit
<1> QED
  BY <1>1, <1>2, <1>3, <1>4, <1>5, <1>6, <1>7 DEF Next

\* Rows, the copies of workers and the rows they were handed promise no batch that was
\* not executed, but for rows of migrations that failed.
THEOREM ProgressInvariant == Spec => []ProgressInv
<1>1. JobInv /\ StatusInv /\ MigrationInv /\ ProgressInv /\ [Next]_vars => ProgressInv'
  BY ProgressNext
<1> QED
  BY <1>1, ProgressInit, JobInvariant, StatusInvariant, MigrationInvariant, PTL DEF Spec

\* No batch of a job that goes on or succeeded was skipped, through restarts, resets,
\* panics, store calls that fail and jobs taken over by another node.
THEOREM BatchesAreNotSkipped == Spec => []NoBatchSkipped
<1>1. JobInv /\ ProgressInv => NoBatchSkipped
  <2> SUFFICES ASSUME JobInv, ProgressInv, NEW j \in Jobs
               PROVE  /\ row[j].status \in {"pending", "in_progress"} => 1 .. row[j].done \subseteq ran[j]
                      /\ row[j].status = "success" => ran[j] = AllBatches
    BY DEF NoBatchSkipped
  <2>1. RowFits(row[j], ran[j]) /\ ran[j] \subseteq AllBatches
    BY DEF ProgressInv, RowsFit, JobInv, TypeOK
  <2> QED
    BY <2>1 DEF RowFits
<1> QED
  BY <1>1, JobInvariant, ProgressInvariant, PTL

===============================================================================
