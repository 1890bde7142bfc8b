------------------------------- MODULE JobServer -------------------------------
(***************************************************************************)
(* The job server (channels/jobs): rows of the Jobs table, and on every    *)
(* node a worker per type of job. Nothing but the rows coordinates the     *)
(* nodes: a worker claims a job with a conditional update, and most other  *)
(* updates are conditional on the status too, but not all of them.         *)
(*                                                                         *)
(* Types stand for the ways jobs are created, run and managed:             *)
(*   "simple"    SimpleWorker: the job is executed in one go;              *)
(*   "migration" BatchMigrationWorker: batches, created once, and neither  *)
(*               canceled nor updated by administrators, because           *)
(*               SessionHasPermissionToManageJob knows no such type;       *)
(*   "watched"   jobs/migrations/worker.go: batches, and a                 *)
(*               CancellationWatcher;                                      *)
(*   "sync"      the access control syncs: created after canceling the     *)
(*               ones before, run like "simple" (their worker is not in    *)
(*               this repository).                                         *)
(***************************************************************************)
EXTENDS Naturals

CONSTANTS
    Nodes,
    Jobs,                   \* the ids of the jobs that can be created
    Types,                  \* the types of jobs
    Deployments,            \* the sets of types that servers register
    Batches,                \* the batches of a "migration" or "watched" job
    MaxTroubles,            \* bound: failed store calls, stops, crashes, resets,
                            \* overrides and cleanups
    NoJob

ASSUME TypesAssumption ==
    /\ Types \subseteq {"simple", "migration", "watched", "sync"}
    /\ Deployments \subseteq SUBSET Types
ASSUME BatchesAssumption == Batches \in Nat \ {0} /\ MaxTroubles \in Nat
ASSUME NoJobAssumption == NoJob \notin Jobs

VARIABLES
    registered,             \* the types registered: it depends on the license
    row,                    \* per job: its row
    worker,                 \* per node and type: the worker
    request,                \* per node: a request that creates a sync job
    ran,                    \* history, per job: the batches executed, since the last reset
    requeued,               \* history: the jobs an administrator set to pending
    overruled,              \* history: the jobs set to canceled from outside their worker
    hurt,                   \* history: the jobs a store call failed for
    orphans,                \* history: the jobs running on a node that crashed
    troubles                \* how many of MaxTroubles happened

\* What most actions leave alone.
rest == <<registered, requeued, overruled, orphans>>
vars == <<row, worker, request, ran, rest, hurt, troubles>>

Workers == Nodes \X Types
TypeOf(w) == w[2]
Batched == {"migration", "watched"}
Managed == {"simple", "watched", "sync"}
AllBatches == 1 .. Batches

\* "new" is no row yet, "deleted" no row any more.
Final == {"success", "error", "canceled"}
Status == {"new", "pending", "in_progress", "cancel_requested", "deleted"} \cup Final
\* done is the part of Data that says how far the batches got.
Row == [type : Types, status : Status \ {"new"}, done : 0 .. Batches]
     \cup [type : {"none"}, status : {"new"}, done : {0}]
Blank == [type |-> "none", status |-> "new", done |-> 0]

\* The stages in which a worker has the job it claimed.
Holding == {"running", "saving", "finishing", "doubting", "succeeding", "failing",
            "canceling"}
\* seen is the done of the row the watcher handed over, cursor that of the worker's copy.
WorkerState == [stage : {"off", "idle", "claiming"} \cup Holding,
                job : Jobs \cup {NoJob}, seen : 0 .. Batches, cursor : 0 .. Batches]
Idle == [stage |-> "idle", job |-> NoJob, seen |-> 0, cursor |-> 0]
Off == [Idle EXCEPT !.stage = "off"]
NoRequest == [open |-> FALSE, listed |-> {}]

Init ==
    /\ registered \in Deployments
    /\ row = [j \in Jobs |-> Blank]
    /\ worker = [w \in Workers |-> Idle]
    /\ request = [n \in Nodes |-> NoRequest]
    /\ ran = [j \in Jobs |-> {}]
    /\ requeued = {} /\ overruled = {} /\ hurt = {} /\ orphans = {}
    /\ troubles = 0

-----------------------------------------------------------------------------
(* The store *)

Trouble == troubles < MaxTroubles /\ troubles' = troubles + 1
TroubleIf(b) == IF b THEN Trouble ELSE UNCHANGED troubles

\* A call that makes the row of j equal to r. When it fails (~ok) the database may
\* have done it nevertheless.
Store(j, r, ok) ==
    /\ row' \in IF ok THEN {[row EXCEPT ![j] = r]} ELSE {row, [row EXCEPT ![j] = r]}
    /\ hurt' = IF ok THEN hurt ELSE hurt \cup {j}

Exists(j) == row[j].status \notin {"new", "deleted"}

\* UpdateOptimistically and UpdateStatusOptimistically: r, if the status is one of from.
IfIn(j, from, r) == IF row[j].status \in from THEN r ELSE row[j]
\* UpdateStatus, for any status.
WithStatus(j, s) == IF Exists(j) THEN [row[j] EXCEPT !.status = s] ELSE row[j]

-----------------------------------------------------------------------------
(* Creating jobs *)

Add(j, t) ==
    /\ row[j].status = "new"
    /\ row' = [row EXCEPT ![j] = [type |-> t, status |-> "pending", done |-> 0]]
    /\ UNCHANGED <<worker, ran, rest, hurt, troubles>>

CreateJob(j, t) == t \in registered \cap {"simple", "watched"} /\ Add(j, t) /\ UNCHANGED request

CreateJobOncePending(j, t) ==       \* mutant: as the check before CreateJobOnce does
    /\ t \in registered /\ t = "migration"
    /\ \A i \in Jobs : ~(row[i].type = t /\ row[i].status = "pending")
    /\ Add(j, t)
    /\ UNCHANGED request

\* SaveOnce counts and inserts in one serializable transaction. The callers look first
\* whether the migration is complete, outside of the transaction: that keeps nothing out.
CreateJobOnce(j, t) ==
    /\ t \in registered /\ t = "migration"
    /\ \A i \in Jobs : ~(row[i].type = t /\ row[i].status \in {"pending", "in_progress"})
    /\ Add(j, t)
    /\ UNCHANGED request

\* CreateAccessControlSyncJob and CreateAccessControlTeamSyncJob of one policy: list,
\* cancel one by one, create. A list that fails is taken as empty.
SyncList(n) ==
    /\ "sync" \in registered
    /\ ~request[n].open
    /\ \E j \in Jobs : row[j].status = "new"
    /\ \E ok \in BOOLEAN :
          /\ TroubleIf(~ok)
          /\ request' = [request EXCEPT ![n] =
                [open |-> TRUE,
                 listed |-> IF ok THEN {j \in Jobs : row[j].type = "sync" /\
                                            row[j].status \in {"pending", "in_progress"}}
                            ELSE {}]]
    /\ UNCHANGED <<row, worker, ran, rest, hurt>>

SyncCancel(n, j) ==
    /\ j \in request[n].listed
    /\ request' = [request EXCEPT ![n].listed = @ \ {j}]
    /\ \E ok \in BOOLEAN : TroubleIf(~ok) /\ Store(j, WithStatus(j, "canceled"), ok)
    /\ overruled' = overruled \cup {j}
    /\ UNCHANGED <<registered, worker, ran, requeued, orphans>>

SyncCreate(n, j) ==
    /\ request[n].open /\ request[n].listed = {}
    /\ request' = [request EXCEPT ![n] = NoRequest]
    /\ Add(j, "sync")

-----------------------------------------------------------------------------
(* Administrators and the cleanup *)

CancelAtOnce(j) ==                  \* mutant: does not leave it to the worker
    /\ row[j].type \in Managed
    /\ row[j].status \in {"pending", "in_progress"}
    /\ row' = [row EXCEPT ![j].status = "canceled"]
    /\ UNCHANGED <<worker, request, ran, rest, hurt, troubles>>

RequestCancellation(j) ==
    /\ row[j].type \in Managed
    /\ row[j].status \in {"pending", "in_progress"}
    /\ row' = [row EXCEPT ![j].status =
                  IF @ = "pending" THEN "canceled" ELSE "cancel_requested"]
    /\ UNCHANGED <<worker, request, ran, rest, hurt, troubles>>

\* UpdateJobStatus to "pending" or "canceled". Whether the change is valid is decided
\* on a copy of the row that may be old, or not at all with force.
UpdateJobStatus(j, s) ==
    /\ Trouble
    /\ row[j].type \in Managed
    /\ Exists(j)
    /\ row' = [row EXCEPT ![j].status = s]
    /\ requeued' = IF s = "pending" THEN requeued \cup {j} ELSE requeued
    /\ overruled' = IF s = "canceled" THEN overruled \cup {j} ELSE overruled
    /\ UNCHANGED <<registered, worker, request, ran, hurt, orphans>>

\* Cleanup of an old row. A job whose cancellation was requested is not spared.
Cleanup(j) ==
    /\ Trouble
    /\ Exists(j)
    /\ row[j].status \notin {"pending", "in_progress"}
    /\ row' = [row EXCEPT ![j].status = "deleted"]
    /\ UNCHANGED <<worker, request, ran, rest, hurt>>

-----------------------------------------------------------------------------
(* The workers *)

At(w, stage) == worker[w].stage = stage
Become(w, state) == worker' = [worker EXCEPT ![w] = state]
Goto(w, stage) ==
    Become(w, IF stage = "idle" THEN Idle ELSE [worker[w] EXCEPT !.stage = stage])

\* The watcher of the node hands a pending job to a worker that waits for one.
PollAndNotify(w, j) ==
    /\ At(w, "idle")
    /\ row[j].type = TypeOf(w) /\ row[j].status = "pending"
    /\ Become(w, [stage |-> "claiming", job |-> j, seen |-> row[j].done, cursor |-> 0])
    /\ UNCHANGED <<row, request, ran, rest, hurt, troubles>>

ClaimAnyway(w) ==                   \* mutant: an unconditional UpdateStatus
    /\ At(w, "claiming")
    /\ LET j == worker[w].job IN
          /\ row[j].status # "deleted"
          /\ row' = [row EXCEPT ![j].status = "in_progress"]
          /\ Become(w, [worker[w] EXCEPT !.stage = "running", !.cursor = row[j].done])
    /\ UNCHANGED <<request, ran, rest, hurt, troubles>>

ClaimJob(w) ==
    /\ At(w, "claiming")
    /\ LET j == worker[w].job IN
       \E ok \in BOOLEAN :
          /\ TroubleIf(~ok)
          /\ Store(j, IfIn(j, {"pending"}, [row[j] EXCEPT !.status = "in_progress"]), ok)
          /\ IF ok /\ row[j].status = "pending"
             THEN Become(w, [worker[w] EXCEPT !.stage = "running", !.cursor = row[j].done])
             ELSE Become(w, Idle)
    /\ UNCHANGED <<request, ran, rest>>

\* The job in one go.
Execute(w) ==
    /\ At(w, "running") /\ TypeOf(w) \notin Batched
    /\ ran' = [ran EXCEPT ![worker[w].job] = AllBatches]
    /\ Goto(w, "finishing")
    /\ UNCHANGED <<row, request, rest, hurt, troubles>>

RunBatchTwice(w) ==                 \* mutant: goes on after the last batch
    /\ At(w, "running") /\ TypeOf(w) \in Batched
    /\ worker[w].cursor <= Batches
    /\ ran' = [ran EXCEPT ![worker[w].job] = @ \cup {worker[w].cursor + 1}]
    /\ Become(w, [worker[w] EXCEPT !.stage = "saving", !.cursor = @ + 1])
    /\ UNCHANGED <<row, request, rest, hurt, troubles>>

\* A batch, and the progress in the worker's copy of the data.
RunBatch(w) ==
    /\ At(w, "running") /\ TypeOf(w) \in Batched
    /\ worker[w].cursor < Batches
    /\ ran' = [ran EXCEPT ![worker[w].job] = @ \cup {worker[w].cursor + 1}]
    /\ Become(w, [worker[w] EXCEPT !.stage = "saving", !.cursor = @ + 1])
    /\ UNCHANGED <<row, request, rest, hurt, troubles>>

\* No batch is left. Migrations set the progress to 100 first, like simple jobs.
NoBatchLeft(w) ==
    /\ At(w, "running") /\ TypeOf(w) \in Batched
    /\ worker[w].cursor = Batches
    /\ Goto(w, IF TypeOf(w) = "migration" THEN "finishing" ELSE "succeeding")
    /\ UNCHANGED <<row, request, ran, rest, hurt, troubles>>

\* The execution of the job or of a batch returns an error.
ExecutionFails(w) ==
    /\ At(w, "running")
    /\ Goto(w, "failing")
    /\ UNCHANGED <<row, request, ran, rest, hurt, troubles>>

\* SetJobProgress and UpdateInProgressJobData. Whether a row matched is not looked at.
\* On an error a migration goes on, a watched job fails, and a job that is done is set
\* to error and then to success.
SetJobProgress(w) ==
    /\ \/ At(w, "saving") \/ At(w, "finishing")
    /\ LET j == worker[w].job IN
       \E ok \in BOOLEAN :
          /\ TroubleIf(~ok)
          /\ Store(j, IfIn(j, {"in_progress"}, [row[j] EXCEPT !.done = worker[w].cursor]), ok)
          /\ Goto(w, IF At(w, "finishing") THEN IF ok THEN "succeeding" ELSE "doubting"
                     ELSE IF ok \/ TypeOf(w) = "migration" THEN "running" ELSE "failing")
    /\ UNCHANGED <<request, ran, rest>>

\* SetJobSuccess updates the status whatever it is; a deleted row is an error.
SetJobSuccess(w) ==
    /\ At(w, "succeeding")
    /\ LET j == worker[w].job IN
       \E ok \in BOOLEAN :
          /\ TroubleIf(~ok)
          /\ Store(j, WithStatus(j, "success"), ok)
          /\ Goto(w, IF ok /\ Exists(j) THEN "idle" ELSE "failing")
    /\ UNCHANGED <<request, ran, rest>>

FailedInProgress(j, done) ==        \* mutant: without the second UpdateOptimistically
    IfIn(j, {"in_progress"}, [row[j] EXCEPT !.status = "error", !.done = done])

Failed(j, done) ==
    IfIn(j, {"in_progress", "cancel_requested"}, [row[j] EXCEPT !.status = "error", !.done = done])

SetJobError(w) ==
    /\ \/ At(w, "failing") \/ At(w, "doubting")
    /\ LET j == worker[w].job IN
       \E ok \in BOOLEAN :
          /\ TroubleIf(~ok)
          /\ Store(j, Failed(j, worker[w].cursor), ok)
    /\ Goto(w, IF At(w, "doubting") THEN "succeeding" ELSE "idle")
    /\ UNCHANGED <<request, ran, rest>>

\* CancellationWatcher finds that the cancellation was requested ...
NoticeCancellation(w) ==
    /\ At(w, "running") /\ TypeOf(w) = "watched"
    /\ row[worker[w].job].status = "cancel_requested"
    /\ Goto(w, "canceling")
    /\ UNCHANGED <<row, request, ran, rest, hurt, troubles>>

\* ... and the worker, at its next select, gives up.
SetJobCanceled(w) ==
    /\ At(w, "canceling")
    /\ LET j == worker[w].job IN
       \E ok \in BOOLEAN : TroubleIf(~ok) /\ Store(j, WithStatus(j, "canceled"), ok)
    /\ Goto(w, "idle")
    /\ UNCHANGED <<request, ran, rest>>

ResetKeepsData(w) ==                \* mutant: job.Data is not erased
    /\ At(w, "running") /\ TypeOf(w) = "migration"
    /\ Trouble
    /\ LET j == worker[w].job IN
          /\ row[j].status = "in_progress"
          /\ row' = [row EXCEPT ![j].status = "pending"]
          /\ ran' = [ran EXCEPT ![j] = {}]
    /\ Goto(w, "idle")
    /\ UNCHANGED <<request, rest, hurt>>

\* The nodes run different versions: the migration starts over. The job's copy has no
\* data then, and what was done before counts for nothing.
ResetJob(w) ==
    /\ At(w, "running") /\ TypeOf(w) = "migration"
    /\ Trouble
    /\ LET j == worker[w].job
           reset == [row[j] EXCEPT !.status = "pending", !.done = 0]
       IN /\ \E ok \in BOOLEAN : Store(j, IfIn(j, {"in_progress"}, reset), ok)
          /\ ran' = [ran EXCEPT ![j] = IF row'[j] = row[j] THEN @ ELSE {}]
    /\ Goto(w, "idle")
    /\ UNCHANGED <<request, rest>>

StopSilently(w) ==                  \* mutant: keeps the job in progress
    /\ Trouble
    /\ TypeOf(w) \in registered
    /\ At(w, "idle") \/ (At(w, "running") /\ TypeOf(w) \in Batched)
    /\ Become(w, Off)
    /\ UNCHANGED <<row, request, ran, rest, hurt>>

\* Stop. A simple worker finishes its job first; the others give it back, the migrations
\* as pending, the watched ones as canceled.
Stop(w) ==
    /\ Trouble
    /\ TypeOf(w) \in registered
    /\ \/ At(w, "idle") /\ UNCHANGED <<row, hurt>>
       \/ /\ At(w, "running") /\ TypeOf(w) \in Batched
          /\ LET j == worker[w].job
                 back == WithStatus(j, IF TypeOf(w) = "migration" THEN "pending" ELSE "canceled")
             IN \E ok \in BOOLEAN : Store(j, back, ok)
    /\ Become(w, Off)
    /\ UNCHANGED <<request, ran, rest>>

Run(w) ==
    /\ At(w, "off")
    /\ Become(w, Idle)
    /\ UNCHANGED <<row, request, ran, rest, hurt, troubles>>

Holds(w, j) == worker[w].job = j /\ worker[w].stage \in Holding

\* The process of a node ends, and starts again.
Restarted(n) ==
    /\ worker' = [w \in Workers |-> IF w[1] = n THEN Idle ELSE worker[w]]
    /\ request' = [request EXCEPT ![n] = NoRequest]
    /\ orphans' = orphans \cup {j \in Jobs : \E w \in Workers : w[1] = n /\ Holds(w, j)}
    /\ UNCHANGED <<registered, ran, requeued, overruled>>

Crash(n) ==
    /\ Trouble
    /\ Restarted(n)
    /\ UNCHANGED <<row, hurt>>

\* A batch panics: HandleJobPanic, deferred before the claim, sets the candidate's copy
\* of the job to error, and panics again, which ends the process.
HandleJobPanic(w) ==
    /\ Trouble
    /\ At(w, "running") /\ TypeOf(w) \in Batched
    /\ LET j == worker[w].job IN
       \E ok \in BOOLEAN : Store(j, Failed(j, worker[w].seen), ok)
    /\ Restarted(w[1])

-----------------------------------------------------------------------------

Create ==
    \/ \E j \in Jobs, t \in Types : CreateJob(j, t) \/ CreateJobOnce(j, t)
    \/ \E n \in Nodes : SyncList(n)
    \/ \E n \in Nodes, j \in Jobs : SyncCancel(n, j) \/ SyncCreate(n, j)

Manage ==
    \E j \in Jobs :
        \/ RequestCancellation(j)
        \/ \E s \in {"pending", "canceled"} : UpdateJobStatus(j, s)
        \/ Cleanup(j)

\* What a worker does by itself, as opposed to what happens to it.
Proceed(w) ==
    \/ ClaimJob(w)
    \/ Execute(w) \/ RunBatch(w) \/ NoBatchLeft(w)
    \/ SetJobProgress(w) \/ SetJobSuccess(w) \/ SetJobError(w) \/ SetJobCanceled(w)

Interrupt(w) ==
    \/ ExecutionFails(w)
    \/ NoticeCancellation(w)
    \/ ResetJob(w) \/ Stop(w) \/ HandleJobPanic(w)

Next ==
    \/ Create
    \/ Manage
    \/ \E w \in Workers : \/ Proceed(w) \/ Interrupt(w) \/ Run(w)
                          \/ \E j \in Jobs : PollAndNotify(w, j)
    \/ \E n \in Nodes : Crash(n)

Spec == Init /\ [][Next]_vars

\* Every node keeps doing what is left to do there: its workers run, its watcher polls,
\* and if it was stopped it is started again.
Advance(n) ==
    \E t \in Types : LET w == <<n, t>> IN
        Proceed(w) \/ Run(w) \/ \E j \in Jobs : PollAndNotify(w, j)

Fairness == \A n \in Nodes : WF_vars(Advance(n))

FairSpec == Spec /\ Fairness

-----------------------------------------------------------------------------
(* Properties *)

\* Rows, workers and requests are what the code can hold, and the bounds are kept.
TypeOK ==
    /\ registered \in Deployments
    /\ row \in [Jobs -> Row]
    /\ worker \in [Workers -> WorkerState]
    /\ request \in [Nodes -> [open : BOOLEAN, listed : SUBSET Jobs]]
    /\ ran \in [Jobs -> SUBSET AllBatches]
    /\ requeued \subseteq Jobs /\ overruled \subseteq Jobs
    /\ hurt \subseteq Jobs /\ orphans \subseteq Jobs
    /\ troubles \in 0 .. MaxTroubles

\* However claims, stops, resets, crashes and failing store calls fall together, one
\* worker at most has a job, unless an administrator set it to pending: UpdateJobStatus
\* does so under a running worker, and the job is claimed again.
OneRunner ==
    \A j \in Jobs \ requeued : \A v, w \in Workers : Holds(v, j) /\ Holds(w, j) => v = w

Executes(w) == worker[w].stage \in {"running", "saving"}

\* "It uses the jobs infrastructure to ensure only one node in the cluster runs the
\* migration at any given time" (batch_migration_worker.go): no two workers execute
\* batches of a migration, of the same job or of two.
OneMigration ==
    \A v, w \in Workers :
        TypeOf(v) = "migration" /\ TypeOf(w) = "migration" /\ Executes(v) /\ Executes(w)
            => v = w

\* The progress that restarts, other nodes and resets go by never runs ahead of what
\* was executed, and a job that succeeded executed everything since it was last reset.
NoBatchSkipped ==
    \A j \in Jobs :
        /\ row[j].status \in {"pending", "in_progress"} => 1 .. row[j].done \subseteq ran[j]
        /\ row[j].status = "success" => ran[j] = AllBatches

Excused(j) == j \in requeued \cup overruled \cup hurt \cup orphans

\* A job that the table says is running is running somewhere: only a crash, a failed
\* store call or an update from outside leaves a row in progress that nobody works on.
\* Nothing ever picks up such a row.
ActiveIsHeld ==
    \A j \in Jobs : row[j].status \in {"in_progress", "cancel_requested"} =>
        Excused(j) \/ \E w \in Workers : Holds(w, j)

\* The status in which a job ended stays, although SetJobSuccess and SetJobCanceled do
\* not look at the status they replace.
FinalIsFinal ==
    [][\A j \in Jobs : row[j].status \in Final =>
          row'[j].status \in {row[j].status, "deleted"} \/ Excused(j)']_vars

\* In the end no job waits or runs: each is run or canceled, through stops, resets and
\* failing executions, or is one of those excused. (No more jobs are created then.)
JobsEnd ==
    <>[](\A j \in Jobs : row[j].status \in Final \cup {"new", "deleted"} \/ Excused(j))

\* "so two never run concurrently" (CreateAccessControlTeamSyncJob in app/job.go).
NeverTwoSyncs ==
    \A v, w \in Workers :
        TypeOf(v) = "sync" /\ TypeOf(w) = "sync" /\ Executes(v) /\ Executes(w) => v = w

=============================================================================
