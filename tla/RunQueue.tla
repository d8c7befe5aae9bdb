------------------------------ MODULE RunQueue ------------------------------
(***************************************************************************)
(* The run queue of the control plane: the rows of table runs, the worker  *)
(* processes that claim them under a lease, run the browser job in Docker  *)
(* and publish its evidence, the recovery of expired leases, cancellation, *)
(* and the retention purge.  Sources: apps/control-plane/src/worker.js,    *)
(* worker-runtime.js, local-worker.js, artifact-upload.js, artifact-store  *)
(* .js, maintenance.js and the queue and cancel routes of server.js.       *)
(*                                                                         *)
(* One action is one SQL statement or transaction, one Docker call that    *)
(* matters, or one change to a directory or object; a worker may be        *)
(* delayed between any two of them, which is how its lease gets lost.      *)
(* Time is abstract: a lease or a retention period may run out at any      *)
(* moment.  An attempt is named by the attempt_count it was claimed with,  *)
(* and evidence by the attempt that produced it (0: there is none).        *)
(***************************************************************************)
EXTENDS Naturals, FiniteSets

CONSTANTS
    Runs,          \* ids of the runs that may be submitted
    Workers,       \* worker processes (worker.js); a restarted one is a new one
    Objects,       \* the files of one evidence bundle
    NoWorker,      \* worker_id IS NULL
    NoRun,         \* a process that holds no run
    MaxAttempts,   \* MAX_ATTEMPTS
    HasStore,      \* an object store is configured (createArtifactStore)
    Crashable,     \* the workers that may die
    Punctual,      \* the workers that, while alive, are never late for a lease
    Expiring       \* the runs whose retention may pass while we look

ReaperId(w) == <<"reaper", w>>
Reapers     == {ReaperId(w) : w \in Workers}

ASSUME QueueAssumption ==
    /\ MaxAttempts \in Nat \ {0}
    /\ HasStore \in BOOLEAN
    /\ Crashable \subseteq Workers
    /\ Punctual \subseteq Workers
    /\ Expiring \subseteq Runs
    /\ NoRun \notin Runs
    /\ NoWorker \notin Workers \cup Reapers
    /\ Workers \cap Reapers = {}

VARIABLES
    row,           \* table runs, by id
    audits,        \* how many final audit events each run has
    proc,          \* the worker processes
    containers,    \* Docker containers that exist, as <<run, attempt>>
    localDir,      \* artifactRoot/<run id>: the attempt whose bundle it holds
    store,         \* the run's prefix in the object store, by object
    purgeQueue,    \* table artifact_purge_queue
    maint          \* the retention maintenance of the API process

vars == <<row, audits, proc, containers, localDir, store, purgeQueue, maint>>

Attempts == 0..MaxAttempts
Settled  == {"completed", "failed", "cancelled"}
Verdicts == {"SHIP", "HOLD", "INCONCLUSIVE"}

Row == [status          : {"absent", "queued", "running", "purged"} \cup Settled,
        verdict         : Verdicts \cup {"none"},
        holder          : Workers \cup Reapers \cup {NoWorker},
        leaseExpired    : BOOLEAN,
        attempts        : Attempts,
        cancelRequested : BOOLEAN,
        result          : Attempts,     \* the attempt that wrote result_snapshot
        inventory       : Attempts,     \* the attempt whose bytes table artifacts names
        expired         : BOOLEAN]      \* retention_expires_at <= now()

NoRow == [status |-> "absent", verdict |-> "none", holder |-> NoWorker,
          leaseExpired |-> FALSE, attempts |-> 0, cancelRequested |-> FALSE,
          result |-> 0, inventory |-> 0, expired |-> FALSE]

(* Where a worker's code is.  Its heartbeat timer runs in HeartbeatPCs.    *)
HeartbeatPCs == {"waiting", "exporting", "publishing", "renaming", "hashing"}
JobPCs       == HeartbeatPCs \cup {"launching", "cleaning", "aborting", "uploading",
                 "committing", "checking", "purging", "discarding", "recording"}
RecoveryPCs  == {"reaping", "requeueing", "auditing"}

PCs          == {"idle", "releasing", "down"} \cup JobPCs \cup RecoveryPCs

Proc == [pc        : PCs,
         run       : Runs \cup {NoRun},
         attempt   : Attempts,
         cancelled : BOOLEAN,              \* a heartbeat saw the cancel request
         lost      : BOOLEAN,              \* heartbeatFailure is set
         killed    : BOOLEAN,              \* the job container was killed
         inventory : Attempts,             \* the bytes the inventory was hashed from
         uploaded  : SUBSET Objects,
         todo      : SUBSET (Runs \X Attempts)]   \* recoverExpiredRuns: rows to do

Idle == [pc |-> "idle", run |-> NoRun, attempt |-> 0, cancelled |-> FALSE,
         lost |-> FALSE, killed |-> FALSE, inventory |-> 0, uploaded |-> {}, todo |-> {}]

Maint == [pc : {"idle", "sweeping", "sweepingLocal", "dequeueing"},
          pending : SUBSET Runs, run : Runs \cup {NoRun}]

Resting == [pc |-> "idle", pending |-> {}, run |-> NoRun]

NoObjects == [o \in Objects |-> 0]

TypeOK ==
    /\ row \in [Runs -> Row]
    /\ audits \in [Runs -> Nat]
    /\ proc \in [Workers -> Proc]
    /\ containers \subseteq Runs \X Attempts
    /\ localDir \in [Runs -> Attempts]
    /\ store \in [Runs -> [Objects -> Attempts]]
    /\ purgeQueue \subseteq Runs
    /\ maint \in Maint

Init ==
    /\ row = [r \in Runs |-> NoRow]
    /\ audits = [r \in Runs |-> 0]
    /\ proc = [w \in Workers |-> Idle]
    /\ containers = {}
    /\ localDir = [r \in Runs |-> 0]
    /\ store = [r \in Runs |-> NoObjects]
    /\ purgeQueue = {}
    /\ maint = Resting

-----------------------------------------------------------------------------
(* The API and the passage of time.                                        *)

(* The INSERT at the end of POST /v1/targets/:id/runs.  Its idempotency    *)
(* and quota checks are the subject of RunAdmission.                       *)
Submit(r) ==
    /\ row[r].status = "absent"
    /\ row' = [row EXCEPT ![r].status = "queued"]
    /\ UNCHANGED <<audits, proc, containers, localDir, store, purgeQueue, maint>>

(* POST /v1/runs/:id/cancel: one transaction that locks the row.           *)
Cancel(r) ==
    /\ ~row[r].expired
    /\ \/ /\ row[r].status = "queued"
          /\ row' = [row EXCEPT ![r].status = "cancelled"]
          /\ audits' = [audits EXCEPT ![r] = @ + 1]
       \/ /\ row[r].status = "running"
          /\ ~row[r].cancelRequested
          /\ row' = [row EXCEPT ![r].cancelRequested = TRUE]
          /\ UNCHANGED audits
    /\ UNCHANGED <<proc, containers, localDir, store, purgeQueue, maint>>

LeaseExpires(r) ==
    /\ row[r].status = "running"
    /\ ~row[r].leaseExpired
    /\ \A w \in Punctual : row[r].holder \in {w, ReaperId(w)} => proc[w].pc = "down"
    /\ row' = [row EXCEPT ![r].leaseExpired = TRUE]
    /\ UNCHANGED <<audits, proc, containers, localDir, store, purgeQueue, maint>>

RetentionExpires(r) ==
    /\ r \in Expiring
    /\ row[r].status \in {"queued", "running"} \cup Settled
    /\ ~row[r].expired
    /\ row' = [row EXCEPT ![r].expired = TRUE]
    /\ UNCHANGED <<audits, proc, containers, localDir, store, purgeQueue, maint>>

-----------------------------------------------------------------------------
(* A worker's job: claimNextRun, executeLocalRun and the try block of      *)
(* worker.js.                                                              *)

Step(w, pc) == proc' = [proc EXCEPT ![w].pc = pc]

(* A fence that forgets worker_id.                                         *)
OwnsUnfenced(w) == row[proc[w].run].status = "running"

(* WHERE id=$1 AND status='running' AND worker_id=$2                       *)
Owns(w) ==
    LET r == proc[w].run IN row[r].status = "running" /\ row[r].holder = w

(* The first step of worker.js's catch block.                              *)
FailurePC == IF HasStore THEN "checking" ELSE "discarding"

(* SKIP LOCKED may pass over older rows, so any queued row may be taken.   *)
Claim(w, r) ==
    /\ proc[w].pc = "idle"
    /\ row[r].status = "queued"
    /\ row[r].attempts < MaxAttempts
    /\ ~row[r].expired
    /\ row' = [row EXCEPT ![r].status = "running", ![r].holder = w,
                          ![r].leaseExpired = FALSE, ![r].attempts = @ + 1]
    /\ proc' = [proc EXCEPT ![w] = [Idle EXCEPT !.pc = "launching", !.run = r,
                                                !.attempt = row[r].attempts + 1]]
    /\ UNCHANGED <<audits, containers, localDir, store, purgeQueue, maint>>

(* Network, proxy and job container, all labelled with the run id only.    *)
Launch(w) ==
    /\ proc[w].pc = "launching"
    /\ containers' = containers \cup {<<proc[w].run, proc[w].attempt>>}
    /\ Step(w, "waiting")
    /\ UNCHANGED <<row, audits, localDir, store, purgeQueue, maint>>

(* The timer's callback.  The second disjunct is a heartbeat that found    *)
(* no row it owns, or whose query failed.                                  *)
Heartbeat(w) ==
    /\ proc[w].pc \in HeartbeatPCs
    /\ \/ /\ Owns(w)
          /\ row' = [row EXCEPT ![proc[w].run].leaseExpired = FALSE]
          /\ proc' = [proc EXCEPT ![w].cancelled = @ \/ row[proc[w].run].cancelRequested]
       \/ /\ ~proc[w].lost
          /\ proc' = [proc EXCEPT ![w].lost = TRUE]
          /\ UNCHANGED row
    /\ UNCHANGED <<audits, containers, localDir, store, purgeQueue, maint>>

HasContainer(w) == <<proc[w].run, proc[w].attempt>> \in containers /\ ~proc[w].killed

(* docker kill, on behalf of a heartbeat.                                  *)
KillContainer(w) ==
    /\ proc[w].pc \in HeartbeatPCs
    /\ proc[w].cancelled \/ proc[w].lost
    /\ HasContainer(w)
    /\ proc' = [proc EXCEPT ![w].killed = TRUE]
    /\ UNCHANGED <<row, audits, containers, localDir, store, purgeQueue, maint>>

(* Any other error of executeLocalRun: Docker, the job's exit code, its    *)
(* wall-time budget, an invalid bundle.                                    *)
Throw(w) ==
    /\ proc[w].pc \in HeartbeatPCs \cup {"launching"}
    /\ proc' = [proc EXCEPT ![w].pc = "aborting", ![w].cancelled = FALSE]
    /\ UNCHANGED <<row, audits, containers, localDir, store, purgeQueue, maint>>

SeeMarker(w) ==
    /\ proc[w].pc = "waiting"
    /\ HasContainer(w)
    /\ proc' = [proc EXCEPT ![w].pc = IF proc[w].lost THEN "aborting" ELSE "exporting",
                            ![w].cancelled = @ /\ ~proc[w].lost]
    /\ UNCHANGED <<row, audits, containers, localDir, store, purgeQueue, maint>>

(* A cancelled job aborts with code worker_cancelled: the flag stays set.  *)
Export(w) ==
    /\ proc[w].pc = "exporting"
    /\ HasContainer(w)
    /\ Step(w, IF proc[w].cancelled THEN "aborting" ELSE "publishing")
    /\ UNCHANGED <<row, audits, containers, localDir, store, purgeQueue, maint>>

ClearDestination(w) ==
    /\ proc[w].pc = "publishing"
    /\ localDir' = [localDir EXCEPT ![proc[w].run] = 0]
    /\ Step(w, "renaming")
    /\ UNCHANGED <<row, audits, containers, store, purgeQueue, maint>>

(* rename() onto a directory somebody else has filled fails: see Throw.    *)
Rename(w) ==
    /\ proc[w].pc = "renaming"
    /\ localDir[proc[w].run] = 0
    /\ localDir' = [localDir EXCEPT ![proc[w].run] = proc[w].attempt]
    /\ Step(w, "hashing")
    /\ UNCHANGED <<row, audits, containers, store, purgeQueue, maint>>

(* The inventory hashes the files at the destination, whoever wrote them.  *)
Hash(w) ==
    /\ proc[w].pc = "hashing"
    /\ localDir[proc[w].run] # 0
    /\ proc' = [proc EXCEPT ![w].pc = "cleaning", ![w].cancelled = FALSE,
                            ![w].inventory = localDir[proc[w].run]]
    /\ UNCHANGED <<row, audits, containers, localDir, store, purgeQueue, maint>>

(* The finally block.  Failing to remove a container is an error of its    *)
(* own only when there was none before.                                    *)
CleanUp(w) ==
    /\ proc[w].pc \in {"cleaning", "aborting"}
    /\ \E removed \in BOOLEAN :
         /\ containers' = IF removed THEN containers \ {<<proc[w].run, proc[w].attempt>>}
                                     ELSE containers
         /\ Step(w, IF proc[w].pc = "cleaning" /\ removed
                    THEN IF HasStore THEN "uploading" ELSE "committing"
                    ELSE FailurePC)
    /\ UNCHANGED <<row, audits, localDir, store, purgeQueue, maint>>

(* Each file is checked against the inventory before it is put.            *)
UploadObject(w, o) ==
    LET r == proc[w].run
        uploaded == proc[w].uploaded \cup {o}
    IN  /\ proc[w].pc = "uploading"
        /\ o \notin proc[w].uploaded
        /\ localDir[r] = proc[w].inventory
        /\ store' = [store EXCEPT ![r][o] = proc[w].inventory]
        /\ proc' = [proc EXCEPT ![w].uploaded = uploaded,
                                ![w].pc = IF uploaded = Objects THEN "committing" ELSE @]
        /\ UNCHANGED <<row, audits, containers, localDir, purgeQueue, maint>>

UploadFails(w) ==
    /\ proc[w].pc = "uploading"
    /\ Step(w, FailurePC)
    /\ UNCHANGED <<row, audits, containers, localDir, store, purgeQueue, maint>>

(* recordSuccessfulRun: inventory, result and audit in one transaction     *)
(* fenced on the lease holder.  When the answer to COMMIT is lost the      *)
(* worker goes on as if it had failed.                                     *)
MayCommitCancelled(w) == Owns(w)    \* a commit that forgets the cancel request

MayCommit(w) == Owns(w) /\ ~row[proc[w].run].cancelRequested

Commit(w, v) ==
    LET r == proc[w].run
    IN  /\ proc[w].pc = "committing"
        /\ MayCommit(w)
        /\ row' = [row EXCEPT ![r].status = "completed", ![r].verdict = v,
                              ![r].holder = NoWorker, ![r].leaseExpired = FALSE,
                              ![r].result = proc[w].attempt,
                              ![r].inventory = proc[w].inventory]
        /\ audits' = [audits EXCEPT ![r] = @ + 1]
        /\ \/ /\ HasStore
              /\ Step(w, "releasing")
           \/ /\ ~HasStore
              /\ proc' = [proc EXCEPT ![w] = Idle]
           \/ Step(w, FailurePC)
        /\ UNCHANGED <<containers, localDir, store, purgeQueue, maint>>

CommitFails(w) ==
    /\ proc[w].pc = "committing"
    /\ Step(w, FailurePC)
    /\ UNCHANGED <<row, audits, containers, localDir, store, purgeQueue, maint>>

(* With an object store the local copy is dropped; an error is logged.     *)
Release(w) ==
    /\ proc[w].pc = "releasing"
    /\ \E left \in {0, localDir[proc[w].run]} :
         localDir' = [localDir EXCEPT ![proc[w].run] = left]
    /\ proc' = [proc EXCEPT ![w] = Idle]
    /\ UNCHANGED <<row, audits, containers, store, purgeQueue, maint>>

-----------------------------------------------------------------------------
(* A worker's failure path: the catch block of worker.js.                  *)

(* A cleanup that does not ask who owns the run.                           *)
CheckNothing(w) ==
    /\ proc[w].pc = "checking"
    /\ Step(w, "purging")
    /\ UNCHANGED <<row, audits, containers, localDir, store, purgeQueue, maint>>

(* The row is read, and acted upon in the next step.                       *)
CheckOwnership(w) ==
    /\ proc[w].pc = "checking"
    /\ \/ Owns(w) /\ Step(w, "purging")
       \/ Step(w, "discarding")
    /\ UNCHANGED <<row, audits, containers, localDir, store, purgeQueue, maint>>

(* deleteRun stops at the first error, which is only logged.               *)
PurgeRemote(w) ==
    LET r == proc[w].run
    IN  /\ proc[w].pc = "purging"
        /\ \E kept \in SUBSET Objects :
             store' = [store EXCEPT ![r] = [o \in Objects |-> IF o \in kept THEN @[o] ELSE 0]]
        /\ Step(w, "discarding")
        /\ UNCHANGED <<row, audits, containers, localDir, purgeQueue, maint>>

(* The local directory is removed without asking who owns the run.         *)
Discard(w) ==
    /\ proc[w].pc = "discarding"
    /\ \E left \in {0, localDir[proc[w].run]} :
         localDir' = [localDir EXCEPT ![proc[w].run] = left]
    /\ Step(w, "recording")
    /\ UNCHANGED <<row, audits, containers, store, purgeQueue, maint>>

(* A requeue that forgets to clear worker_id.                              *)
ReleasedButHeld(r, status) ==
    [row EXCEPT ![r].status = status, ![r].leaseExpired = FALSE]

(* The row an unsuccessful attempt leaves behind, whether its worker or a  *)
(* reaper writes it.                                                       *)
Released(r, status) ==
    [row EXCEPT ![r].status = status, ![r].holder = NoWorker, ![r].leaseExpired = FALSE,
                ![r].verdict = IF status = "failed" THEN "INCONCLUSIVE" ELSE "none"]

(* An off-by-one in the retry bound, and a status the table does not know. *)
StatusAfterTooMany(attempt, cancelled) ==
    IF cancelled THEN "cancelled" ELSE IF attempt <= MaxAttempts THEN "queued" ELSE "failed"
StatusAfterUnknown(attempt, cancelled) ==
    IF cancelled THEN "cancelled" ELSE IF attempt < MaxAttempts THEN "queued" ELSE "inconclusive"

StatusAfter(attempt, cancelled) ==
    IF cancelled THEN "cancelled" ELSE IF attempt < MaxAttempts THEN "queued" ELSE "failed"

RecordFailure(w) ==
    LET r == proc[w].run
        status == StatusAfter(proc[w].attempt, proc[w].cancelled \/ row[r].cancelRequested)
    IN  /\ proc[w].pc = "recording"
        /\ IF Owns(w)
           THEN /\ row' = Released(r, status)
                /\ audits' = IF status = "queued" THEN audits ELSE [audits EXCEPT ![r] = @ + 1]
           ELSE UNCHANGED <<row, audits>>
        /\ proc' = [proc EXCEPT ![w] = Idle]
        /\ UNCHANGED <<containers, localDir, store, purgeQueue, maint>>

(* The process dies; so does one whose recovery or final record fails.     *)
Crash(w) ==
    /\ w \in Crashable
    /\ proc[w].pc # "down"
    /\ proc' = [proc EXCEPT ![w] = [Idle EXCEPT !.pc = "down", !.run = proc[w].run]]
    /\ UNCHANGED <<row, audits, containers, localDir, store, purgeQueue, maint>>

-----------------------------------------------------------------------------
(* recoverExpiredRuns, which an idle worker calls before it claims.        *)

(* Recoveries that take live leases, that leave exhausted runs alone, and  *)
(* that leave runs alone which somebody asked to stop.                     *)
LeaseLive(r)          == row[r].status = "running"
LeaseLapsedRetry(r)   == row[r].leaseExpired /\ row[r].attempts < MaxAttempts
LeaseLapsedWanted(r)  == row[r].leaseExpired /\ ~row[r].cancelRequested

LeaseLapsed(r) == row[r].status = "running" /\ row[r].leaseExpired

BeginRecovery(w) ==
    LET taken == {r \in Runs : LeaseLapsed(r)}
    IN  /\ proc[w].pc = "idle"
        /\ taken # {}
        /\ row' = [r \in Runs |-> IF r \in taken
                                  THEN [row[r] EXCEPT !.holder = ReaperId(w),
                                                      !.leaseExpired = FALSE]
                                  ELSE row[r]]
        /\ proc' = [proc EXCEPT ![w] = [Idle EXCEPT !.pc = "reaping",
                                        !.todo = {<<r, row[r].attempts>> : r \in taken}]]
        /\ UNCHANGED <<audits, containers, localDir, store, purgeQueue, maint>>

(* docker rm of everything that carries the run's label.                   *)
Reap(w, r, a) ==
    /\ proc[w].pc = "reaping"
    /\ <<r, a>> \in proc[w].todo
    /\ containers' = {c \in containers : c[1] # r}
    /\ proc' = [proc EXCEPT ![w].pc = "requeueing", ![w].run = r, ![w].attempt = a,
                            ![w].todo = @ \ {<<r, a>>}]
    /\ UNCHANGED <<row, audits, localDir, store, purgeQueue, maint>>

(* A second statement without its fence, or fenced on the wrong id.        *)
HoldsUnfenced(w) == TRUE
HoldsAsWorker(w) == row[proc[w].run].holder = w

(* WHERE id=$1 AND status='running' AND worker_id=$2                       *)
HoldsForRecovery(w) ==
    LET r == proc[w].run IN row[r].status = "running" /\ row[r].holder = ReaperId(w)

Requeue(w) ==
    LET r == proc[w].run
        status == StatusAfter(proc[w].attempt, row[r].cancelRequested)
    IN  /\ proc[w].pc = "requeueing"
        /\ IF HoldsForRecovery(w)
           THEN /\ row' = Released(r, status)
                /\ Step(w, IF status = "queued" THEN "reaping" ELSE "auditing")
           ELSE /\ Step(w, "reaping")
                /\ UNCHANGED row
        /\ UNCHANGED <<audits, containers, localDir, store, purgeQueue, maint>>

(* The audit event is a statement of its own, after the row has settled.   *)
AuditRecovery(w) ==
    /\ proc[w].pc = "auditing"
    /\ audits' = [audits EXCEPT ![proc[w].run] = @ + 1]
    /\ Step(w, "reaping")
    /\ UNCHANGED <<row, containers, localDir, store, purgeQueue, maint>>

EndRecovery(w) ==
    /\ proc[w].pc = "reaping"
    /\ proc[w].todo = {}
    /\ proc' = [proc EXCEPT ![w] = Idle]
    /\ UNCHANGED <<row, audits, containers, localDir, store, purgeQueue, maint>>

-----------------------------------------------------------------------------
(* purgeExpiredRecords: one transaction over the rows, then a sweep of the *)
(* purge queue that any error ends until the next interval.                *)

PurgeableRunning(r) == row[r].expired    \* a purge that forgets status <> 'running'

Purgeable(r) == row[r].expired /\ row[r].status \in {"queued"} \cup Settled

PurgeRows ==
    LET gone == {r \in Runs : Purgeable(r)}
    IN  /\ maint.pc = "idle"
        /\ gone \cup purgeQueue # {}
        /\ row' = [r \in Runs |-> IF r \in gone THEN [NoRow EXCEPT !.status = "purged"]
                                                ELSE row[r]]
        /\ purgeQueue' = purgeQueue \cup gone
        /\ maint' = [pc |-> "sweeping", pending |-> purgeQueue', run |-> NoRun]
        /\ UNCHANGED <<audits, proc, containers, localDir, store>>

(* A sweep that takes the local copy for gone once the objects are.        *)
SweepStoreOnly(r) ==
    /\ HasStore
    /\ maint.pc = "sweeping"
    /\ r \in maint.pending
    /\ store' = [store EXCEPT ![r] = NoObjects]
    /\ maint' = [maint EXCEPT !.pc = "dequeueing", !.run = r]
    /\ UNCHANGED <<row, audits, proc, containers, localDir, purgeQueue>>

SweepStore(r) ==
    /\ HasStore
    /\ maint.pc = "sweeping"
    /\ r \in maint.pending
    /\ store' = [store EXCEPT ![r] = NoObjects]
    /\ maint' = [maint EXCEPT !.pc = "sweepingLocal", !.run = r]
    /\ UNCHANGED <<row, audits, proc, containers, localDir, purgeQueue>>

SweepLocal(r) ==
    /\ \/ maint.pc = "sweepingLocal" /\ maint.run = r
       \/ ~HasStore /\ maint.pc = "sweeping" /\ r \in maint.pending
    /\ localDir' = [localDir EXCEPT ![r] = 0]
    /\ maint' = [maint EXCEPT !.pc = "dequeueing", !.run = r]
    /\ UNCHANGED <<row, audits, proc, containers, store, purgeQueue>>

Dequeue ==
    LET rest == maint.pending \ {maint.run}
    IN  /\ maint.pc = "dequeueing"
        /\ purgeQueue' = purgeQueue \ {maint.run}
        /\ maint' = IF rest = {} THEN Resting
                    ELSE [pc |-> "sweeping", pending |-> rest, run |-> NoRun]
        /\ UNCHANGED <<row, audits, proc, containers, localDir, store>>

(* An error, or the death of the API process.                              *)
SweepFails ==
    /\ maint.pc # "idle"
    /\ maint' = Resting
    /\ UNCHANGED <<row, audits, proc, containers, localDir, store, purgeQueue>>

-----------------------------------------------------------------------------
(* What a worker does next, apart from its heartbeat and its death.        *)
WorkerStep(w) ==
    \/ \E r \in Runs : Claim(w, r)
    \/ Launch(w)
    \/ Throw(w)
    \/ SeeMarker(w)
    \/ Export(w)
    \/ ClearDestination(w)
    \/ Rename(w)
    \/ Hash(w)
    \/ CleanUp(w)
    \/ \E o \in Objects : UploadObject(w, o)
    \/ UploadFails(w)
    \/ \E v \in Verdicts : Commit(w, v)
    \/ CommitFails(w)
    \/ Release(w)
    \/ CheckOwnership(w)
    \/ PurgeRemote(w)
    \/ Discard(w)
    \/ RecordFailure(w)

RecoveryStep(w) ==
    \/ BeginRecovery(w)
    \/ \E r \in Runs, a \in Attempts : Reap(w, r, a)
    \/ Requeue(w)
    \/ AuditRecovery(w)
    \/ EndRecovery(w)

MaintenanceStep ==
    \/ PurgeRows
    \/ \E r \in Runs : SweepStore(r) \/ SweepLocal(r)
    \/ Dequeue

Next ==
    \/ \E r \in Runs : Submit(r) \/ Cancel(r) \/ LeaseExpires(r) \/ RetentionExpires(r)
    \/ \E w \in Workers : \/ WorkerStep(w)
                          \/ RecoveryStep(w)
                          \/ Heartbeat(w)
                          \/ KillContainer(w)
                          \/ Crash(w)
    \/ MaintenanceStep
    \/ SweepFails

Spec == Init /\ [][Next]_vars

-----------------------------------------------------------------------------
(* Safety.                                                                 *)

(* worker_id names a process, not an attempt; still, a row held by a live  *)
(* worker is held for the very attempt that worker is busy with, however   *)
(* often the run changed hands (the fence of recordSuccessfulRun,          *)
(* recordFailedRun and heartbeatRun).                                      *)
HolderIsWorking ==
    \A r \in Runs, w \in Workers :
        row[r].holder = w =>
            /\ proc[w].run = r
            /\ \/ proc[w].pc = "down"
               \/ proc[w].pc \in JobPCs /\ proc[w].attempt = row[r].attempts

(* Exactly the running rows have a holder, and a row reserved by a reaper  *)
(* is still on that reaper's list or the reaper died with it: a live       *)
(* reaper never forgets a row it took, which no heartbeat would renew.     *)
NoForgottenLease ==
    \A r \in Runs :
        /\ (row[r].status = "running") <=> (row[r].holder # NoWorker)
        /\ \A w \in Workers : row[r].holder = ReaperId(w) =>
              \/ proc[w].pc = "down"
              \/ <<r, row[r].attempts>> \in proc[w].todo /\ proc[w].pc \in RecoveryPCs
              \/ /\ proc[w].pc = "requeueing"
                 /\ proc[w].run = r
                 /\ proc[w].attempt = row[r].attempts

(* A queued run can be claimed: claimNextRun skips a row whose attempts    *)
(* are used up, and nothing else would ever settle it.                     *)
NoStrandedRun ==
    \A r \in Runs : row[r].status = "queued" =>
        row[r].attempts < MaxAttempts /\ ~row[r].cancelRequested

(* A verdict comes from the result of the run's last attempt; failed runs  *)
(* are INCONCLUSIVE and every other row has no verdict: no harness failure *)
(* becomes green.                                                          *)
VerdictFromLastAttempt ==
    \A r \in Runs :
        /\ row[r].status = "completed" =>
              /\ row[r].verdict \in Verdicts
              /\ row[r].result = row[r].attempts
              /\ row[r].attempts > 0
        /\ row[r].status = "failed" =>
              row[r].verdict = "INCONCLUSIVE" /\ row[r].attempts = MaxAttempts
        /\ row[r].status \notin {"completed", "failed"} =>
              row[r].verdict = "none" /\ row[r].result = 0

(* A settled run has exactly one final audit event, and an unsettled one   *)
(* none; the event of a reaper may still be missing while the reaper is    *)
(* between its two statements, or for good when it died there.             *)
AuditedOnce ==
    \A r \in Runs :
        /\ audits[r] \in {0, 1}
        /\ audits[r] = 1 => row[r].status \in Settled \cup {"purged"}
        /\ (row[r].status \in Settled /\ audits[r] = 0) =>
              \E w \in Workers : proc[w].run = r /\ proc[w].pc \in {"auditing", "down"}

(* What a completed run is served from is what its result was computed     *)
(* from: the inventory names the attempt that wrote the result, and with   *)
(* an object store every object is that attempt's, even when the worker    *)
(* never learned that its COMMIT succeeded.  Holds when no live worker is  *)
(* late for its lease; otherwise a stale worker can replace the directory  *)
(* between rename and hash, although worker-runtime.js says that the       *)
(* "already-written artifact inventory" is the completed job's.            *)
EvidenceMatchesResult ==
    \A r \in Runs : row[r].status = "completed" =>
        /\ row[r].inventory = row[r].result
        /\ HasStore => \A o \in Objects : store[r][o] = row[r].result

(* The job container of a live lease is not taken away: recoverExpiredRuns *)
(* says it reaps "containers from expired local leases".  Holds when no    *)
(* live worker is late; otherwise a reaper that was overtaken by another   *)
(* one removes the containers of the attempt that came after.              *)
LiveJobKeepsItsContainer ==
    \A w \in Workers :
        (proc[w].pc \in {"waiting", "exporting"} /\ Owns(w) /\ ~row[proc[w].run].leaseExpired)
            => <<proc[w].run, proc[w].attempt>> \in containers

(* The retention queue forgets a run only once its evidence is gone, in    *)
(* the directory and in the store, whatever crashed in between; no worker  *)
(* brings it back, unless it is late for its lease.                        *)
PurgedEvidenceGone ==
    \A r \in Runs : (row[r].status = "purged" /\ r \notin purgeQueue) =>
        localDir[r] = 0 /\ store[r] = NoObjects

(* An outcome is final: status, verdict, result and inventory of a settled *)
(* row change only when retention deletes the row.                         *)
OutcomeIsFinal ==
    [][\A r \in Runs : row[r].status \in Settled =>
         \/ row'[r].status = "purged"
         \/ [row'[r] EXCEPT !.expired = FALSE] = [row[r] EXCEPT !.expired = FALSE]]_vars

(* Once a running run is asked to stop it can only be cancelled, whichever *)
(* of its worker's success, its worker's failure and a reaper comes first. *)
CancelWins ==
    [][\A r \in Runs : (row[r].status = "running" /\ row[r].cancelRequested) =>
         \/ row'[r].status = "running" /\ row'[r].cancelRequested
         \/ row'[r].status = "cancelled"]_vars

-----------------------------------------------------------------------------
(* The promise of RunLifecycle.                                            *)
LifeOf(r) == [phase    |-> row[r].status,
              tries    |-> row[r].attempts,
              verdict  |-> row[r].verdict,
              stopping |-> row[r].cancelRequested]

Lifecycle == INSTANCE RunLifecycle WITH life <- [r \in Runs |-> LifeOf(r)]

(* Every step of the queue, of any worker, reaper or purge, is one step of *)
(* the life of a run or none.                                              *)
ImplementsLifecycle == Lifecycle!Spec

-----------------------------------------------------------------------------
(* Liveness.  The worker loop, the recovery it calls every 15 s and the    *)
(* hourly maintenance go on as long as their process lives, and time       *)
(* passes.                                                                 *)
Fairness ==
    /\ \A w \in Workers : WF_vars(WorkerStep(w)) /\ WF_vars(RecoveryStep(w))
    /\ \A r \in Runs : WF_vars(LeaseExpires(r))
    /\ WF_vars(MaintenanceStep)

FairSpec == Spec /\ Fairness

(* As long as one worker lives, a queued run settles or is purged.         *)
EveryRunSettles ==
    \A r \in Runs : row[r].status = "queued" ~> row[r].status \in Settled \cup {"purged"}

(* ... and a run that is asked to stop is cancelled, also when the worker  *)
(* that held it is gone.                                                   *)
CancelTakesEffect ==
    \A r \in Runs : (row[r].status = "running" /\ row[r].cancelRequested)
                       ~> row[r].status \in {"cancelled", "purged"}

-----------------------------------------------------------------------------
(* A promise of the documents that the code does not keep.                 *)

(* PRIVACY.md: what a run selected "remains in that run's artifacts until  *)
(* its retention purge".  Violated: the catch block of worker.js removes   *)
(* the local directory of the run it had, and by then the run may have     *)
(* completed: its COMMIT was not acknowledged, or another worker ran it.   *)
CompletedEvidenceStays ==
    \A r \in Runs : row[r].status = "completed" => localDir[r] # 0
=============================================================================
