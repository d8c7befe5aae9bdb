--------------------------- MODULE RunQueueProofs ---------------------------
(***************************************************************************)
(* RunQueue is well typed, its lease protocol holds and it implements      *)
(* RunLifecycle, for any sets of runs, workers and objects and any number  *)
(* of attempts, with or without an object store, and whoever is late or    *)
(* dies.  First the inductive invariant of the lease, and the invariants   *)
(* and action properties that follow from it; then what a step can do to   *)
(* the rows, from which the refinement and the action properties           *)
(* OutcomeIsFinal and CancelWins follow.  Last what the queue keeps on     *)
(* record of a run: its one final audit event, in any timing; and, when no *)
(* live worker is late for its lease, the job container of a live lease,   *)
(* the evidence of a completed run, and nothing of a purged one.           *)
(***************************************************************************)
EXTENDS RunQueue, TLAPS

-----------------------------------------------------------------------------
(* Types.                                                                  *)

(* A worker that is anywhere in a job or in the middle of recovering a row *)
(* has a run; one that rests, scans its list or is dead need not.          *)
BusyHasRun ==
    \A w \in Workers :
        proc[w].pc \notin {"idle", "reaping", "down"} => proc[w].run \in Runs

TypeInv == TypeOK /\ BusyHasRun

(* The program points of a worker, sorted by what it is doing there.       *)
LEMMA PCNames ==
    /\ JobPCs \subseteq PCs
    /\ RecoveryPCs \subseteq PCs
    /\ {"idle", "releasing", "down"} \subseteq PCs
    /\ {"waiting", "exporting", "publishing", "renaming", "hashing", "launching",
        "cleaning", "aborting", "uploading", "committing", "checking", "purging",
        "discarding", "recording"} \subseteq JobPCs
    /\ {"reaping", "requeueing", "auditing"} \subseteq RecoveryPCs
    /\ {"idle", "releasing", "down", "reaping", "requeueing", "auditing"} \cap JobPCs = {}
  BY DEF PCs, JobPCs, HeartbeatPCs, RecoveryPCs

(* The constant records are of their types.                                *)
LEMMA ConstantsTyped ==
    /\ Idle \in Proc
    /\ NoRow \in Row
    /\ Resting \in Maint
    /\ NoObjects \in [Objects -> Attempts]
    /\ 0 \in Attempts
<1>1. 0 \in Attempts BY QueueAssumption DEF Attempts
<1>2. Idle \in Proc BY <1>1, PCNames DEF Idle, Proc
<1>3. NoRow \in Row BY <1>1 DEF NoRow, Row
<1> QED BY <1>1, <1>2, <1>3 DEF Resting, Maint, NoObjects

(* A failing attempt goes on to a point of its job.                        *)
LEMMA FailurePCTyped == FailurePC \in JobPCs
  BY PCNames DEF FailurePC

(* Going on to another program point keeps the processes typed.            *)
LEMMA StepTyped ==
    ASSUME TypeInv, NEW w \in Workers, proc[w].run \in Runs,
           NEW pc \in PCs, Step(w, pc)
    PROVE  proc' \in [Workers -> Proc] /\ BusyHasRun'
<1>1. proc' \in [Workers -> Proc]
  <2>1. proc[w] \in Proc BY DEF TypeInv, TypeOK
  <2>2. [proc[w] EXCEPT !.pc = pc] \in Proc BY <2>1 DEF Proc
  <2> QED BY <2>2 DEF Step, TypeInv, TypeOK
<1>2. \A u \in Workers : proc'[u].run = proc[u].run /\ (u # w => proc'[u] = proc[u])
  BY DEF Step, Proc, TypeInv, TypeOK
<1> QED BY <1>1, <1>2 DEF BusyHasRun, TypeInv

(* So does replacing one process by a process that has a run when busy.    *)
LEMMA ProcTyped ==
    ASSUME TypeInv, NEW w \in Workers, NEW p \in Proc,
           p.pc \notin {"idle", "reaping", "down"} => p.run \in Runs,
           proc' = [proc EXCEPT ![w] = p]
    PROVE  proc' \in [Workers -> Proc] /\ BusyHasRun'
<1>1. proc' \in [Workers -> Proc] BY DEF TypeInv, TypeOK
<1>2. proc'[w] = p /\ \A u \in Workers : u # w => proc'[u] = proc[u]
  BY DEF TypeInv, TypeOK
<1> QED BY <1>1, <1>2 DEF BusyHasRun, TypeInv

(* A row stays typed when one of the columns that the steps assign gets a  *)
(* value of its type.                                                      *)
LEMMA ReleasedTyped ==
    ASSUME TypeInv, NEW r \in Runs, NEW status \in {"queued", "failed", "cancelled"}
    PROVE  Released(r, status) \in [Runs -> Row]
<1>1. row[r] \in Row BY DEF TypeInv, TypeOK
<1> DEFINE verdict == IF status = "failed" THEN "INCONCLUSIVE" ELSE "none"
<1>2. verdict \in Verdicts \cup {"none"} BY DEF Verdicts
<1>3. [row[r] EXCEPT !.status = status, !.holder = NoWorker, !.leaseExpired = FALSE,
                     !.verdict = verdict] \in Row
  <2> HIDE DEF verdict
  <2> QED BY <1>1, <1>2 DEF Row, Settled
<1> QED BY <1>3 DEF Released, TypeInv, TypeOK

(* A failed attempt leaves a run queued, failed or cancelled.              *)
LEMMA StatusAfterTyped ==
    ASSUME NEW a, NEW c PROVE StatusAfter(a, c) \in {"queued", "failed", "cancelled"}
  BY DEF StatusAfter

(* Submit keeps the types.                                                 *)
LEMMA TypeSubmit ==
    ASSUME TypeInv, NEW r \in Runs, Submit(r) PROVE TypeInv'
<1>1. row[r] \in Row BY DEF TypeInv, TypeOK
<1>2. [row[r] EXCEPT !.status = "queued"] \in Row BY <1>1 DEF Row
<1> QED BY <1>2 DEF TypeInv, TypeOK, Submit, BusyHasRun

(* Cancel keeps the types.                                                 *)
LEMMA TypeCancel ==
    ASSUME TypeInv, NEW r \in Runs, Cancel(r) PROVE TypeInv'
<1>1. row[r] \in Row BY DEF TypeInv, TypeOK
<1>2. [row[r] EXCEPT !.status = "cancelled"] \in Row BY <1>1 DEF Row, Settled
<1>3. [row[r] EXCEPT !.cancelRequested = TRUE] \in Row BY <1>1 DEF Row
<1>4. audits[r] + 1 \in Nat BY DEF TypeInv, TypeOK
<1> QED BY <1>2, <1>3, <1>4 DEF TypeInv, TypeOK, Cancel, BusyHasRun

(* LeaseExpires keeps the types.                                           *)
LEMMA TypeLeaseExpires ==
    ASSUME TypeInv, NEW r \in Runs, LeaseExpires(r) PROVE TypeInv'
<1>1. row[r] \in Row BY DEF TypeInv, TypeOK
<1>2. [row[r] EXCEPT !.leaseExpired = TRUE] \in Row BY <1>1 DEF Row
<1> QED BY <1>2 DEF TypeInv, TypeOK, LeaseExpires, BusyHasRun

(* RetentionExpires keeps the types.                                       *)
LEMMA TypeRetentionExpires ==
    ASSUME TypeInv, NEW r \in Runs, RetentionExpires(r) PROVE TypeInv'
<1>1. row[r] \in Row BY DEF TypeInv, TypeOK
<1>2. [row[r] EXCEPT !.expired = TRUE] \in Row BY <1>1 DEF Row
<1> QED BY <1>2 DEF TypeInv, TypeOK, RetentionExpires, BusyHasRun

(* Claim keeps the types.                                                  *)
LEMMA TypeClaim ==
    ASSUME TypeInv, NEW w \in Workers, NEW r \in Runs, Claim(w, r) PROVE TypeInv'
<1>1. row[r] \in Row BY DEF TypeInv, TypeOK
<1>2. row[r].attempts + 1 \in Attempts BY <1>1, QueueAssumption DEF Row, Attempts, Claim
<1>3. [row[r] EXCEPT !.status = "running", !.holder = w, !.leaseExpired = FALSE,
                     !.attempts = @ + 1] \in Row
  BY <1>1, <1>2 DEF Row
<1> DEFINE p == [Idle EXCEPT !.pc = "launching", !.run = r, !.attempt = row[r].attempts + 1]
<1>4. p \in Proc /\ p.run \in Runs BY <1>2, ConstantsTyped, PCNames DEF Proc
<1>5. proc' = [proc EXCEPT ![w] = p] BY DEF Claim
<1>6. proc' \in [Workers -> Proc] /\ BusyHasRun'
  <2> HIDE DEF p
  <2> QED BY <1>4, <1>5, ProcTyped
<1> QED BY <1>3, <1>6 DEF TypeInv, TypeOK, Claim

(* Launch keeps the types.                                                 *)
LEMMA TypeLaunch ==
    ASSUME TypeInv, NEW w \in Workers, Launch(w) PROVE TypeInv'
<1>1. proc[w].run \in Runs BY DEF TypeInv, BusyHasRun, Launch
<1>2. "waiting" \in PCs BY PCNames, FailurePCTyped
<1>3. proc' \in [Workers -> Proc] /\ BusyHasRun' BY <1>1, <1>2, StepTyped DEF Launch
<1>4. <<proc[w].run, proc[w].attempt>> \in Runs \X Attempts
  BY <1>1 DEF TypeInv, TypeOK, Proc
<1> QED BY <1>3, <1>4 DEF TypeInv, TypeOK, Launch

(* Heartbeat keeps the types.                                              *)
LEMMA TypeHeartbeat ==
    ASSUME TypeInv, NEW w \in Workers, Heartbeat(w) PROVE TypeInv'
<1>1. proc[w] \in Proc /\ proc[w].run \in Runs
  <2>1. proc[w].pc \notin {"idle", "reaping", "down"} BY DEF Heartbeat, HeartbeatPCs
  <2> QED BY <2>1 DEF TypeInv, TypeOK, BusyHasRun
<1>2. row' \in [Runs -> Row]
  <2>0. row[proc[w].run] \in Row BY <1>1 DEF TypeInv, TypeOK
  <2>1. [row[proc[w].run] EXCEPT !.leaseExpired = FALSE] \in Row BY <2>0 DEF Row
  <2>2. row' = row \/ row' = [row EXCEPT ![proc[w].run].leaseExpired = FALSE]
    BY DEF Heartbeat
  <2> QED BY <1>1, <2>1, <2>2 DEF TypeInv, TypeOK
<1>3. proc' \in [Workers -> Proc] /\ BusyHasRun'
  <2> DEFINE seen == proc[w].cancelled \/ row[proc[w].run].cancelRequested
             p == [proc[w] EXCEPT !.cancelled = seen]
             q == [proc[w] EXCEPT !.lost = TRUE]
  <2>1. seen \in BOOLEAN OBVIOUS
  <2>2. p \in Proc /\ p.run \in Runs
    <3> HIDE DEF seen
    <3> QED BY <1>1, <2>1 DEF Proc
  <2>3. q \in Proc /\ q.run \in Runs BY <1>1 DEF Proc
  <2>4. proc' = [proc EXCEPT ![w] = p] \/ proc' = [proc EXCEPT ![w] = q]
    BY DEF Heartbeat
  <2> HIDE DEF p, q
  <2> QED BY <2>2, <2>3, <2>4, ProcTyped
<1> QED BY <1>2, <1>3 DEF TypeInv, TypeOK, Heartbeat

(* KillContainer keeps the types.                                          *)
LEMMA TypeKillContainer ==
    ASSUME TypeInv, NEW w \in Workers, KillContainer(w) PROVE TypeInv'
<1>1. proc[w] \in Proc /\ proc[w].run \in Runs
  <2>1. proc[w].pc \notin {"idle", "reaping", "down"} BY DEF KillContainer, HeartbeatPCs
  <2> QED BY <2>1 DEF TypeInv, TypeOK, BusyHasRun
<1> DEFINE p == [proc[w] EXCEPT !.killed = TRUE]
<1>3. p \in Proc /\ p.run \in Runs BY <1>1, PCNames DEF Proc
<1>4. proc' = [proc EXCEPT ![w] = p] BY DEF KillContainer
<1>5. proc' \in [Workers -> Proc] /\ BusyHasRun'
  <2> HIDE DEF p
  <2> QED BY <1>3, <1>4, ProcTyped
<1> QED BY <1>5 DEF TypeInv, TypeOK, KillContainer

(* Throw keeps the types.                                                  *)
LEMMA TypeThrow ==
    ASSUME TypeInv, NEW w \in Workers, Throw(w) PROVE TypeInv'
<1>1. proc[w] \in Proc /\ proc[w].run \in Runs
  <2>1. proc[w].pc \notin {"idle", "reaping", "down"} BY DEF Throw, HeartbeatPCs
  <2> QED BY <2>1 DEF TypeInv, TypeOK, BusyHasRun
<1> DEFINE p == [proc[w] EXCEPT !.pc = "aborting", !.cancelled = FALSE]
<1>3. p \in Proc /\ p.run \in Runs BY <1>1, PCNames DEF Proc
<1>4. proc' = [proc EXCEPT ![w] = p] BY DEF Throw
<1>5. proc' \in [Workers -> Proc] /\ BusyHasRun'
  <2> HIDE DEF p
  <2> QED BY <1>3, <1>4, ProcTyped
<1> QED BY <1>5 DEF TypeInv, TypeOK, Throw

(* SeeMarker keeps the types.                                              *)
LEMMA TypeSeeMarker ==
    ASSUME TypeInv, NEW w \in Workers, SeeMarker(w) PROVE TypeInv'
<1>1. proc[w] \in Proc /\ proc[w].run \in Runs
  <2>1. proc[w].pc \notin {"idle", "reaping", "down"} BY DEF SeeMarker, HeartbeatPCs
  <2> QED BY <2>1 DEF TypeInv, TypeOK, BusyHasRun
<1> DEFINE p == [proc[w] EXCEPT !.pc = IF proc[w].lost THEN "aborting" ELSE "exporting",
                              !.cancelled = @ /\ ~proc[w].lost]
<1>2. (proc[w].cancelled /\ ~proc[w].lost) \in BOOLEAN OBVIOUS
<1>3. p \in Proc /\ p.run \in Runs BY <1>1, <1>2, PCNames DEF Proc
<1>4. proc' = [proc EXCEPT ![w] = p] BY DEF SeeMarker
<1>5. proc' \in [Workers -> Proc] /\ BusyHasRun'
  <2> HIDE DEF p
  <2> QED BY <1>3, <1>4, ProcTyped
<1> QED BY <1>5 DEF TypeInv, TypeOK, SeeMarker

(* Export keeps the types.                                                 *)
LEMMA TypeExport ==
    ASSUME TypeInv, NEW w \in Workers, Export(w) PROVE TypeInv'
<1>1. proc[w].run \in Runs BY DEF TypeInv, BusyHasRun, Export
<1>2. (IF proc[w].cancelled THEN "aborting" ELSE "publishing") \in PCs BY PCNames, FailurePCTyped
<1>3. proc' \in [Workers -> Proc] /\ BusyHasRun' BY <1>1, <1>2, StepTyped DEF Export
<1> QED BY <1>1, <1>3 DEF TypeInv, TypeOK, Export

(* ClearDestination keeps the types.                                       *)
LEMMA TypeClearDestination ==
    ASSUME TypeInv, NEW w \in Workers, ClearDestination(w) PROVE TypeInv'
<1>1. proc[w].run \in Runs BY DEF TypeInv, BusyHasRun, ClearDestination
<1>2. "renaming" \in PCs BY PCNames, FailurePCTyped
<1>3. proc' \in [Workers -> Proc] /\ BusyHasRun' BY <1>1, <1>2, StepTyped DEF ClearDestination
<1>4. localDir' \in [Runs -> Attempts]
  BY <1>1, ConstantsTyped DEF TypeInv, TypeOK, Proc, ClearDestination
<1> QED BY <1>3, <1>4 DEF TypeInv, TypeOK, ClearDestination

(* Rename keeps the types.                                                 *)
LEMMA TypeRename ==
    ASSUME TypeInv, NEW w \in Workers, Rename(w) PROVE TypeInv'
<1>1. proc[w].run \in Runs BY DEF TypeInv, BusyHasRun, Rename
<1>2. "hashing" \in PCs BY PCNames, FailurePCTyped
<1>3. proc' \in [Workers -> Proc] /\ BusyHasRun' BY <1>1, <1>2, StepTyped DEF Rename
<1>4. localDir' \in [Runs -> Attempts]
  BY <1>1, ConstantsTyped DEF TypeInv, TypeOK, Proc, Rename
<1> QED BY <1>3, <1>4 DEF TypeInv, TypeOK, Rename

(* Hash keeps the types.                                                   *)
LEMMA TypeHash ==
    ASSUME TypeInv, NEW w \in Workers, Hash(w) PROVE TypeInv'
<1>1. proc[w] \in Proc /\ proc[w].run \in Runs
  <2>1. proc[w].pc \notin {"idle", "reaping", "down"} BY DEF Hash, HeartbeatPCs
  <2> QED BY <2>1 DEF TypeInv, TypeOK, BusyHasRun
<1> DEFINE p == [proc[w] EXCEPT !.pc = "cleaning", !.cancelled = FALSE,
                              !.inventory = localDir[proc[w].run]]
<1>2. localDir[proc[w].run] \in Attempts BY <1>1 DEF TypeInv, TypeOK
<1>3. p \in Proc /\ p.run \in Runs BY <1>1, <1>2, PCNames DEF Proc
<1>4. proc' = [proc EXCEPT ![w] = p] BY DEF Hash
<1>5. proc' \in [Workers -> Proc] /\ BusyHasRun'
  <2> HIDE DEF p
  <2> QED BY <1>3, <1>4, ProcTyped
<1> QED BY <1>5 DEF TypeInv, TypeOK, Hash

(* CleanUp keeps the types.                                                *)
LEMMA TypeCleanUp ==
    ASSUME TypeInv, NEW w \in Workers, CleanUp(w) PROVE TypeInv'
<1>1. proc[w].run \in Runs BY DEF TypeInv, BusyHasRun, CleanUp
<1>2. \E pc \in PCs : Step(w, pc)
  <2>1. {"uploading", "committing", FailurePC} \subseteq PCs BY PCNames, FailurePCTyped
  <2>2. PICK removed \in BOOLEAN :
           Step(w, IF proc[w].pc = "cleaning" /\ removed
                   THEN IF HasStore THEN "uploading" ELSE "committing"
                   ELSE FailurePC)
    BY DEF CleanUp
  <2>3. Step(w, "uploading") \/ Step(w, "committing") \/ Step(w, FailurePC) BY <2>2
  <2> QED BY <2>1, <2>3
<1>3. proc' \in [Workers -> Proc] /\ BusyHasRun' BY <1>1, <1>2, StepTyped
<1>4. containers' \subseteq containers BY DEF CleanUp
<1> QED BY <1>3, <1>4 DEF TypeInv, TypeOK, CleanUp

(* UploadObject keeps the types.                                           *)
LEMMA TypeUploadObject ==
    ASSUME TypeInv, NEW w \in Workers, NEW o \in Objects, UploadObject(w, o) PROVE TypeInv'
<1>1. proc[w] \in Proc /\ proc[w].run \in Runs
  <2>1. proc[w].pc \notin {"idle", "reaping", "down"} BY DEF UploadObject, HeartbeatPCs
  <2> QED BY <2>1 DEF TypeInv, TypeOK, BusyHasRun
<1> DEFINE p == [proc[w] EXCEPT !.uploaded = proc[w].uploaded \cup {o},
           !.pc = IF proc[w].uploaded \cup {o} = Objects THEN "committing" ELSE @]
<1>3. p \in Proc /\ p.run \in Runs BY <1>1, PCNames DEF Proc
<1>4. proc' = [proc EXCEPT ![w] = p] BY DEF UploadObject
<1>5. proc' \in [Workers -> Proc] /\ BusyHasRun'
  <2> HIDE DEF p
  <2> QED BY <1>3, <1>4, ProcTyped
<1>6. store' \in [Runs -> [Objects -> Attempts]]
  <2>1. proc[w].inventory \in Attempts BY <1>1 DEF Proc
  <2> QED BY <1>1, <2>1 DEF TypeInv, TypeOK, UploadObject
<1> QED BY <1>5, <1>6 DEF TypeInv, TypeOK, UploadObject

(* UploadFails keeps the types.                                            *)
LEMMA TypeUploadFails ==
    ASSUME TypeInv, NEW w \in Workers, UploadFails(w) PROVE TypeInv'
<1>1. proc[w].run \in Runs BY DEF TypeInv, BusyHasRun, UploadFails
<1>2. FailurePC \in PCs BY PCNames, FailurePCTyped
<1>3. proc' \in [Workers -> Proc] /\ BusyHasRun' BY <1>1, <1>2, StepTyped DEF UploadFails
<1> QED BY <1>1, <1>3 DEF TypeInv, TypeOK, UploadFails

(* Commit keeps the types.                                                 *)
LEMMA TypeCommit ==
    ASSUME TypeInv, NEW w \in Workers, NEW v \in Verdicts, Commit(w, v) PROVE TypeInv'
<1>1. proc[w] \in Proc /\ proc[w].run \in Runs /\ proc[w].pc = "committing"
  BY DEF TypeInv, TypeOK, BusyHasRun, Commit
<1>2. row' \in [Runs -> Row]
  <2>1. row[proc[w].run] \in Row /\ proc[w].attempt \in Attempts /\ proc[w].inventory \in Attempts
    BY <1>1 DEF TypeInv, TypeOK, Proc
  <2>2. [row[proc[w].run] EXCEPT !.status = "completed", !.verdict = v, !.holder = NoWorker,
            !.leaseExpired = FALSE, !.result = proc[w].attempt,
            !.inventory = proc[w].inventory] \in Row
    BY <2>1 DEF Row, Settled
  <2> QED BY <1>1, <2>2 DEF TypeInv, TypeOK, Commit
<1>3. proc' \in [Workers -> Proc] /\ BusyHasRun'
  <2>1. CASE proc' = [proc EXCEPT ![w] = Idle]
    BY <2>1, ConstantsTyped, ProcTyped DEF Idle
  <2>2. CASE Step(w, "releasing") \/ Step(w, FailurePC)
    BY <1>1, <2>2, StepTyped, PCNames, FailurePCTyped
  <2> QED BY <2>1, <2>2 DEF Commit
<1>4. audits' \in [Runs -> Nat] BY <1>1 DEF TypeInv, TypeOK, Commit
<1> QED BY <1>2, <1>3, <1>4 DEF TypeInv, TypeOK, Commit

(* CommitFails keeps the types.                                            *)
LEMMA TypeCommitFails ==
    ASSUME TypeInv, NEW w \in Workers, CommitFails(w) PROVE TypeInv'
<1>1. proc[w].run \in Runs BY DEF TypeInv, BusyHasRun, CommitFails
<1>2. FailurePC \in PCs BY PCNames, FailurePCTyped
<1>3. proc' \in [Workers -> Proc] /\ BusyHasRun' BY <1>1, <1>2, StepTyped DEF CommitFails
<1> QED BY <1>1, <1>3 DEF TypeInv, TypeOK, CommitFails

(* Release keeps the types.                                                *)
LEMMA TypeRelease ==
    ASSUME TypeInv, NEW w \in Workers, Release(w) PROVE TypeInv'
<1>1. proc[w].run \in Runs BY DEF TypeInv, BusyHasRun, Release
<1>2. proc' \in [Workers -> Proc] /\ BusyHasRun'
  BY ConstantsTyped, ProcTyped DEF Release, Idle
<1>3. localDir' \in [Runs -> Attempts]
  BY <1>1, ConstantsTyped DEF TypeInv, TypeOK, Release
<1> QED BY <1>2, <1>3 DEF TypeInv, TypeOK, Release

(* CheckOwnership keeps the types.                                         *)
LEMMA TypeCheckOwnership ==
    ASSUME TypeInv, NEW w \in Workers, CheckOwnership(w) PROVE TypeInv'
<1>1. proc[w].run \in Runs BY DEF TypeInv, BusyHasRun, CheckOwnership
<1>2. {"purging", "discarding"} \subseteq PCs BY PCNames
<1>3. proc' \in [Workers -> Proc] /\ BusyHasRun' BY <1>1, <1>2, StepTyped DEF CheckOwnership
<1> QED BY <1>3 DEF TypeInv, TypeOK, CheckOwnership

(* PurgeRemote keeps the types.                                            *)
LEMMA TypePurgeRemote ==
    ASSUME TypeInv, NEW w \in Workers, PurgeRemote(w) PROVE TypeInv'
<1>1. proc[w].run \in Runs BY DEF TypeInv, BusyHasRun, PurgeRemote
<1>2. "discarding" \in PCs BY PCNames, FailurePCTyped
<1>3. proc' \in [Workers -> Proc] /\ BusyHasRun' BY <1>1, <1>2, StepTyped DEF PurgeRemote
<1>4. store' \in [Runs -> [Objects -> Attempts]]
  <2>1. PICK kept \in SUBSET Objects :
           store' = [store EXCEPT ![proc[w].run] =
                        [o \in Objects |-> IF o \in kept THEN @[o] ELSE 0]]
    BY DEF PurgeRemote
  <2>2. [o \in Objects |-> IF o \in kept THEN store[proc[w].run][o] ELSE 0]
           \in [Objects -> Attempts]
    BY <1>1, ConstantsTyped DEF TypeInv, TypeOK
  <2> QED BY <1>1, <2>1, <2>2 DEF TypeInv, TypeOK
<1> QED BY <1>3, <1>4 DEF TypeInv, TypeOK, PurgeRemote

(* Discard keeps the types.                                                *)
LEMMA TypeDiscard ==
    ASSUME TypeInv, NEW w \in Workers, Discard(w) PROVE TypeInv'
<1>1. proc[w].run \in Runs BY DEF TypeInv, BusyHasRun, Discard
<1>2. "recording" \in PCs BY PCNames, FailurePCTyped
<1>3. proc' \in [Workers -> Proc] /\ BusyHasRun' BY <1>1, <1>2, StepTyped DEF Discard
<1>4. localDir' \in [Runs -> Attempts]
  <2>1. localDir[proc[w].run] \in Attempts BY <1>1 DEF TypeInv, TypeOK
  <2>2. PICK left \in {0, localDir[proc[w].run]} :
           localDir' = [localDir EXCEPT ![proc[w].run] = left]
    BY DEF Discard
  <2> QED BY <1>1, <2>1, <2>2, ConstantsTyped DEF TypeInv, TypeOK
<1> QED BY <1>3, <1>4 DEF TypeInv, TypeOK, Discard

(* RecordFailure keeps the types.                                          *)
LEMMA TypeRecordFailure ==
    ASSUME TypeInv, NEW w \in Workers, RecordFailure(w) PROVE TypeInv'
<1>1. proc[w].run \in Runs BY DEF TypeInv, BusyHasRun, RecordFailure
<1>2. row' \in [Runs -> Row]
  <2>1. \/ row' = row
        \/ \E status \in {"queued", "failed", "cancelled"} :
              row' = Released(proc[w].run, status)
    BY DEF RecordFailure, StatusAfter
  <2> QED BY <1>1, <2>1, ReleasedTyped DEF TypeInv, TypeOK
<1>3. proc' \in [Workers -> Proc] /\ BusyHasRun'
  BY ConstantsTyped, ProcTyped DEF RecordFailure, Idle
<1>4. audits' \in [Runs -> Nat] BY <1>1 DEF TypeInv, TypeOK, RecordFailure
<1> QED BY <1>2, <1>3, <1>4 DEF TypeInv, TypeOK, RecordFailure

(* Crash keeps the types.                                                  *)
LEMMA TypeCrash ==
    ASSUME TypeInv, NEW w \in Workers, Crash(w) PROVE TypeInv'
<1> DEFINE p == [Idle EXCEPT !.pc = "down", !.run = proc[w].run]
<1>1. proc[w].run \in Runs \cup {NoRun} BY DEF TypeInv, TypeOK, Proc
<1>2. p \in Proc /\ p.pc = "down" BY <1>1, ConstantsTyped, PCNames DEF Proc
<1>3. proc' = [proc EXCEPT ![w] = p] BY DEF Crash
<1>4. proc' \in [Workers -> Proc] /\ BusyHasRun'
  <2> HIDE DEF p
  <2> QED BY <1>2, <1>3, ProcTyped
<1> QED BY <1>4 DEF TypeInv, TypeOK, Crash

(* BeginRecovery keeps the types.                                          *)
LEMMA TypeBeginRecovery ==
    ASSUME TypeInv, NEW w \in Workers, BeginRecovery(w) PROVE TypeInv'
<1> DEFINE taken == {r \in Runs : LeaseLapsed(r)}
           p == [Idle EXCEPT !.pc = "reaping",
                             !.todo = {<<r, row[r].attempts>> : r \in taken}]
<1>1. \A r \in Runs :
         [row[r] EXCEPT !.holder = ReaperId(w), !.leaseExpired = FALSE] \in Row
  BY DEF TypeInv, TypeOK, Row, Reapers
<1>2. {<<r, row[r].attempts>> : r \in taken} \subseteq Runs \X Attempts
  BY DEF TypeInv, TypeOK, Row
<1>3. p \in Proc /\ p.pc = "reaping" BY <1>2, ConstantsTyped, PCNames DEF Proc
<1>4. row' \in [Runs -> Row] BY <1>1 DEF BeginRecovery, TypeInv, TypeOK
<1>5. proc' = [proc EXCEPT ![w] = p] BY DEF BeginRecovery
<1>6. proc' \in [Workers -> Proc] /\ BusyHasRun'
  <2> HIDE DEF p
  <2> QED BY <1>3, <1>5, ProcTyped
<1> QED BY <1>4, <1>6 DEF TypeInv, TypeOK, BeginRecovery

(* Reap keeps the types.                                                   *)
LEMMA TypeReap ==
    ASSUME TypeInv, NEW w \in Workers, NEW r \in Runs, NEW a \in Attempts, Reap(w, r, a) PROVE TypeInv'
<1> DEFINE p == [proc[w] EXCEPT !.pc = "requeueing", !.run = r, !.attempt = a,
                                !.todo = @ \ {<<r, a>>}]
<1>1. proc[w] \in Proc BY DEF TypeInv, TypeOK
<1>2. p \in Proc /\ p.run \in Runs BY <1>1, PCNames DEF Proc
<1>3. proc' = [proc EXCEPT ![w] = p] BY DEF Reap
<1>4. proc' \in [Workers -> Proc] /\ BusyHasRun'
  <2> HIDE DEF p
  <2> QED BY <1>2, <1>3, ProcTyped
<1>5. containers' \subseteq containers BY DEF Reap
<1> QED BY <1>4, <1>5 DEF TypeInv, TypeOK, Reap

(* Requeue keeps the types.                                                *)
LEMMA TypeRequeue ==
    ASSUME TypeInv, NEW w \in Workers, Requeue(w) PROVE TypeInv'
<1>1. proc[w].run \in Runs BY DEF TypeInv, BusyHasRun, Requeue
<1>2. row' \in [Runs -> Row]
  BY <1>1, ReleasedTyped, StatusAfterTyped DEF Requeue, TypeInv, TypeOK
<1>3. {"reaping", "auditing"} \subseteq PCs BY PCNames
<1>4. Step(w, "reaping") \/ Step(w, "auditing")
  BY DEF Requeue
<1>5. proc' \in [Workers -> Proc] /\ BusyHasRun' BY <1>1, <1>3, <1>4, StepTyped
<1> QED BY <1>2, <1>5 DEF TypeInv, TypeOK, Requeue

(* AuditRecovery keeps the types.                                          *)
LEMMA TypeAuditRecovery ==
    ASSUME TypeInv, NEW w \in Workers, AuditRecovery(w) PROVE TypeInv'
<1>1. proc[w].run \in Runs BY DEF TypeInv, BusyHasRun, AuditRecovery
<1>2. "reaping" \in PCs BY PCNames, FailurePCTyped
<1>3. proc' \in [Workers -> Proc] /\ BusyHasRun' BY <1>1, <1>2, StepTyped DEF AuditRecovery
<1>4. audits' \in [Runs -> Nat] BY <1>1 DEF TypeInv, TypeOK, AuditRecovery
<1> QED BY <1>3, <1>4 DEF TypeInv, TypeOK, AuditRecovery

(* EndRecovery keeps the types.                                            *)
LEMMA TypeEndRecovery ==
    ASSUME TypeInv, NEW w \in Workers, EndRecovery(w) PROVE TypeInv'
<1>1. proc' \in [Workers -> Proc] /\ BusyHasRun'
  BY ConstantsTyped, ProcTyped DEF EndRecovery, Idle
<1> QED BY <1>1 DEF TypeInv, TypeOK, EndRecovery

(* PurgeRows keeps the types.                                              *)
LEMMA TypePurgeRows ==
    ASSUME TypeInv, PurgeRows PROVE TypeInv'
<1>1. [NoRow EXCEPT !.status = "purged"] \in Row BY ConstantsTyped DEF Row
<1>2. row' \in [Runs -> Row] BY <1>1 DEF TypeInv, TypeOK, PurgeRows
<1>3. purgeQueue' \subseteq Runs BY DEF TypeInv, TypeOK, PurgeRows
<1>4. maint' \in Maint BY <1>3 DEF PurgeRows, Maint
<1> QED BY <1>2, <1>3, <1>4 DEF TypeInv, TypeOK, PurgeRows, BusyHasRun

(* SweepStore keeps the types.                                             *)
LEMMA TypeSweepStore ==
    ASSUME TypeInv, NEW r \in Runs, SweepStore(r) PROVE TypeInv'
<1>1. store' \in [Runs -> [Objects -> Attempts]]
  BY ConstantsTyped DEF TypeInv, TypeOK, SweepStore
<1>2. maint' \in Maint BY DEF TypeInv, TypeOK, SweepStore, Maint
<1> QED BY <1>1, <1>2 DEF TypeInv, TypeOK, SweepStore, BusyHasRun

(* SweepLocal keeps the types.                                             *)
LEMMA TypeSweepLocal ==
    ASSUME TypeInv, NEW r \in Runs, SweepLocal(r) PROVE TypeInv'
<1>1. localDir' \in [Runs -> Attempts] BY ConstantsTyped DEF TypeInv, TypeOK, SweepLocal
<1>2. maint' \in Maint BY DEF TypeInv, TypeOK, SweepLocal, Maint
<1> QED BY <1>1, <1>2 DEF TypeInv, TypeOK, SweepLocal, BusyHasRun

(* Dequeue keeps the types.                                                *)
LEMMA TypeDequeue ==
    ASSUME TypeInv, Dequeue PROVE TypeInv'
<1>1. maint' \in Maint BY ConstantsTyped DEF TypeInv, TypeOK, Dequeue, Maint
<1> QED BY <1>1 DEF TypeInv, TypeOK, Dequeue, BusyHasRun

(* SweepFails keeps the types.                                             *)
LEMMA TypeSweepFails ==
    ASSUME TypeInv, SweepFails PROVE TypeInv'
<1> QED BY ConstantsTyped DEF TypeInv, TypeOK, SweepFails, BusyHasRun

-----------------------------------------------------------------------------
(* The types are an invariant.                                             *)

(* The initial state is typed.                                             *)
LEMMA TypeInit == Init => TypeInv
<1> SUFFICES ASSUME Init PROVE TypeInv
  OBVIOUS
<1>1. proc \in [Workers -> Proc] /\ BusyHasRun
  BY ConstantsTyped DEF Init, BusyHasRun, Idle
<1>2. row \in [Runs -> Row] /\ maint \in Maint BY ConstantsTyped DEF Init
<1>3. localDir \in [Runs -> Attempts] /\ store \in [Runs -> [Objects -> Attempts]]
  BY ConstantsTyped DEF Init
<1> QED BY <1>1, <1>2, <1>3 DEF TypeInv, TypeOK, Init

(* Every step keeps the types.                                             *)
LEMMA TypeNext == TypeInv /\ [Next]_vars => TypeInv'
<1> SUFFICES ASSUME TypeInv, [Next]_vars PROVE TypeInv'
  OBVIOUS
<1>1. CASE UNCHANGED vars BY <1>1 DEF TypeInv, TypeOK, BusyHasRun, vars
<1>2. CASE \E r \in Runs : Submit(r) \/ Cancel(r) \/ LeaseExpires(r) \/ RetentionExpires(r)
  BY <1>2, TypeSubmit, TypeCancel, TypeLeaseExpires, TypeRetentionExpires
<1>3. CASE \E w \in Workers : WorkerStep(w)
  <2>1. PICK w \in Workers : WorkerStep(w) BY <1>3
  <2>2. CASE \/ \E r \in Runs : Claim(w, r)
             \/ Launch(w) \/ Throw(w) \/ SeeMarker(w) \/ Export(w)
             \/ ClearDestination(w) \/ Rename(w) \/ Hash(w) \/ CleanUp(w)
    BY <2>2, TypeClaim, TypeLaunch, TypeThrow, TypeSeeMarker, TypeExport,
       TypeClearDestination, TypeRename, TypeHash, TypeCleanUp
  <2>3. CASE \/ \E o \in Objects : UploadObject(w, o)
             \/ UploadFails(w)
             \/ \E v \in Verdicts : Commit(w, v)
             \/ CommitFails(w) \/ Release(w) \/ CheckOwnership(w) \/ PurgeRemote(w)
             \/ Discard(w) \/ RecordFailure(w)
    BY <2>3, TypeUploadObject, TypeUploadFails, TypeCommit, TypeCommitFails, TypeRelease,
       TypeCheckOwnership, TypePurgeRemote, TypeDiscard, TypeRecordFailure
  <2> QED BY <2>1, <2>2, <2>3 DEF WorkerStep
<1>4. CASE \E w \in Workers : RecoveryStep(w) \/ Heartbeat(w) \/ KillContainer(w) \/ Crash(w)
  <2>1. PICK w \in Workers : RecoveryStep(w) \/ Heartbeat(w) \/ KillContainer(w) \/ Crash(w)
    BY <1>4
  <2> QED BY <2>1, TypeHeartbeat, TypeKillContainer, TypeCrash, TypeBeginRecovery, TypeReap,
             TypeRequeue, TypeAuditRecovery, TypeEndRecovery DEF RecoveryStep
<1>5. CASE MaintenanceStep \/ SweepFails
  BY <1>5, TypePurgeRows, TypeSweepStore, TypeSweepLocal, TypeDequeue, TypeSweepFails
     DEF MaintenanceStep
<1> QED BY <1>1, <1>2, <1>3, <1>4, <1>5 DEF Next

(* Every variable keeps its type, and every busy worker has a run.         *)
THEOREM TypeInvariant == Spec => []TypeInv
<1> QED BY TypeInit, TypeNext, PTL DEF Spec

(* The state of the queue is of its type, for any constants that satisfy   *)
(* QueueAssumption: in particular no attempt number exceeds MAX_ATTEMPTS   *)
(* and no status, verdict or program point is one the code does not know.  *)
THEOREM TypeCorrect == Spec => []TypeOK
<1>1. TypeInv => TypeOK BY DEF TypeInv
<1> QED BY <1>1, TypeInvariant, PTL

-----------------------------------------------------------------------------
(* The inductive invariant.                                                *)

(* A heartbeat can only have seen a cancel request that is still in the    *)
(* row as long as the worker owns it.                                      *)
CancelSeenIsInRow ==
    \A w \in Workers :
        (proc[w].pc \in JobPCs /\ proc[w].cancelled /\ Owns(w))
            => row[proc[w].run].cancelRequested

(* A job runs under an attempt number that was counted when it began.      *)
AttemptCounted ==
    \A w \in Workers : proc[w].pc \in JobPCs => proc[w].attempt > 0

(* A reaper's list names a run once, and no longer while it is being done. *)
ListedOnce ==
    \A w \in Workers : proc[w].pc \in RecoveryPCs =>
        \A r \in Runs, a, b \in Attempts :
            <<r, a>> \in proc[w].todo =>
                /\ <<r, b>> \in proc[w].todo => a = b
                /\ proc[w].pc # "reaping" => proc[w].run # r

(* There is nothing in a row that was not submitted.                       *)
AbsentIsNew == \A r \in Runs : row[r].status = "absent" => row[r] = NoRow

LeaseProtocol ==
    /\ HolderIsWorking
    /\ NoForgottenLease
    /\ NoStrandedRun
    /\ VerdictFromLastAttempt
    /\ CancelSeenIsInRow
    /\ AttemptCounted
    /\ ListedOnce
    /\ AbsentIsNew

LeaseInv == TypeInv /\ LeaseProtocol

(* Names of workers, of their reapers and of nobody are all different.     *)
LEMMA HoldersDiffer ==
    /\ \A w \in Workers : w # NoWorker /\ ReaperId(w) # NoWorker
    /\ \A u, w \in Workers : u # ReaperId(w) /\ (ReaperId(u) = ReaperId(w) => u = w)
  BY QueueAssumption DEF Reapers, ReaperId

-----------------------------------------------------------------------------
(* Steps that leave the lease of every run and the job of every worker as  *)
(* they are.                                                               *)

SameLease(r) ==
    /\ row'[r].status = row[r].status
    /\ row'[r].holder = row[r].holder
    /\ row'[r].attempts = row[r].attempts
    /\ row'[r].verdict = row[r].verdict
    /\ row'[r].result = row[r].result
    /\ row[r].cancelRequested => row'[r].cancelRequested
    /\ row[r].status # "running" => row'[r].cancelRequested = row[r].cancelRequested
    /\ row[r].status = "absent" => row'[r] = row[r]

SameJob(w) ==
    \/ proc'[w] = proc[w]
    \/ /\ proc[w].pc \in JobPCs /\ proc'[w].pc \in JobPCs
       /\ proc'[w].run = proc[w].run
       /\ proc'[w].attempt = proc[w].attempt
       /\ proc'[w].cancelled =>
             proc[w].cancelled \/ row[proc[w].run].cancelRequested

(* Such steps keep the lease protocol.                                     *)
LEMMA QuietStep ==
    ASSUME LeaseInv, TypeInv',
           \A r \in Runs : SameLease(r), \A w \in Workers : SameJob(w)
    PROVE  LeaseProtocol'
<1> USE DEF SameLease, SameJob
<1>1. HolderIsWorking' BY PCNames DEF LeaseInv, LeaseProtocol, HolderIsWorking
<1>2. NoForgottenLease'
  BY PCNames DEF LeaseInv, LeaseProtocol, NoForgottenLease, RecoveryPCs
<1>3. NoStrandedRun' BY DEF LeaseInv, LeaseProtocol, NoStrandedRun
<1>4. VerdictFromLastAttempt'
  BY DEF LeaseInv, LeaseProtocol, VerdictFromLastAttempt
<1>5. CancelSeenIsInRow'
  <2> SUFFICES ASSUME NEW w \in Workers, proc'[w].pc \in JobPCs, proc'[w].cancelled, Owns(w)'
               PROVE  row'[proc'[w].run].cancelRequested
    BY DEF CancelSeenIsInRow
  <2>1. proc'[w].run = proc[w].run /\ proc[w].run \in Runs
    BY PCNames DEF LeaseInv, TypeInv, BusyHasRun
  <2>2. Owns(w) BY <2>1 DEF Owns
  <2>3. row[proc[w].run].cancelRequested
    BY <2>2 DEF LeaseInv, LeaseProtocol, CancelSeenIsInRow
  <2> QED BY <2>1, <2>3
<1>6. AttemptCounted' BY DEF LeaseInv, LeaseProtocol, AttemptCounted
<1>7. ListedOnce' BY PCNames DEF LeaseInv, LeaseProtocol, ListedOnce, RecoveryPCs
<1>8. AbsentIsNew' BY DEF LeaseInv, LeaseProtocol, AbsentIsNew
<1> QED BY <1>1, <1>2, <1>3, <1>4, <1>5, <1>6, <1>7, <1>8 DEF LeaseProtocol

(* A step that only replaces one worker's process, without leaving its     *)
(* job, is such a step.                                                    *)
LEMMA JobStep ==
    ASSUME LeaseInv, TypeInv', NEW w \in Workers, NEW p \in Proc,
           proc[w].pc \in JobPCs, p.pc \in JobPCs,
           p.run = proc[w].run, p.attempt = proc[w].attempt,
           p.cancelled => proc[w].cancelled,
           proc' = [proc EXCEPT ![w] = p], row' = row
    PROVE  LeaseProtocol'
<1>1. proc'[w] = p /\ \A u \in Workers : u # w => proc'[u] = proc[u]
  BY DEF LeaseInv, TypeInv, TypeOK
<1>2. \A u \in Workers : SameJob(u) BY <1>1 DEF SameJob
<1>3. \A r \in Runs : SameLease(r) BY DEF SameLease
<1> QED BY <1>2, <1>3, QuietStep

(* In particular one that only moves it to another point of its job.       *)
LEMMA MoveStep ==
    ASSUME LeaseInv, TypeInv', NEW w \in Workers, NEW pc \in JobPCs,
           proc[w].pc \in JobPCs, Step(w, pc), row' = row
    PROVE  LeaseProtocol'
<1> DEFINE p == [proc[w] EXCEPT !.pc = pc]
<1>1. proc[w] \in Proc BY DEF LeaseInv, TypeInv, TypeOK
<1>2. /\ p \in Proc /\ p.pc = pc /\ p.run = proc[w].run
      /\ p.attempt = proc[w].attempt /\ p.cancelled = proc[w].cancelled
  BY <1>1, PCNames DEF Proc
<1>3. proc' = [proc EXCEPT ![w] = p] BY DEF Step
<1> HIDE DEF p
<1> QED BY <1>2, <1>3, JobStep

-----------------------------------------------------------------------------
(* One lemma per action.                                                   *)

(* LeaseExpires keeps the lease protocol.                                  *)
LEMMA LeaseLeaseExpires ==
    ASSUME LeaseInv, TypeInv', NEW r \in Runs, LeaseExpires(r) PROVE LeaseProtocol'
<1>1. row[r] \in Row BY DEF LeaseInv, TypeInv, TypeOK
<1>2. row'[r] = [row[r] EXCEPT !.leaseExpired = TRUE] /\ \A q \in Runs : q # r => row'[q] = row[q]
  BY DEF LeaseInv, TypeInv, TypeOK, LeaseExpires
<1>3. SameLease(r) BY <1>1, <1>2 DEF SameLease, Row, LeaseExpires, Settled
<1>4. \A q \in Runs : SameLease(q) BY <1>2, <1>3 DEF SameLease
<1>5. \A w \in Workers : SameJob(w) BY DEF SameJob, LeaseExpires
<1> QED BY <1>4, <1>5, QuietStep

(* RetentionExpires keeps the lease protocol.                              *)
LEMMA LeaseRetentionExpires ==
    ASSUME LeaseInv, TypeInv', NEW r \in Runs, RetentionExpires(r) PROVE LeaseProtocol'
<1>1. row[r] \in Row BY DEF LeaseInv, TypeInv, TypeOK
<1>2. row'[r] = [row[r] EXCEPT !.expired = TRUE] /\ \A q \in Runs : q # r => row'[q] = row[q]
  BY DEF LeaseInv, TypeInv, TypeOK, RetentionExpires
<1>3. SameLease(r) BY <1>1, <1>2 DEF SameLease, Row, RetentionExpires, Settled
<1>4. \A q \in Runs : SameLease(q) BY <1>2, <1>3 DEF SameLease
<1>5. \A w \in Workers : SameJob(w) BY DEF SameJob, RetentionExpires
<1> QED BY <1>4, <1>5, QuietStep

(* Launch keeps the lease protocol.                                        *)
LEMMA LeaseLaunch ==
    ASSUME LeaseInv, TypeInv', NEW w \in Workers, Launch(w) PROVE LeaseProtocol'
<1>1. proc[w].pc \in JobPCs BY PCNames DEF Launch
<1>2. "waiting" \in JobPCs BY PCNames, FailurePCTyped
<1> QED BY <1>1, <1>2, MoveStep DEF Launch

(* Heartbeat keeps the lease protocol.                                     *)
LEMMA LeaseHeartbeat ==
    ASSUME LeaseInv, TypeInv', NEW w \in Workers, Heartbeat(w) PROVE LeaseProtocol'
<1>1. proc[w].pc \in JobPCs /\ proc[w] \in Proc /\ proc[w].run \in Runs
  BY PCNames DEF Heartbeat, HeartbeatPCs, LeaseInv, TypeInv, TypeOK, BusyHasRun
<1>2. \A r \in Runs : SameLease(r)
  <2>1. CASE row' = row BY <2>1 DEF SameLease
  <2>2. CASE Owns(w) /\ row' = [row EXCEPT ![proc[w].run].leaseExpired = FALSE]
    <3>1. row[proc[w].run] \in Row BY <1>1 DEF LeaseInv, TypeInv, TypeOK
    <3>2. /\ row'[proc[w].run] = [row[proc[w].run] EXCEPT !.leaseExpired = FALSE]
          /\ \A q \in Runs : q # proc[w].run => row'[q] = row[q]
      BY <1>1, <2>2 DEF LeaseInv, TypeInv, TypeOK
    <3>3. row[proc[w].run].status = "running" BY <2>2 DEF Owns
    <3>4. SameLease(proc[w].run) BY <3>1, <3>2, <3>3 DEF SameLease, Row
    <3> QED BY <3>2, <3>4 DEF SameLease
  <2> QED BY <2>1, <2>2 DEF Heartbeat
<1>3. \A u \in Workers : SameJob(u)
  <2> DEFINE seen == proc[w].cancelled \/ row[proc[w].run].cancelRequested
             p == [proc[w] EXCEPT !.cancelled = seen]
             q == [proc[w] EXCEPT !.lost = TRUE]
  <2>1. proc' = [proc EXCEPT ![w] = p] \/ proc' = [proc EXCEPT ![w] = q]
    BY DEF Heartbeat
  <2>2. /\ proc'[w] = p \/ proc'[w] = q
        /\ \A u \in Workers : u # w => proc'[u] = proc[u]
    BY <2>1 DEF LeaseInv, TypeInv, TypeOK
  <2>3. /\ p.pc = proc[w].pc /\ p.run = proc[w].run
        /\ p.attempt = proc[w].attempt /\ p.cancelled = seen
    BY <1>1 DEF Proc
  <2>4. /\ q.pc = proc[w].pc /\ q.run = proc[w].run
        /\ q.attempt = proc[w].attempt /\ q.cancelled = proc[w].cancelled
    BY <1>1 DEF Proc
  <2>5. SameJob(w)
    <3> HIDE DEF p, q
    <3> QED BY <1>1, <2>2, <2>3, <2>4 DEF SameJob
  <2> QED BY <2>2, <2>5 DEF SameJob
<1> QED BY <1>2, <1>3, QuietStep

(* KillContainer keeps the lease protocol.                                 *)
LEMMA LeaseKillContainer ==
    ASSUME LeaseInv, TypeInv', NEW w \in Workers, KillContainer(w) PROVE LeaseProtocol'
<1> DEFINE p == [proc[w] EXCEPT !.killed = TRUE]
<1>1. proc[w].pc \in JobPCs BY PCNames DEF KillContainer, HeartbeatPCs
<1>2. proc[w] \in Proc /\ proc'[w] \in Proc /\ proc'[w] = p
  BY DEF LeaseInv, TypeInv, TypeOK, KillContainer
<1>3. p.pc \in JobPCs BY <1>1, <1>2, PCNames DEF Proc
<1>4. p.run = proc[w].run /\ p.attempt = proc[w].attempt BY <1>2 DEF Proc
<1>5. p.cancelled => proc[w].cancelled BY <1>2 DEF Proc
<1>6. proc' = [proc EXCEPT ![w] = p] /\ row' = row BY DEF KillContainer
<1> HIDE DEF p
<1> QED BY <1>1, <1>2, <1>3, <1>4, <1>5, <1>6, JobStep

(* Throw keeps the lease protocol.                                         *)
LEMMA LeaseThrow ==
    ASSUME LeaseInv, TypeInv', NEW w \in Workers, Throw(w) PROVE LeaseProtocol'
<1> DEFINE p == [proc[w] EXCEPT !.pc = "aborting", !.cancelled = FALSE]
<1>1. proc[w].pc \in JobPCs BY PCNames DEF Throw, HeartbeatPCs
<1>2. proc[w] \in Proc /\ proc'[w] \in Proc /\ proc'[w] = p
  BY DEF LeaseInv, TypeInv, TypeOK, Throw
<1>3. p.pc \in JobPCs BY <1>1, <1>2, PCNames DEF Proc
<1>4. p.run = proc[w].run /\ p.attempt = proc[w].attempt BY <1>2 DEF Proc
<1>5. p.cancelled => proc[w].cancelled BY <1>2 DEF Proc
<1>6. proc' = [proc EXCEPT ![w] = p] /\ row' = row BY DEF Throw
<1> HIDE DEF p
<1> QED BY <1>1, <1>2, <1>3, <1>4, <1>5, <1>6, JobStep

(* SeeMarker keeps the lease protocol.                                     *)
LEMMA LeaseSeeMarker ==
    ASSUME LeaseInv, TypeInv', NEW w \in Workers, SeeMarker(w) PROVE LeaseProtocol'
<1> DEFINE p == [proc[w] EXCEPT !.pc = IF proc[w].lost THEN "aborting" ELSE "exporting",
                              !.cancelled = @ /\ ~proc[w].lost]
<1>1. proc[w].pc \in JobPCs BY PCNames DEF SeeMarker, HeartbeatPCs
<1>2. proc[w] \in Proc /\ proc'[w] \in Proc /\ proc'[w] = p
  BY DEF LeaseInv, TypeInv, TypeOK, SeeMarker
<1>3. p.pc \in JobPCs BY <1>1, <1>2, PCNames DEF Proc
<1>4. p.run = proc[w].run /\ p.attempt = proc[w].attempt BY <1>2 DEF Proc
<1>5. p.cancelled => proc[w].cancelled BY <1>2 DEF Proc
<1>6. proc' = [proc EXCEPT ![w] = p] /\ row' = row BY DEF SeeMarker
<1> HIDE DEF p
<1> QED BY <1>1, <1>2, <1>3, <1>4, <1>5, <1>6, JobStep

(* Export keeps the lease protocol.                                        *)
LEMMA LeaseExport ==
    ASSUME LeaseInv, TypeInv', NEW w \in Workers, Export(w) PROVE LeaseProtocol'
<1>1. proc[w].pc \in JobPCs BY PCNames DEF Export
<1>2. (IF proc[w].cancelled THEN "aborting" ELSE "publishing") \in JobPCs BY PCNames, FailurePCTyped
<1> QED BY <1>1, <1>2, MoveStep DEF Export

(* ClearDestination keeps the lease protocol.                              *)
LEMMA LeaseClearDestination ==
    ASSUME LeaseInv, TypeInv', NEW w \in Workers, ClearDestination(w) PROVE LeaseProtocol'
<1>1. proc[w].pc \in JobPCs BY PCNames DEF ClearDestination
<1>2. "renaming" \in JobPCs BY PCNames, FailurePCTyped
<1> QED BY <1>1, <1>2, MoveStep DEF ClearDestination

(* Rename keeps the lease protocol.                                        *)
LEMMA LeaseRename ==
    ASSUME LeaseInv, TypeInv', NEW w \in Workers, Rename(w) PROVE LeaseProtocol'
<1>1. proc[w].pc \in JobPCs BY PCNames DEF Rename
<1>2. "hashing" \in JobPCs BY PCNames, FailurePCTyped
<1> QED BY <1>1, <1>2, MoveStep DEF Rename

(* Hash keeps the lease protocol.                                          *)
LEMMA LeaseHash ==
    ASSUME LeaseInv, TypeInv', NEW w \in Workers, Hash(w) PROVE LeaseProtocol'
<1> DEFINE p == [proc[w] EXCEPT !.pc = "cleaning", !.cancelled = FALSE,
                              !.inventory = localDir[proc[w].run]]
<1>1. proc[w].pc \in JobPCs BY PCNames DEF Hash, HeartbeatPCs
<1>2. proc[w] \in Proc /\ proc'[w] \in Proc /\ proc'[w] = p
  BY DEF LeaseInv, TypeInv, TypeOK, Hash
<1>3. p.pc \in JobPCs BY <1>1, <1>2, PCNames DEF Proc
<1>4. p.run = proc[w].run /\ p.attempt = proc[w].attempt BY <1>2 DEF Proc
<1>5. p.cancelled => proc[w].cancelled BY <1>2 DEF Proc
<1>6. proc' = [proc EXCEPT ![w] = p] /\ row' = row BY DEF Hash
<1> HIDE DEF p
<1> QED BY <1>1, <1>2, <1>3, <1>4, <1>5, <1>6, JobStep

(* CleanUp keeps the lease protocol.                                       *)
LEMMA LeaseCleanUp ==
    ASSUME LeaseInv, TypeInv', NEW w \in Workers, CleanUp(w) PROVE LeaseProtocol'
<1>1. proc[w].pc \in JobPCs BY PCNames DEF CleanUp
<1>2. {"uploading", "committing", FailurePC} \subseteq JobPCs BY PCNames, FailurePCTyped
<1>3. PICK removed \in BOOLEAN :
         Step(w, IF proc[w].pc = "cleaning" /\ removed
                 THEN IF HasStore THEN "uploading" ELSE "committing"
                 ELSE FailurePC)
  BY DEF CleanUp
<1>4. Step(w, "uploading") \/ Step(w, "committing") \/ Step(w, FailurePC) BY <1>3
<1>5. row' = row BY DEF CleanUp
<1> QED BY <1>1, <1>2, <1>4, <1>5, MoveStep

(* UploadObject keeps the lease protocol.                                  *)
LEMMA LeaseUploadObject ==
    ASSUME LeaseInv, TypeInv', NEW w \in Workers, NEW o \in Objects, UploadObject(w, o) PROVE LeaseProtocol'
<1> DEFINE p == [proc[w] EXCEPT !.uploaded = proc[w].uploaded \cup {o},
           !.pc = IF proc[w].uploaded \cup {o} = Objects THEN "committing" ELSE @]
<1>1. proc[w].pc \in JobPCs BY PCNames DEF UploadObject, HeartbeatPCs
<1>2. proc[w] \in Proc /\ proc'[w] \in Proc /\ proc'[w] = p
  BY DEF LeaseInv, TypeInv, TypeOK, UploadObject
<1>3. p.pc \in JobPCs BY <1>1, <1>2, PCNames DEF Proc
<1>4. p.run = proc[w].run /\ p.attempt = proc[w].attempt BY <1>2 DEF Proc
<1>5. p.cancelled => proc[w].cancelled BY <1>2 DEF Proc
<1>6. proc' = [proc EXCEPT ![w] = p] /\ row' = row BY DEF UploadObject
<1> HIDE DEF p
<1> QED BY <1>1, <1>2, <1>3, <1>4, <1>5, <1>6, JobStep

(* UploadFails keeps the lease protocol.                                   *)
LEMMA LeaseUploadFails ==
    ASSUME LeaseInv, TypeInv', NEW w \in Workers, UploadFails(w) PROVE LeaseProtocol'
<1>1. proc[w].pc \in JobPCs BY PCNames DEF UploadFails
<1>2. FailurePC \in JobPCs BY PCNames, FailurePCTyped
<1> QED BY <1>1, <1>2, MoveStep DEF UploadFails

(* CommitFails keeps the lease protocol.                                   *)
LEMMA LeaseCommitFails ==
    ASSUME LeaseInv, TypeInv', NEW w \in Workers, CommitFails(w) PROVE LeaseProtocol'
<1>1. proc[w].pc \in JobPCs BY PCNames DEF CommitFails
<1>2. FailurePC \in JobPCs BY PCNames, FailurePCTyped
<1> QED BY <1>1, <1>2, MoveStep DEF CommitFails

(* CheckOwnership keeps the lease protocol.                                *)
LEMMA LeaseCheckOwnership ==
    ASSUME LeaseInv, TypeInv', NEW w \in Workers, CheckOwnership(w) PROVE LeaseProtocol'
<1>1. proc[w].pc \in JobPCs BY PCNames DEF CheckOwnership
<1>2. {"purging", "discarding"} \subseteq JobPCs BY PCNames
<1> QED BY <1>1, <1>2, MoveStep DEF CheckOwnership

(* PurgeRemote keeps the lease protocol.                                   *)
LEMMA LeasePurgeRemote ==
    ASSUME LeaseInv, TypeInv', NEW w \in Workers, PurgeRemote(w) PROVE LeaseProtocol'
<1>1. proc[w].pc \in JobPCs BY PCNames DEF PurgeRemote
<1>2. "discarding" \in JobPCs BY PCNames, FailurePCTyped
<1> QED BY <1>1, <1>2, MoveStep DEF PurgeRemote

(* Discard keeps the lease protocol.                                       *)
LEMMA LeaseDiscard ==
    ASSUME LeaseInv, TypeInv', NEW w \in Workers, Discard(w) PROVE LeaseProtocol'
<1>1. proc[w].pc \in JobPCs BY PCNames DEF Discard
<1>2. "recording" \in JobPCs BY PCNames, FailurePCTyped
<1> QED BY <1>1, <1>2, MoveStep DEF Discard

(* SweepStore keeps the lease protocol.                                    *)
LEMMA LeaseSweepStore ==
    ASSUME LeaseInv, TypeInv', NEW r \in Runs, SweepStore(r) PROVE LeaseProtocol'
<1>1. \A q \in Runs : SameLease(q) BY DEF SameLease, SweepStore
<1>2. \A w \in Workers : SameJob(w) BY DEF SameJob, SweepStore
<1> QED BY <1>1, <1>2, QuietStep

(* SweepLocal keeps the lease protocol.                                    *)
LEMMA LeaseSweepLocal ==
    ASSUME LeaseInv, TypeInv', NEW r \in Runs, SweepLocal(r) PROVE LeaseProtocol'
<1>1. \A q \in Runs : SameLease(q) BY DEF SameLease, SweepLocal
<1>2. \A w \in Workers : SameJob(w) BY DEF SameJob, SweepLocal
<1> QED BY <1>1, <1>2, QuietStep

(* Dequeue keeps the lease protocol.                                       *)
LEMMA LeaseDequeue ==
    ASSUME LeaseInv, TypeInv', Dequeue PROVE LeaseProtocol'
<1>1. \A q \in Runs : SameLease(q) BY DEF SameLease, Dequeue
<1>2. \A w \in Workers : SameJob(w) BY DEF SameJob, Dequeue
<1> QED BY <1>1, <1>2, QuietStep

(* SweepFails keeps the lease protocol.                                    *)
LEMMA LeaseSweepFails ==
    ASSUME LeaseInv, TypeInv', SweepFails PROVE LeaseProtocol'
<1>1. \A q \in Runs : SameLease(q) BY DEF SameLease, SweepFails
<1>2. \A w \in Workers : SameJob(w) BY DEF SameJob, SweepFails
<1> QED BY <1>1, <1>2, QuietStep
(* What a failed attempt leaves in the row.                                *)
LEMMA ReleasedFields ==
    ASSUME row \in [Runs -> Row], NEW r \in Runs, NEW status
    PROVE  LET x == Released(r, status)[r]
           IN  /\ x.status = status /\ x.holder = NoWorker
               /\ x.attempts = row[r].attempts
               /\ x.verdict = IF status = "failed" THEN "INCONCLUSIVE" ELSE "none"
               /\ x.result = row[r].result
               /\ x.cancelRequested = row[r].cancelRequested
  BY DEF Released, Row

(* Submit keeps the lease protocol.                                        *)
LEMMA LeaseSubmit ==
    ASSUME LeaseInv, TypeInv', NEW r \in Runs, Submit(r) PROVE LeaseProtocol'
<1>1. row[r] \in Row /\ row[r] = NoRow
  BY DEF LeaseInv, TypeInv, TypeOK, LeaseProtocol, AbsentIsNew, Submit
<1>0. row'[r] = [row[r] EXCEPT !.status = "queued"]
  BY DEF LeaseInv, TypeInv, TypeOK, Submit
<1>2. (\A q \in Runs : q # r => row'[q] = row[q]) /\ proc' = proc
  BY DEF LeaseInv, TypeInv, TypeOK, Submit
<1>3. /\ row'[r].status = "queued" /\ row'[r].holder = NoWorker /\ row'[r].attempts = 0
      /\ row'[r].verdict = "none" /\ row'[r].result = 0 /\ ~row'[r].cancelRequested
  BY <1>0, <1>1 DEF NoRow
<1>4. HolderIsWorking'
  BY <1>2, <1>3, HoldersDiffer DEF LeaseInv, LeaseProtocol, HolderIsWorking
<1>5. NoForgottenLease'
  BY <1>2, <1>3, HoldersDiffer DEF LeaseInv, LeaseProtocol, NoForgottenLease
<1>6. NoStrandedRun'
  BY <1>2, <1>3, QueueAssumption DEF LeaseInv, LeaseProtocol, NoStrandedRun
<1>7. VerdictFromLastAttempt'
  BY <1>2, <1>3, HoldersDiffer DEF LeaseInv, LeaseProtocol, VerdictFromLastAttempt
<1>8. CancelSeenIsInRow'
  BY <1>2, <1>3, PCNames DEF LeaseInv, LeaseProtocol, TypeInv, BusyHasRun, CancelSeenIsInRow, Owns
<1>9. AttemptCounted'
  BY <1>2, <1>3, HoldersDiffer DEF LeaseInv, LeaseProtocol, AttemptCounted
<1>10. ListedOnce'
  BY <1>2, <1>3, HoldersDiffer DEF LeaseInv, LeaseProtocol, ListedOnce
<1>11. AbsentIsNew'
  BY <1>2, <1>3, HoldersDiffer DEF LeaseInv, LeaseProtocol, AbsentIsNew
<1> QED BY <1>4, <1>5, <1>6, <1>7, <1>8, <1>9, <1>10, <1>11 DEF LeaseProtocol

(* Cancel keeps the lease protocol.                                        *)
LEMMA LeaseCancel ==
    ASSUME LeaseInv, TypeInv', NEW r \in Runs, Cancel(r) PROVE LeaseProtocol'
<1>1. row[r] \in Row BY DEF LeaseInv, TypeInv, TypeOK
<1>2. CASE row[r].status = "running"
  <2>1. row'[r] = [row[r] EXCEPT !.cancelRequested = TRUE]
        /\ \A q \in Runs : q # r => row'[q] = row[q]
    BY <1>2 DEF LeaseInv, TypeInv, TypeOK, Cancel
  <2>2. SameLease(r) BY <1>1, <1>2, <2>1 DEF SameLease, Row
  <2>3. \A q \in Runs : SameLease(q) BY <2>1, <2>2 DEF SameLease
  <2>4. \A w \in Workers : SameJob(w) BY DEF SameJob, Cancel
  <2> QED BY <2>3, <2>4, QuietStep
<1>3. CASE row[r].status = "queued"
  <2>0. row'[r] = [row[r] EXCEPT !.status = "cancelled"]
    BY <1>3 DEF LeaseInv, TypeInv, TypeOK, Cancel
  <2>1. (\A q \in Runs : q # r => row'[q] = row[q]) /\ proc' = proc
    BY <1>3 DEF LeaseInv, TypeInv, TypeOK, Cancel
  <2>2. /\ row'[r].status = "cancelled" /\ row'[r].holder = row[r].holder
        /\ row'[r].attempts = row[r].attempts /\ row'[r].verdict = row[r].verdict
        /\ row'[r].result = row[r].result /\ row'[r].cancelRequested = row[r].cancelRequested
    BY <1>1, <2>0 DEF Row
  <2>3. HolderIsWorking'
    BY <1>3, <2>1, <2>2, HoldersDiffer DEF LeaseInv, LeaseProtocol, HolderIsWorking
  <2>4. NoForgottenLease'
    BY <1>3, <2>1, <2>2, HoldersDiffer DEF LeaseInv, LeaseProtocol, NoForgottenLease
  <2>5. NoStrandedRun'
    BY <1>3, <2>1, <2>2, HoldersDiffer DEF LeaseInv, LeaseProtocol, NoStrandedRun
  <2>6. VerdictFromLastAttempt'
    BY <1>3, <2>1, <2>2, HoldersDiffer DEF LeaseInv, LeaseProtocol, VerdictFromLastAttempt
  <2>7. CancelSeenIsInRow'
    BY <1>3, <2>1, <2>2, PCNames DEF LeaseInv, LeaseProtocol, TypeInv, BusyHasRun, CancelSeenIsInRow, Owns
  <2>8. AttemptCounted'
    BY <1>3, <2>1, <2>2, HoldersDiffer DEF LeaseInv, LeaseProtocol, AttemptCounted
  <2>9. ListedOnce'
    BY <1>3, <2>1, <2>2, HoldersDiffer DEF LeaseInv, LeaseProtocol, ListedOnce
  <2>10. AbsentIsNew'
    BY <1>3, <2>1, <2>2, HoldersDiffer DEF LeaseInv, LeaseProtocol, AbsentIsNew
  <2> QED BY <2>3, <2>4, <2>5, <2>6, <2>7, <2>8, <2>9, <2>10 DEF LeaseProtocol
<1> QED BY <1>2, <1>3 DEF Cancel

(* Claim keeps the lease protocol.                                         *)
LEMMA LeaseClaim ==
    ASSUME LeaseInv, TypeInv', NEW w \in Workers, NEW r \in Runs, Claim(w, r) PROVE LeaseProtocol'
<1>1. row[r] \in Row /\ row[r].attempts \in Nat
  BY QueueAssumption DEF LeaseInv, TypeInv, TypeOK, Row, Attempts
<1>0. row'[r] = [row[r] EXCEPT !.status = "running", !.holder = w,
                              !.leaseExpired = FALSE, !.attempts = @ + 1]
  BY DEF LeaseInv, TypeInv, TypeOK, Claim
<1>2. /\ \A q \in Runs : q # r => row'[q] = row[q]
      /\ \A u \in Workers : u # w => proc'[u] = proc[u]
  BY DEF LeaseInv, TypeInv, TypeOK, Claim
<1>3. /\ row'[r].status = "running" /\ row'[r].holder = w
      /\ row'[r].attempts = row[r].attempts + 1 /\ row'[r].verdict = row[r].verdict
      /\ row'[r].result = row[r].result /\ row'[r].cancelRequested = row[r].cancelRequested
  BY <1>0, <1>1 DEF Row
<1>4. proc'[w] = [Idle EXCEPT !.pc = "launching", !.run = r,
                              !.attempt = row[r].attempts + 1]
  BY DEF LeaseInv, TypeInv, TypeOK, Claim
<1>5. /\ proc'[w].pc = "launching" /\ proc'[w].run = r /\ ~proc'[w].cancelled
      /\ proc'[w].attempt = row[r].attempts + 1
  BY <1>4 DEF Idle
<1>6. row[r].status = "queued" /\ proc[w].pc = "idle" BY DEF Claim
<1>7. HolderIsWorking'
  BY <1>2, <1>3, <1>5, <1>6, HoldersDiffer, PCNames DEF LeaseInv, LeaseProtocol, HolderIsWorking
<1>8. NoForgottenLease'
  BY <1>2, <1>3, <1>5, <1>6, HoldersDiffer, PCNames DEF LeaseInv, LeaseProtocol,
       NoForgottenLease, RecoveryPCs
<1>9. NoStrandedRun'
  BY <1>2, <1>3, <1>5, <1>6, HoldersDiffer, PCNames DEF LeaseInv, LeaseProtocol, NoStrandedRun
<1>10. VerdictFromLastAttempt'
  BY <1>2, <1>3, <1>5, <1>6, HoldersDiffer, PCNames DEF LeaseInv, LeaseProtocol, VerdictFromLastAttempt
<1>11. CancelSeenIsInRow'
  BY <1>2, <1>3, <1>5, <1>6, PCNames DEF LeaseInv, LeaseProtocol, TypeInv, BusyHasRun, CancelSeenIsInRow, Owns
<1>12. AttemptCounted'
  BY <1>1, <1>2, <1>5 DEF LeaseInv, LeaseProtocol, AttemptCounted
<1>13. ListedOnce'
  BY <1>2, <1>5, PCNames DEF LeaseInv, LeaseProtocol, ListedOnce, RecoveryPCs
<1>14. AbsentIsNew'
  BY <1>2, <1>3, <1>5, <1>6, HoldersDiffer, PCNames DEF LeaseInv, LeaseProtocol, AbsentIsNew
<1> QED BY <1>7, <1>8, <1>9, <1>10, <1>11, <1>12, <1>13, <1>14 DEF LeaseProtocol

(* Commit keeps the lease protocol.                                        *)
LEMMA LeaseCommit ==
    ASSUME LeaseInv, TypeInv', NEW w \in Workers, NEW v \in Verdicts, Commit(w, v) PROVE LeaseProtocol'
<1> DEFINE r == proc[w].run
<1>1. r \in Runs /\ row[r] \in Row /\ proc[w] \in Proc /\ proc[w].pc = "committing"
  BY DEF LeaseInv, TypeInv, TypeOK, BusyHasRun, Commit
<1>0. row'[r] = [row[r] EXCEPT !.status = "completed", !.verdict = v, !.holder = NoWorker,
                      !.leaseExpired = FALSE, !.result = proc[w].attempt,
                      !.inventory = proc[w].inventory]
  BY <1>1 DEF LeaseInv, TypeInv, TypeOK, Commit
<1>2. /\ \A q \in Runs : q # r => row'[q] = row[q]
      /\ \A u \in Workers : u # w => proc'[u] = proc[u]
  BY <1>1 DEF LeaseInv, TypeInv, TypeOK, Commit, Step
<1>3. /\ row'[r].status = "completed" /\ row'[r].holder = NoWorker
      /\ row'[r].attempts = row[r].attempts /\ row'[r].verdict = v
      /\ row'[r].result = proc[w].attempt
  BY <1>0, <1>1 DEF Row
<1>4. Owns(w) /\ row[r].status = "running" /\ row[r].holder = w BY DEF Commit, MayCommit, Owns
<1>5. /\ row[r].attempts = proc[w].attempt /\ proc[w].attempt > 0
      /\ r \in Runs /\ proc[w].pc = "committing" /\ proc[w].run = r
  BY <1>1, <1>4, PCNames DEF LeaseInv, LeaseProtocol, HolderIsWorking, AttemptCounted
<1>7. \/ proc'[w].pc \in {"idle", "releasing"}
      \/ /\ proc'[w].pc \in JobPCs
         /\ proc'[w].run = r
         /\ proc'[w].attempt = proc[w].attempt
  <2>1. \/ proc'[w] = Idle
        \/ \E pc \in {"releasing", FailurePC} : proc'[w] = [proc[w] EXCEPT !.pc = pc]
    BY DEF LeaseInv, TypeInv, TypeOK, Commit, Step
  <2>2. CASE proc'[w] = Idle BY <2>2 DEF Idle
  <2>3. CASE proc'[w] = [proc[w] EXCEPT !.pc = "releasing"] BY <1>1, <2>3 DEF Proc
  <2>4. CASE proc'[w] = [proc[w] EXCEPT !.pc = FailurePC]
    BY <1>1, <2>4, FailurePCTyped DEF Proc
  <2> QED BY <2>1, <2>2, <2>3, <2>4
<1> HIDE DEF r
<1>8. HolderIsWorking'
  BY <1>2, <1>3, <1>4, <1>5, <1>7, HoldersDiffer, PCNames DEF LeaseInv, LeaseProtocol, HolderIsWorking
<1>9. NoForgottenLease'
  BY <1>2, <1>3, <1>4, <1>5, <1>7, HoldersDiffer, PCNames DEF LeaseInv, LeaseProtocol,
       NoForgottenLease, RecoveryPCs
<1>10. NoStrandedRun'
  BY <1>2, <1>3, <1>4, <1>5, <1>7, HoldersDiffer, PCNames DEF LeaseInv, LeaseProtocol, NoStrandedRun
<1>11. VerdictFromLastAttempt'
  BY <1>2, <1>3, <1>5 DEF LeaseInv, LeaseProtocol, VerdictFromLastAttempt
<1>12. CancelSeenIsInRow'
  BY <1>2, <1>3, <1>4, <1>5, <1>7, HoldersDiffer, PCNames
  DEF LeaseInv, LeaseProtocol, CancelSeenIsInRow, Owns, TypeInv, BusyHasRun
<1>13. AttemptCounted'
  BY <1>2, <1>3, <1>4, <1>5, <1>7, HoldersDiffer, PCNames DEF LeaseInv, LeaseProtocol, AttemptCounted
<1>14. ListedOnce'
  BY <1>2, <1>7, PCNames DEF LeaseInv, LeaseProtocol, ListedOnce, RecoveryPCs
<1>15. AbsentIsNew'
  BY <1>2, <1>3, <1>4, <1>5, <1>7, HoldersDiffer, PCNames DEF LeaseInv, LeaseProtocol, AbsentIsNew
<1> QED BY <1>8, <1>9, <1>10, <1>11, <1>12, <1>13, <1>14, <1>15 DEF LeaseProtocol

(* Release keeps the lease protocol.                                       *)
LEMMA LeaseRelease ==
    ASSUME LeaseInv, TypeInv', NEW w \in Workers, Release(w) PROVE LeaseProtocol'
<1>1. row' = row /\ proc'[w].pc = "idle" /\ \A u \in Workers : u # w => proc'[u] = proc[u]
  BY DEF LeaseInv, TypeInv, TypeOK, Release, Idle
<1>2. proc[w].pc = "releasing" BY DEF Release
<1>3. HolderIsWorking'
  BY <1>1, <1>2, PCNames DEF LeaseInv, LeaseProtocol, HolderIsWorking
<1>4. NoForgottenLease'
  BY <1>1, <1>2, PCNames DEF LeaseInv, LeaseProtocol, NoForgottenLease, RecoveryPCs
<1>5. NoStrandedRun'
  BY <1>1, <1>2, PCNames DEF LeaseInv, LeaseProtocol, NoStrandedRun
<1>6. VerdictFromLastAttempt'
  BY <1>1, <1>2, PCNames DEF LeaseInv, LeaseProtocol, VerdictFromLastAttempt
<1>7. CancelSeenIsInRow'
  BY <1>1, PCNames DEF LeaseInv, LeaseProtocol, TypeInv, BusyHasRun, CancelSeenIsInRow, Owns
<1>8. AttemptCounted'
  BY <1>1, <1>2, PCNames DEF LeaseInv, LeaseProtocol, AttemptCounted
<1>9. ListedOnce'
  BY <1>1, PCNames DEF LeaseInv, LeaseProtocol, ListedOnce, RecoveryPCs
<1>10. AbsentIsNew'
  BY <1>1, <1>2, PCNames DEF LeaseInv, LeaseProtocol, AbsentIsNew
<1> QED BY <1>3, <1>4, <1>5, <1>6, <1>7, <1>8, <1>9, <1>10 DEF LeaseProtocol

(* Crash keeps the lease protocol.                                         *)
LEMMA LeaseCrash ==
    ASSUME LeaseInv, TypeInv', NEW w \in Workers, Crash(w) PROVE LeaseProtocol'
<1>0. proc'[w] = [Idle EXCEPT !.pc = "down", !.run = proc[w].run]
  BY DEF LeaseInv, TypeInv, TypeOK, Crash
<1>1. row' = row /\ \A u \in Workers : u # w => proc'[u] = proc[u]
  BY DEF LeaseInv, TypeInv, TypeOK, Crash
<1>2. proc'[w].pc = "down" /\ proc'[w].run = proc[w].run BY <1>0 DEF Idle
<1>3. HolderIsWorking'
  BY <1>1, <1>2, PCNames DEF LeaseInv, LeaseProtocol, HolderIsWorking
<1>4. NoForgottenLease'
  BY <1>1, <1>2, PCNames DEF LeaseInv, LeaseProtocol, NoForgottenLease
<1>5. NoStrandedRun'
  BY <1>1, <1>2, PCNames DEF LeaseInv, LeaseProtocol, NoStrandedRun
<1>6. VerdictFromLastAttempt'
  BY <1>1, <1>2, PCNames DEF LeaseInv, LeaseProtocol, VerdictFromLastAttempt
<1>7. CancelSeenIsInRow'
  BY <1>1, <1>2, PCNames DEF LeaseInv, LeaseProtocol, TypeInv, BusyHasRun, CancelSeenIsInRow, Owns
<1>8. AttemptCounted'
  BY <1>1, <1>2, PCNames DEF LeaseInv, LeaseProtocol, AttemptCounted
<1>9. ListedOnce'
  BY <1>1, <1>2, PCNames DEF LeaseInv, LeaseProtocol, ListedOnce, RecoveryPCs
<1>10. AbsentIsNew'
  BY <1>1, <1>2, PCNames DEF LeaseInv, LeaseProtocol, AbsentIsNew
<1> QED BY <1>3, <1>4, <1>5, <1>6, <1>7, <1>8, <1>9, <1>10 DEF LeaseProtocol

(* RecordFailure keeps the lease protocol.                                 *)
LEMMA LeaseRecordFailure ==
    ASSUME LeaseInv, TypeInv', NEW w \in Workers, RecordFailure(w) PROVE LeaseProtocol'
<1> DEFINE r == proc[w].run
           status == StatusAfter(proc[w].attempt,
                                 proc[w].cancelled \/ row[proc[w].run].cancelRequested)
<1>1. r \in Runs /\ row[r] \in Row /\ proc[w].pc = "recording"
  BY DEF LeaseInv, TypeInv, TypeOK, BusyHasRun, RecordFailure
<1>r. proc[w].run = r /\ r \in Runs /\ proc[w].pc = "recording" BY <1>1
<1>2. proc'[w].pc = "idle" /\ \A u \in Workers : u # w => proc'[u] = proc[u]
  BY DEF LeaseInv, TypeInv, TypeOK, RecordFailure, Idle
<1>3. CASE ~Owns(w)
  <2>1. row' = row BY <1>3 DEF RecordFailure
  <2>2. \A q \in Runs : row[q].holder # w
    <3> SUFFICES ASSUME NEW q \in Runs, row[q].holder = w PROVE FALSE
      OBVIOUS
    <3>1. q = r BY <1>r DEF LeaseInv, LeaseProtocol, HolderIsWorking
    <3>2. row[q].status = "running"
      BY HoldersDiffer DEF LeaseInv, LeaseProtocol, NoForgottenLease
    <3> QED BY <1>3, <1>r, <3>1, <3>2 DEF Owns
  <2>3. HolderIsWorking'
    BY <1>1, <1>2, <2>1, <2>2, PCNames
    DEF LeaseInv, LeaseProtocol, HolderIsWorking
  <2>4. NoForgottenLease'
    BY <1>1, <1>2, <2>1, PCNames DEF LeaseInv, LeaseProtocol, NoForgottenLease, RecoveryPCs
  <2>5. NoStrandedRun'
    BY <1>1, <1>2, <2>1, <2>2, PCNames
    DEF LeaseInv, LeaseProtocol, NoStrandedRun
  <2>6. VerdictFromLastAttempt'
    BY <1>1, <1>2, <2>1, <2>2, PCNames
    DEF LeaseInv, LeaseProtocol, VerdictFromLastAttempt
  <2>7. CancelSeenIsInRow'
    BY <1>2, <2>1, PCNames DEF LeaseInv, LeaseProtocol, TypeInv, BusyHasRun,
       CancelSeenIsInRow, Owns
  <2>8. AttemptCounted'
    BY <1>1, <1>2, <2>1, <2>2, PCNames
    DEF LeaseInv, LeaseProtocol, AttemptCounted
  <2>9. ListedOnce'
    BY <1>2, PCNames DEF LeaseInv, LeaseProtocol, ListedOnce, RecoveryPCs
  <2>10. AbsentIsNew'
    BY <1>1, <1>2, <2>1, <2>2, PCNames
    DEF LeaseInv, LeaseProtocol, AbsentIsNew
  <2> QED BY <2>3, <2>4, <2>5, <2>6, <2>7, <2>8, <2>9, <2>10 DEF LeaseProtocol
<1>4. CASE Owns(w)
  <2>0. row' = Released(r, status) BY <1>4 DEF RecordFailure
  <2>1. \A q \in Runs : q # r => row'[q] = row[q]
    BY <1>1, <2>0 DEF LeaseInv, TypeInv, TypeOK, Released
  <2>2. /\ row'[r].status = status /\ row'[r].holder = NoWorker
        /\ row'[r].attempts = row[r].attempts
        /\ row'[r].verdict = IF status = "failed" THEN "INCONCLUSIVE" ELSE "none"
        /\ row'[r].result = row[r].result
        /\ row'[r].cancelRequested = row[r].cancelRequested
    <3>1. row \in [Runs -> Row] BY DEF LeaseInv, TypeInv, TypeOK
    <3> HIDE DEF status, r
    <3> QED BY <1>1, <2>0, <3>1, ReleasedFields
  <2>3. row[r].status = "running" /\ row[r].holder = w /\ row[r].attempts = proc[w].attempt
    BY <1>1, <1>4, PCNames DEF Owns, LeaseInv, LeaseProtocol, HolderIsWorking
  <2>4. proc[w].attempt \in Nat /\ proc[w].attempt <= MaxAttempts
    BY QueueAssumption DEF LeaseInv, TypeInv, TypeOK, Proc, Attempts
  <2>5. /\ status \in {"queued", "failed", "cancelled"}
        /\ status = "queued" => row[r].attempts < MaxAttempts /\ ~row[r].cancelRequested
        /\ status = "failed" => row[r].attempts = MaxAttempts
    BY <2>3, <2>4, QueueAssumption DEF StatusAfter
  <2> HIDE DEF status, r
  <2>6. HolderIsWorking'
    <3> SUFFICES ASSUME NEW q \in Runs, NEW u \in Workers, row'[q].holder = u
                 PROVE  /\ proc'[u].run = q
                        /\ \/ proc'[u].pc = "down"
                           \/ proc'[u].pc \in JobPCs /\ proc'[u].attempt = row'[q].attempts
      BY DEF HolderIsWorking
    <3>1. q # r BY <2>2, HoldersDiffer
    <3>2. row'[q] = row[q] BY <2>1, <3>1
    <3>3. u # w BY <1>r, <3>1, <3>2 DEF LeaseInv, LeaseProtocol, HolderIsWorking
    <3> QED BY <1>2, <3>2, <3>3 DEF LeaseInv, LeaseProtocol, HolderIsWorking
  <2>7. NoForgottenLease'
    BY <1>r, <1>2, <2>1, <2>2, <2>3, <2>5, HoldersDiffer, PCNames
    DEF LeaseInv, LeaseProtocol, NoForgottenLease, RecoveryPCs
  <2>8. NoStrandedRun'
    BY <1>r, <1>2, <2>1, <2>2, <2>3, <2>5, HoldersDiffer, PCNames
    DEF LeaseInv, LeaseProtocol, NoStrandedRun
  <2>9. VerdictFromLastAttempt'
    BY <1>r, <1>2, <2>1, <2>2, <2>3, <2>5, HoldersDiffer, PCNames
    DEF LeaseInv, LeaseProtocol, VerdictFromLastAttempt
  <2>10. CancelSeenIsInRow'
    BY <1>r, <1>2, <2>1, <2>2, <2>3, <2>5, HoldersDiffer, PCNames
    DEF LeaseInv, LeaseProtocol, TypeInv, BusyHasRun, CancelSeenIsInRow, Owns
  <2>11. AttemptCounted'
    BY <1>r, <1>2, <2>1, <2>2, <2>3, <2>5, HoldersDiffer, PCNames
    DEF LeaseInv, LeaseProtocol, AttemptCounted
  <2>12. ListedOnce'
    BY <1>2, PCNames DEF LeaseInv, LeaseProtocol, ListedOnce, RecoveryPCs
  <2>13. AbsentIsNew'
    BY <1>r, <1>2, <2>1, <2>2, <2>3, <2>5, HoldersDiffer, PCNames
    DEF LeaseInv, LeaseProtocol, AbsentIsNew
  <2> QED BY <2>6, <2>7, <2>8, <2>9, <2>10, <2>11, <2>12, <2>13 DEF LeaseProtocol
<1> QED BY <1>3, <1>4

(* BeginRecovery keeps the lease protocol.                                 *)
LEMMA LeaseBeginRecovery ==
    ASSUME LeaseInv, TypeInv', NEW w \in Workers, BeginRecovery(w) PROVE LeaseProtocol'
<1> DEFINE todo == {<<q, row[q].attempts>> : q \in {q \in Runs : LeaseLapsed(q)}}
<1>1. \A q \in Runs : row[q] \in Row BY DEF LeaseInv, TypeInv, TypeOK
<1>2. \A q \in Runs :
         row'[q] = IF LeaseLapsed(q) THEN [row[q] EXCEPT !.holder = ReaperId(w),
                                                         !.leaseExpired = FALSE]
                   ELSE row[q]
  BY DEF BeginRecovery
<1>3. \A q \in Runs :
         /\ row'[q].status = row[q].status /\ row'[q].attempts = row[q].attempts
         /\ row'[q].verdict = row[q].verdict /\ row'[q].result = row[q].result
         /\ row'[q].cancelRequested = row[q].cancelRequested
         /\ row'[q].holder = IF LeaseLapsed(q) THEN ReaperId(w) ELSE row[q].holder
  BY <1>1, <1>2 DEF Row
<1>0. proc'[w] = [Idle EXCEPT !.pc = "reaping", !.todo = todo]
  BY DEF LeaseInv, TypeInv, TypeOK, BeginRecovery
<1>4. \A u \in Workers : u # w => proc'[u] = proc[u]
  BY DEF LeaseInv, TypeInv, TypeOK, BeginRecovery
<1>5. proc'[w].pc = "reaping" /\ proc'[w].todo = todo
  <2> HIDE DEF todo
  <2> QED BY <1>0 DEF Idle
<1>6. proc[w].pc = "idle" BY DEF BeginRecovery
<1>7. \A q \in Runs : LeaseLapsed(q) => <<q, row[q].attempts>> \in todo OBVIOUS
<1>8. \A q \in Runs, a \in Attempts : <<q, a>> \in todo => a = row[q].attempts OBVIOUS
<1>9. \A q \in Runs : LeaseLapsed(q) => row[q].status = "running" BY DEF LeaseLapsed
<1> HIDE DEF todo
<1>10. HolderIsWorking'
  BY <1>3, <1>4, <1>5, <1>6, <1>9, HoldersDiffer, PCNames DEF LeaseInv, LeaseProtocol, HolderIsWorking
<1>11. NoForgottenLease'
  BY <1>3, <1>4, <1>5, <1>6, <1>7, <1>9, HoldersDiffer, PCNames
  DEF LeaseInv, LeaseProtocol, NoForgottenLease, RecoveryPCs
<1>12. NoStrandedRun'
  BY <1>3, <1>4, <1>5, <1>6, <1>9, HoldersDiffer, PCNames DEF LeaseInv, LeaseProtocol, NoStrandedRun
<1>13. VerdictFromLastAttempt'
  BY <1>3, <1>4, <1>5, <1>6, <1>9, HoldersDiffer, PCNames DEF LeaseInv, LeaseProtocol, VerdictFromLastAttempt
<1>14. CancelSeenIsInRow'
  BY <1>3, <1>4, <1>5, <1>9, HoldersDiffer, PCNames
  DEF LeaseInv, LeaseProtocol, TypeInv, BusyHasRun, CancelSeenIsInRow, Owns
<1>15. AttemptCounted'
  BY <1>3, <1>4, <1>5, <1>6, <1>9, HoldersDiffer, PCNames DEF LeaseInv, LeaseProtocol, AttemptCounted
<1>16. ListedOnce'
  BY <1>4, <1>5, <1>8, PCNames DEF LeaseInv, LeaseProtocol, ListedOnce, RecoveryPCs
<1>17. AbsentIsNew'
  BY <1>2, <1>3, <1>9 DEF LeaseInv, LeaseProtocol, AbsentIsNew
<1> QED BY <1>10, <1>11, <1>12, <1>13, <1>14, <1>15, <1>16, <1>17 DEF LeaseProtocol

(* Reap keeps the lease protocol.                                          *)
LEMMA LeaseReap ==
    ASSUME LeaseInv, TypeInv', NEW w \in Workers, NEW r \in Runs, NEW a \in Attempts, Reap(w, r, a) PROVE LeaseProtocol'
<1>1. proc[w] \in Proc /\ proc[w].pc = "reaping" /\ <<r, a>> \in proc[w].todo
  BY DEF LeaseInv, TypeInv, TypeOK, Reap
<1>0. proc'[w] = [proc[w] EXCEPT !.pc = "requeueing", !.run = r, !.attempt = a,
                                 !.todo = @ \ {<<r, a>>}]
  BY DEF LeaseInv, TypeInv, TypeOK, Reap
<1>2. /\ row' = row /\ \A u \in Workers : u # w => proc'[u] = proc[u]
      /\ proc[w].pc = "reaping" /\ <<r, a>> \in proc[w].todo
  BY DEF LeaseInv, TypeInv, TypeOK, Reap
<1>3. /\ proc'[w].pc = "requeueing" /\ proc'[w].run = r /\ proc'[w].attempt = a
      /\ proc'[w].todo = proc[w].todo \ {<<r, a>>}
  BY <1>0, <1>1 DEF Proc
<1>4. \A b \in Attempts : <<r, b>> \in proc[w].todo => a = b
  BY <1>1, PCNames DEF LeaseInv, LeaseProtocol, ListedOnce
<1>5. \A q \in Runs : row[q].attempts \in Attempts
  BY DEF LeaseInv, TypeInv, TypeOK, Row
<1>6. HolderIsWorking'
  BY <1>2, <1>3, PCNames DEF LeaseInv, LeaseProtocol, HolderIsWorking
<1>7. NoForgottenLease'
  BY <1>2, <1>3, <1>4, <1>5, PCNames DEF LeaseInv, LeaseProtocol, NoForgottenLease
<1>8. NoStrandedRun'
  BY <1>2, <1>3, PCNames DEF LeaseInv, LeaseProtocol, NoStrandedRun
<1>9. VerdictFromLastAttempt'
  BY <1>2, <1>3, PCNames DEF LeaseInv, LeaseProtocol, VerdictFromLastAttempt
<1>10. CancelSeenIsInRow'
  BY <1>2, <1>3, PCNames DEF LeaseInv, LeaseProtocol, TypeInv, BusyHasRun, CancelSeenIsInRow, Owns
<1>11. AttemptCounted'
  BY <1>2, <1>3, PCNames DEF LeaseInv, LeaseProtocol, AttemptCounted
<1>12. ListedOnce'
  BY <1>2, <1>3, <1>4, PCNames DEF LeaseInv, LeaseProtocol, ListedOnce
<1>13. AbsentIsNew'
  BY <1>2, <1>3, PCNames DEF LeaseInv, LeaseProtocol, AbsentIsNew
<1> QED BY <1>6, <1>7, <1>8, <1>9, <1>10, <1>11, <1>12, <1>13 DEF LeaseProtocol

(* Requeue keeps the lease protocol.                                       *)
LEMMA LeaseRequeue ==
    ASSUME LeaseInv, TypeInv', NEW w \in Workers, Requeue(w) PROVE LeaseProtocol'
<1> DEFINE r == proc[w].run
           status == StatusAfter(proc[w].attempt, row[proc[w].run].cancelRequested)
<1>1. r \in Runs /\ row[r] \in Row /\ proc[w] \in Proc
  BY DEF LeaseInv, TypeInv, TypeOK, BusyHasRun, Requeue
<1>q. proc[w].pc = "requeueing" /\ proc[w].run = r BY DEF Requeue
<1>2. /\ proc'[w].pc \in {"reaping", "auditing"} /\ proc'[w].run = r
      /\ proc'[w].todo = proc[w].todo
      /\ \A u \in Workers : u # w => proc'[u] = proc[u]
  <2>1. \E pc \in {"reaping", "auditing"} : proc' = [proc EXCEPT ![w].pc = pc]
    BY DEF Requeue, Step
  <2> QED BY <1>1, <2>1 DEF LeaseInv, TypeInv, TypeOK, Proc
<1>a. \A q \in Runs, b \in Attempts : <<q, b>> \in proc[w].todo => q # r
  BY <1>q, PCNames, ConstantsTyped DEF LeaseInv, LeaseProtocol, ListedOnce
<1>b. ListedOnce'
  BY <1>q, <1>2, <1>a, PCNames DEF LeaseInv, LeaseProtocol, ListedOnce
<1>3. CASE ~HoldsForRecovery(w)
  <2>1. row' = row BY <1>3 DEF Requeue
  <2>2. row[r].holder # ReaperId(w)
    BY <1>1, <1>3, HoldersDiffer DEF LeaseInv, LeaseProtocol, NoForgottenLease,
       HoldsForRecovery
  <2> HIDE DEF status, r
  <2>3. HolderIsWorking'
    BY <1>q, <1>2, <2>1, <2>2, PCNames
    DEF LeaseInv, LeaseProtocol, HolderIsWorking
  <2>4. NoForgottenLease'
    BY <1>q, <1>2, <1>a, <2>1, <2>2, PCNames
    DEF LeaseInv, LeaseProtocol, NoForgottenLease
  <2>5. NoStrandedRun'
    BY <1>q, <1>2, <2>1, <2>2, PCNames
    DEF LeaseInv, LeaseProtocol, NoStrandedRun
  <2>6. VerdictFromLastAttempt'
    BY <1>q, <1>2, <2>1, <2>2, PCNames
    DEF LeaseInv, LeaseProtocol, VerdictFromLastAttempt
  <2>7. CancelSeenIsInRow'
    BY <1>2, <2>1, PCNames DEF LeaseInv, LeaseProtocol, TypeInv, BusyHasRun,
       CancelSeenIsInRow, Owns
  <2>8. AttemptCounted'
    BY <1>q, <1>2, <2>1, <2>2, PCNames
    DEF LeaseInv, LeaseProtocol, AttemptCounted
  <2>9. ListedOnce'
    BY <1>b
  <2>10. AbsentIsNew'
    BY <1>q, <1>2, <2>1, <2>2, PCNames
    DEF LeaseInv, LeaseProtocol, AbsentIsNew
  <2> QED BY <2>3, <2>4, <2>5, <2>6, <2>7, <2>8, <2>9, <2>10 DEF LeaseProtocol
<1>4. CASE HoldsForRecovery(w)
  <2>0. row' = Released(r, status) BY <1>4 DEF Requeue
  <2>1. \A q \in Runs : q # r => row'[q] = row[q]
    BY <1>1, <2>0 DEF LeaseInv, TypeInv, TypeOK, Released
  <2>2. /\ row'[r].status = status /\ row'[r].holder = NoWorker
        /\ row'[r].attempts = row[r].attempts
        /\ row'[r].verdict = IF status = "failed" THEN "INCONCLUSIVE" ELSE "none"
        /\ row'[r].result = row[r].result
        /\ row'[r].cancelRequested = row[r].cancelRequested
    <3>1. row \in [Runs -> Row] BY DEF LeaseInv, TypeInv, TypeOK
    <3> HIDE DEF status, r
    <3> QED BY <1>1, <2>0, <3>1, ReleasedFields
  <2>3. row[r].status = "running" /\ row[r].holder = ReaperId(w)
    BY <1>4 DEF HoldsForRecovery
  <2>c. row[r].attempts = proc[w].attempt
    <3>1. row[r].attempts \in Attempts BY <1>1 DEF Row
    <3> QED BY <1>1, <1>q, <1>a, <2>3, <3>1 DEF LeaseInv, LeaseProtocol, NoForgottenLease
  <2>4. proc[w].attempt \in Nat /\ proc[w].attempt <= MaxAttempts
    BY QueueAssumption DEF LeaseInv, TypeInv, TypeOK, Proc, Attempts
  <2>5. /\ status \in {"queued", "failed", "cancelled"}
        /\ status = "queued" => row[r].attempts < MaxAttempts /\ ~row[r].cancelRequested
        /\ status = "failed" => row[r].attempts = MaxAttempts
    BY <2>c, <2>4, QueueAssumption DEF StatusAfter
  <2> HIDE DEF status, r
  <2>6. HolderIsWorking'
    BY <1>q, <1>2, <2>1, <2>2, <2>3, <2>5, HoldersDiffer, PCNames
    DEF LeaseInv, LeaseProtocol, HolderIsWorking
  <2>7. NoForgottenLease'
    BY <1>q, <1>2, <2>1, <2>2, <2>3, <2>5, HoldersDiffer, PCNames
    DEF LeaseInv, LeaseProtocol, NoForgottenLease
  <2>8. NoStrandedRun'
    BY <1>q, <1>2, <2>1, <2>2, <2>3, <2>5, HoldersDiffer, PCNames
    DEF LeaseInv, LeaseProtocol, NoStrandedRun
  <2>9. VerdictFromLastAttempt'
    BY <1>q, <1>2, <2>1, <2>2, <2>3, <2>5, HoldersDiffer, PCNames
    DEF LeaseInv, LeaseProtocol, VerdictFromLastAttempt
  <2>10. CancelSeenIsInRow'
    BY <1>q, <1>2, <2>1, <2>2, <2>3, <2>5, HoldersDiffer, PCNames
    DEF LeaseInv, LeaseProtocol, TypeInv, BusyHasRun, CancelSeenIsInRow, Owns
  <2>11. AttemptCounted'
    BY <1>q, <1>2, <2>1, <2>2, <2>3, <2>5, HoldersDiffer, PCNames
    DEF LeaseInv, LeaseProtocol, AttemptCounted
  <2>12. ListedOnce'
    BY <1>b
  <2>13. AbsentIsNew'
    BY <1>q, <1>2, <2>1, <2>2, <2>3, <2>5, HoldersDiffer, PCNames
    DEF LeaseInv, LeaseProtocol, AbsentIsNew
  <2> QED BY <2>6, <2>7, <2>8, <2>9, <2>10, <2>11, <2>12, <2>13 DEF LeaseProtocol
<1> QED BY <1>3, <1>4

(* AuditRecovery keeps the lease protocol.                                 *)
LEMMA LeaseAuditRecovery ==
    ASSUME LeaseInv, TypeInv', NEW w \in Workers, AuditRecovery(w) PROVE LeaseProtocol'
<1>1. proc[w] \in Proc /\ proc[w].pc = "auditing" BY DEF LeaseInv, TypeInv, TypeOK, AuditRecovery
<1>0. proc'[w] = [proc[w] EXCEPT !.pc = "reaping"]
  BY DEF LeaseInv, TypeInv, TypeOK, AuditRecovery, Step
<1>2. /\ row' = row /\ proc[w].pc = "auditing"
      /\ \A u \in Workers : u # w => proc'[u] = proc[u]
  BY DEF LeaseInv, TypeInv, TypeOK, AuditRecovery, Step
<1>3. proc'[w].pc = "reaping" /\ proc'[w].run = proc[w].run /\ proc'[w].todo = proc[w].todo
  BY <1>0, <1>1 DEF Proc
<1>4. HolderIsWorking'
  BY <1>2, <1>3, PCNames DEF LeaseInv, LeaseProtocol, HolderIsWorking
<1>5. NoForgottenLease'
  BY <1>2, <1>3, PCNames DEF LeaseInv, LeaseProtocol, NoForgottenLease
<1>6. NoStrandedRun'
  BY <1>2, <1>3, PCNames DEF LeaseInv, LeaseProtocol, NoStrandedRun
<1>7. VerdictFromLastAttempt'
  BY <1>2, <1>3, PCNames DEF LeaseInv, LeaseProtocol, VerdictFromLastAttempt
<1>8. CancelSeenIsInRow'
  BY <1>2, <1>3, PCNames DEF LeaseInv, LeaseProtocol, TypeInv, BusyHasRun, CancelSeenIsInRow, Owns
<1>9. AttemptCounted'
  BY <1>2, <1>3, PCNames DEF LeaseInv, LeaseProtocol, AttemptCounted
<1>10. ListedOnce'
  BY <1>2, <1>3, PCNames DEF LeaseInv, LeaseProtocol, ListedOnce
<1>11. AbsentIsNew'
  BY <1>2, <1>3, PCNames DEF LeaseInv, LeaseProtocol, AbsentIsNew
<1> QED BY <1>4, <1>5, <1>6, <1>7, <1>8, <1>9, <1>10, <1>11 DEF LeaseProtocol

(* EndRecovery keeps the lease protocol.                                   *)
LEMMA LeaseEndRecovery ==
    ASSUME LeaseInv, TypeInv', NEW w \in Workers, EndRecovery(w) PROVE LeaseProtocol'
<1>1. row' = row /\ proc'[w].pc = "idle" /\ \A u \in Workers : u # w => proc'[u] = proc[u]
  BY DEF LeaseInv, TypeInv, TypeOK, EndRecovery, Idle
<1>2. proc[w].pc = "reaping" /\ proc[w].todo = {} BY DEF EndRecovery
<1>3. HolderIsWorking'
  BY <1>1, <1>2, PCNames DEF LeaseInv, LeaseProtocol, HolderIsWorking
<1>4. NoForgottenLease'
  BY <1>1, <1>2, PCNames DEF LeaseInv, LeaseProtocol, NoForgottenLease
<1>5. NoStrandedRun'
  BY <1>1, <1>2, PCNames DEF LeaseInv, LeaseProtocol, NoStrandedRun
<1>6. VerdictFromLastAttempt'
  BY <1>1, <1>2, PCNames DEF LeaseInv, LeaseProtocol, VerdictFromLastAttempt
<1>7. CancelSeenIsInRow'
  BY <1>1, PCNames DEF LeaseInv, LeaseProtocol, TypeInv, BusyHasRun, CancelSeenIsInRow, Owns
<1>8. AttemptCounted'
  BY <1>1, <1>2, PCNames DEF LeaseInv, LeaseProtocol, AttemptCounted
<1>9. ListedOnce'
  BY <1>1, PCNames DEF LeaseInv, LeaseProtocol, ListedOnce, RecoveryPCs
<1>10. AbsentIsNew'
  BY <1>1, <1>2, PCNames DEF LeaseInv, LeaseProtocol, AbsentIsNew
<1> QED BY <1>3, <1>4, <1>5, <1>6, <1>7, <1>8, <1>9, <1>10 DEF LeaseProtocol

(* PurgeRows keeps the lease protocol.                                     *)
LEMMA LeasePurgeRows ==
    ASSUME LeaseInv, TypeInv', PurgeRows PROVE LeaseProtocol'
<1>1. \A q \in Runs : row'[q] = IF Purgeable(q) THEN [NoRow EXCEPT !.status = "purged"] ELSE row[q]
  BY DEF PurgeRows
<1>2. \A q \in Runs : Purgeable(q) => /\ row[q].status # "running"
                                      /\ row'[q].status = "purged" /\ row'[q].holder = NoWorker
                                      /\ row'[q].verdict = "none" /\ row'[q].result = 0
  BY <1>1 DEF Purgeable, Settled, NoRow
<1>3. \A q \in Runs : ~Purgeable(q) => row'[q] = row[q] BY <1>1
<1>4. proc' = proc BY DEF PurgeRows
<1>5. HolderIsWorking'
  BY <1>2, <1>3, <1>4, HoldersDiffer DEF LeaseInv, LeaseProtocol, HolderIsWorking
<1>6. NoForgottenLease'
  BY <1>2, <1>3, <1>4, HoldersDiffer DEF LeaseInv, LeaseProtocol, NoForgottenLease
<1>7. NoStrandedRun'
  BY <1>2, <1>3, <1>4, HoldersDiffer DEF LeaseInv, LeaseProtocol, NoStrandedRun
<1>8. VerdictFromLastAttempt'
  BY <1>2, <1>3, <1>4, HoldersDiffer DEF LeaseInv, LeaseProtocol, VerdictFromLastAttempt
<1>9. CancelSeenIsInRow'
  BY <1>2, <1>3, <1>4, PCNames
  DEF LeaseInv, LeaseProtocol, TypeInv, BusyHasRun, CancelSeenIsInRow, Owns
<1>10. AttemptCounted'
  BY <1>2, <1>3, <1>4, HoldersDiffer DEF LeaseInv, LeaseProtocol, AttemptCounted
<1>11. ListedOnce'
  BY <1>2, <1>3, <1>4, HoldersDiffer DEF LeaseInv, LeaseProtocol, ListedOnce
<1>12. AbsentIsNew'
  BY <1>2, <1>3, <1>4, HoldersDiffer DEF LeaseInv, LeaseProtocol, AbsentIsNew
<1> QED BY <1>5, <1>6, <1>7, <1>8, <1>9, <1>10, <1>11, <1>12 DEF LeaseProtocol

-----------------------------------------------------------------------------
(* The invariant, and what follows from it.                                *)

(* The protocol holds initially.                                           *)
LEMMA LeaseInit == Init => LeaseInv
<1> SUFFICES ASSUME Init PROVE LeaseInv
  OBVIOUS
<1>1. TypeInv BY TypeInit
<1>2. \A r \in Runs : row[r] = NoRow BY DEF Init
<1>3. \A w \in Workers : proc[w] = Idle BY DEF Init
<1>4. \A r \in Runs : /\ row[r].status = "absent" /\ row[r].holder = NoWorker
                      /\ row[r].verdict = "none" /\ row[r].result = 0
  BY <1>2 DEF NoRow
<1>5. \A w \in Workers : proc[w].pc = "idle" BY <1>3 DEF Idle
<1>6. HolderIsWorking /\ NoForgottenLease
  BY <1>4, HoldersDiffer DEF HolderIsWorking, NoForgottenLease
<1>7. NoStrandedRun /\ VerdictFromLastAttempt /\ AbsentIsNew
  BY <1>2, <1>4 DEF NoStrandedRun, VerdictFromLastAttempt, AbsentIsNew
<1>8. CancelSeenIsInRow /\ AttemptCounted /\ ListedOnce
  BY <1>5, PCNames DEF CancelSeenIsInRow, AttemptCounted, ListedOnce, RecoveryPCs
<1> QED BY <1>1, <1>6, <1>7, <1>8 DEF LeaseInv, LeaseProtocol

(* Every step keeps the protocol.                                          *)
LEMMA LeaseNext == LeaseInv /\ [Next]_vars => LeaseInv'
<1> SUFFICES ASSUME LeaseInv, [Next]_vars PROVE LeaseInv'
  OBVIOUS
<1>t. TypeInv' BY TypeNext DEF LeaseInv
<1>1. CASE UNCHANGED vars
  <2>1. \A q \in Runs : SameLease(q) BY <1>1 DEF SameLease, vars
  <2>2. \A w \in Workers : SameJob(w) BY <1>1 DEF SameJob, vars
  <2> QED BY <1>t, <2>1, <2>2, QuietStep DEF LeaseInv
<1>2. CASE \E r \in Runs : Submit(r) \/ Cancel(r) \/ LeaseExpires(r) \/ RetentionExpires(r)
  BY <1>t, <1>2, LeaseSubmit, LeaseCancel, LeaseLeaseExpires, LeaseRetentionExpires DEF LeaseInv
<1>3. CASE \E w \in Workers : WorkerStep(w)
  <2>1. PICK w \in Workers : WorkerStep(w) BY <1>3
  <2>2. CASE \/ \E r \in Runs : Claim(w, r)
             \/ Launch(w) \/ Throw(w) \/ SeeMarker(w) \/ Export(w)
             \/ ClearDestination(w) \/ Rename(w) \/ Hash(w) \/ CleanUp(w)
    BY <1>t, <2>2, LeaseClaim, LeaseLaunch, LeaseThrow, LeaseSeeMarker, LeaseExport,
       LeaseClearDestination, LeaseRename, LeaseHash, LeaseCleanUp DEF LeaseInv
  <2>3. CASE \/ \E o \in Objects : UploadObject(w, o)
             \/ UploadFails(w)
             \/ \E v \in Verdicts : Commit(w, v)
             \/ CommitFails(w) \/ Release(w) \/ CheckOwnership(w) \/ PurgeRemote(w)
             \/ Discard(w) \/ RecordFailure(w)
    BY <1>t, <2>3, LeaseUploadObject, LeaseUploadFails, LeaseCommit, LeaseCommitFails,
       LeaseRelease, LeaseCheckOwnership, LeasePurgeRemote, LeaseDiscard,
       LeaseRecordFailure DEF LeaseInv
  <2> QED BY <2>1, <2>2, <2>3 DEF WorkerStep
<1>4. CASE \E w \in Workers : RecoveryStep(w) \/ Heartbeat(w) \/ KillContainer(w) \/ Crash(w)
  <2>1. PICK w \in Workers : RecoveryStep(w) \/ Heartbeat(w) \/ KillContainer(w) \/ Crash(w)
    BY <1>4
  <2>2. CASE Heartbeat(w) \/ KillContainer(w) \/ Crash(w)
    BY <1>t, <2>2, LeaseHeartbeat, LeaseKillContainer, LeaseCrash DEF LeaseInv
  <2>3. CASE RecoveryStep(w)
    BY <1>t, <2>3, LeaseBeginRecovery, LeaseReap, LeaseRequeue, LeaseAuditRecovery,
       LeaseEndRecovery DEF RecoveryStep, LeaseInv
  <2> QED BY <2>1, <2>2, <2>3
<1>5. CASE MaintenanceStep \/ SweepFails
  BY <1>t, <1>5, LeasePurgeRows, LeaseSweepStore, LeaseSweepLocal, LeaseDequeue,
     LeaseSweepFails DEF MaintenanceStep, LeaseInv
<1> QED BY <1>1, <1>2, <1>3, <1>4, <1>5 DEF Next

(* The lease protocol holds in every reachable state.                      *)
THEOREM LeaseInvariant == Spec => []LeaseInv
<1> QED BY LeaseInit, LeaseNext, PTL DEF Spec

(* A row that is held by a live worker is held for the attempt that worker *)
(* is busy with: the fence of recordSuccessfulRun, recordFailedRun and     *)
(* heartbeatRun on worker_id alone is enough, for any number of workers,   *)
(* attempts and late steps.                                                *)
THEOREM HolderTheorem == Spec => []HolderIsWorking
<1>1. LeaseInv => HolderIsWorking BY DEF LeaseInv, LeaseProtocol
<1> QED BY <1>1, LeaseInvariant, PTL

(* No row is running without a holder, and a live reaper never forgets a   *)
(* row it reserved (recoverExpiredRuns).                                   *)
THEOREM ForgottenLeaseTheorem == Spec => []NoForgottenLease
<1>1. LeaseInv => NoForgottenLease BY DEF LeaseInv, LeaseProtocol
<1> QED BY <1>1, LeaseInvariant, PTL

(* Every queued row can be claimed: its attempts are not used up and       *)
(* nobody has asked it to stop (claimNextRun, MAX_ATTEMPTS).               *)
THEOREM StrandedRunTheorem == Spec => []NoStrandedRun
<1>1. LeaseInv => NoStrandedRun BY DEF LeaseInv, LeaseProtocol
<1> QED BY <1>1, LeaseInvariant, PTL

(* A verdict is that of the last attempt, a failed run is INCONCLUSIVE and *)
(* nothing else has one (recordSuccessfulRun, recordFailedRun).            *)
THEOREM VerdictTheorem == Spec => []VerdictFromLastAttempt
<1>1. LeaseInv => VerdictFromLastAttempt BY DEF LeaseInv, LeaseProtocol
<1> QED BY <1>1, LeaseInvariant, PTL

-----------------------------------------------------------------------------
(* What a step can do to a row.                                            *)

(* It can leave the outcome alone, and touch the lease of a running row or *)
(* the retention of any row.                                               *)
Kept(r) ==
    \/ row'[r] = row[r]
    \/ row'[r] = [row[r] EXCEPT !.expired = TRUE]
    \/ /\ row[r].status = "running"
       /\ \E h \in Workers \cup Reapers, b \in BOOLEAN :
             row'[r] = [row[r] EXCEPT !.holder = h, !.leaseExpired = b]

(* It can complete the run,                                                *)
Completed(r) ==
    /\ row[r].status = "running"
    /\ ~row[r].cancelRequested
    /\ \E v \in Verdicts, a, i \in Attempts :
          row'[r] = [row[r] EXCEPT !.status = "completed", !.verdict = v,
                                   !.holder = NoWorker, !.leaseExpired = FALSE,
                                   !.result = a, !.inventory = i]

(* it can move the run on in another way,                                  *)
Moved(r) ==
    \/ /\ row[r].status = "absent"
       /\ row'[r] = [row[r] EXCEPT !.status = "queued"]
    \/ /\ row[r].status = "queued"
       /\ row'[r] = [row[r] EXCEPT !.status = "cancelled"]
    \/ /\ row[r].status = "running"
       /\ row'[r] = [row[r] EXCEPT !.cancelRequested = TRUE]
    \/ /\ row[r].status = "queued"
       /\ row[r].attempts < MaxAttempts
       /\ \E w \in Workers :
             row'[r] = [row[r] EXCEPT !.status = "running", !.holder = w,
                                      !.leaseExpired = FALSE, !.attempts = @ + 1]
    \/ Completed(r)
    \/ /\ row[r].status = "running"
       /\ row'[r] = Released(r, StatusAfter(row[r].attempts, row[r].cancelRequested))[r]

(* or it can forget it, when retention has expired and it is not running.  *)
Forgotten(r) == Purgeable(r) /\ row'[r] = [NoRow EXCEPT !.status = "purged"]

RowsStep ==
    \/ \A r \in Runs : Kept(r)
    \/ \E r \in Runs : Moved(r) /\ \A q \in Runs \ {r} : row'[q] = row[q]
    \/ \A r \in Runs : Forgotten(r) \/ row'[r] = row[r]

(* The rows of a step of the API or of the clock.                          *)
LEMMA ApiRows ==
    ASSUME LeaseInv, NEW r \in Runs,
           Submit(r) \/ Cancel(r) \/ LeaseExpires(r) \/ RetentionExpires(r)
    PROVE  RowsStep
<1>1. row \in [Runs -> Row] BY DEF LeaseInv, TypeInv, TypeOK
<1>2. CASE Submit(r)
  <2>1. Moved(r) BY <1>1, <1>2 DEF Submit, Moved
  <2> QED BY <1>1, <1>2, <2>1 DEF Submit, RowsStep
<1>3. CASE Cancel(r)
  <2>1. Moved(r) BY <1>1, <1>3 DEF Cancel, Moved
  <2>2. \A q \in Runs \ {r} : row'[q] = row[q] BY <1>1, <1>3 DEF Cancel
  <2> QED BY <2>1, <2>2 DEF RowsStep
<1>4. CASE RetentionExpires(r)
  <2>1. \A q \in Runs : Kept(q) BY <1>1, <1>4 DEF RetentionExpires, Kept
  <2> QED BY <2>1 DEF RowsStep
<1>5. CASE LeaseExpires(r)
  <2>1. row[r].status = "running" /\ row[r].holder \in Workers \cup Reapers
    <3>1. row[r].status = "running" BY <1>5 DEF LeaseExpires
    <3>2. row[r].holder # NoWorker BY <3>1 DEF LeaseInv, LeaseProtocol, NoForgottenLease
    <3>3. row[r] \in Row BY <1>1
    <3> QED BY <3>1, <3>2, <3>3 DEF Row
  <2>2. row[r] \in Row BY <1>1
  <2>3. [row[r] EXCEPT !.leaseExpired = TRUE]
           = [row[r] EXCEPT !.holder = row[r].holder, !.leaseExpired = TRUE]
    BY <2>2 DEF Row
  <2>4. Kept(r) BY <1>1, <1>5, <2>1, <2>3 DEF LeaseExpires, Kept
  <2>5. \A q \in Runs : Kept(q) BY <1>1, <1>5, <2>4 DEF LeaseExpires, Kept
  <2> QED BY <2>5 DEF RowsStep
<1> QED BY <1>2, <1>3, <1>4, <1>5

(* A claim starts one run.                                                 *)
LEMMA ClaimRows ==
    ASSUME LeaseInv, NEW w \in Workers, NEW r \in Runs, Claim(w, r) PROVE RowsStep
<1>1. row \in [Runs -> Row] BY DEF LeaseInv, TypeInv, TypeOK
<1>2. row' = [row EXCEPT ![r] = [row[r] EXCEPT !.status = "running", !.holder = w,
                                     !.leaseExpired = FALSE, !.attempts = @ + 1]]
  BY DEF Claim
<1>3. row'[r] = [row[r] EXCEPT !.status = "running", !.holder = w,
                               !.leaseExpired = FALSE, !.attempts = @ + 1]
  BY <1>1, <1>2
<1>4. Moved(r) BY <1>3 DEF Claim, Moved
<1>5. \A q \in Runs \ {r} : row'[q] = row[q] BY <1>1, <1>2
<1> QED BY <1>4, <1>5 DEF RowsStep

(* A heartbeat touches the lease of one running row, or nothing.           *)
LEMMA HeartbeatRows ==
    ASSUME LeaseInv, NEW w \in Workers, Heartbeat(w) PROVE RowsStep
<1>1. row \in [Runs -> Row] BY DEF LeaseInv, TypeInv, TypeOK
<1>2. CASE row' = row BY <1>2 DEF Kept, RowsStep
<1>3. CASE Owns(w) /\ row' = [row EXCEPT ![proc[w].run].leaseExpired = FALSE]
  <2> DEFINE r == proc[w].run
  <2>1. r \in Runs
    BY PCNames DEF Heartbeat, HeartbeatPCs, LeaseInv, TypeInv, BusyHasRun
  <2>2. row[r] \in Row /\ row[r].status = "running" /\ row[r].holder = w
    BY <1>1, <1>3, <2>1 DEF Owns
  <2>3. [row[r] EXCEPT !.leaseExpired = FALSE]
           = [row[r] EXCEPT !.holder = w, !.leaseExpired = FALSE]
    BY <2>2 DEF Row
  <2>4. row'[r] = [row[r] EXCEPT !.holder = w, !.leaseExpired = FALSE]
    BY <1>1, <1>3, <2>1, <2>3
  <2>5. \A q \in Runs : q # r => row'[q] = row[q] BY <1>1, <1>3
  <2> HIDE DEF r
  <2>6. Kept(r) BY <2>2, <2>4 DEF Kept
  <2> QED BY <2>5, <2>6 DEF Kept, RowsStep
<1> QED BY <1>2, <1>3 DEF Heartbeat

(* A commit completes one run that nobody asked to stop.                   *)
LEMMA CommitRows ==
    ASSUME LeaseInv, NEW w \in Workers, NEW v \in Verdicts, Commit(w, v) PROVE RowsStep
<1> DEFINE r == proc[w].run
<1>1. row \in [Runs -> Row] /\ proc[w] \in Proc /\ r \in Runs
  BY DEF LeaseInv, TypeInv, TypeOK, BusyHasRun, Commit
<1>2. proc[w].attempt \in Attempts /\ proc[w].inventory \in Attempts BY <1>1 DEF Proc
<1>3. row' = [row EXCEPT ![r] =
                [row[r] EXCEPT !.status = "completed", !.verdict = v,
                               !.holder = NoWorker, !.leaseExpired = FALSE,
                               !.result = proc[w].attempt, !.inventory = proc[w].inventory]]
  BY DEF Commit
<1>4. row[r].status = "running" /\ ~row[r].cancelRequested BY DEF Commit, MayCommit, Owns
<1> HIDE DEF r
<1>5. row'[r] = [row[r] EXCEPT !.status = "completed", !.verdict = v,
                               !.holder = NoWorker, !.leaseExpired = FALSE,
                               !.result = proc[w].attempt, !.inventory = proc[w].inventory]
  BY <1>1, <1>3
<1>6. Moved(r)
  <2>1. \E v1 \in Verdicts, a, i \in Attempts :
           row'[r] = [row[r] EXCEPT !.status = "completed", !.verdict = v1,
                                    !.holder = NoWorker, !.leaseExpired = FALSE,
                                    !.result = a, !.inventory = i]
    <3> DEFINE done(v1, a, i) == [row[r] EXCEPT !.status = "completed", !.verdict = v1,
                                    !.holder = NoWorker, !.leaseExpired = FALSE,
                                    !.result = a, !.inventory = i]
    <3>1. row'[r] = done(v, proc[w].attempt, proc[w].inventory) BY <1>5
    <3> HIDE DEF done
    <3>2. \E v1 \in Verdicts, a, i \in Attempts : row'[r] = done(v1, a, i) BY <1>2, <3>1
    <3> QED BY <3>2 DEF done
  <2>2. Completed(r) BY <1>4, <2>1 DEF Completed
  <2> QED BY <2>2 DEF Moved
<1>7. \A q \in Runs \ {r} : row'[q] = row[q] BY <1>1, <1>3
<1> QED BY <1>1, <1>6, <1>7 DEF RowsStep

(* A failed attempt, whether its worker or a reaper writes it down.        *)
LEMMA ReleaseRows ==
    ASSUME LeaseInv, NEW r \in Runs, row[r].status = "running",
           row' = Released(r, StatusAfter(row[r].attempts, row[r].cancelRequested))
    PROVE  RowsStep
<1>1. row \in [Runs -> Row] BY DEF LeaseInv, TypeInv, TypeOK
<1>2. Moved(r) BY DEF Moved
<1>3. \A q \in Runs \ {r} : row'[q] = row[q] BY <1>1 DEF Released
<1> QED BY <1>2, <1>3 DEF RowsStep

(* A worker writes down its own failed attempt only.                       *)
LEMMA RecordFailureRows ==
    ASSUME LeaseInv, NEW w \in Workers, RecordFailure(w) PROVE RowsStep
<1> DEFINE r == proc[w].run
<1>1. proc[w] \in Proc /\ r \in Runs /\ proc[w].pc = "recording"
  BY DEF LeaseInv, TypeInv, TypeOK, BusyHasRun, RecordFailure
<1>2. CASE ~Owns(w)
  <2>1. row' = row BY <1>2 DEF RecordFailure
  <2> QED BY <2>1 DEF Kept, RowsStep
<1>3. CASE Owns(w)
  <2>1. row[r].status = "running" /\ row[r].holder = w BY <1>3 DEF Owns
  <2>2. row[r].attempts = proc[w].attempt
    BY <1>1, <2>1 DEF LeaseInv, LeaseProtocol, HolderIsWorking
  <2>3. proc[w].cancelled => row[r].cancelRequested
    BY <1>1, <1>3, PCNames DEF LeaseInv, LeaseProtocol, CancelSeenIsInRow
  <2>4. StatusAfter(proc[w].attempt, proc[w].cancelled \/ row[r].cancelRequested)
          = StatusAfter(row[r].attempts, row[r].cancelRequested)
    BY <2>2, <2>3 DEF StatusAfter
  <2>5. row' = Released(r, StatusAfter(proc[w].attempt,
                                       proc[w].cancelled \/ row[r].cancelRequested))
    BY <1>3 DEF RecordFailure
  <2>6. row' = Released(r, StatusAfter(row[r].attempts, row[r].cancelRequested))
    BY <2>4, <2>5
  <2> QED BY <1>1, <2>1, <2>6, ReleaseRows
<1> QED BY <1>2, <1>3

(* A reaper writes down the attempt it reserved only.                      *)
LEMMA RequeueRows ==
    ASSUME LeaseInv, NEW w \in Workers, Requeue(w) PROVE RowsStep
<1> DEFINE r == proc[w].run
<1>1. proc[w].run \in Runs /\ proc[w].pc = "requeueing"
  BY DEF LeaseInv, TypeInv, BusyHasRun, Requeue
<1>2. CASE ~HoldsForRecovery(w)
  <2>1. row' = row BY <1>2 DEF Requeue
  <2> QED BY <2>1 DEF Kept, RowsStep
<1>3. CASE HoldsForRecovery(w)
  <2>1. row[r].status = "running" /\ row[r].holder = ReaperId(w)
    BY <1>3 DEF HoldsForRecovery
  <2>2. row[r].attempts \in Attempts
    <3>1. row[r] \in Row BY <1>1 DEF LeaseInv, TypeInv, TypeOK
    <3> QED BY <3>1 DEF Row
  <2>3. ~(<<r, row[r].attempts>> \in proc[w].todo)
    BY <1>1, <2>2, PCNames DEF LeaseInv, LeaseProtocol, ListedOnce
  <2>4. row[r].attempts = proc[w].attempt
    BY <1>1, <2>1, <2>3 DEF LeaseInv, LeaseProtocol, NoForgottenLease
  <2>5. row' = Released(r, StatusAfter(proc[w].attempt, row[r].cancelRequested))
    BY <1>3 DEF Requeue
  <2> QED BY <1>1, <2>1, <2>4, <2>5, ReleaseRows
<1> QED BY <1>2, <1>3

(* The reservation of lapsed rows changes no outcome.                      *)
LEMMA BeginRecoveryRows ==
    ASSUME LeaseInv, NEW w \in Workers, BeginRecovery(w) PROVE RowsStep
<1>1. ReaperId(w) \in Reapers BY DEF Reapers
<1>2. \A q \in Runs :
         row'[q] = IF LeaseLapsed(q) THEN [row[q] EXCEPT !.holder = ReaperId(w),
                                                         !.leaseExpired = FALSE]
                   ELSE row[q]
  BY DEF BeginRecovery
<1>3. \A q \in Runs : LeaseLapsed(q) => row[q].status = "running" BY DEF LeaseLapsed
<1>4. \A q \in Runs : Kept(q)
  <2> TAKE q \in Runs
  <2>1. CASE LeaseLapsed(q)
    <3>1. row'[q] = [row[q] EXCEPT !.holder = ReaperId(w), !.leaseExpired = FALSE]
      BY <1>2, <2>1
    <3> QED BY <1>1, <1>3, <2>1, <3>1 DEF Kept
  <2>2. CASE ~LeaseLapsed(q) BY <1>2, <2>2 DEF Kept
  <2> QED BY <2>1, <2>2
<1> QED BY <1>4 DEF RowsStep

(* The purge forgets rows that are not running.                            *)
LEMMA PurgeRowsRows ==
    ASSUME PurgeRows PROVE RowsStep
<1>1. \A q \in Runs : row'[q] = IF Purgeable(q) THEN [NoRow EXCEPT !.status = "purged"]
                                               ELSE row[q]
  BY DEF PurgeRows
<1>2. \A q \in Runs : Forgotten(q) \/ row'[q] = row[q] BY <1>1 DEF Forgotten
<1> QED BY <1>2 DEF RowsStep

(* Every step of the queue is one of these.                                *)
LEMMA EveryRowsStep == LeaseInv /\ [Next]_vars => RowsStep
<1> SUFFICES ASSUME LeaseInv, [Next]_vars PROVE RowsStep
  OBVIOUS
<1>1. row' = row => RowsStep BY DEF RowsStep, Kept
<1>2. CASE UNCHANGED vars BY <1>1, <1>2 DEF vars
<1>3. CASE \E r \in Runs : Submit(r) \/ Cancel(r) \/ LeaseExpires(r) \/ RetentionExpires(r)
  BY <1>3, ApiRows
<1>4. CASE \E w \in Workers : WorkerStep(w)
  <2>1. PICK w \in Workers : WorkerStep(w) BY <1>4
  <2>2. CASE \/ \E r \in Runs : Claim(w, r)
             \/ \E v \in Verdicts : Commit(w, v)
             \/ RecordFailure(w)
    BY <2>2, ClaimRows, CommitRows, RecordFailureRows
  <2>3. CASE \/ Launch(w) \/ Throw(w) \/ SeeMarker(w) \/ Export(w) \/ ClearDestination(w)
             \/ Rename(w) \/ Hash(w) \/ CleanUp(w) \/ (\E o \in Objects : UploadObject(w, o))
             \/ UploadFails(w) \/ CommitFails(w) \/ Release(w) \/ CheckOwnership(w)
             \/ PurgeRemote(w) \/ Discard(w)
    <3>1. row' = row
      BY <2>3 DEF Launch, Throw, SeeMarker, Export, ClearDestination, Rename, Hash, CleanUp,
         UploadObject, UploadFails, CommitFails, Release, CheckOwnership, PurgeRemote, Discard
    <3> QED BY <1>1, <3>1
  <2> QED BY <2>1, <2>2, <2>3 DEF WorkerStep
<1>5. CASE \E w \in Workers : RecoveryStep(w) \/ Heartbeat(w) \/ KillContainer(w) \/ Crash(w)
  <2>1. PICK w \in Workers : RecoveryStep(w) \/ Heartbeat(w) \/ KillContainer(w) \/ Crash(w)
    BY <1>5
  <2>2. CASE BeginRecovery(w) \/ Requeue(w) \/ Heartbeat(w)
    BY <2>2, BeginRecoveryRows, RequeueRows, HeartbeatRows
  <2>3. CASE \/ \E r \in Runs, a \in Attempts : Reap(w, r, a)
             \/ AuditRecovery(w) \/ EndRecovery(w) \/ KillContainer(w) \/ Crash(w)
    BY <1>1, <2>3 DEF Reap, AuditRecovery, EndRecovery, KillContainer, Crash
  <2> QED BY <2>1, <2>2, <2>3 DEF RecoveryStep
<1>6. CASE MaintenanceStep \/ SweepFails
  <2>1. CASE PurgeRows BY <2>1, PurgeRowsRows
  <2>2. CASE (\E r \in Runs : SweepStore(r) \/ SweepLocal(r)) \/ Dequeue \/ SweepFails
    BY <1>1, <2>2 DEF SweepStore, SweepLocal, Dequeue, SweepFails
  <2> QED BY <1>6, <2>1, <2>2 DEF MaintenanceStep
<1> QED BY <1>2, <1>3, <1>4, <1>5, <1>6 DEF Next

-----------------------------------------------------------------------------
(* Outcomes are final, and a cancel request wins.                          *)

(* No step changes the outcome of a settled run.                           *)
LEMMA FinalStep ==
    ASSUME LeaseInv, RowsStep, NEW r \in Runs, row[r].status \in Settled
    PROVE  \/ row'[r].status = "purged"
           \/ [row'[r] EXCEPT !.expired = FALSE] = [row[r] EXCEPT !.expired = FALSE]
<1>1. row[r] \in Row BY DEF LeaseInv, TypeInv, TypeOK
<1>2. row[r].status \notin {"absent", "queued", "running"} BY DEF Settled
<1>3. ~Moved(r) BY <1>2 DEF Moved, Completed
<1>4. CASE Kept(r)
  <2>1. row'[r] = row[r] \/ row'[r] = [row[r] EXCEPT !.expired = TRUE]
    BY <1>2, <1>4 DEF Kept
  <2> QED BY <1>1, <2>1 DEF Row
<1>5. CASE Forgotten(r) BY <1>5 DEF Forgotten, NoRow
<1> QED BY <1>3, <1>4, <1>5 DEF RowsStep

(* The outcome of a settled run changes only when retention deletes it:    *)
(* recordSuccessfulRun, recordFailedRun, recoverExpiredRuns and the cancel *)
(* route all leave a settled row alone.                                    *)
THEOREM OutcomeTheorem == Spec => OutcomeIsFinal
<1>1. LeaseInv /\ [Next]_vars
        => [\A r \in Runs : row[r].status \in Settled =>
              \/ row'[r].status = "purged"
              \/ [row'[r] EXCEPT !.expired = FALSE] = [row[r] EXCEPT !.expired = FALSE]]_vars
  BY EveryRowsStep, FinalStep
<1> QED BY <1>1, LeaseInvariant, PTL DEF Spec, OutcomeIsFinal

(* No step lets a run escape from a cancel request.                        *)
LEMMA CancelStep ==
    ASSUME LeaseInv, RowsStep, NEW r \in Runs,
           row[r].status = "running", row[r].cancelRequested
    PROVE  \/ row'[r].status = "running" /\ row'[r].cancelRequested
           \/ row'[r].status = "cancelled"
<1>1. row \in [Runs -> Row] /\ row[r] \in Row BY DEF LeaseInv, TypeInv, TypeOK
<1>2. CASE Kept(r) BY <1>1, <1>2 DEF Kept, Row
<1>3. CASE Moved(r)
  <2>1. CASE row'[r] = [row[r] EXCEPT !.cancelRequested = TRUE] BY <1>1, <2>1 DEF Row
  <2>2. CASE row'[r] = Released(r, StatusAfter(row[r].attempts, row[r].cancelRequested))[r]
    <3>1. StatusAfter(row[r].attempts, row[r].cancelRequested) = "cancelled"
      BY DEF StatusAfter
    <3>2. row'[r] = Released(r, "cancelled")[r] BY <2>2, <3>1
    <3> QED BY <1>1, <3>2, ReleasedFields
  <2> QED BY <1>3, <2>1, <2>2 DEF Moved, Completed
<1>4. ~Forgotten(r) BY DEF Forgotten, Purgeable, Settled
<1> QED BY <1>2, <1>3, <1>4 DEF RowsStep, Kept

(* A running run that was asked to stop can only become cancelled, however *)
(* many workers and reapers still write to its row (recordSuccessfulRun,   *)
(* recordFailedRun, recoverExpiredRuns).                                   *)
THEOREM CancelTheorem == Spec => CancelWins
<1>1. LeaseInv /\ [Next]_vars
        => [\A r \in Runs : (row[r].status = "running" /\ row[r].cancelRequested) =>
              \/ row'[r].status = "running" /\ row'[r].cancelRequested
              \/ row'[r].status = "cancelled"]_vars
  BY EveryRowsStep, CancelStep
<1> QED BY <1>1, LeaseInvariant, PTL DEF Spec, CancelWins

-----------------------------------------------------------------------------
(* The refinement.                                                         *)

Lives == [r \in Runs |-> LifeOf(r)]

(* One row is one life.                                                    *)
LEMMA OneLife ==
    ASSUME NEW r \in Runs, \A q \in Runs \ {r} : row'[q] = row[q]
    PROVE  Lives' = [Lives EXCEPT ![r] = LifeOf(r)']
  BY DEF Lives, LifeOf

(* The life of a typed row is a life.                                      *)
LEMMA LifeTyped ==
    ASSUME TypeInv, NEW r \in Runs PROVE LifeOf(r) \in Lifecycle!Life
<1>1. row[r] \in Row BY DEF TypeInv, TypeOK
<1>2. /\ row[r].status \in {"absent", "queued", "running", "purged"} \cup Settled
      /\ row[r].attempts \in Attempts
      /\ row[r].verdict \in Verdicts \cup {"none"} /\ row[r].cancelRequested \in BOOLEAN
  BY <1>1 DEF Row
<1> QED BY <1>2 DEF LifeOf, Lifecycle!Life, Attempts, Settled, Lifecycle!Settled,
                    Verdicts, Lifecycle!Verdicts

(* ... and so after a step.                                                *)
LEMMA LifeTypedNext ==
    ASSUME TypeInv', NEW r \in Runs PROVE LifeOf(r)' \in Lifecycle!Life
<1>1. row'[r] \in Row BY DEF TypeInv, TypeOK
<1>2. /\ row'[r].status \in {"absent", "queued", "running", "purged"} \cup Settled
      /\ row'[r].attempts \in Attempts
      /\ row'[r].verdict \in Verdicts \cup {"none"} /\ row'[r].cancelRequested \in BOOLEAN
  BY <1>1 DEF Row
<1> QED BY <1>2 DEF LifeOf, Lifecycle!Life, Attempts, Settled, Lifecycle!Settled,
                    Verdicts, Lifecycle!Verdicts

(* A row that moves on is one step of that run's life.                     *)
LEMMA MovedLife ==
    ASSUME LeaseInv, TypeInv', NEW r \in Runs, Moved(r),
           \A q \in Runs \ {r} : row'[q] = row[q]
    PROVE  Lifecycle!Next
<1>1. row \in [Runs -> Row] /\ row[r] \in Row BY DEF LeaseInv, TypeInv, TypeOK
<1>2. /\ Lives[r] = LifeOf(r)
      /\ LifeOf(r).phase = row[r].status /\ LifeOf(r).tries = row[r].attempts
      /\ LifeOf(r).verdict = row[r].verdict /\ LifeOf(r).stopping = row[r].cancelRequested
  BY DEF Lives, LifeOf
<1>t. LifeOf(r) \in Lifecycle!Life /\ LifeOf(r)' \in Lifecycle!Life
  BY LifeTyped, LifeTypedNext DEF LeaseInv
<1>n. /\ LifeOf(r)'.phase = row'[r].status /\ LifeOf(r)'.tries = row'[r].attempts
      /\ LifeOf(r)'.verdict = row'[r].verdict
      /\ LifeOf(r)'.stopping = row'[r].cancelRequested
  BY DEF LifeOf
<1>3. Lives' = [Lives EXCEPT ![r] = LifeOf(r)'] BY OneLife
<1>4. CASE row[r].status = "absent" /\ row'[r] = [row[r] EXCEPT !.status = "queued"]
  <2>1. LifeOf(r)' = [LifeOf(r) EXCEPT !.phase = "queued"] BY <1>1, <1>4 DEF LifeOf, Row
  <2>2. Lifecycle!Enqueue(r) BY <1>2, <1>3, <1>4, <2>1 DEF Lifecycle!Enqueue, Lives
  <2> QED BY <2>2 DEF Lifecycle!Next
<1>5. CASE row[r].status = "queued" /\ row'[r] = [row[r] EXCEPT !.status = "cancelled"]
  <2>1. LifeOf(r)' = [LifeOf(r) EXCEPT !.phase = "cancelled"] BY <1>1, <1>5 DEF LifeOf, Row
  <2>2. Lifecycle!Stop(r) BY <1>2, <1>3, <1>5, <2>1 DEF Lifecycle!Stop, Lives
  <2> QED BY <2>2 DEF Lifecycle!Next
<1>6. CASE row[r].status = "running" /\ row'[r] = [row[r] EXCEPT !.cancelRequested = TRUE]
  <2>1. LifeOf(r)' = [LifeOf(r) EXCEPT !.stopping = TRUE]
    <3>1. /\ row'[r].status = row[r].status /\ row'[r].attempts = row[r].attempts
          /\ row'[r].verdict = row[r].verdict /\ row'[r].cancelRequested = TRUE
      BY <1>1, <1>6 DEF Row
    <3> QED BY <1>2, <1>t, <1>n, <3>1 DEF Lifecycle!Life
  <2>2. Lifecycle!AskToStop(r) BY <1>2, <1>3, <1>6, <2>1 DEF Lifecycle!AskToStop, Lives
  <2> QED BY <2>2 DEF Lifecycle!Next
<1>7. ASSUME row[r].status = "queued", row[r].attempts < MaxAttempts, NEW w \in Workers,
             row'[r] = [row[r] EXCEPT !.status = "running", !.holder = w,
                                      !.leaseExpired = FALSE, !.attempts = @ + 1]
      PROVE  Lifecycle!Next
  <2>1. /\ row'[r].status = "running" /\ row'[r].attempts = row[r].attempts + 1
        /\ row'[r].verdict = row[r].verdict
        /\ row'[r].cancelRequested = row[r].cancelRequested
    BY <1>1, <1>7 DEF Row
  <2>2. LifeOf(r)' = [LifeOf(r) EXCEPT !.phase = "running", !.tries = @ + 1]
    BY <1>2, <1>t, <1>n, <2>1 DEF Lifecycle!Life
  <2>3. Lifecycle!Start(r) BY <1>2, <1>3, <1>7, <2>2 DEF Lifecycle!Start, Lives
  <2> QED BY <2>3 DEF Lifecycle!Next
<1>8. CASE Completed(r)
  <2>1. PICK v \in Verdicts, a, i \in Attempts :
           row'[r] = [row[r] EXCEPT !.status = "completed", !.verdict = v,
                                    !.holder = NoWorker, !.leaseExpired = FALSE,
                                    !.result = a, !.inventory = i]
    BY <1>8 DEF Completed
  <2>2. /\ row'[r].status = "completed" /\ row'[r].attempts = row[r].attempts
        /\ row'[r].verdict = v /\ row'[r].cancelRequested = row[r].cancelRequested
    BY <1>1, <2>1 DEF Row
  <2>3. LifeOf(r)' = [LifeOf(r) EXCEPT !.phase = "completed", !.verdict = v]
    BY <1>2, <1>t, <1>n, <2>2 DEF Lifecycle!Life
  <2>4. row[r].status = "running" /\ ~row[r].cancelRequested BY <1>8 DEF Completed
  <2>5. Lifecycle!Finish(r, v) BY <1>2, <1>3, <2>3, <2>4 DEF Lifecycle!Finish, Lives
  <2>6. v \in Lifecycle!Verdicts BY DEF Verdicts, Lifecycle!Verdicts
  <2> QED BY <2>5, <2>6 DEF Lifecycle!Next
<1>9. CASE /\ row[r].status = "running"
           /\ row'[r] = Released(r, StatusAfter(row[r].attempts, row[r].cancelRequested))[r]
  <2> DEFINE status == StatusAfter(row[r].attempts, row[r].cancelRequested)
  <2>1. /\ row'[r].status = status /\ row'[r].attempts = row[r].attempts
        /\ row'[r].verdict = IF status = "failed" THEN "INCONCLUSIVE" ELSE "none"
        /\ row'[r].cancelRequested = row[r].cancelRequested
    <3> HIDE DEF status
    <3> QED BY <1>1, <1>9, ReleasedFields DEF status
  <2>2. row[r].verdict = "none" BY <1>9 DEF LeaseInv, LeaseProtocol, VerdictFromLastAttempt
  <2>3. CASE row[r].cancelRequested
    <3>1. status = "cancelled" BY <2>3 DEF StatusAfter
    <3>2. LifeOf(r)' = [LifeOf(r) EXCEPT !.phase = "cancelled"]
      BY <2>1, <2>2, <3>1 DEF LifeOf
    <3>3. Lifecycle!Stop(r) BY <1>2, <1>3, <1>9, <2>3, <3>2 DEF Lifecycle!Stop, Lives
    <3> QED BY <3>3 DEF Lifecycle!Next
  <2>4. CASE ~row[r].cancelRequested /\ row[r].attempts < MaxAttempts
    <3>1. status = "queued" BY <2>4 DEF StatusAfter
    <3>2. LifeOf(r)' = [LifeOf(r) EXCEPT !.phase = "queued"]
      BY <2>1, <2>2, <3>1 DEF LifeOf
    <3>3. Lifecycle!Retry(r) BY <1>2, <1>3, <1>9, <2>4, <3>2 DEF Lifecycle!Retry, Lives
    <3> QED BY <3>3 DEF Lifecycle!Next
  <2>5. CASE ~row[r].cancelRequested /\ ~(row[r].attempts < MaxAttempts)
    <3>1. status = "failed" BY <2>5 DEF StatusAfter
    <3>2. LifeOf(r)' = [LifeOf(r) EXCEPT !.phase = "failed", !.verdict = "INCONCLUSIVE"]
      BY <1>2, <1>t, <1>n, <2>1, <3>1 DEF Lifecycle!Life
    <3>3. row[r].attempts = MaxAttempts
      BY <1>1, <2>5, QueueAssumption DEF Row, Attempts
    <3>4. Lifecycle!GiveUp(r) BY <1>2, <1>3, <1>9, <2>5, <3>2, <3>3 DEF Lifecycle!GiveUp, Lives
    <3> QED BY <3>4 DEF Lifecycle!Next
  <2> QED BY <2>3, <2>4, <2>5
<1> QED BY <1>4, <1>5, <1>6, <1>7, <1>8, <1>9 DEF Moved

(* Every step of the queue is a step of one life, or of none, or a purge.  *)
LEMMA LifeStep == LeaseInv /\ [Next]_vars => [Lifecycle!Next]_Lives
<1> SUFFICES ASSUME LeaseInv, TypeInv', RowsStep PROVE Lifecycle!Next \/ Lives' = Lives
  BY EveryRowsStep, TypeNext DEF LeaseInv
<1>1. \A r \in Runs : row[r] \in Row BY DEF LeaseInv, TypeInv, TypeOK
<1>2. CASE \A r \in Runs : Kept(r)
  <2>1. \A r \in Runs : LifeOf(r)' = LifeOf(r) BY <1>1, <1>2 DEF Kept, Row, LifeOf
  <2> QED BY <2>1 DEF Lives
<1>3. CASE \E r \in Runs : Moved(r) /\ \A q \in Runs \ {r} : row'[q] = row[q]
  BY <1>3, MovedLife
<1>4. CASE \A r \in Runs : Forgotten(r) \/ row'[r] = row[r]
  <2> DEFINE S == {r \in Runs : Forgotten(r)}
  <2>1. \A r \in S : Lives[r].phase \in Lifecycle!Settled \cup {"queued"}
    BY DEF Forgotten, Purgeable, Lives, LifeOf, Settled, Lifecycle!Settled
  <2>2. \A r \in S : LifeOf(r)' = [Lifecycle!Unborn EXCEPT !.phase = "purged"]
    <3> SUFFICES ASSUME NEW r \in Runs, Forgotten(r)
                 PROVE  LifeOf(r)' = [Lifecycle!Unborn EXCEPT !.phase = "purged"]
      OBVIOUS
    <3> DEFINE gone == [Lifecycle!Unborn EXCEPT !.phase = "purged"]
    <3>1. /\ gone.phase = "purged" /\ gone.tries = 0
          /\ gone.verdict = "none" /\ gone.stopping = FALSE
      BY DEF Lifecycle!Unborn
    <3>2. gone \in Lifecycle!Life
      <4>1. Lifecycle!Unborn \in Lifecycle!Life
        BY QueueAssumption DEF Lifecycle!Unborn, Lifecycle!Life
      <4> QED BY <4>1 DEF Lifecycle!Life
    <3>3. /\ row'[r].status = "purged" /\ row'[r].attempts = 0
          /\ row'[r].verdict = "none" /\ row'[r].cancelRequested = FALSE
      BY DEF Forgotten, NoRow
    <3>4. /\ LifeOf(r)'.phase = "purged" /\ LifeOf(r)'.tries = 0
          /\ LifeOf(r)'.verdict = "none" /\ LifeOf(r)'.stopping = FALSE
      BY <3>3 DEF LifeOf
    <3>5. LifeOf(r)' \in Lifecycle!Life BY LifeTypedNext
    <3> HIDE DEF gone
    <3>6. LifeOf(r)' = gone BY <3>1, <3>2, <3>4, <3>5 DEF Lifecycle!Life
    <3> QED BY <3>6 DEF gone
  <2>3. \A r \in Runs \ S : LifeOf(r)' = LifeOf(r) BY <1>4 DEF LifeOf
  <2>4. Lives' = [r \in Runs |-> IF r \in S THEN [Lifecycle!Unborn EXCEPT !.phase = "purged"]
                                          ELSE Lives[r]]
    BY <2>2, <2>3 DEF Lives
  <2>6. S \in SUBSET Runs OBVIOUS
  <2> HIDE DEF S
  <2>7. Lifecycle!Forget(S) BY <2>1, <2>4 DEF Lifecycle!Forget, Lives
  <2> QED BY <2>6, <2>7 DEF Lifecycle!Next
<1> QED BY <1>2, <1>3, <1>4 DEF RowsStep

(* The queue implements RunLifecycle: under LifeOf its rows never do what  *)
(* the life of a run does not allow.                                       *)
THEOREM Refinement == Spec => ImplementsLifecycle
<1>1. Init => Lifecycle!Init
  BY DEF Init, NoRow, LifeOf, Lifecycle!Init, Lifecycle!Unborn
<1>2. LeaseInv /\ [Next]_vars => [Lifecycle!Next]_Lives BY LifeStep
<1> QED BY <1>1, <1>2, LeaseInvariant, PTL DEF Spec, ImplementsLifecycle, Lifecycle!Spec, Lives

-----------------------------------------------------------------------------
(* The audit.                                                              *)

Over(r) == row[r].status \in Settled \cup {"purged"}

(* Who is about to write the audit event of a run is the only one, the run *)
(* is over, and the event is missing.                                      *)
AuditingOnce ==
    /\ \A w \in Workers :
          proc[w].pc = "auditing" => Over(proc[w].run) /\ audits[proc[w].run] = 0
    /\ \A u, w \in Workers :
          (proc[u].pc = "auditing" /\ proc[w].pc = "auditing" /\ proc[u].run = proc[w].run)
              => u = w

AuditInv == LeaseInv /\ AuditedOnce /\ AuditingOnce

(* No step undoes the end of a run.                                        *)
LEMMA OverStays ==
    ASSUME LeaseInv, [Next]_vars, NEW r \in Runs, Over(r)
    PROVE  Over(r)'
<1>1. RowsStep BY EveryRowsStep
<1>2. row[r] \in Row /\ row[r].status \notin {"absent", "queued", "running"}
  BY DEF LeaseInv, TypeInv, TypeOK, Over, Settled
<1>3. ~Moved(r) BY <1>2 DEF Moved, Completed
<1>4. CASE Kept(r)
  <2>1. row'[r] = row[r] \/ row'[r] = [row[r] EXCEPT !.expired = TRUE]
    BY <1>2, <1>4 DEF Kept
  <2> QED BY <1>2, <2>1 DEF Row, Over
<1>5. CASE Forgotten(r) BY <1>5 DEF Forgotten, NoRow, Over
<1> QED BY <1>1, <1>3, <1>4, <1>5 DEF RowsStep, Over

(* Auditing goes on, ends with the worker, or does not happen.             *)
SameAudit(w) ==
    /\ proc[w].pc = "down" => proc'[w] = proc[w]
    /\ proc[w].pc = "auditing" => proc'[w].pc \in {"auditing", "down"} /\ proc'[w].run = proc[w].run
    /\ proc'[w].pc = "auditing" => proc[w].pc = "auditing"

(* A step that settles no run and audits nothing.                          *)
LEMMA AuditQuiet ==
    ASSUME AuditInv, [Next]_vars, audits' = audits,
           \A r \in Runs : row'[r].status \in Settled => row[r].status \in Settled,
           \A w \in Workers : SameAudit(w)
    PROVE  AuditedOnce' /\ AuditingOnce'
<1>1. \A r \in Runs : Over(r) => Over(r)' BY OverStays DEF AuditInv
<1>2. AuditedOnce'
  <2> SUFFICES ASSUME NEW r \in Runs
               PROVE  /\ audits'[r] \in {0, 1}
                      /\ audits'[r] = 1 => Over(r)'
                      /\ (row'[r].status \in Settled /\ audits'[r] = 0) =>
                            \E w \in Workers : proc'[w].run = r /\ proc'[w].pc \in {"auditing", "down"}
    BY DEF AuditedOnce, Over
  <2>1. audits[r] \in {0, 1} /\ (audits[r] = 1 => Over(r))
    BY DEF AuditInv, AuditedOnce, Over
  <2>2. ASSUME row'[r].status \in Settled, audits'[r] = 0
        PROVE  \E w \in Workers : proc'[w].run = r /\ proc'[w].pc \in {"auditing", "down"}
    <3>1. PICK w \in Workers : proc[w].run = r /\ proc[w].pc \in {"auditing", "down"}
      BY <2>2 DEF AuditInv, AuditedOnce
    <3>2. SameAudit(w) OBVIOUS
    <3> QED BY <3>1, <3>2 DEF SameAudit
  <2> QED BY <1>1, <2>1, <2>2
<1>3. AuditingOnce'
  <2>1. \A w \in Workers : proc'[w].pc = "auditing" =>
           proc[w].pc = "auditing" /\ proc'[w].run = proc[w].run
    BY DEF SameAudit
  <2>2. \A w \in Workers : proc[w].pc = "auditing" => proc[w].run \in Runs
    BY DEF AuditInv, LeaseInv, TypeInv, BusyHasRun
  <2> QED BY <1>1, <2>1, <2>2 DEF AuditInv, AuditingOnce, Over
<1> QED BY <1>2, <1>3

(* One run is settled and audited in the same step.                        *)
LEMMA AuditSettle ==
    ASSUME AuditInv, [Next]_vars, NEW q \in Runs, ~Over(q), row'[q].status \in Settled,
           audits' = [audits EXCEPT ![q] = @ + 1],
           \A r \in Runs \ {q} : row'[r].status = row[r].status,
           \A w \in Workers : SameAudit(w)
    PROVE  AuditedOnce' /\ AuditingOnce'
<1>0. audits \in [Runs -> Nat] BY DEF AuditInv, LeaseInv, TypeInv, TypeOK
<1>1. audits[q] = 0 BY DEF AuditInv, AuditedOnce, Over
<1>0a. Over(q)' BY DEF Over
<1>2. audits'[q] = 1 /\ \A r \in Runs \ {q} : audits'[r] = audits[r] BY <1>0, <1>1
<1>3. \A r \in Runs : Over(r) => Over(r)' BY OverStays DEF AuditInv
<1>4. AuditedOnce'
  <2> SUFFICES ASSUME NEW r \in Runs \ {q}
               PROVE  /\ audits'[r] \in {0, 1}
                      /\ audits'[r] = 1 => Over(r)'
                      /\ (row'[r].status \in Settled /\ audits'[r] = 0) =>
                            \E w \in Workers : proc'[w].run = r /\ proc'[w].pc \in {"auditing", "down"}
    BY <1>0a, <1>2 DEF AuditedOnce, Over
  <2>1. audits[r] \in {0, 1} /\ (audits[r] = 1 => Over(r))
    BY DEF AuditInv, AuditedOnce, Over
  <2>2. ASSUME row'[r].status \in Settled, audits'[r] = 0
        PROVE  \E w \in Workers : proc'[w].run = r /\ proc'[w].pc \in {"auditing", "down"}
    <3>1. PICK w \in Workers : proc[w].run = r /\ proc[w].pc \in {"auditing", "down"}
      BY <1>2, <2>2 DEF AuditInv, AuditedOnce
    <3>2. SameAudit(w) OBVIOUS
    <3> QED BY <3>1, <3>2 DEF SameAudit
  <2> QED BY <1>2, <1>3, <2>1, <2>2
<1>5. AuditingOnce'
  <2>1. \A w \in Workers : proc'[w].pc = "auditing" =>
           proc[w].pc = "auditing" /\ proc'[w].run = proc[w].run
    BY DEF SameAudit
  <2>2. \A w \in Workers : proc[w].pc = "auditing" => proc[w].run \in Runs /\ proc[w].run # q
    BY DEF AuditInv, AuditingOnce, LeaseInv, TypeInv, BusyHasRun
  <2>3. \A w \in Workers : proc'[w].pc = "auditing" =>
           Over(proc[w].run)' /\ audits'[proc[w].run] = 0
    BY <1>2, <1>3, <2>1, <2>2 DEF AuditInv, AuditingOnce
  <2> QED BY <2>1, <2>3 DEF AuditInv, AuditingOnce, Over
<1> QED BY <1>4, <1>5

(* One worker moves, neither in nor to the middle of an audit.             *)
LEMMA OneMoves ==
    ASSUME LeaseInv, NEW w \in Workers, proc[w].pc \notin {"auditing", "down"},
           \A u \in Workers \ {w} : proc'[u] = proc[u], proc'[w].pc # "auditing"
    PROVE  \A u \in Workers : SameAudit(u)
  BY DEF SameAudit

(* Steps of the API, of the clock and of the maintenance.                  *)
LEMMA AuditApi ==
    ASSUME AuditInv, [Next]_vars,
           \/ \E r \in Runs : Submit(r) \/ Cancel(r) \/ LeaseExpires(r) \/ RetentionExpires(r)
           \/ MaintenanceStep \/ SweepFails
    PROVE  AuditedOnce' /\ AuditingOnce'
<1>1. row \in [Runs -> Row] BY DEF AuditInv, LeaseInv, TypeInv, TypeOK
<1>2. ASSUME proc' = proc PROVE \A w \in Workers : SameAudit(w) BY <1>2 DEF SameAudit
<1>3. CASE \E r \in Runs : Submit(r) \/ LeaseExpires(r) \/ RetentionExpires(r)
  <2>1. proc' = proc /\ audits' = audits
    BY <1>3 DEF Submit, LeaseExpires, RetentionExpires
  <2>2. \A r \in Runs : row'[r].status = row[r].status \/ row'[r].status = "queued"
    BY <1>1, <1>3 DEF Submit, LeaseExpires, RetentionExpires, Row
  <2> QED BY <1>2, <2>1, <2>2, AuditQuiet DEF Settled
<1>4. CASE \E r \in Runs : Cancel(r)
  <2>1. PICK r \in Runs : Cancel(r) BY <1>4
  <2>2. proc' = proc BY <2>1 DEF Cancel
  <2>3. \A q \in Runs \ {r} : row'[q] = row[q] BY <1>1, <2>1 DEF Cancel
  <2>4. CASE /\ row[r].status = "queued"
             /\ row' = [row EXCEPT ![r].status = "cancelled"]
             /\ audits' = [audits EXCEPT ![r] = @ + 1]
    <3>1. row'[r].status = "cancelled" BY <1>1, <2>4 DEF Row
    <3>2. ~Over(r) /\ row'[r].status \in Settled BY <2>4, <3>1 DEF Over, Settled
    <3> QED BY <1>2, <2>2, <2>3, <2>4, <3>2, AuditSettle
  <2>5. CASE row' = [row EXCEPT ![r].cancelRequested = TRUE] /\ audits' = audits
    <3>1. row'[r].status = row[r].status BY <1>1, <2>5 DEF Row
    <3> QED BY <1>2, <2>2, <2>3, <2>5, <3>1, AuditQuiet
  <2> QED BY <2>1, <2>4, <2>5 DEF Cancel
<1>5. CASE MaintenanceStep \/ SweepFails
  <2>1. proc' = proc /\ audits' = audits
    BY <1>5 DEF MaintenanceStep, PurgeRows, SweepStore, SweepLocal, Dequeue, SweepFails
  <2>2. \A r \in Runs : row'[r] = row[r] \/ row'[r] = [NoRow EXCEPT !.status = "purged"]
    BY <1>5 DEF MaintenanceStep, PurgeRows, SweepStore, SweepLocal, Dequeue, SweepFails
  <2>3. \A r \in Runs : row'[r].status \in Settled => row[r].status \in Settled
    BY <2>2 DEF NoRow, Settled
  <2> QED BY <1>2, <2>1, <2>3, AuditQuiet
<1> QED BY <1>3, <1>4, <1>5

(* Steps of a job that do not touch the row.                               *)
LEMMA AuditJob ==
    ASSUME AuditInv, [Next]_vars, NEW w \in Workers,
           \/ Launch(w) \/ Throw(w) \/ SeeMarker(w) \/ Export(w) \/ ClearDestination(w)
           \/ Rename(w) \/ Hash(w) \/ CleanUp(w) \/ (\E o \in Objects : UploadObject(w, o))
           \/ UploadFails(w) \/ CommitFails(w) \/ Release(w) \/ CheckOwnership(w)
           \/ PurgeRemote(w) \/ Discard(w) \/ KillContainer(w)
    PROVE  AuditedOnce' /\ AuditingOnce'
<1>1. proc \in [Workers -> Proc] BY DEF AuditInv, LeaseInv, TypeInv, TypeOK
<1>2. row' = row /\ audits' = audits
  BY DEF Launch, Throw, SeeMarker, Export, ClearDestination, Rename, Hash, CleanUp, UploadObject,
     UploadFails, CommitFails, Release, CheckOwnership, PurgeRemote, Discard, KillContainer
<1>3. proc[w].pc \notin {"auditing", "down"}
  BY DEF Launch, Throw, SeeMarker, Export, ClearDestination, Rename, Hash, CleanUp, UploadObject,
     UploadFails, CommitFails, Release, CheckOwnership, PurgeRemote, Discard, KillContainer,
     HeartbeatPCs
<1>4. \A u \in Workers \ {w} : proc'[u] = proc[u]
  BY <1>1 DEF Launch, Throw, SeeMarker, Export, ClearDestination, Rename, Hash, CleanUp, UploadObject,
     UploadFails, CommitFails, Release, CheckOwnership, PurgeRemote, Discard, KillContainer, Step
<1>5. proc'[w].pc # "auditing"
  <2>1. CASE Launch(w) \/ Throw(w) \/ SeeMarker(w) \/ Export(w) \/ ClearDestination(w)
           \/ Rename(w) \/ Hash(w)
    BY <1>1, <2>1 DEF Launch, Throw, SeeMarker, Export, ClearDestination, Rename, Hash, Step, Proc
  <2>2. CASE CleanUp(w) \/ UploadFails(w) \/ CommitFails(w) \/ Release(w)
    BY <1>1, <2>2 DEF CleanUp, UploadFails, CommitFails, Release, Step, FailurePC, Proc, Idle
  <2>3. CASE CheckOwnership(w) \/ PurgeRemote(w) \/ Discard(w) \/ KillContainer(w)
    BY <1>1, <2>3 DEF CheckOwnership, PurgeRemote, Discard, KillContainer, Step, Proc, HeartbeatPCs
  <2>4. CASE \E o \in Objects : UploadObject(w, o)
    BY <1>1, <2>4 DEF UploadObject, Proc
  <2> QED BY <2>1, <2>2, <2>3, <2>4
<1>6. \A u \in Workers : SameAudit(u) BY <1>3, <1>4, <1>5, OneMoves DEF AuditInv
<1> QED BY <1>2, <1>6, AuditQuiet

(* What a claim does.                                                      *)
LEMMA ClaimBegins ==
    ASSUME LeaseInv, NEW w \in Workers, NEW r \in Runs, Claim(w, r)
    PROVE  /\ proc[w].pc = "idle" /\ row[r].status = "queued"
           /\ proc'[w].pc = "launching" /\ proc'[w].run = r /\ proc'[w].uploaded = {}
           /\ \A u \in Workers \ {w} : proc'[u] = proc[u]
           /\ row'[r].status = "running" /\ row'[r].holder = w /\ ~row'[r].leaseExpired
           /\ \A q \in Runs \ {r} : row'[q] = row[q]
<1> DEFINE next == row[r].attempts + 1
<1>1. proc \in [Workers -> Proc] /\ row \in [Runs -> Row] BY DEF LeaseInv, TypeInv, TypeOK
<1>2. proc'[w] = [Idle EXCEPT !.pc = "launching", !.run = r, !.attempt = next] BY <1>1 DEF Claim
<1>3. row'[r] = [row[r] EXCEPT !.status = "running", !.holder = w, !.leaseExpired = FALSE,
                               !.attempts = next]
  BY <1>1 DEF Claim
<1>4. proc[w].pc = "idle" /\ row[r].status = "queued" BY DEF Claim
<1>5. \A u \in Workers \ {w} : proc'[u] = proc[u] BY <1>1 DEF Claim
<1>6. \A q \in Runs \ {r} : row'[q] = row[q] BY <1>1 DEF Claim
<1> HIDE DEF next
<1>7. proc'[w].pc = "launching" /\ proc'[w].run = r /\ proc'[w].uploaded = {}
  BY <1>2 DEF Idle
<1>8. row[r] \in Row BY <1>1
<1>9. row'[r].status = "running" /\ row'[r].holder = w /\ ~row'[r].leaseExpired
  BY <1>3, <1>8 DEF Row
<1> QED BY <1>4, <1>5, <1>6, <1>7, <1>9

(* What the reservation of lapsed rows does.                               *)
LEMMA RecoveryBegins ==
    ASSUME LeaseInv, NEW w \in Workers, BeginRecovery(w)
    PROVE  /\ proc[w].pc = "idle" /\ proc'[w].pc = "reaping"
           /\ \A u \in Workers \ {w} : proc'[u] = proc[u]
           /\ \A q \in Runs : row'[q].status = row[q].status
           /\ \A q \in Runs : LeaseLapsed(q) =>
                 row'[q].holder = ReaperId(w) /\ ~row'[q].leaseExpired
           /\ \A q \in Runs : ~LeaseLapsed(q) => row'[q] = row[q]
           /\ \A q \in Runs, a \in Attempts : <<q, a>> \in proc'[w].todo => LeaseLapsed(q)
<1> DEFINE todo == {<<q, row[q].attempts>> : q \in {q \in Runs : LeaseLapsed(q)}}
<1>1. proc \in [Workers -> Proc] /\ \A q \in Runs : row[q] \in Row
  BY DEF LeaseInv, TypeInv, TypeOK
<1>2. \A q \in Runs :
         row'[q] = IF LeaseLapsed(q) THEN [row[q] EXCEPT !.holder = ReaperId(w),
                                                         !.leaseExpired = FALSE]
                   ELSE row[q]
  BY DEF BeginRecovery
<1>3. \A q \in Runs :
         /\ row'[q].status = row[q].status
         /\ LeaseLapsed(q) => row'[q].holder = ReaperId(w) /\ ~row'[q].leaseExpired
         /\ ~LeaseLapsed(q) => row'[q] = row[q]
  BY <1>1, <1>2 DEF Row
<1>4. proc'[w] = [Idle EXCEPT !.pc = "reaping", !.todo = todo] BY <1>1 DEF BeginRecovery
<1>5. proc[w].pc = "idle" /\ \A u \in Workers \ {w} : proc'[u] = proc[u]
  BY <1>1 DEF BeginRecovery
<1>6. proc'[w].pc = "reaping" /\ proc'[w].todo = todo
  <2> HIDE DEF todo
  <2> QED BY <1>4 DEF Idle
<1>7. \A q \in Runs, a \in Attempts : <<q, a>> \in todo => LeaseLapsed(q) OBVIOUS
<1> HIDE DEF todo
<1> QED BY <1>3, <1>5, <1>6, <1>7

(* What the reaping of one row does.                                       *)
LEMMA ReapBegins ==
    ASSUME LeaseInv, NEW w \in Workers, NEW r \in Runs, NEW a \in Attempts, Reap(w, r, a)
    PROVE  /\ proc[w].pc = "reaping" /\ <<r, a>> \in proc[w].todo
           /\ proc'[w].pc = "requeueing" /\ proc'[w].run = r /\ proc'[w].attempt = a
           /\ proc'[w].todo = proc[w].todo \ {<<r, a>>}
           /\ \A u \in Workers \ {w} : proc'[u] = proc[u]
<1>1. proc[w] \in Proc /\ proc[w].pc = "reaping" /\ <<r, a>> \in proc[w].todo
  BY DEF LeaseInv, TypeInv, TypeOK, Reap
<1>2. proc'[w] = [proc[w] EXCEPT !.pc = "requeueing", !.run = r, !.attempt = a,
                                 !.todo = @ \ {<<r, a>>}]
  BY DEF LeaseInv, TypeInv, TypeOK, Reap
<1>3. \A u \in Workers \ {w} : proc'[u] = proc[u]
  BY DEF LeaseInv, TypeInv, TypeOK, Reap
<1> QED BY <1>1, <1>2, <1>3 DEF Proc

(* A claim, a heartbeat and the steps of a recovery that settle nothing.   *)
LEMMA AuditRunning ==
    ASSUME AuditInv, [Next]_vars, NEW w \in Workers,
           \/ \E r \in Runs : Claim(w, r)
           \/ Heartbeat(w) \/ BeginRecovery(w) \/ EndRecovery(w)
           \/ \E r \in Runs, a \in Attempts : Reap(w, r, a)
    PROVE  AuditedOnce' /\ AuditingOnce'
<1>1. proc \in [Workers -> Proc] /\ row \in [Runs -> Row]
  BY DEF AuditInv, LeaseInv, TypeInv, TypeOK
<1>2. audits' = audits BY DEF Claim, Heartbeat, BeginRecovery, EndRecovery, Reap
<1>3. \A r \in Runs : row'[r].status = row[r].status \/ row'[r].status = "running"
  <2>1. CASE \E r \in Runs : Claim(w, r) BY <2>1, ClaimBegins DEF AuditInv
  <2>2. CASE Heartbeat(w)
    <3>1. row' = row \/ row' = [row EXCEPT ![proc[w].run].leaseExpired = FALSE]
      BY <2>2 DEF Heartbeat
    <3> QED BY <1>1, <3>1 DEF Row
  <2>3. CASE BeginRecovery(w) BY <2>3, RecoveryBegins DEF AuditInv
  <2>4. CASE EndRecovery(w) \/ \E r \in Runs, a \in Attempts : Reap(w, r, a)
    BY <2>4 DEF EndRecovery, Reap
  <2> QED BY <2>1, <2>2, <2>3, <2>4
<1>4. proc[w].pc \notin {"auditing", "down"}
  BY DEF Claim, Heartbeat, HeartbeatPCs, BeginRecovery, EndRecovery, Reap
<1>5. \A u \in Workers \ {w} : proc'[u] = proc[u]
  <2>1. CASE \E r \in Runs : Claim(w, r) BY <2>1, ClaimBegins DEF AuditInv
  <2>2. CASE Heartbeat(w) \/ EndRecovery(w) BY <1>1, <2>2 DEF Heartbeat, EndRecovery
  <2>3. CASE BeginRecovery(w) BY <2>3, RecoveryBegins DEF AuditInv
  <2>4. CASE \E r \in Runs, a \in Attempts : Reap(w, r, a) BY <2>4, ReapBegins DEF AuditInv
  <2> QED BY <2>1, <2>2, <2>3, <2>4
<1>6. proc'[w].pc # "auditing"
  <2>1. CASE \E r \in Runs : Claim(w, r) BY <2>1, ClaimBegins DEF AuditInv
  <2>2. CASE Heartbeat(w)
    <3>1. \/ proc' = [proc EXCEPT ![w].cancelled = @ \/ row[proc[w].run].cancelRequested]
          \/ proc' = [proc EXCEPT ![w].lost = TRUE]
      BY <2>2 DEF Heartbeat
    <3>2. proc'[w].pc = proc[w].pc BY <1>1, <3>1 DEF Proc
    <3> QED BY <1>4, <3>2
  <2>3. CASE BeginRecovery(w) \/ EndRecovery(w)
    BY <1>1, <2>3, RecoveryBegins DEF EndRecovery, Idle, AuditInv
  <2>4. CASE \E r \in Runs, a \in Attempts : Reap(w, r, a) BY <2>4, ReapBegins DEF AuditInv
  <2> QED BY <2>1, <2>2, <2>3, <2>4
<1>7. \A u \in Workers : SameAudit(u) BY <1>4, <1>5, <1>6, OneMoves DEF AuditInv
<1> QED BY <1>2, <1>3, <1>7, AuditQuiet DEF Settled

(* A crash may leave an event missing for good.                            *)
LEMMA AuditCrash ==
    ASSUME AuditInv, [Next]_vars, NEW w \in Workers, Crash(w)
    PROVE  AuditedOnce' /\ AuditingOnce'
<1>1. proc \in [Workers -> Proc] BY DEF AuditInv, LeaseInv, TypeInv, TypeOK
<1>2. proc'[w] = [Idle EXCEPT !.pc = "down", !.run = proc[w].run]
  BY <1>1 DEF Crash
<1>3. proc'[w].pc = "down" /\ proc'[w].run = proc[w].run BY <1>2 DEF Idle
<1>4. \A u \in Workers : SameAudit(u) BY <1>1, <1>3 DEF Crash, SameAudit
<1> QED BY <1>4, AuditQuiet DEF Crash

(* A commit writes the outcome and its event in one transaction.           *)
LEMMA AuditCommit ==
    ASSUME AuditInv, [Next]_vars, NEW w \in Workers, NEW v \in Verdicts, Commit(w, v)
    PROVE  AuditedOnce' /\ AuditingOnce'
<1> DEFINE r == proc[w].run
<1>1. /\ proc \in [Workers -> Proc] /\ row \in [Runs -> Row]
      /\ r \in Runs /\ proc[w].pc = "committing"
  BY DEF AuditInv, LeaseInv, TypeInv, TypeOK, BusyHasRun, Commit
<1>2. row[r].status = "running" /\ row'[r].status = "completed"
  BY <1>1 DEF Commit, MayCommit, Owns, Row
<1>3. \A q \in Runs \ {r} : row'[q].status = row[q].status BY <1>1 DEF Commit
<1>4. proc'[w].pc # "auditing" /\ \A u \in Workers \ {w} : proc'[u] = proc[u]
  BY <1>1 DEF Commit, Step, FailurePC, Idle, Proc
<1>5. \A u \in Workers : SameAudit(u) BY <1>1, <1>4, OneMoves DEF AuditInv
<1>6. ~Over(r) /\ row'[r].status \in Settled BY <1>2 DEF Over, Settled
<1>7. audits' = [audits EXCEPT ![r] = @ + 1] BY DEF Commit
<1> QED BY <1>1, <1>3, <1>5, <1>6, <1>7, AuditSettle

(* The outcome of a failed attempt, likewise; a requeued run has none.     *)
LEMMA AuditRecordFailure ==
    ASSUME AuditInv, [Next]_vars, NEW w \in Workers, RecordFailure(w)
    PROVE  AuditedOnce' /\ AuditingOnce'
<1> DEFINE r == proc[w].run
           status == StatusAfter(proc[w].attempt, proc[w].cancelled \/ row[r].cancelRequested)
<1>1. /\ proc \in [Workers -> Proc] /\ row \in [Runs -> Row]
      /\ r \in Runs /\ proc[w].pc = "recording"
  BY DEF AuditInv, LeaseInv, TypeInv, TypeOK, BusyHasRun, RecordFailure
<1>2. proc'[w].pc # "auditing" /\ \A u \in Workers \ {w} : proc'[u] = proc[u]
  BY <1>1 DEF RecordFailure, Idle
<1>3. \A u \in Workers : SameAudit(u) BY <1>1, <1>2, OneMoves DEF AuditInv
<1>4. CASE ~Owns(w) BY <1>3, <1>4, AuditQuiet DEF RecordFailure
<1>5. CASE Owns(w)
  <2>1. row' = Released(r, status) BY <1>5 DEF RecordFailure
  <2>2. status \in {"queued", "failed", "cancelled"} BY StatusAfterTyped
  <2>3. audits' = IF status = "queued" THEN audits ELSE [audits EXCEPT ![r] = @ + 1]
    BY <1>5 DEF RecordFailure
  <2>4. row[r].status = "running" BY <1>5 DEF Owns
  <2> HIDE DEF status, r
  <2>5. row'[r].status = status /\ \A q \in Runs \ {r} : row'[q] = row[q]
    BY <1>1, <2>1 DEF Released, Row
  <2>6. CASE status = "queued" BY <1>3, <2>3, <2>5, <2>6, AuditQuiet DEF Settled
  <2>7. CASE status # "queued"
    <3>1. ~Over(r) /\ row'[r].status \in Settled BY <2>2, <2>4, <2>5, <2>7 DEF Over, Settled
    <3> QED BY <1>1, <1>3, <2>3, <2>5, <2>7, <3>1, AuditSettle
  <2> QED BY <2>6, <2>7
<1> QED BY <1>4, <1>5

(* A reaper settles a run, and has then to write the event.                *)
LEMMA AuditRequeue ==
    ASSUME AuditInv, [Next]_vars, NEW w \in Workers, Requeue(w)
    PROVE  AuditedOnce' /\ AuditingOnce'
<1> DEFINE r == proc[w].run
           status == StatusAfter(proc[w].attempt, row[r].cancelRequested)
<1>1. /\ proc \in [Workers -> Proc] /\ row \in [Runs -> Row]
      /\ r \in Runs /\ proc[w].pc = "requeueing"
  BY DEF AuditInv, LeaseInv, TypeInv, TypeOK, BusyHasRun, Requeue
<1>2. audits' = audits /\ \A u \in Workers \ {w} : proc'[u] = proc[u]
  BY <1>1 DEF Requeue, Step
<1>3. CASE ~HoldsForRecovery(w)
  <2>1. row' = row /\ Step(w, "reaping") BY <1>3 DEF Requeue
  <2>2. proc'[w].pc = "reaping" BY <1>1, <2>1 DEF Step, Proc
  <2>3. \A u \in Workers : SameAudit(u) BY <1>1, <1>2, <2>2, OneMoves DEF AuditInv
  <2> QED BY <1>2, <2>1, <2>3, AuditQuiet
<1>4. CASE HoldsForRecovery(w)
  <2>1. row' = Released(r, status) /\ Step(w, IF status = "queued" THEN "reaping" ELSE "auditing")
    BY <1>4 DEF Requeue
  <2>2. status \in {"queued", "failed", "cancelled"} BY StatusAfterTyped
  <2>3. row[r].status = "running" BY <1>4 DEF HoldsForRecovery
  <2>4. proc'[w].run = r BY <1>1, <2>1 DEF Step, Proc
  <2>5. proc'[w].pc = IF status = "queued" THEN "reaping" ELSE "auditing"
    BY <1>1, <2>1 DEF Step, Proc
  <2> HIDE DEF status, r
  <2>6. row'[r].status = status /\ \A q \in Runs \ {r} : row'[q] = row[q]
    BY <1>1, <2>1 DEF Released, Row
  <2>7. CASE status = "queued"
    <3>1. \A u \in Workers : SameAudit(u) BY <1>1, <1>2, <2>5, <2>7, OneMoves DEF AuditInv
    <3> QED BY <1>2, <2>6, <2>7, <3>1, AuditQuiet DEF Settled
  <2>8. CASE status # "queued"
    <3>1. proc'[w].pc = "auditing" /\ row'[r].status \in Settled
      BY <2>2, <2>5, <2>6, <2>8 DEF Settled
    <3>2. ~Over(r) /\ audits[r] = 0 BY <1>1, <2>3 DEF Over, Settled, AuditInv, AuditedOnce
    <3>3. \A q \in Runs : Over(q) => row'[q].status \in Settled \cup {"purged"}
      BY <2>6, <3>1 DEF Over
    <3>4. AuditedOnce'
      <4>1. \A q \in Runs : (row'[q].status \in Settled /\ audits'[q] = 0) =>
               \E u \in Workers : proc'[u].run = q /\ proc'[u].pc \in {"auditing", "down"}
        <5> SUFFICES ASSUME NEW q \in Runs, row'[q].status \in Settled, audits'[q] = 0
                     PROVE  \E u \in Workers :
                               proc'[u].run = q /\ proc'[u].pc \in {"auditing", "down"}
          OBVIOUS
        <5>1. CASE q = r BY <2>4, <3>1, <5>1
        <5>2. CASE q # r
          <6>1. row[q].status \in Settled /\ audits[q] = 0 BY <1>2, <2>6, <5>2
          <6>2. PICK u \in Workers : proc[u].run = q /\ proc[u].pc \in {"auditing", "down"}
            BY <6>1 DEF AuditInv, AuditedOnce
          <6> QED BY <1>1, <1>2, <6>2
        <5> QED BY <5>1, <5>2
      <4> QED BY <1>2, <3>3, <4>1 DEF AuditInv, AuditedOnce, Over
    <3>5. \A u \in Workers : proc[u].pc = "auditing" => proc[u].run \in Runs /\ proc[u].run # r
      BY <3>2 DEF AuditInv, AuditingOnce, LeaseInv, TypeInv, BusyHasRun
    <3>6. \A u \in Workers \ {w} : proc'[u].pc = "auditing" =>
             /\ proc'[u].run \in Runs /\ proc'[u].run # r /\ proc[u].pc = "auditing"
             /\ row'[proc'[u].run].status \in Settled \cup {"purged"} /\ audits'[proc'[u].run] = 0
      BY <1>2, <3>3, <3>5 DEF AuditInv, AuditingOnce
    <3>7. \A u \in Workers : proc'[u].pc = "auditing" =>
             /\ row'[proc'[u].run].status \in Settled \cup {"purged"} /\ audits'[proc'[u].run] = 0
      BY <1>2, <2>4, <3>1, <3>2, <3>6
    <3>8. \A u, v \in Workers :
             (proc'[u].pc = "auditing" /\ proc'[v].pc = "auditing" /\ proc'[u].run = proc'[v].run)
                => u = v
      BY <1>2, <2>4, <3>6 DEF AuditInv, AuditingOnce
    <3> QED BY <3>4, <3>7, <3>8 DEF AuditingOnce, Over
  <2> QED BY <2>7, <2>8
<1> QED BY <1>3, <1>4

(* ... and writes it once, whatever happened to the row since.             *)
LEMMA AuditAuditRecovery ==
    ASSUME AuditInv, [Next]_vars, NEW w \in Workers, AuditRecovery(w)
    PROVE  AuditedOnce' /\ AuditingOnce'
<1> DEFINE r == proc[w].run
<1>1. /\ proc \in [Workers -> Proc] /\ audits \in [Runs -> Nat]
      /\ r \in Runs /\ proc[w].pc = "auditing"
  BY DEF AuditInv, LeaseInv, TypeInv, TypeOK, BusyHasRun, AuditRecovery
<1>2. Over(r) /\ audits[r] = 0 BY <1>1 DEF AuditInv, AuditingOnce
<1>3. proc'[w].pc = "reaping" /\ \A u \in Workers \ {w} : proc'[u] = proc[u]
  BY <1>1 DEF AuditRecovery, Step, Proc
<1>4. row' = row /\ audits' = [audits EXCEPT ![r] = @ + 1] BY DEF AuditRecovery
<1> HIDE DEF r
<1>5. audits'[r] = 1 /\ \A q \in Runs \ {r} : audits'[q] = audits[q] BY <1>1, <1>2, <1>4
<1>6. AuditedOnce'
  <2> SUFFICES ASSUME NEW q \in Runs \ {r}
               PROVE  /\ audits'[q] \in {0, 1}
                      /\ audits'[q] = 1 => row'[q].status \in Settled \cup {"purged"}
                      /\ (row'[q].status \in Settled /\ audits'[q] = 0) =>
                            \E u \in Workers : proc'[u].run = q /\ proc'[u].pc \in {"auditing", "down"}
    BY <1>2, <1>4, <1>5 DEF AuditedOnce, Over
  <2>1. ASSUME row[q].status \in Settled, audits[q] = 0
        PROVE  \E u \in Workers : proc'[u].run = q /\ proc'[u].pc \in {"auditing", "down"}
    <3>1. PICK u \in Workers : proc[u].run = q /\ proc[u].pc \in {"auditing", "down"}
      BY <2>1 DEF AuditInv, AuditedOnce
    <3>2. u # w BY <3>1 DEF r
    <3> QED BY <1>3, <3>1, <3>2
  <2> QED BY <1>4, <1>5, <2>1 DEF AuditInv, AuditedOnce
<1>7. AuditingOnce'
  <2>1. \A u \in Workers : proc'[u].pc = "auditing" => u # w /\ proc[u] = proc'[u]
    BY <1>3
  <2>2. \A u \in Workers : proc'[u].pc = "auditing" => proc[u].run \in Runs \ {r}
    BY <1>1, <2>1 DEF AuditInv, AuditingOnce, LeaseInv, TypeInv, BusyHasRun, r
  <2> QED BY <1>4, <1>5, <2>1, <2>2 DEF AuditInv, AuditingOnce, Over
<1> QED BY <1>6, <1>7

(* No run has an event, and nobody is about to write one, initially.       *)
LEMMA AuditInit == Init => AuditInv
<1> SUFFICES ASSUME Init PROVE AuditInv
  OBVIOUS
<1>1. LeaseInv BY LeaseInit
<1>2. \A r \in Runs : audits[r] = 0 /\ row[r].status = "absent" BY DEF Init, NoRow
<1>3. \A w \in Workers : proc[w].pc = "idle" BY DEF Init, Idle
<1> QED BY <1>1, <1>2, <1>3 DEF AuditInv, AuditedOnce, AuditingOnce, Settled

(* Every step keeps the audit.                                             *)
LEMMA AuditNext == AuditInv /\ [Next]_vars => AuditInv'
<1> SUFFICES ASSUME AuditInv, [Next]_vars PROVE AuditedOnce' /\ AuditingOnce'
  BY LeaseNext DEF AuditInv
<1>1. CASE UNCHANGED vars
  <2>1. row' = row /\ proc' = proc /\ audits' = audits BY <1>1 DEF vars
  <2>2. \A w \in Workers : SameAudit(w) BY <2>1 DEF SameAudit
  <2> QED BY <2>1, <2>2, AuditQuiet
<1>2. CASE \/ \E r \in Runs : Submit(r) \/ Cancel(r) \/ LeaseExpires(r) \/ RetentionExpires(r)
           \/ MaintenanceStep \/ SweepFails
  BY <1>2, AuditApi
<1>3. CASE \E w \in Workers : WorkerStep(w)
  <2>1. PICK w \in Workers : WorkerStep(w) BY <1>3
  <2>2. CASE (\E r \in Runs : Claim(w, r)) \/ (\E v \in Verdicts : Commit(w, v)) \/ RecordFailure(w)
    BY <2>2, AuditRunning, AuditCommit, AuditRecordFailure
  <2>3. CASE ~((\E r \in Runs : Claim(w, r)) \/ (\E v \in Verdicts : Commit(w, v)) \/ RecordFailure(w))
    BY <2>1, <2>3, AuditJob DEF WorkerStep
  <2> QED BY <2>2, <2>3
<1>4. CASE \E w \in Workers : RecoveryStep(w) \/ Heartbeat(w) \/ KillContainer(w) \/ Crash(w)
  BY <1>4, AuditRunning, AuditJob, AuditCrash, AuditRequeue, AuditAuditRecovery DEF RecoveryStep
<1> QED BY <1>1, <1>2, <1>3, <1>4 DEF Next

(* The audit is kept in every reachable state.                             *)
THEOREM AuditInvariant == Spec => []AuditInv
<1> QED BY AuditInit, AuditNext, PTL DEF Spec

(* However workers and reapers take over from each other, a run has at     *)
(* most one final audit event, only after it ended, and a settled run      *)
(* without one has a reaper that is about to write it or died before it    *)
(* could (recordSuccessfulRun, recordFailedRun, recoverExpiredRuns and the *)
(* cancel route).                                                          *)
THEOREM AuditTheorem == Spec => []AuditedOnce
<1>1. AuditInv => AuditedOnce BY DEF AuditInv
<1> QED BY <1>1, AuditInvariant, PTL

-----------------------------------------------------------------------------
(* Who holds what, when no live worker is late for its lease: then nobody  *)
(* loses a row he works on, except to his own commit.                      *)

Committed(r) == row[r].status \in {"completed", "purged"}

(* The last steps of a failed attempt, which follow a commit whose answer  *)
(* was lost.                                                               *)
EndingPCs == {"checking", "discarding", "recording"}

(* A job owns its row until it has committed it.                           *)
JobHolds(w) ==
    /\ proc[w].pc \in JobPCs =>
          Owns(w) \/ (proc[w].pc \in EndingPCs /\ Committed(proc[w].run))
    /\ proc[w].pc = "releasing" => Committed(proc[w].run)

(* A recovery holds every row it still has to do.                          *)
RecoveryHolds(w) ==
    proc[w].pc \in RecoveryPCs =>
        /\ \A r \in Runs, a \in Attempts : <<r, a>> \in proc[w].todo => row[r].holder = ReaperId(w)
        /\ proc[w].pc = "requeueing" => row[proc[w].run].holder = ReaperId(w)

(* A lease runs out only under a worker or a reaper that is dead.          *)
LapseMeansDeath(r) ==
    LeaseLapsed(r) =>
        \E w \in Workers : row[r].holder \in {w, ReaperId(w)} /\ proc[w].pc = "down"

HoldInv ==
    /\ \A w \in Workers : JobHolds(w) /\ RecoveryHolds(w)
    /\ \A r \in Runs : LapseMeansDeath(r)

(* Steps that change no lease ...                                          *)
LeaseKept(r) ==
    /\ row'[r].holder = row[r].holder
    /\ LeaseLapsed(r)' => LeaseLapsed(r)
    /\ row[r].status = "running" => row'[r].status = "running"
    /\ Committed(r) => Committed(r)'

(* ... and at which a worker goes on with the row it has, ends or dies.    *)
WorkKept(w) ==
    \/ proc'[w] = proc[w]
    \/ proc[w].pc # "down" /\ proc'[w].pc \in {"idle", "down"}
    \/ /\ proc[w].pc \in JobPCs /\ proc'[w].pc \in JobPCs /\ proc'[w].run = proc[w].run
       /\ proc[w].pc \in EndingPCs => Owns(w) \/ proc'[w].pc \in EndingPCs
    \/ /\ proc[w].pc \in RecoveryPCs /\ proc'[w].pc \in RecoveryPCs
       /\ proc'[w].todo \subseteq proc[w].todo
       /\ proc'[w].pc = "requeueing" =>
             \E a \in Attempts : <<proc'[w].run, a>> \in proc[w].todo

(* Such steps keep who holds what.                                         *)
LEMMA HoldQuiet ==
    ASSUME LeaseInv, HoldInv,
           \A r \in Runs : LeaseKept(r), \A w \in Workers : WorkKept(w)
    PROVE  HoldInv'
<1>1. ASSUME NEW w \in Workers PROVE JobHolds(w)'
  <2>1. CASE proc'[w] = proc[w] \/ /\ proc[w].pc \in JobPCs /\ proc'[w].pc \in JobPCs
                                   /\ proc'[w].run = proc[w].run
                                   /\ proc[w].pc \in EndingPCs => Owns(w) \/ proc'[w].pc \in EndingPCs
    <3>1. proc'[w].pc \in JobPCs \cup {"releasing"} => proc[w].run \in Runs /\ proc'[w].run = proc[w].run
      BY <2>1, PCNames DEF LeaseInv, TypeInv, BusyHasRun
    <3> QED BY <2>1, <3>1, PCNames DEF HoldInv, JobHolds, LeaseKept, Owns
  <2>2. CASE proc'[w].pc \in {"idle", "down"} \cup RecoveryPCs
    BY <2>2, PCNames DEF JobHolds, RecoveryPCs
  <2> QED BY <2>1, <2>2 DEF WorkKept
<1>2. ASSUME NEW w \in Workers PROVE RecoveryHolds(w)'
  <2>1. CASE proc'[w] = proc[w]
    <3>1. proc[w].pc = "requeueing" => proc[w].run \in Runs
      BY DEF LeaseInv, TypeInv, BusyHasRun
    <3> QED BY <2>1, <3>1 DEF HoldInv, RecoveryHolds, LeaseKept
  <2>2. CASE proc'[w].pc \notin RecoveryPCs BY <2>2 DEF RecoveryHolds
  <2>3. CASE /\ proc[w].pc \in RecoveryPCs /\ proc'[w].todo \subseteq proc[w].todo
             /\ proc'[w].pc = "requeueing" =>
                   \E a \in Attempts : <<proc'[w].run, a>> \in proc[w].todo
    <3>1. proc[w].todo \subseteq Runs \X Attempts BY DEF LeaseInv, TypeInv, TypeOK, Proc
    <3> QED BY <2>3, <3>1 DEF HoldInv, RecoveryHolds, LeaseKept
  <2> QED BY <2>1, <2>2, <2>3, PCNames DEF WorkKept, RecoveryPCs
<1>3. ASSUME NEW r \in Runs PROVE LapseMeansDeath(r)'
  <2>1. \A w \in Workers : proc[w].pc = "down" => proc'[w] = proc[w]
    BY PCNames DEF WorkKept, RecoveryPCs
  <2>2. row'[r].holder = row[r].holder /\ (LeaseLapsed(r)' => LeaseLapsed(r)) BY DEF LeaseKept
  <2> QED BY <2>1, <2>2 DEF HoldInv, LapseMeansDeath
<1> QED BY <1>1, <1>2, <1>3 DEF HoldInv

(* Rows that did not change, or only in what has nothing to do with the    *)
(* lease.                                                                  *)
LEMMA SameRowsKept == row' = row => \A r \in Runs : LeaseKept(r)
  BY DEF LeaseKept, LeaseLapsed, Committed

(* Steps of the API, of the clock and of the maintenance.                  *)
LEMMA HoldApi ==
    ASSUME LeaseInv, HoldInv,
           \/ \E r \in Runs : Submit(r) \/ Cancel(r) \/ RetentionExpires(r)
           \/ MaintenanceStep \/ SweepFails
    PROVE  HoldInv'
<1>1. row \in [Runs -> Row] BY DEF LeaseInv, TypeInv, TypeOK
<1>2. proc' = proc
  BY DEF Submit, Cancel, RetentionExpires, MaintenanceStep, PurgeRows, SweepStore, SweepLocal,
     Dequeue, SweepFails
<1>3. \A w \in Workers : WorkKept(w) BY <1>2 DEF WorkKept
<1>4. CASE \E r \in Runs : Submit(r) \/ Cancel(r) \/ RetentionExpires(r)
  <2>1. PICK r \in Runs : Submit(r) \/ Cancel(r) \/ RetentionExpires(r) BY <1>4
  <2>2. \A q \in Runs \ {r} : row'[q] = row[q]
    BY <1>1, <2>1 DEF Submit, Cancel, RetentionExpires
  <2>3. /\ row'[r].holder = row[r].holder /\ row'[r].leaseExpired = row[r].leaseExpired
        /\ \/ row'[r].status = row[r].status
           \/ row[r].status \in {"absent", "queued"} /\ row'[r].status \in {"queued", "cancelled"}
    BY <1>1, <2>1 DEF Submit, Cancel, RetentionExpires, Row
  <2>4. LeaseKept(r) BY <2>3 DEF LeaseKept, LeaseLapsed, Committed
  <2>5. \A q \in Runs : LeaseKept(q) BY <2>2, <2>4 DEF LeaseKept, LeaseLapsed, Committed
  <2> QED BY <1>3, <2>5, HoldQuiet
<1>5. CASE PurgeRows
  <2>1. \A q \in Runs : row'[q] = IF Purgeable(q) THEN [NoRow EXCEPT !.status = "purged"] ELSE row[q]
    BY <1>5 DEF PurgeRows
  <2>2. \A q \in Runs : ~Purgeable(q) => LeaseKept(q)
    BY <2>1 DEF LeaseKept, LeaseLapsed, Committed
  <2>3. ASSUME NEW q \in Runs, Purgeable(q) PROVE LeaseKept(q)
    <3>1. row[q].status # "running" BY <2>3 DEF Purgeable, Settled
    <3>2. row[q].holder = NoWorker
      BY <3>1 DEF LeaseInv, LeaseProtocol, NoForgottenLease
    <3>3. row'[q].status = "purged" /\ row'[q].holder = NoWorker BY <2>1, <2>3 DEF NoRow
    <3> QED BY <3>1, <3>2, <3>3 DEF LeaseKept, LeaseLapsed, Committed
  <2> QED BY <1>3, <2>2, <2>3, HoldQuiet
<1>6. CASE (\E r \in Runs : SweepStore(r) \/ SweepLocal(r)) \/ Dequeue \/ SweepFails
  <2>1. row' = row BY <1>6 DEF SweepStore, SweepLocal, Dequeue, SweepFails
  <2> QED BY <1>3, <2>1, SameRowsKept, HoldQuiet
<1> QED BY <1>4, <1>5, <1>6 DEF MaintenanceStep

(* A worker does what it does alone.                                       *)
LEMMA JobMovesOne ==
    ASSUME LeaseInv, NEW w \in Workers,
           \/ Launch(w) \/ Throw(w) \/ SeeMarker(w) \/ Export(w) \/ ClearDestination(w)
           \/ Rename(w) \/ Hash(w) \/ CleanUp(w) \/ (\E o \in Objects : UploadObject(w, o))
           \/ UploadFails(w) \/ CommitFails(w) \/ CheckOwnership(w) \/ PurgeRemote(w)
           \/ Discard(w) \/ KillContainer(w)
    PROVE  /\ row' = row /\ audits' = audits
           /\ \A u \in Workers \ {w} : proc'[u] = proc[u]
           /\ proc[w].pc \in JobPCs /\ proc'[w].pc \in JobPCs
           /\ proc'[w].run = proc[w].run /\ proc'[w].attempt = proc[w].attempt
           /\ proc[w].pc \in EndingPCs => Owns(w) \/ proc'[w].pc \in EndingPCs
<1>1. proc \in [Workers -> Proc] BY DEF LeaseInv, TypeInv, TypeOK
<1>2. row' = row /\ audits' = audits
  BY DEF Launch, Throw, SeeMarker, Export, ClearDestination, Rename, Hash, CleanUp, UploadObject,
     UploadFails, CommitFails, CheckOwnership, PurgeRemote, Discard, KillContainer
<1>3. \A u \in Workers \ {w} : proc'[u] = proc[u]
  BY <1>1 DEF Launch, Throw, SeeMarker, Export, ClearDestination, Rename, Hash, CleanUp, UploadObject,
     UploadFails, CommitFails, CheckOwnership, PurgeRemote, Discard, KillContainer, Step
<1>4. proc[w].pc \in JobPCs
  BY PCNames DEF Launch, Throw, SeeMarker, Export, ClearDestination, Rename, Hash, CleanUp,
     UploadObject, UploadFails, CommitFails, CheckOwnership, PurgeRemote, Discard, KillContainer,
     HeartbeatPCs
<1>5. /\ proc'[w].run = proc[w].run /\ proc'[w].attempt = proc[w].attempt
      /\ proc'[w].pc \in JobPCs
      /\ proc[w].pc \in EndingPCs => Owns(w) \/ proc'[w].pc \in EndingPCs
  <2>1. CASE Launch(w) \/ Throw(w) \/ SeeMarker(w) \/ Export(w) \/ ClearDestination(w)
           \/ Rename(w) \/ Hash(w)
    <3>1. /\ proc'[w].run = proc[w].run /\ proc'[w].attempt = proc[w].attempt
          /\ proc'[w].pc \in {"waiting", "aborting", "exporting", "publishing", "renaming", "hashing", "cleaning"}
      BY <1>1, <2>1 DEF Launch, Throw, SeeMarker, Export, ClearDestination, Rename, Hash, Step, Proc
    <3>2. proc[w].pc \notin EndingPCs
      BY <2>1 DEF Launch, Throw, SeeMarker, Export, ClearDestination, Rename, Hash, HeartbeatPCs, EndingPCs
    <3> QED BY <3>1, <3>2, PCNames
  <2>2. CASE CleanUp(w) \/ UploadFails(w) \/ CommitFails(w)
    <3>1. /\ proc'[w].run = proc[w].run /\ proc'[w].attempt = proc[w].attempt
          /\ proc'[w].pc \in {"uploading", "committing", "checking", "discarding"}
      BY <1>1, <2>2 DEF CleanUp, UploadFails, CommitFails, Step, FailurePC, Proc
    <3>2. proc[w].pc \notin EndingPCs BY <2>2 DEF CleanUp, UploadFails, CommitFails, EndingPCs
    <3> QED BY <3>1, <3>2, PCNames
  <2>3. CASE CheckOwnership(w) \/ PurgeRemote(w) \/ Discard(w)
    <3>1. /\ proc'[w].run = proc[w].run /\ proc'[w].attempt = proc[w].attempt
          /\ proc'[w].pc \in {"purging", "discarding", "recording"}
          /\ proc'[w].pc = "purging" => Owns(w)
      BY <1>1, <2>3 DEF CheckOwnership, PurgeRemote, Discard, Step, Proc
    <3> QED BY <3>1, PCNames DEF EndingPCs
  <2>4. CASE KillContainer(w)
    <3>1. proc'[w].run = proc[w].run /\ proc'[w].attempt = proc[w].attempt /\ proc'[w].pc = proc[w].pc
      BY <1>1, <2>4 DEF KillContainer, Proc
    <3> QED BY <1>4, <3>1
  <2>5. CASE \E o \in Objects : UploadObject(w, o)
    <3>1. /\ proc'[w].run = proc[w].run /\ proc'[w].attempt = proc[w].attempt
          /\ proc'[w].pc \in {"uploading", "committing"} /\ proc[w].pc = "uploading"
      <4>1. PICK o \in Objects : UploadObject(w, o) BY <2>5
      <4> DEFINE uploaded == proc[w].uploaded \cup {o}
                 pc == IF uploaded = Objects THEN "committing" ELSE proc[w].pc
      <4>2. proc'[w] = [proc[w] EXCEPT !.uploaded = uploaded, !.pc = pc] /\ proc[w].pc = "uploading"
        BY <1>1, <4>1 DEF UploadObject
      <4>3. pc \in {"uploading", "committing"} BY <4>2
      <4>4. proc[w] \in Proc BY <1>1
      <4> HIDE DEF uploaded, pc
      <4> QED BY <4>2, <4>3, <4>4 DEF Proc
    <3> QED BY <3>1, PCNames DEF EndingPCs
  <2> QED BY <2>1, <2>2, <2>3, <2>4, <2>5
<1> QED BY <1>2, <1>3, <1>4, <1>5

(* A heartbeat renews a lease or changes a flag.                           *)
LEMMA HeartbeatBeats ==
    ASSUME LeaseInv, NEW w \in Workers, Heartbeat(w)
    PROVE  /\ proc[w].pc \in HeartbeatPCs /\ proc'[w].pc = proc[w].pc
           /\ proc'[w].run = proc[w].run /\ proc'[w].attempt = proc[w].attempt
           /\ proc'[w].inventory = proc[w].inventory /\ proc'[w].uploaded = proc[w].uploaded
           /\ \A u \in Workers \ {w} : proc'[u] = proc[u]
           /\ \A r \in Runs : LeaseKept(r) /\ row'[r].status = row[r].status
<1> DEFINE r == proc[w].run
           seen == proc[w].cancelled \/ row[r].cancelRequested
           p == [proc[w] EXCEPT !.cancelled = seen]
           q == [proc[w] EXCEPT !.lost = TRUE]
<1>1. /\ proc \in [Workers -> Proc] /\ row \in [Runs -> Row] /\ r \in Runs
      /\ proc[w].pc \in HeartbeatPCs
  BY DEF LeaseInv, TypeInv, TypeOK, BusyHasRun, Heartbeat, HeartbeatPCs
<1>2. (proc'[w] = p \/ proc'[w] = q) /\ \A u \in Workers \ {w} : proc'[u] = proc[u]
  BY <1>1 DEF Heartbeat
<1>3. /\ proc'[w].pc = proc[w].pc /\ proc'[w].run = r /\ proc'[w].attempt = proc[w].attempt
      /\ proc'[w].inventory = proc[w].inventory /\ proc'[w].uploaded = proc[w].uploaded
  <2>1. proc[w] \in Proc BY <1>1
  <2>2. /\ p.pc = proc[w].pc /\ p.run = r /\ p.attempt = proc[w].attempt
        /\ p.inventory = proc[w].inventory /\ p.uploaded = proc[w].uploaded
    BY <2>1 DEF Proc
  <2>3. /\ q.pc = proc[w].pc /\ q.run = r /\ q.attempt = proc[w].attempt
        /\ q.inventory = proc[w].inventory /\ q.uploaded = proc[w].uploaded
    BY <2>1 DEF Proc
  <2> HIDE DEF p, q
  <2> QED BY <1>2, <2>2, <2>3
<1>4. \/ row' = row
      \/ row[r].status = "running" /\ row' = [row EXCEPT ![r].leaseExpired = FALSE]
  BY DEF Heartbeat, Owns
<1> HIDE DEF r
<1>5. /\ row'[r].status = row[r].status /\ row'[r].holder = row[r].holder
      /\ row'[r].leaseExpired => row[r].leaseExpired
      /\ \A s \in Runs \ {r} : row'[s] = row[s]
  BY <1>1, <1>4 DEF Row
<1>6. \A s \in Runs : LeaseKept(s) /\ row'[s].status = row[s].status
  BY <1>5 DEF LeaseKept, LeaseLapsed, Committed
<1> QED BY <1>1, <1>2, <1>3, <1>6 DEF r

(* Steps of a job that take or give back no lease.                         *)
LEMMA HoldJob ==
    ASSUME LeaseInv, HoldInv, NEW w \in Workers,
           \/ Launch(w) \/ Throw(w) \/ SeeMarker(w) \/ Export(w) \/ ClearDestination(w)
           \/ Rename(w) \/ Hash(w) \/ CleanUp(w) \/ (\E o \in Objects : UploadObject(w, o))
           \/ UploadFails(w) \/ CommitFails(w) \/ CheckOwnership(w) \/ PurgeRemote(w)
           \/ Discard(w) \/ KillContainer(w) \/ Heartbeat(w) \/ Release(w) \/ Crash(w)
    PROVE  HoldInv'
<1>1. proc \in [Workers -> Proc] BY DEF LeaseInv, TypeInv, TypeOK
<1>2. CASE Heartbeat(w)
  <2>1. proc[w].pc \in JobPCs /\ proc[w].pc \notin EndingPCs
    BY <1>2, PCNames DEF Heartbeat, HeartbeatPCs, EndingPCs
  <2>2. \A u \in Workers : WorkKept(u) BY <1>2, <2>1, HeartbeatBeats DEF WorkKept
  <2> QED BY <1>2, <2>2, HeartbeatBeats, HoldQuiet
<1>3. CASE Release(w) \/ Crash(w)
  <2>1. row' = row BY <1>3 DEF Release, Crash
  <2>2. /\ \A u \in Workers \ {w} : proc'[u] = proc[u]
        /\ proc[w].pc # "down" /\ proc'[w].pc \in {"idle", "down"}
    <3>1. CASE Release(w) BY <1>1, <3>1 DEF Release, Idle
    <3>2. CASE Crash(w)
      <4>1. proc'[w] = [Idle EXCEPT !.pc = "down", !.run = proc[w].run] BY <1>1, <3>2 DEF Crash
      <4>2. proc'[w].pc = "down" BY <4>1 DEF Idle
      <4> QED BY <1>1, <3>2, <4>2 DEF Crash
    <3> QED BY <1>3, <3>1, <3>2
  <2>3. \A u \in Workers : WorkKept(u) BY <2>2 DEF WorkKept
  <2> QED BY <2>1, <2>3, SameRowsKept, HoldQuiet
<1>4. CASE ~(Heartbeat(w) \/ Release(w) \/ Crash(w))
  <2>1. \A u \in Workers : WorkKept(u) BY <1>4, JobMovesOne DEF WorkKept
  <2>2. row' = row BY <1>4, JobMovesOne
  <2> QED BY <2>1, <2>2, SameRowsKept, HoldQuiet
<1> QED BY <1>2, <1>3, <1>4

(* A lease runs out: its worker or reaper is dead.                         *)
LEMMA HoldLeaseExpires ==
    ASSUME Punctual = Workers, LeaseInv, HoldInv, NEW r \in Runs, LeaseExpires(r)
    PROVE  HoldInv'
<1>1. row \in [Runs -> Row] BY DEF LeaseInv, TypeInv, TypeOK
<1>2. /\ proc' = proc /\ row[r].status = "running"
      /\ row'[r].status = row[r].status /\ row'[r].holder = row[r].holder
      /\ \A q \in Runs \ {r} : row'[q] = row[q]
  BY <1>1 DEF LeaseExpires, Row
<1>3. \E w \in Workers : row[r].holder \in {w, ReaperId(w)} /\ proc[w].pc = "down"
  <2>1. row[r].holder # NoWorker BY <1>2 DEF LeaseInv, LeaseProtocol, NoForgottenLease
  <2>2. row[r].holder \in Workers \cup Reapers BY <1>1, <2>1 DEF Row
  <2> QED BY <2>2 DEF LeaseExpires, Reapers
<1>4. \A w \in Workers : proc[w].pc \notin {"idle", "reaping", "down"} => proc[w].run \in Runs
  BY DEF LeaseInv, TypeInv, BusyHasRun
<1>5. \A q \in Runs : row'[q].status = row[q].status /\ row'[q].holder = row[q].holder
  BY <1>2
<1>6. \A w \in Workers : JobHolds(w)' BY <1>2, <1>4, <1>5, PCNames DEF HoldInv, JobHolds, Owns, Committed
<1>7. \A w \in Workers : RecoveryHolds(w)' BY <1>2, <1>4, <1>5 DEF HoldInv, RecoveryHolds
<1>8. \A q \in Runs : LapseMeansDeath(q)'
  BY <1>2, <1>3 DEF HoldInv, LapseMeansDeath, LeaseLapsed
<1> QED BY <1>6, <1>7, <1>8 DEF HoldInv

(* A claim takes a row that nobody has.                                    *)
LEMMA HoldClaim ==
    ASSUME LeaseInv, HoldInv, NEW w \in Workers, NEW r \in Runs, Claim(w, r)
    PROVE  HoldInv'
<1>1. /\ proc[w].pc = "idle" /\ row[r].status = "queued"
      /\ proc'[w].pc = "launching" /\ proc'[w].run = r
      /\ \A u \in Workers \ {w} : proc'[u] = proc[u]
      /\ row'[r].status = "running" /\ row'[r].holder = w /\ ~row'[r].leaseExpired
      /\ \A q \in Runs \ {r} : row'[q] = row[q]
  BY ClaimBegins
<1>2. row[r].holder = NoWorker BY <1>1 DEF LeaseInv, LeaseProtocol, NoForgottenLease
<1>3. ASSUME NEW u \in Workers \ {w} PROVE JobHolds(u)'
  <2>1. proc[u].pc \in JobPCs \cup {"releasing"} => proc[u].run \in Runs \ {r}
    BY <1>1, PCNames DEF HoldInv, JobHolds, Owns, Committed, LeaseInv, TypeInv, BusyHasRun
  <2> QED BY <1>1, <2>1 DEF HoldInv, JobHolds, Owns, Committed
<1>4. ASSUME NEW u \in Workers \ {w} PROVE RecoveryHolds(u)'
  <2>1. row[r].holder # ReaperId(u) BY <1>2, HoldersDiffer
  <2>2. proc[u].pc = "requeueing" => proc[u].run \in Runs BY DEF LeaseInv, TypeInv, BusyHasRun
  <2> QED BY <1>1, <2>1, <2>2 DEF HoldInv, RecoveryHolds, RecoveryPCs
<1>5. JobHolds(w)' /\ RecoveryHolds(w)'
  <2>1. Owns(w)' BY <1>1 DEF Owns
  <2>2. JobHolds(w)' BY <1>1, <2>1 DEF JobHolds
  <2>3. RecoveryHolds(w)' BY <1>1 DEF RecoveryHolds, RecoveryPCs
  <2> QED BY <2>2, <2>3
<1>6. \A q \in Runs : LapseMeansDeath(q)'
  BY <1>1 DEF HoldInv, LapseMeansDeath, LeaseLapsed
<1> QED BY <1>3, <1>4, <1>5, <1>6 DEF HoldInv

(* A row leaves the hands of the worker or reaper that had it, and is not  *)
(* running any more.                                                       *)
LEMMA HoldFreed ==
    ASSUME LeaseInv, HoldInv, NEW w \in Workers, NEW r \in Runs,
           row[r].status = "running", row[r].holder \in {w, ReaperId(w)},
           row'[r].status # "running", \A q \in Runs \ {r} : row'[q] = row[q],
           proc[w].pc # "down", \A u \in Workers \ {w} : proc'[u] = proc[u],
           JobHolds(w)', RecoveryHolds(w)'
    PROVE  HoldInv'
<1>1. ASSUME NEW u \in Workers \ {w} PROVE JobHolds(u)'
  <2>1. row[r].holder # u BY HoldersDiffer
  <2>2. proc[u].pc \in JobPCs \cup {"releasing"} => proc[u].run \in Runs \ {r}
    BY <2>1, PCNames DEF HoldInv, JobHolds, Owns, Committed, LeaseInv, TypeInv, BusyHasRun
  <2> QED BY <2>2 DEF HoldInv, JobHolds, Owns, Committed
<1>2. ASSUME NEW u \in Workers \ {w} PROVE RecoveryHolds(u)'
  <2>1. row[r].holder # ReaperId(u) BY HoldersDiffer
  <2>2. proc[u].pc = "requeueing" => proc[u].run \in Runs BY DEF LeaseInv, TypeInv, BusyHasRun
  <2> QED BY <2>1, <2>2 DEF HoldInv, RecoveryHolds, RecoveryPCs
<1>3. \A q \in Runs : LapseMeansDeath(q)' BY DEF HoldInv, LapseMeansDeath, LeaseLapsed
<1> QED BY <1>1, <1>2, <1>3 DEF HoldInv

(* A commit ends the holding of the row, and what is left of the job knows *)
(* only that it was committed.                                             *)
LEMMA CommitFrees ==
    ASSUME LeaseInv, NEW w \in Workers, NEW v \in Verdicts, Commit(w, v)
    PROVE  /\ proc[w].pc = "committing" /\ proc[w].run \in Runs /\ Owns(w)
           /\ row'[proc[w].run].status = "completed"
           /\ row'[proc[w].run].result = proc[w].attempt
           /\ row'[proc[w].run].inventory = proc[w].inventory
           /\ \A q \in Runs \ {proc[w].run} : row'[q] = row[q]
           /\ \A u \in Workers \ {w} : proc'[u] = proc[u]
           /\ \/ proc'[w].pc = "idle"
              \/ proc'[w].pc \in EndingPCs \cup {"releasing"} /\ proc'[w].run = proc[w].run
<1>1. /\ proc \in [Workers -> Proc] /\ row \in [Runs -> Row]
      /\ proc[w].run \in Runs /\ proc[w].pc = "committing" /\ Owns(w)
  BY DEF LeaseInv, TypeInv, TypeOK, BusyHasRun, Commit, MayCommit
<1>2. /\ row'[proc[w].run].status = "completed"
      /\ row'[proc[w].run].result = proc[w].attempt
      /\ row'[proc[w].run].inventory = proc[w].inventory
      /\ \A q \in Runs \ {proc[w].run} : row'[q] = row[q]
  <2>1. row[proc[w].run] \in Row BY <1>1
  <2> QED BY <1>1, <2>1 DEF Commit, Row
<1>3. \A u \in Workers \ {w} : proc'[u] = proc[u] BY <1>1 DEF Commit, Step
<1>4. \/ proc'[w].pc = "idle"
      \/ proc'[w].pc \in EndingPCs \cup {"releasing"} /\ proc'[w].run = proc[w].run
  <2>1. Step(w, "releasing") \/ Step(w, FailurePC) \/ proc' = [proc EXCEPT ![w] = Idle]
    BY DEF Commit
  <2>2. FailurePC \in EndingPCs BY DEF FailurePC, EndingPCs
  <2> QED BY <1>1, <2>1, <2>2 DEF Step, Idle, Proc
<1> QED BY <1>1, <1>2, <1>3, <1>4

(* The end of an attempt: its worker commits it or records its failure.    *)
LEMMA HoldEnd ==
    ASSUME LeaseInv, HoldInv, NEW w \in Workers,
           (\E v \in Verdicts : Commit(w, v)) \/ RecordFailure(w)
    PROVE  HoldInv'
<1> DEFINE r == proc[w].run
<1>1. proc \in [Workers -> Proc] /\ row \in [Runs -> Row]
  BY DEF LeaseInv, TypeInv, TypeOK
<1>2. CASE \E v \in Verdicts : Commit(w, v)
  <2>1. /\ proc[w].pc = "committing" /\ proc[w].run \in Runs /\ Owns(w)
        /\ row'[proc[w].run].status = "completed"
        /\ \A q \in Runs \ {proc[w].run} : row'[q] = row[q]
        /\ \A u \in Workers \ {w} : proc'[u] = proc[u]
        /\ \/ proc'[w].pc = "idle"
           \/ proc'[w].pc \in EndingPCs \cup {"releasing"} /\ proc'[w].run = proc[w].run
    BY <1>2, CommitFrees
  <2>2. JobHolds(w)' BY <2>1, PCNames DEF JobHolds, Committed
  <2>3. RecoveryHolds(w)' BY <2>1 DEF RecoveryHolds, RecoveryPCs, EndingPCs
  <2>4. row[r].status = "running" /\ row[r].holder = w BY <2>1 DEF Owns
  <2> HIDE DEF r
  <2> QED BY <2>1, <2>2, <2>3, <2>4, HoldFreed DEF r
<1>3. CASE RecordFailure(w)
  <2>1. /\ proc[w].pc = "recording" /\ r \in Runs /\ proc'[w].pc = "idle"
        /\ \A u \in Workers \ {w} : proc'[u] = proc[u]
    BY <1>1, <1>3 DEF RecordFailure, Idle, LeaseInv, TypeInv, BusyHasRun
  <2>2. CASE ~Owns(w)
    <3>1. row' = row BY <1>3, <2>2 DEF RecordFailure
    <3>2. \A u \in Workers : WorkKept(u) BY <2>1 DEF WorkKept
    <3> QED BY <3>1, <3>2, SameRowsKept, HoldQuiet
  <2>3. CASE Owns(w)
    <3> DEFINE status == StatusAfter(proc[w].attempt, proc[w].cancelled \/ row[r].cancelRequested)
    <3>1. row' = Released(r, status) BY <1>3, <2>3 DEF RecordFailure
    <3>2. status # "running" BY StatusAfterTyped
    <3>3. row[r].status = "running" /\ row[r].holder = w BY <2>3 DEF Owns
    <3>4. JobHolds(w)' /\ RecoveryHolds(w)'
      BY <2>1, PCNames DEF JobHolds, RecoveryHolds, RecoveryPCs
    <3> HIDE DEF r, status
    <3>5. row'[r].status = status /\ \A q \in Runs \ {r} : row'[q] = row[q]
      BY <1>1, <2>1, <3>1 DEF Released, Row
    <3> QED BY <2>1, <3>2, <3>3, <3>4, <3>5, HoldFreed
  <2> QED BY <2>2, <2>3
<1> QED BY <1>2, <1>3

(* A recovery takes rows whose holders are dead.                           *)
LEMMA HoldBeginRecovery ==
    ASSUME LeaseInv, HoldInv, NEW w \in Workers, BeginRecovery(w)
    PROVE  HoldInv'
<1>1. /\ proc[w].pc = "idle" /\ proc'[w].pc = "reaping"
      /\ \A u \in Workers \ {w} : proc'[u] = proc[u]
      /\ \A q \in Runs : row'[q].status = row[q].status
      /\ \A q \in Runs : LeaseLapsed(q) => row'[q].holder = ReaperId(w) /\ ~row'[q].leaseExpired
      /\ \A q \in Runs : ~LeaseLapsed(q) => row'[q] = row[q]
      /\ \A q \in Runs, a \in Attempts : <<q, a>> \in proc'[w].todo => LeaseLapsed(q)
  BY RecoveryBegins
<1>2. \A q \in Runs, u \in Workers :
         LeaseLapsed(q) /\ row[q].holder \in {u, ReaperId(u)} => proc[u].pc = "down"
  BY HoldersDiffer DEF HoldInv, LapseMeansDeath
<1>3. ASSUME NEW u \in Workers \ {w} PROVE JobHolds(u)'
  <2>1. proc[u].pc \in JobPCs \cup {"releasing"} => proc[u].run \in Runs
    BY PCNames DEF LeaseInv, TypeInv, BusyHasRun
  <2>2. proc[u].pc \in JobPCs /\ Owns(u) => ~LeaseLapsed(proc[u].run)
    BY <1>2, <2>1, PCNames DEF Owns
  <2> QED BY <1>1, <2>1, <2>2 DEF HoldInv, JobHolds, Owns, Committed
<1>4. ASSUME NEW u \in Workers \ {w} PROVE RecoveryHolds(u)'
  <2>1. proc[u].pc \in RecoveryPCs =>
           \A q \in Runs : row[q].holder = ReaperId(u) => row'[q] = row[q]
    BY <1>1, <1>2, PCNames DEF RecoveryPCs
  <2>2. proc[u].pc = "requeueing" => proc[u].run \in Runs BY DEF LeaseInv, TypeInv, BusyHasRun
  <2> QED BY <1>1, <2>1, <2>2 DEF HoldInv, RecoveryHolds
<1>5. JobHolds(w)' /\ RecoveryHolds(w)'
  BY <1>1, PCNames DEF JobHolds, RecoveryHolds
<1>6. \A q \in Runs : LapseMeansDeath(q)'
  BY <1>1 DEF HoldInv, LapseMeansDeath, LeaseLapsed
<1> QED BY <1>3, <1>4, <1>5, <1>6 DEF HoldInv

(* The other steps of a recovery.                                          *)
LEMMA HoldRecovery ==
    ASSUME LeaseInv, HoldInv, NEW w \in Workers,
           \/ \E r \in Runs, a \in Attempts : Reap(w, r, a)
           \/ Requeue(w) \/ AuditRecovery(w) \/ EndRecovery(w)
    PROVE  HoldInv'
<1>1. proc \in [Workers -> Proc] /\ row \in [Runs -> Row]
  BY DEF LeaseInv, TypeInv, TypeOK
<1>2. CASE \E r \in Runs, a \in Attempts : Reap(w, r, a)
  <2>1. PICK r \in Runs, a \in Attempts : Reap(w, r, a) BY <1>2
  <2>2. row' = row BY <2>1 DEF Reap
  <2>3. /\ proc[w].pc = "reaping" /\ <<r, a>> \in proc[w].todo
        /\ proc'[w].pc = "requeueing" /\ proc'[w].run = r
        /\ proc'[w].todo = proc[w].todo \ {<<r, a>>}
        /\ \A u \in Workers \ {w} : proc'[u] = proc[u]
    BY <2>1, ReapBegins
  <2>4. WorkKept(w) BY <2>3, PCNames DEF WorkKept
  <2>5. \A u \in Workers : WorkKept(u) BY <2>3, <2>4 DEF WorkKept
  <2> QED BY <2>2, <2>5, SameRowsKept, HoldQuiet
<1>3. CASE AuditRecovery(w) \/ EndRecovery(w)
  <2>1. row' = row /\ \A u \in Workers \ {w} : proc'[u] = proc[u]
    BY <1>1, <1>3 DEF AuditRecovery, EndRecovery, Step
  <2>2. \/ proc[w].pc # "down" /\ proc'[w].pc = "idle"
        \/ /\ proc[w].pc = "auditing" /\ proc'[w].pc = "reaping"
           /\ proc'[w].todo = proc[w].todo
    BY <1>1, <1>3 DEF AuditRecovery, EndRecovery, Step, Idle, Proc
  <2>3. WorkKept(w) BY <2>2, PCNames DEF WorkKept
  <2>4. \A u \in Workers : WorkKept(u) BY <2>1, <2>3 DEF WorkKept
  <2> QED BY <2>1, <2>4, SameRowsKept, HoldQuiet
<1>4. CASE Requeue(w)
  <2> DEFINE r == proc[w].run
             status == StatusAfter(proc[w].attempt, row[r].cancelRequested)
  <2>1. proc[w].pc = "requeueing" /\ r \in Runs
    BY <1>4 DEF Requeue, LeaseInv, TypeInv, BusyHasRun
  <2>2. /\ \A u \in Workers \ {w} : proc'[u] = proc[u]
        /\ proc'[w].pc \in {"reaping", "auditing"} /\ proc'[w].todo = proc[w].todo
    <3>1. \E pc \in {"reaping", "auditing"} : proc' = [proc EXCEPT ![w].pc = pc]
      BY <1>4 DEF Requeue, Step
    <3> QED BY <1>1, <3>1 DEF Proc
  <2>3. HoldsForRecovery(w)
    <3>1. row[r].holder = ReaperId(w) BY <2>1, PCNames DEF HoldInv, RecoveryHolds
    <3> QED BY <2>1, <3>1, HoldersDiffer DEF HoldsForRecovery, LeaseInv, LeaseProtocol, NoForgottenLease
  <2>4. row' = Released(r, status) BY <1>4, <2>3 DEF Requeue
  <2>5. status # "running" BY StatusAfterTyped
  <2>6. row[r].status = "running" /\ row[r].holder = ReaperId(w) BY <2>3 DEF HoldsForRecovery
  <2>7. \A q \in Runs, a \in Attempts : <<q, a>> \in proc[w].todo => q # r
    BY <2>1, PCNames, ConstantsTyped DEF LeaseInv, LeaseProtocol, ListedOnce
  <2> HIDE DEF r, status
  <2>8. row'[r].status = status /\ \A q \in Runs \ {r} : row'[q] = row[q]
    BY <1>1, <2>1, <2>4 DEF Released, Row
  <2>9. JobHolds(w)' BY <2>2, PCNames DEF JobHolds
  <2>10. RecoveryHolds(w)'
    BY <2>1, <2>2, <2>7, <2>8, PCNames DEF HoldInv, RecoveryHolds
  <2> QED BY <2>1, <2>2, <2>5, <2>6, <2>8, <2>9, <2>10, HoldFreed
<1> QED BY <1>2, <1>3, <1>4

(* Every step keeps who holds what.                                        *)
LEMMA HoldNext ==
    ASSUME Punctual = Workers, LeaseInv, HoldInv, [Next]_vars PROVE HoldInv'
<1>1. CASE UNCHANGED vars
  <2>1. row' = row /\ proc' = proc BY <1>1 DEF vars
  <2>2. \A w \in Workers : WorkKept(w) BY <2>1 DEF WorkKept
  <2> QED BY <2>1, <2>2, SameRowsKept, HoldQuiet
<1>2. CASE \/ \E r \in Runs : Submit(r) \/ Cancel(r) \/ LeaseExpires(r) \/ RetentionExpires(r)
           \/ MaintenanceStep \/ SweepFails
  BY <1>2, HoldApi, HoldLeaseExpires
<1>3. CASE \E w \in Workers : WorkerStep(w) \/ Heartbeat(w) \/ KillContainer(w) \/ Crash(w)
  <2>1. PICK w \in Workers : WorkerStep(w) \/ Heartbeat(w) \/ KillContainer(w) \/ Crash(w) BY <1>3
  <2>2. CASE (\E r \in Runs : Claim(w, r)) \/ (\E v \in Verdicts : Commit(w, v)) \/ RecordFailure(w)
    BY <2>2, HoldClaim, HoldEnd
  <2>3. CASE ~((\E r \in Runs : Claim(w, r)) \/ (\E v \in Verdicts : Commit(w, v)) \/ RecordFailure(w))
    BY <2>1, <2>3, HoldJob DEF WorkerStep
  <2> QED BY <2>2, <2>3
<1>4. CASE \E w \in Workers : RecoveryStep(w)
  BY <1>4, HoldBeginRecovery, HoldRecovery DEF RecoveryStep
<1> QED BY <1>1, <1>2, <1>3, <1>4 DEF Next

-----------------------------------------------------------------------------
(* What a job carries is its own.                                          *)

CarryingPCs == HeartbeatPCs \cup {"launching", "cleaning", "uploading", "committing"}

(* The container of a job that waits for it is there; what it published,   *)
(* hashed and uploaded are the bytes of its attempt.                       *)
ContainerThere(w) ==
    proc[w].pc \in {"waiting", "exporting"} => <<proc[w].run, proc[w].attempt>> \in containers

OwnBytes(w) ==
    /\ proc[w].pc = "hashing" => localDir[proc[w].run] = proc[w].attempt
    /\ proc[w].pc \in {"cleaning", "uploading", "committing"} => proc[w].inventory = proc[w].attempt
    /\ proc[w].pc \in HeartbeatPCs \cup {"launching", "cleaning"} => proc[w].uploaded = {}
    /\ proc[w].pc \in {"uploading", "committing"} =>
          \A o \in proc[w].uploaded : store[proc[w].run][o] = proc[w].attempt
    /\ (proc[w].pc = "committing" /\ HasStore) => proc[w].uploaded = Objects

BundleInv == \A w \in Workers : ContainerThere(w) /\ OwnBytes(w)

Untouched(q, a) ==
    /\ localDir'[q] = localDir[q]
    /\ store'[q] = store[q]
    /\ <<q, a>> \in containers => <<q, a>> \in containers'

(* What a worker writes to is the bundle of a run that nobody else has.    *)
LEMMA TouchesOwn ==
    ASSUME LeaseInv, HoldInv, NEW w \in Workers, NEW u \in Workers \ {w},
           proc[u].pc \in JobPCs, Owns(u),
           WorkerStep(w) \/ RecoveryStep(w) \/ Heartbeat(w) \/ KillContainer(w) \/ Crash(w)
    PROVE  Untouched(proc[u].run, proc[u].attempt)
<1> DEFINE q == proc[u].run
<1>1. /\ q \in Runs /\ row[q].status = "running" /\ row[q].holder = u
      /\ localDir \in [Runs -> Attempts] /\ store \in [Runs -> [Objects -> Attempts]]
  BY PCNames DEF LeaseInv, TypeInv, TypeOK, BusyHasRun, Owns
<1>2. proc[w].pc \in JobPCs \cup {"releasing"} => proc[w].run \in Runs /\ proc[w].run # q
  BY <1>1, PCNames DEF HoldInv, JobHolds, Owns, Committed, LeaseInv, TypeInv, BusyHasRun
<1> HIDE DEF q
<1>3. CASE ClearDestination(w) \/ Rename(w) \/ Discard(w) \/ Release(w)
  <2>1. proc[w].pc \in JobPCs \cup {"releasing"}
    BY <1>3, PCNames DEF ClearDestination, Rename, Discard, Release
  <2>2. localDir'[q] = localDir[q]
    BY <1>1, <1>2, <1>3, <2>1 DEF ClearDestination, Rename, Discard, Release
  <2>3. store' = store /\ containers' = containers
    BY <1>3 DEF ClearDestination, Rename, Discard, Release
  <2> QED BY <2>2, <2>3 DEF Untouched, q
<1>4. CASE (\E o \in Objects : UploadObject(w, o)) \/ PurgeRemote(w)
  <2>1. proc[w].pc \in JobPCs BY <1>4, PCNames DEF UploadObject, PurgeRemote
  <2>2. store'[q] = store[q] BY <1>1, <1>2, <1>4, <2>1 DEF UploadObject, PurgeRemote
  <2>3. localDir' = localDir /\ containers' = containers BY <1>4 DEF UploadObject, PurgeRemote
  <2> QED BY <2>2, <2>3 DEF Untouched, q
<1>5. CASE Launch(w) \/ CleanUp(w)
  <2>1. proc[w].pc \in JobPCs BY <1>5, PCNames DEF Launch, CleanUp
  <2>2. \A a : <<q, a>> \in containers => <<q, a>> \in containers'
    BY <1>2, <1>5, <2>1 DEF Launch, CleanUp
  <2>3. localDir' = localDir /\ store' = store BY <1>5 DEF Launch, CleanUp
  <2> QED BY <2>2, <2>3 DEF Untouched, q
<1>6. CASE \E r \in Runs, a \in Attempts : Reap(w, r, a)
  <2>1. PICK r \in Runs, a \in Attempts : Reap(w, r, a) BY <1>6
  <2>2. row[r].holder = ReaperId(w)
    BY <2>1, PCNames DEF Reap, HoldInv, RecoveryHolds
  <2>3. r # q BY <1>1, <2>2, HoldersDiffer
  <2>4. \A a1 : <<q, a1>> \in containers => <<q, a1>> \in containers'
    BY <2>1, <2>3 DEF Reap
  <2>5. localDir' = localDir /\ store' = store BY <2>1 DEF Reap
  <2> QED BY <2>4, <2>5 DEF Untouched, q
<1>7. CASE UNCHANGED <<localDir, store, containers>> BY <1>7 DEF Untouched
<1>8. CASE WorkerStep(w)
  <2>1. CASE \/ \E r \in Runs : Claim(w, r)
             \/ Throw(w) \/ SeeMarker(w) \/ Export(w) \/ Hash(w) \/ UploadFails(w)
             \/ \E v \in Verdicts : Commit(w, v)
             \/ CommitFails(w) \/ CheckOwnership(w) \/ RecordFailure(w)
    <3>1. UNCHANGED <<localDir, store, containers>>
      BY <2>1 DEF Claim, Throw, SeeMarker, Export, Hash, UploadFails, Commit, CommitFails,
         CheckOwnership, RecordFailure
    <3> QED BY <1>7, <3>1
  <2> QED BY <1>3, <1>4, <1>5, <1>8, <2>1 DEF WorkerStep
<1>9. CASE RecoveryStep(w) \/ Heartbeat(w) \/ KillContainer(w) \/ Crash(w)
  <2>1. CASE BeginRecovery(w) \/ Requeue(w) \/ AuditRecovery(w) \/ EndRecovery(w)
             \/ Heartbeat(w) \/ KillContainer(w) \/ Crash(w)
    <3>1. UNCHANGED <<localDir, store, containers>>
      BY <2>1 DEF BeginRecovery, Requeue, AuditRecovery, EndRecovery, Heartbeat, KillContainer, Crash
    <3> QED BY <1>7, <3>1
  <2> QED BY <1>6, <1>9, <2>1 DEF RecoveryStep
<1> QED BY <1>8, <1>9

(* Every worker does what it does alone.                                   *)
LEMMA MovesOne ==
    ASSUME LeaseInv, NEW w \in Workers,
           WorkerStep(w) \/ RecoveryStep(w) \/ Heartbeat(w) \/ KillContainer(w) \/ Crash(w)
    PROVE  \A u \in Workers \ {w} : proc'[u] = proc[u]
<1>1. proc \in [Workers -> Proc] BY DEF LeaseInv, TypeInv, TypeOK
<1>2. CASE WorkerStep(w)
  <2>1. CASE (\E r \in Runs : Claim(w, r)) \/ (\E v \in Verdicts : Commit(w, v))
             \/ Release(w) \/ RecordFailure(w)
    BY <1>1, <2>1, ClaimBegins, CommitFrees DEF Release, RecordFailure
  <2>2. CASE ~((\E r \in Runs : Claim(w, r)) \/ (\E v \in Verdicts : Commit(w, v))
               \/ Release(w) \/ RecordFailure(w))
    BY <1>2, <2>2, JobMovesOne DEF WorkerStep
  <2> QED BY <2>1, <2>2
<1>3. CASE RecoveryStep(w)
  <2>1. CASE BeginRecovery(w) BY <2>1, RecoveryBegins
  <2>2. CASE \E r \in Runs, a \in Attempts : Reap(w, r, a) BY <2>2, ReapBegins
  <2>3. CASE Requeue(w) \/ AuditRecovery(w) \/ EndRecovery(w)
    BY <1>1, <2>3 DEF Requeue, AuditRecovery, EndRecovery, Step
  <2> QED BY <1>3, <2>1, <2>2, <2>3 DEF RecoveryStep
<1>4. CASE Heartbeat(w) BY <1>4, HeartbeatBeats
<1>5. CASE KillContainer(w) BY <1>5, JobMovesOne
<1>6. CASE Crash(w) BY <1>1, <1>6 DEF Crash
<1> QED BY <1>2, <1>3, <1>4, <1>5, <1>6

(* A job whose bundle nobody touches still carries its own.                *)
LEMMA BundleKept ==
    ASSUME LeaseInv, HoldInv, BundleInv, NEW u \in Workers, proc'[u] = proc[u],
           proc[u].pc \in JobPCs /\ Owns(u) => Untouched(proc[u].run, proc[u].attempt)
    PROVE  ContainerThere(u)' /\ OwnBytes(u)'
<1>1. CASE proc[u].pc \in CarryingPCs
  <2>1. proc[u].pc \in JobPCs /\ proc[u].pc \notin EndingPCs
    BY <1>1, PCNames DEF CarryingPCs, HeartbeatPCs, EndingPCs
  <2>2. Untouched(proc[u].run, proc[u].attempt) BY <2>1 DEF HoldInv, JobHolds
  <2> QED BY <2>2 DEF BundleInv, ContainerThere, OwnBytes, Untouched
<1>2. CASE proc[u].pc \notin CarryingPCs
  BY <1>2 DEF ContainerThere, OwnBytes, CarryingPCs, HeartbeatPCs
<1> QED BY <1>1, <1>2

(* A job that carries nothing.                                             *)
LEMMA BundleNone ==
    ASSUME NEW w \in Workers, proc'[w].pc \notin CarryingPCs
    PROVE  ContainerThere(w)' /\ OwnBytes(w)'
  BY DEF ContainerThere, OwnBytes, CarryingPCs, HeartbeatPCs

(* A job up to the inventory of its bundle.                                *)
LEMMA BundleMade ==
    ASSUME LeaseInv, BundleInv, NEW w \in Workers,
           \/ \E r \in Runs : Claim(w, r)
           \/ Launch(w) \/ Heartbeat(w) \/ KillContainer(w) \/ Throw(w) \/ SeeMarker(w)
           \/ Export(w) \/ ClearDestination(w) \/ Rename(w) \/ Hash(w)
    PROVE  ContainerThere(w)' /\ OwnBytes(w)'
<1>1. proc \in [Workers -> Proc] /\ proc[w] \in Proc /\ localDir \in [Runs -> Attempts]
  BY DEF LeaseInv, TypeInv, TypeOK
<1>2. CASE \E r \in Runs : Claim(w, r)
  <2>1. proc'[w].pc = "launching" /\ proc'[w].uploaded = {} BY <1>2, ClaimBegins
  <2> QED BY <2>1 DEF ContainerThere, OwnBytes
<1>3. CASE Launch(w)
  <2>1. /\ proc[w].pc = "launching" /\ proc'[w].pc = "waiting"
        /\ proc'[w].run = proc[w].run /\ proc'[w].attempt = proc[w].attempt
        /\ proc'[w].uploaded = proc[w].uploaded
    BY <1>1, <1>3 DEF Launch, Step, Proc
  <2>2. <<proc[w].run, proc[w].attempt>> \in containers' BY <1>3 DEF Launch
  <2>3. proc[w].uploaded = {} BY <2>1 DEF BundleInv, OwnBytes
  <2> QED BY <2>1, <2>2, <2>3 DEF ContainerThere, OwnBytes
<1>4. CASE Heartbeat(w) \/ KillContainer(w)
  <2>1. /\ proc'[w].pc = proc[w].pc
        /\ proc'[w].run = proc[w].run /\ proc'[w].attempt = proc[w].attempt
        /\ proc'[w].inventory = proc[w].inventory /\ proc'[w].uploaded = proc[w].uploaded
    <3>1. CASE Heartbeat(w) BY <3>1, HeartbeatBeats
    <3>2. CASE KillContainer(w) BY <1>1, <3>2 DEF KillContainer, Proc
    <3> QED BY <1>4, <3>1, <3>2
  <2>2. UNCHANGED <<containers, localDir, store>> BY <1>4 DEF Heartbeat, KillContainer
  <2> QED BY <2>1, <2>2 DEF BundleInv, ContainerThere, OwnBytes
<1>5. CASE Throw(w)
  <2>1. proc'[w].pc = "aborting" BY <1>1, <1>5 DEF Throw, Proc
  <2> QED BY <2>1, BundleNone DEF CarryingPCs, HeartbeatPCs
<1>6. CASE SeeMarker(w) \/ Export(w) \/ ClearDestination(w)
  <2>1. /\ proc[w].pc \in {"waiting", "exporting", "publishing"}
        /\ proc'[w].pc \in {"exporting", "aborting", "publishing", "renaming"}
        /\ proc'[w].run = proc[w].run /\ proc'[w].attempt = proc[w].attempt
        /\ proc'[w].uploaded = proc[w].uploaded
    BY <1>1, <1>6 DEF SeeMarker, Export, ClearDestination, Step, Proc
  <2>2. proc'[w].pc = "exporting" => <<proc[w].run, proc[w].attempt>> \in containers'
    <3>1. CASE SeeMarker(w) BY <3>1 DEF SeeMarker, HasContainer
    <3>2. CASE Export(w) \/ ClearDestination(w)
      BY <1>1, <3>2 DEF Export, ClearDestination, Step, Proc
    <3> QED BY <1>6, <3>1, <3>2
  <2>3. proc[w].uploaded = {} BY <2>1 DEF BundleInv, OwnBytes, HeartbeatPCs
  <2> QED BY <2>1, <2>2, <2>3 DEF ContainerThere, OwnBytes
<1>7. CASE Rename(w)
  <2>1. /\ proc[w].pc = "renaming" /\ proc'[w].pc = "hashing" /\ proc[w].run \in Runs
        /\ proc'[w].run = proc[w].run /\ proc'[w].attempt = proc[w].attempt
        /\ proc'[w].uploaded = proc[w].uploaded
    BY <1>1, <1>7 DEF Rename, Step, Proc, LeaseInv, TypeInv, BusyHasRun
  <2>2. localDir'[proc[w].run] = proc[w].attempt BY <1>1, <1>7, <2>1 DEF Rename
  <2>3. proc[w].uploaded = {} BY <2>1 DEF BundleInv, OwnBytes, HeartbeatPCs
  <2> QED BY <2>1, <2>2, <2>3 DEF ContainerThere, OwnBytes
<1>8. CASE Hash(w)
  <2>1. /\ proc[w].pc = "hashing" /\ proc'[w].pc = "cleaning"
        /\ proc'[w].attempt = proc[w].attempt /\ proc'[w].uploaded = proc[w].uploaded
        /\ proc'[w].inventory = localDir[proc[w].run]
    <3>1. proc'[w] = [proc[w] EXCEPT !.pc = "cleaning", !.cancelled = FALSE,
                                     !.inventory = localDir[proc[w].run]]
      BY <1>1, <1>8 DEF Hash
    <3> QED BY <1>1, <1>8, <3>1 DEF Hash, Proc
  <2>2. localDir[proc[w].run] = proc[w].attempt /\ proc[w].uploaded = {}
    BY <2>1 DEF BundleInv, OwnBytes, HeartbeatPCs
  <2> QED BY <2>1, <2>2 DEF ContainerThere, OwnBytes, HeartbeatPCs
<1> QED BY <1>2, <1>3, <1>4, <1>5, <1>6, <1>7, <1>8

(* ... and from there to the commit.                                       *)
LEMMA BundleSent ==
    ASSUME LeaseInv, BundleInv, NEW w \in Workers,
           CleanUp(w) \/ \E o \in Objects : UploadObject(w, o)
    PROVE  ContainerThere(w)' /\ OwnBytes(w)'
<1>1. /\ proc \in [Workers -> Proc] /\ proc[w] \in Proc
      /\ store \in [Runs -> [Objects -> Attempts]]
  BY DEF LeaseInv, TypeInv, TypeOK
<1>2. CASE CleanUp(w)
  <2>1. /\ proc'[w].attempt = proc[w].attempt /\ proc'[w].uploaded = proc[w].uploaded
        /\ proc'[w].inventory = proc[w].inventory
        /\ \/ proc'[w].pc \in {"checking", "discarding"}
           \/ /\ proc[w].pc = "cleaning"
              /\ proc'[w].pc = IF HasStore THEN "uploading" ELSE "committing"
    BY <1>1, <1>2 DEF CleanUp, Step, FailurePC, Proc
  <2>2. CASE proc'[w].pc \in {"checking", "discarding"}
    BY <2>2, BundleNone DEF CarryingPCs, HeartbeatPCs
  <2>3. CASE proc[w].pc = "cleaning" /\ proc'[w].pc = IF HasStore THEN "uploading" ELSE "committing"
    <3>1. proc[w].inventory = proc[w].attempt /\ proc[w].uploaded = {}
      BY <2>3 DEF BundleInv, OwnBytes
    <3> QED BY <2>1, <2>3, <3>1 DEF ContainerThere, OwnBytes, HeartbeatPCs
  <2> QED BY <2>1, <2>2, <2>3
<1>3. CASE \E o \in Objects : UploadObject(w, o)
  <2>1. PICK o \in Objects : UploadObject(w, o) BY <1>3
  <2> DEFINE uploaded == proc[w].uploaded \cup {o}
             pc == IF uploaded = Objects THEN "committing" ELSE proc[w].pc
             r == proc[w].run
  <2>2. proc'[w] = [proc[w] EXCEPT !.uploaded = uploaded, !.pc = pc] /\ proc[w].pc = "uploading"
    BY <1>1, <2>1 DEF UploadObject
  <2>3. pc \in {"uploading", "committing"} /\ (pc = "committing" => uploaded = Objects) BY <2>2
  <2>4. /\ proc'[w].pc = pc /\ proc'[w].uploaded = uploaded /\ proc'[w].run = r
        /\ proc'[w].attempt = proc[w].attempt /\ proc'[w].inventory = proc[w].inventory
    <3> HIDE DEF uploaded, pc
    <3> QED BY <1>1, <2>2, <2>3 DEF Proc
  <2>5. r \in Runs BY <2>2 DEF LeaseInv, TypeInv, BusyHasRun
  <2>6. store' = [store EXCEPT ![r][o] = proc[w].inventory] BY <2>1 DEF UploadObject
  <2>7. /\ proc[w].inventory = proc[w].attempt
        /\ \A x \in proc[w].uploaded : store[r][x] = proc[w].attempt
        /\ proc[w].uploaded \subseteq Objects
    BY <1>1, <2>2 DEF BundleInv, OwnBytes, Proc
  <2>8. \A x \in uploaded : store'[r][x] = proc[w].attempt
    <3> HIDE DEF r
    <3> QED BY <1>1, <2>5, <2>6, <2>7
  <2> HIDE DEF uploaded, pc, r
  <2> QED BY <2>3, <2>4, <2>7, <2>8 DEF ContainerThere, OwnBytes, HeartbeatPCs
<1> QED BY <1>2, <1>3

(* Afterwards the job is over, but for its last steps.                     *)
LEMMA LeavesJob ==
    ASSUME LeaseInv, NEW w \in Workers,
           \/ \E v \in Verdicts : Commit(w, v)
           \/ UploadFails(w) \/ CommitFails(w) \/ Release(w) \/ CheckOwnership(w)
           \/ PurgeRemote(w) \/ Discard(w) \/ RecordFailure(w) \/ Crash(w) \/ RecoveryStep(w)
    PROVE  proc'[w].pc \in {"idle", "releasing", "down", "purging"} \cup EndingPCs \cup RecoveryPCs
<1>1. proc \in [Workers -> Proc] BY DEF LeaseInv, TypeInv, TypeOK
<1>2. proc'[w].pc \in {"idle", "releasing", "down", "purging"} \cup EndingPCs \cup RecoveryPCs
  <2>1. CASE \E v \in Verdicts : Commit(w, v) BY <2>1, CommitFrees
  <2>2. CASE UploadFails(w) \/ CommitFails(w) \/ Release(w)
    BY <1>1, <2>2 DEF UploadFails, CommitFails, Release, Step, FailurePC, Idle, Proc, EndingPCs
  <2>3. CASE CheckOwnership(w) \/ PurgeRemote(w) \/ Discard(w) \/ RecordFailure(w)
    BY <1>1, <2>3 DEF CheckOwnership, PurgeRemote, Discard, RecordFailure, Step, Idle, Proc, EndingPCs
  <2>4. CASE Crash(w)
    <3>1. proc'[w] = [Idle EXCEPT !.pc = "down", !.run = proc[w].run] BY <1>1, <2>4 DEF Crash
    <3> QED BY <3>1 DEF Idle
  <2>5. CASE BeginRecovery(w) BY <2>5, RecoveryBegins DEF RecoveryPCs
  <2>6. CASE \E r \in Runs, a \in Attempts : Reap(w, r, a) BY <2>6, ReapBegins DEF RecoveryPCs
  <2>7. CASE Requeue(w)
    <3>1. \E pc \in {"reaping", "auditing"} : proc' = [proc EXCEPT ![w].pc = pc]
      BY <2>7 DEF Requeue, Step
    <3> QED BY <1>1, <3>1 DEF Proc, RecoveryPCs
  <2>8. CASE AuditRecovery(w) \/ EndRecovery(w)
    BY <1>1, <2>8 DEF AuditRecovery, EndRecovery, Step, Idle, Proc, RecoveryPCs
  <2> QED BY <2>1, <2>2, <2>3, <2>4, <2>5, <2>6, <2>7, <2>8 DEF RecoveryStep
<1> QED BY <1>2

(* ... and carries nothing.                                                *)
LEMMA BundleLeft ==
    ASSUME LeaseInv, NEW w \in Workers,
           \/ \E v \in Verdicts : Commit(w, v)
           \/ UploadFails(w) \/ CommitFails(w) \/ Release(w) \/ CheckOwnership(w)
           \/ PurgeRemote(w) \/ Discard(w) \/ RecordFailure(w) \/ Crash(w) \/ RecoveryStep(w)
    PROVE  ContainerThere(w)' /\ OwnBytes(w)'
<1>1. proc'[w].pc \in {"idle", "releasing", "down", "purging"} \cup EndingPCs \cup RecoveryPCs
  BY LeavesJob
<1> QED BY <1>1, BundleNone DEF CarryingPCs, HeartbeatPCs, EndingPCs, RecoveryPCs

(* No step spoils what a job carries; QueuedIsPurged is about the sweeps.  *)
QueuedIsPurged ==
    /\ \A r \in purgeQueue \cup maint.pending : row[r].status = "purged"
    /\ maint.pc \in {"sweepingLocal", "dequeueing"} =>
          maint.run \in Runs /\ row[maint.run].status = "purged"

(* Steps of the API, of the clock and of the maintenance spoil nothing.    *)
LEMMA BundleApi ==
    ASSUME LeaseInv, HoldInv, BundleInv, QueuedIsPurged,
           \/ \E r \in Runs : Submit(r) \/ Cancel(r) \/ LeaseExpires(r) \/ RetentionExpires(r)
           \/ MaintenanceStep \/ SweepFails
    PROVE  BundleInv'
<1>1. /\ localDir \in [Runs -> Attempts] /\ store \in [Runs -> [Objects -> Attempts]]
      /\ maint.pending \subseteq Runs
  BY DEF LeaseInv, TypeInv, TypeOK, Maint
<1>2. proc' = proc /\ containers' = containers
  BY DEF Submit, Cancel, LeaseExpires, RetentionExpires, MaintenanceStep, PurgeRows, SweepStore,
     SweepLocal, Dequeue, SweepFails
<1>3. ASSUME NEW u \in Workers, proc[u].pc \in JobPCs, Owns(u)
      PROVE  Untouched(proc[u].run, proc[u].attempt)
  <2> DEFINE q == proc[u].run
  <2>1. q \in Runs /\ row[q].status = "running"
    BY <1>3, PCNames DEF Owns, LeaseInv, TypeInv, BusyHasRun
  <2> HIDE DEF q
  <2>2. CASE \E r \in Runs : SweepStore(r) \/ SweepLocal(r)
    <3>1. PICK r \in Runs : SweepStore(r) \/ SweepLocal(r) BY <2>2
    <3>2. row[r].status = "purged" BY <3>1 DEF SweepStore, SweepLocal, QueuedIsPurged
    <3>3. localDir'[q] = localDir[q] /\ store'[q] = store[q]
      BY <1>1, <2>1, <3>1, <3>2 DEF SweepStore, SweepLocal
    <3> QED BY <1>2, <3>3 DEF Untouched, q
  <2>3. CASE ~(\E r \in Runs : SweepStore(r) \/ SweepLocal(r))
    <3>1. localDir' = localDir /\ store' = store
      BY <2>3 DEF Submit, Cancel, LeaseExpires, RetentionExpires, MaintenanceStep, PurgeRows,
         Dequeue, SweepFails
    <3> QED BY <1>2, <3>1 DEF Untouched
  <2> QED BY <2>2, <2>3
<1> QED BY <1>2, <1>3, BundleKept DEF BundleInv

(* Every step keeps what the jobs carry.                                   *)
LEMMA BundleNext ==
    ASSUME LeaseInv, HoldInv, BundleInv, QueuedIsPurged, [Next]_vars PROVE BundleInv'
<1>1. CASE UNCHANGED vars
  <2>1. \A u \in Workers : proc'[u] = proc[u] /\ Untouched(proc[u].run, proc[u].attempt)
    BY <1>1 DEF vars, Untouched
  <2> QED BY <2>1, BundleKept DEF BundleInv
<1>2. CASE \/ \E r \in Runs : Submit(r) \/ Cancel(r) \/ LeaseExpires(r) \/ RetentionExpires(r)
           \/ MaintenanceStep \/ SweepFails
  BY <1>2, BundleApi
<1>3. CASE \E w \in Workers :
             WorkerStep(w) \/ RecoveryStep(w) \/ Heartbeat(w) \/ KillContainer(w) \/ Crash(w)
  <2>1. PICK w \in Workers :
             WorkerStep(w) \/ RecoveryStep(w) \/ Heartbeat(w) \/ KillContainer(w) \/ Crash(w)
    BY <1>3
  <2>2. \A u \in Workers \ {w} : ContainerThere(u)' /\ OwnBytes(u)'
    <3>1. \A u \in Workers \ {w} : proc'[u] = proc[u] BY <2>1, MovesOne
    <3>2. \A u \in Workers \ {w} :
             proc[u].pc \in JobPCs /\ Owns(u) => Untouched(proc[u].run, proc[u].attempt)
      BY <2>1, TouchesOwn
    <3> QED BY <3>1, <3>2, BundleKept
  <2>3. ContainerThere(w)' /\ OwnBytes(w)'
    <3>1. CASE WorkerStep(w) BY <3>1, BundleMade, BundleSent, BundleLeft DEF WorkerStep
    <3>2. CASE RecoveryStep(w) \/ Heartbeat(w) \/ KillContainer(w) \/ Crash(w)
      BY <3>2, BundleMade, BundleLeft
    <3> QED BY <2>1, <3>1, <3>2
  <2> QED BY <2>2, <2>3 DEF BundleInv
<1> QED BY <1>1, <1>2, <1>3 DEF Next

-----------------------------------------------------------------------------
(* The evidence of completed and of purged runs.                           *)

(* What the sweep of one run has removed so far is still gone.             *)
SweptSoFar ==
    /\ maint.pc \in {"sweepingLocal", "dequeueing"} => store[maint.run] = NoObjects
    /\ maint.pc = "dequeueing" => localDir[maint.run] = 0

(* Without an object store nothing is ever put there.                      *)
NoStoreNoObjects ==
    ~HasStore => /\ \A w \in Workers : proc[w].pc # "uploading"
                 /\ \A r \in Runs : store[r] = NoObjects

EvidenceInv ==
    /\ LeaseInv
    /\ HoldInv
    /\ BundleInv
    /\ QueuedIsPurged
    /\ SweptSoFar
    /\ NoStoreNoObjects
    /\ EvidenceMatchesResult
    /\ PurgedEvidenceGone

(* Of a committed run the directory can only go away, and the objects only *)
(* when it is purged.                                                      *)
LEMMA CommittedData ==
    ASSUME LeaseInv, HoldInv, QueuedIsPurged, [Next]_vars, NEW r \in Runs, Committed(r)
    PROVE  /\ localDir'[r] \in {0, localDir[r]}
           /\ store'[r] = store[r] \/ (row[r].status = "purged" /\ store'[r] = NoObjects)
<1>1. /\ localDir \in [Runs -> Attempts] /\ store \in [Runs -> [Objects -> Attempts]]
      /\ maint.pending \subseteq Runs
  BY DEF LeaseInv, TypeInv, TypeOK, Maint
<1>2. \A w \in Workers : proc[w].pc \in JobPCs \ EndingPCs =>
         proc[w].run \in Runs /\ proc[w].run # r
  BY PCNames DEF HoldInv, JobHolds, Owns, Committed, LeaseInv, TypeInv, BusyHasRun
<1>3. \A w \in Workers : proc[w].pc \in JobPCs \cup {"releasing"} => proc[w].run \in Runs
  BY PCNames DEF LeaseInv, TypeInv, BusyHasRun
<1>4. CASE localDir' = localDir /\ store' = store BY <1>4
<1>5. ASSUME NEW w \in Workers, WorkerStep(w)
      PROVE  localDir'[r] \in {0, localDir[r]} /\ store'[r] = store[r]
  <2>1. CASE ClearDestination(w) \/ Rename(w)
    <3>1. proc[w].run # r BY <1>2, <2>1, PCNames DEF ClearDestination, Rename, EndingPCs
    <3> QED BY <1>1, <2>1, <3>1 DEF ClearDestination, Rename
  <2>2. CASE Discard(w) \/ Release(w)
    <3>1. proc[w].run \in Runs BY <1>3, <2>2, PCNames DEF Discard, Release
    <3>2. PICK left \in {0, localDir[proc[w].run]} :
             localDir' = [localDir EXCEPT ![proc[w].run] = left]
      BY <2>2 DEF Discard, Release
    <3> QED BY <1>1, <2>2, <3>1, <3>2 DEF Discard, Release
  <2>3. CASE (\E o \in Objects : UploadObject(w, o)) \/ PurgeRemote(w)
    <3>1. proc[w].run # r BY <1>2, <2>3, PCNames DEF UploadObject, PurgeRemote, EndingPCs
    <3> QED BY <1>1, <2>3, <3>1 DEF UploadObject, PurgeRemote
  <2>4. CASE \/ (\E q \in Runs : Claim(w, q)) \/ Launch(w) \/ Throw(w) \/ SeeMarker(w)
             \/ Export(w) \/ Hash(w) \/ CleanUp(w) \/ UploadFails(w)
             \/ (\E v \in Verdicts : Commit(w, v))
             \/ CommitFails(w) \/ CheckOwnership(w) \/ RecordFailure(w)
    <3>1. localDir' = localDir /\ store' = store
      BY <2>4 DEF Claim, Launch, Throw, SeeMarker, Export, Hash, CleanUp, UploadFails, Commit,
         CommitFails, CheckOwnership, RecordFailure
    <3> QED BY <3>1
  <2> QED BY <1>5, <2>1, <2>2, <2>3, <2>4 DEF WorkerStep
<1>6. CASE \E q \in Runs : SweepStore(q) \/ SweepLocal(q)
  <2>1. PICK q \in Runs : SweepStore(q) \/ SweepLocal(q) BY <1>6
  <2>2. row[q].status = "purged" BY <2>1 DEF SweepStore, SweepLocal, QueuedIsPurged
  <2> QED BY <1>1, <2>1, <2>2 DEF SweepStore, SweepLocal
<1>7. CASE \/ \E q \in Runs : Submit(q) \/ Cancel(q) \/ LeaseExpires(q) \/ RetentionExpires(q)
           \/ PurgeRows \/ Dequeue \/ SweepFails
  <2>1. localDir' = localDir /\ store' = store
    BY <1>7 DEF Submit, Cancel, LeaseExpires, RetentionExpires, PurgeRows, Dequeue, SweepFails
  <2> QED BY <1>4, <2>1
<1>8. CASE \E w \in Workers : RecoveryStep(w) \/ Heartbeat(w) \/ KillContainer(w) \/ Crash(w)
  <2>1. localDir' = localDir /\ store' = store
    BY <1>8 DEF RecoveryStep, BeginRecovery, Reap, Requeue, AuditRecovery, EndRecovery, Heartbeat,
       KillContainer, Crash
  <2> QED BY <1>4, <2>1
<1>9. CASE UNCHANGED vars BY <1>4, <1>9 DEF vars
<1> QED BY <1>5, <1>6, <1>7, <1>8, <1>9 DEF Next, MaintenanceStep

(* A run completes by a commit and is purged by the purge, in no other     *)
(* way.                                                                    *)
LEMMA StatusStep ==
    ASSUME LeaseInv, [Next]_vars, NEW r \in Runs
    PROVE  \/ row'[r].status \in {row[r].status, "queued", "running", "failed", "cancelled"}
           \/ /\ row'[r].status = "completed"
              /\ \E w \in Workers, v \in Verdicts : Commit(w, v) /\ proc[w].run = r
           \/ row'[r].status = "purged" /\ PurgeRows /\ Purgeable(r)
<1>1. row \in [Runs -> Row] /\ proc \in [Workers -> Proc] BY DEF LeaseInv, TypeInv, TypeOK
<1> DEFINE Quiet == row'[r].status \in {row[r].status, "queued", "running", "failed", "cancelled"}
<1>2. ASSUME NEW q \in Runs, NEW a, NEW c, row' = Released(q, StatusAfter(a, c)) PROVE Quiet
  <2>1. StatusAfter(a, c) \in {"queued", "failed", "cancelled"} BY StatusAfterTyped
  <2> QED BY <1>1, <1>2, <2>1 DEF Released, Row
<1>3. CASE UNCHANGED vars BY <1>3 DEF vars
<1>4. CASE \E q \in Runs : Submit(q) \/ Cancel(q) \/ LeaseExpires(q) \/ RetentionExpires(q)
  BY <1>1, <1>4 DEF Submit, Cancel, LeaseExpires, RetentionExpires, Row
<1>5. CASE PurgeRows
  <2>1. row'[r] = IF Purgeable(r) THEN [NoRow EXCEPT !.status = "purged"] ELSE row[r]
    BY <1>5 DEF PurgeRows
  <2> QED BY <1>5, <2>1 DEF NoRow
<1>6. CASE (\E q \in Runs : SweepStore(q) \/ SweepLocal(q)) \/ Dequeue \/ SweepFails
  BY <1>6 DEF SweepStore, SweepLocal, Dequeue, SweepFails
<1>7. ASSUME NEW w \in Workers, WorkerStep(w)
      PROVE  \/ Quiet
             \/ /\ row'[r].status = "completed"
                /\ \E v \in Verdicts : Commit(w, v) /\ proc[w].run = r
  <2>1. CASE \E q \in Runs : Claim(w, q) BY <2>1, ClaimBegins
  <2>2. CASE \E v \in Verdicts : Commit(w, v) BY <2>2, CommitFrees
  <2>3. CASE RecordFailure(w)
    <3>1. proc[w].run \in Runs BY <2>3 DEF RecordFailure, LeaseInv, TypeInv, BusyHasRun
    <3> QED BY <1>2, <2>3, <3>1 DEF RecordFailure
  <2>4. CASE Release(w) BY <2>4 DEF Release
  <2>5. CASE ~\/ (\E q \in Runs : Claim(w, q)) \/ (\E v \in Verdicts : Commit(w, v))
              \/ RecordFailure(w) \/ Release(w)
    <3>1. row' = row BY <1>7, <2>5, JobMovesOne DEF WorkerStep
    <3> QED BY <3>1
  <2> QED BY <2>1, <2>2, <2>3, <2>4, <2>5
<1>8. ASSUME NEW w \in Workers, RecoveryStep(w) \/ Heartbeat(w) \/ KillContainer(w) \/ Crash(w)
      PROVE  Quiet
  <2>1. CASE BeginRecovery(w) BY <2>1, RecoveryBegins
  <2>2. CASE Requeue(w)
    <3>1. proc[w].run \in Runs BY <2>2 DEF Requeue, LeaseInv, TypeInv, BusyHasRun
    <3> QED BY <1>2, <2>2, <3>1 DEF Requeue
  <2>3. CASE Heartbeat(w) BY <2>3, HeartbeatBeats
  <2>4. CASE \/ \E q \in Runs, a \in Attempts : Reap(w, q, a)
             \/ AuditRecovery(w) \/ EndRecovery(w) \/ KillContainer(w) \/ Crash(w)
    BY <2>4 DEF Reap, AuditRecovery, EndRecovery, KillContainer, Crash
  <2> QED BY <1>8, <2>1, <2>2, <2>3, <2>4 DEF RecoveryStep
<1> HIDE DEF Quiet
<1>9. \/ Quiet
      \/ /\ row'[r].status = "completed"
         /\ \E w \in Workers, v \in Verdicts : Commit(w, v) /\ proc[w].run = r
      \/ row'[r].status = "purged" /\ PurgeRows /\ Purgeable(r)
  <2>1. CASE \E w \in Workers : WorkerStep(w) BY <1>7, <2>1
  <2>2. CASE \E w \in Workers : RecoveryStep(w) \/ Heartbeat(w) \/ KillContainer(w) \/ Crash(w)
    BY <1>8, <2>2
  <2> QED BY <1>3, <1>4, <1>5, <1>6, <2>1, <2>2 DEF Next, MaintenanceStep, Quiet
<1> QED BY <1>9 DEF Quiet

(* A completed run is served from what its result was computed from.       *)
LEMMA MatchesNext ==
    ASSUME EvidenceInv, [Next]_vars PROVE EvidenceMatchesResult'
<1> SUFFICES ASSUME NEW r \in Runs, row'[r].status = "completed"
             PROVE  /\ row'[r].inventory = row'[r].result
                    /\ HasStore => \A o \in Objects : store'[r][o] = row'[r].result
  BY DEF EvidenceMatchesResult
<1>1. CASE row[r].status = "completed"
  <2>1. store'[r] = store[r] BY <1>1, CommittedData DEF EvidenceInv, Committed
  <2>2. /\ row[r] \in Row /\ row'[r] \in Row
        /\ [row'[r] EXCEPT !.expired = FALSE] = [row[r] EXCEPT !.expired = FALSE]
    BY <1>1, EveryRowsStep, FinalStep, LeaseNext
    DEF EvidenceInv, LeaseInv, TypeInv, TypeOK, Settled
  <2>3. row'[r].result = row[r].result /\ row'[r].inventory = row[r].inventory
    BY <2>2 DEF Row
  <2> QED BY <1>1, <2>1, <2>3 DEF EvidenceInv, EvidenceMatchesResult
<1>2. CASE \E w \in Workers, v \in Verdicts : Commit(w, v) /\ proc[w].run = r
  <2>1. PICK w \in Workers, v \in Verdicts : Commit(w, v) /\ proc[w].run = r BY <1>2
  <2>2. proc[w].pc = "committing" /\ store' = store BY <2>1 DEF Commit
  <2>3. row'[r].result = proc[w].attempt /\ row'[r].inventory = proc[w].inventory
    BY <2>1, CommitFrees DEF EvidenceInv
  <2> QED BY <2>1, <2>2, <2>3 DEF EvidenceInv, BundleInv, OwnBytes
<1> QED BY <1>1, <1>2, StatusStep DEF EvidenceInv

(* A purged run stays purged.                                              *)
LEMMA PurgedStays ==
    ASSUME LeaseInv, [Next]_vars, NEW r \in Runs, row[r].status = "purged"
    PROVE  row'[r].status = "purged"
<1>1. RowsStep BY EveryRowsStep
<1>2. row[r] \in Row /\ row[r].status \notin Settled \cup {"absent", "queued", "running"}
  BY DEF LeaseInv, TypeInv, TypeOK, Settled
<1>3. ~Moved(r) /\ ~Forgotten(r) BY <1>2 DEF Moved, Completed, Forgotten, Purgeable
<1>4. Kept(r) BY <1>1, <1>3 DEF RowsStep, Kept
<1> QED BY <1>2, <1>4 DEF Kept, Row

(* The retention queue and the evidence of purged runs.                    *)
LEMMA PurgeNext ==
    ASSUME EvidenceInv, [Next]_vars
    PROVE  QueuedIsPurged' /\ SweptSoFar' /\ PurgedEvidenceGone'
<1>1. /\ localDir \in [Runs -> Attempts] /\ store \in [Runs -> [Objects -> Attempts]]
      /\ maint \in Maint /\ purgeQueue \subseteq Runs
  BY DEF EvidenceInv, LeaseInv, TypeInv, TypeOK
<1>2. \A r \in Runs : row[r].status = "purged" =>
         /\ row'[r].status = "purged"
         /\ localDir'[r] \in {0, localDir[r]}
         /\ store'[r] = store[r] \/ store'[r] = NoObjects
  BY PurgedStays, CommittedData DEF EvidenceInv, Committed
<1>3. \A r \in Runs : row'[r].status = "purged" => row[r].status = "purged" \/ PurgeRows
  BY StatusStep DEF EvidenceInv
<1>4. CASE PurgeRows
  <2> DEFINE gone == {r \in Runs : Purgeable(r)}
  <2>1. /\ purgeQueue' = purgeQueue \cup gone
        /\ maint' = [pc |-> "sweeping", pending |-> purgeQueue', run |-> NoRun]
        /\ localDir' = localDir /\ store' = store
    BY <1>4 DEF PurgeRows
  <2>2. \A r \in Runs : row'[r] = IF r \in gone THEN [NoRow EXCEPT !.status = "purged"] ELSE row[r]
    BY <1>4 DEF PurgeRows
  <2>3. \A r \in gone : row'[r].status = "purged" BY <2>2 DEF NoRow
  <2>4. \A r \in purgeQueue' : row'[r].status = "purged"
    BY <1>1, <1>2, <2>1, <2>3 DEF EvidenceInv, QueuedIsPurged
  <2>5. \A r \in Runs \ purgeQueue' : row'[r] = row[r] /\ r \notin purgeQueue BY <2>1, <2>2
  <2> HIDE DEF gone
  <2> QED BY <2>1, <2>4, <2>5
          DEF EvidenceInv, QueuedIsPurged, SweptSoFar, PurgedEvidenceGone
<1>5. CASE UNCHANGED <<purgeQueue, maint>> /\ ~PurgeRows
  BY <1>1, <1>2, <1>3, <1>5
  DEF EvidenceInv, QueuedIsPurged, SweptSoFar, PurgedEvidenceGone, Maint
<1>6. ASSUME NEW r \in Runs, SweepStore(r) PROVE QueuedIsPurged' /\ SweptSoFar' /\ PurgedEvidenceGone'
  <2>1. /\ maint' = [maint EXCEPT !.pc = "sweepingLocal", !.run = r] /\ r \in maint.pending
        /\ store' = [store EXCEPT ![r] = NoObjects] /\ localDir' = localDir
        /\ UNCHANGED <<row, purgeQueue>>
    BY <1>6 DEF SweepStore
  <2>2. maint'.pc = "sweepingLocal" /\ maint'.run = r /\ maint'.pending = maint.pending
    BY <1>1, <2>1 DEF Maint
  <2>3. store'[r] = NoObjects /\ \A q \in Runs \ {r} : store'[q] = store[q] BY <1>1, <2>1
  <2> QED BY <2>1, <2>2, <2>3 DEF EvidenceInv, QueuedIsPurged, SweptSoFar, PurgedEvidenceGone
<1>7. ASSUME NEW r \in Runs, SweepLocal(r) PROVE QueuedIsPurged' /\ SweptSoFar' /\ PurgedEvidenceGone'
  <2>1. /\ maint' = [maint EXCEPT !.pc = "dequeueing", !.run = r]
        /\ localDir' = [localDir EXCEPT ![r] = 0] /\ store' = store
        /\ UNCHANGED <<row, purgeQueue>>
        /\ \/ maint.pc = "sweepingLocal" /\ maint.run = r
           \/ ~HasStore /\ r \in maint.pending
    BY <1>7 DEF SweepLocal
  <2>2. maint'.pc = "dequeueing" /\ maint'.run = r /\ maint'.pending = maint.pending
    BY <1>1, <2>1 DEF Maint
  <2>3. localDir'[r] = 0 /\ \A q \in Runs \ {r} : localDir'[q] = localDir[q] BY <1>1, <2>1
  <2>4. store[r] = NoObjects /\ row[r].status = "purged"
    BY <2>1 DEF EvidenceInv, QueuedIsPurged, SweptSoFar, NoStoreNoObjects
  <2> QED BY <2>1, <2>2, <2>3, <2>4 DEF EvidenceInv, QueuedIsPurged, SweptSoFar, PurgedEvidenceGone
<1>8. CASE Dequeue
  <2>1. /\ maint.pc = "dequeueing" /\ purgeQueue' = purgeQueue \ {maint.run}
        /\ maint' = Resting
           \/ maint' = [pc |-> "sweeping", pending |-> maint.pending \ {maint.run}, run |-> NoRun]
        /\ UNCHANGED <<row, localDir, store>>
    BY <1>8 DEF Dequeue
  <2>2. /\ maint'.pc \in {"idle", "sweeping"} /\ maint'.pending \subseteq maint.pending
        /\ maint.run \in Runs /\ localDir[maint.run] = 0 /\ store[maint.run] = NoObjects
    BY <2>1 DEF EvidenceInv, QueuedIsPurged, SweptSoFar, Resting
  <2> QED BY <2>1, <2>2 DEF EvidenceInv, QueuedIsPurged, SweptSoFar, PurgedEvidenceGone
<1>9. CASE SweepFails
  <2>1. /\ maint'.pc = "idle" /\ maint'.pending = {} /\ UNCHANGED <<row, localDir, store, purgeQueue>>
    BY <1>9 DEF SweepFails, Resting
  <2> QED BY <2>1 DEF EvidenceInv, QueuedIsPurged, SweptSoFar, PurgedEvidenceGone
<1>10. CASE UNCHANGED vars
  BY <1>10 DEF vars, EvidenceInv, QueuedIsPurged, SweptSoFar, PurgedEvidenceGone
<1>11. CASE \E r \in Runs : Submit(r) \/ Cancel(r) \/ LeaseExpires(r) \/ RetentionExpires(r)
  <2>1. UNCHANGED <<purgeQueue, maint>>
    BY <1>11 DEF Submit, Cancel, LeaseExpires, RetentionExpires
  <2> QED BY <1>4, <1>5, <2>1
<1>12. CASE \E w \in Workers : WorkerStep(w)
  <2>1. UNCHANGED <<purgeQueue, maint>>
    <3>1. PICK w \in Workers : WorkerStep(w) BY <1>12
    <3>2. CASE \/ \E r \in Runs : Claim(w, r)
               \/ Launch(w) \/ Throw(w) \/ SeeMarker(w) \/ Export(w) \/ ClearDestination(w)
               \/ Rename(w) \/ Hash(w) \/ CleanUp(w)
      BY <3>2 DEF Claim, Launch, Throw, SeeMarker, Export, ClearDestination, Rename, Hash, CleanUp
    <3>3. CASE \/ \E o \in Objects : UploadObject(w, o)
               \/ \E v \in Verdicts : Commit(w, v)
               \/ UploadFails(w) \/ CommitFails(w) \/ Release(w) \/ CheckOwnership(w)
               \/ PurgeRemote(w) \/ Discard(w) \/ RecordFailure(w)
      BY <3>3 DEF UploadObject, UploadFails, Commit, CommitFails, Release, CheckOwnership,
         PurgeRemote, Discard, RecordFailure
    <3> QED BY <3>1, <3>2, <3>3 DEF WorkerStep
  <2> QED BY <1>4, <1>5, <2>1
<1>13. CASE \E w \in Workers : RecoveryStep(w) \/ Heartbeat(w) \/ KillContainer(w) \/ Crash(w)
  <2>1. UNCHANGED <<purgeQueue, maint>>
    BY <1>13 DEF RecoveryStep, BeginRecovery, Reap, Requeue, AuditRecovery, EndRecovery, Heartbeat,
       KillContainer, Crash
  <2> QED BY <1>4, <1>5, <2>1
<1>14. CASE MaintenanceStep \/ SweepFails
  BY <1>4, <1>6, <1>7, <1>8, <1>9, <1>14 DEF MaintenanceStep
<1> QED BY <1>10, <1>11, <1>12, <1>13, <1>14 DEF Next

(* Without an object store there is no upload.                             *)
LEMMA NoStoreNext ==
    ASSUME EvidenceInv, [Next]_vars PROVE NoStoreNoObjects'
<1> SUFFICES ASSUME ~HasStore
             PROVE  /\ \A w \in Workers : proc'[w].pc # "uploading"
                    /\ \A r \in Runs : store'[r] = NoObjects
  BY DEF NoStoreNoObjects
<1>1. /\ proc \in [Workers -> Proc] /\ store \in [Runs -> [Objects -> Attempts]]
      /\ \A w \in Workers : proc[w].pc # "uploading"
      /\ \A r \in Runs : store[r] = NoObjects
  BY DEF EvidenceInv, NoStoreNoObjects, LeaseInv, TypeInv, TypeOK
<1>2. \A r \in Runs : store'[r] = NoObjects
  <2>1. CASE \E w \in Workers : PurgeRemote(w)
    <3>1. PICK w \in Workers : PurgeRemote(w) BY <2>1
    <3>2. proc[w].run \in Runs BY <3>1 DEF PurgeRemote, EvidenceInv, LeaseInv, TypeInv, BusyHasRun
    <3>3. PICK kept \in SUBSET Objects :
             store' = [store EXCEPT ![proc[w].run] =
                         [o \in Objects |-> IF o \in kept THEN @[o] ELSE 0]]
      BY <3>1 DEF PurgeRemote
    <3>4. \A r \in Runs : store[r] = [o \in Objects |-> 0] BY <1>1 DEF NoObjects
    <3>5. \A r \in Runs \ {proc[w].run} : store'[r] = store[r] BY <1>1, <3>3
    <3>6. store'[proc[w].run] = [o \in Objects |-> IF o \in kept THEN store[proc[w].run][o] ELSE 0]
      BY <1>1, <3>2, <3>3
    <3>7. \A o \in kept : store[proc[w].run][o] = 0 BY <3>2, <3>4
    <3>8. store'[proc[w].run] = NoObjects BY <3>6, <3>7 DEF NoObjects
    <3> QED BY <1>1, <3>5, <3>8
  <2>2. CASE store' = store BY <1>1, <2>2
  <2>3. CASE \E w \in Workers : WorkerStep(w) /\ ~PurgeRemote(w)
    <3>1. PICK w \in Workers : WorkerStep(w) /\ ~PurgeRemote(w) BY <2>3
    <3>2. CASE \/ \E r \in Runs : Claim(w, r)
               \/ Launch(w) \/ Throw(w) \/ SeeMarker(w) \/ Export(w) \/ ClearDestination(w)
               \/ Rename(w) \/ Hash(w) \/ CleanUp(w)
      <4>1. store' = store
        BY <3>2 DEF Claim, Launch, Throw, SeeMarker, Export, ClearDestination, Rename, Hash, CleanUp
      <4> QED BY <2>2, <4>1
    <3>3. CASE \/ \E v \in Verdicts : Commit(w, v)
               \/ UploadFails(w) \/ CommitFails(w) \/ Release(w) \/ CheckOwnership(w)
               \/ Discard(w) \/ RecordFailure(w)
      <4>1. store' = store
        BY <3>3 DEF UploadFails, Commit, CommitFails, Release, CheckOwnership, Discard, RecordFailure
      <4> QED BY <2>2, <4>1
    <3>4. ~\E o \in Objects : UploadObject(w, o) BY <1>1 DEF UploadObject
    <3> QED BY <3>1, <3>2, <3>3, <3>4 DEF WorkerStep
  <2>4. CASE \/ \E r \in Runs : Submit(r) \/ Cancel(r) \/ LeaseExpires(r) \/ RetentionExpires(r)
             \/ \E w \in Workers : RecoveryStep(w) \/ Heartbeat(w) \/ KillContainer(w) \/ Crash(w)
             \/ MaintenanceStep \/ SweepFails
    <3>1. store' = store
      BY <2>4 DEF Submit, Cancel, LeaseExpires, RetentionExpires, RecoveryStep, BeginRecovery, Reap,
         Requeue, AuditRecovery, EndRecovery, Heartbeat, KillContainer, Crash,
         MaintenanceStep, PurgeRows, SweepStore, SweepLocal, Dequeue, SweepFails
    <3> QED BY <2>2, <3>1
  <2>5. CASE UNCHANGED vars BY <2>2, <2>5 DEF vars
  <2> QED BY <2>1, <2>3, <2>4, <2>5 DEF Next
<1>3. \A w \in Workers : proc'[w].pc # "uploading"
  <2>1. CASE proc' = proc BY <1>1, <2>1
  <2>2. CASE \E w \in Workers :
                WorkerStep(w) \/ RecoveryStep(w) \/ Heartbeat(w) \/ KillContainer(w) \/ Crash(w)
    <3>1. PICK w \in Workers :
                WorkerStep(w) \/ RecoveryStep(w) \/ Heartbeat(w) \/ KillContainer(w) \/ Crash(w)
      BY <2>2
    <3>2. \A u \in Workers \ {w} : proc'[u] = proc[u] BY <3>1, MovesOne DEF EvidenceInv
    <3>3. CASE proc'[w].pc = proc[w].pc BY <1>1, <3>2, <3>3
    <3>4. CASE proc'[w].pc # "uploading" BY <1>1, <3>2, <3>4
    <3>5. CASE \/ \E v \in Verdicts : Commit(w, v)
               \/ UploadFails(w) \/ CommitFails(w) \/ Release(w) \/ CheckOwnership(w)
               \/ PurgeRemote(w) \/ Discard(w) \/ RecordFailure(w) \/ Crash(w) \/ RecoveryStep(w)
      BY <3>4, <3>5, LeavesJob DEF EvidenceInv, EndingPCs, RecoveryPCs
    <3>6. CASE (\E r \in Runs : Claim(w, r)) \/ Heartbeat(w)
      BY <3>3, <3>4, <3>6, ClaimBegins, HeartbeatBeats DEF EvidenceInv
    <3>7. CASE KillContainer(w) BY <1>1, <3>3, <3>7 DEF KillContainer, Proc
    <3>8. CASE Launch(w) \/ Throw(w) \/ SeeMarker(w) \/ Export(w) \/ ClearDestination(w)
               \/ Rename(w) \/ Hash(w) \/ CleanUp(w)
      <4>1. proc'[w].pc \in {"waiting", "aborting", "exporting", "publishing", "renaming", "hashing",
                             "cleaning", "committing", FailurePC}
        <5>1. CASE Hash(w)
          <6>1. proc'[w] = [proc[w] EXCEPT !.pc = "cleaning", !.cancelled = FALSE,
                                           !.inventory = localDir[proc[w].run]]
            BY <1>1, <5>1 DEF Hash
          <6>2. proc[w] \in Proc BY <1>1
          <6> QED BY <6>1, <6>2 DEF Proc
        <5> QED BY <1>1, <3>8, <5>1 DEF Launch, Throw, SeeMarker, Export, ClearDestination, Rename,
                CleanUp, Step, Proc
      <4> QED BY <3>4, <4>1 DEF FailurePC
    <3>9. ~\E o \in Objects : UploadObject(w, o) BY <1>1 DEF UploadObject
    <3> QED BY <3>1, <3>5, <3>6, <3>7, <3>8, <3>9 DEF WorkerStep
  <2>3. CASE \/ \E r \in Runs : Submit(r) \/ Cancel(r) \/ LeaseExpires(r) \/ RetentionExpires(r)
             \/ MaintenanceStep \/ SweepFails
    <3>1. proc' = proc
      BY <2>3 DEF Submit, Cancel, LeaseExpires, RetentionExpires, MaintenanceStep, PurgeRows,
         SweepStore, SweepLocal, Dequeue, SweepFails
    <3> QED BY <2>1, <3>1
  <2>4. CASE UNCHANGED vars BY <2>1, <2>4 DEF vars
  <2> QED BY <2>2, <2>3, <2>4 DEF Next
<1> QED BY <1>2, <1>3

(* The evidence is in order initially.                                     *)
LEMMA EvidenceInit == Init => EvidenceInv
<1> SUFFICES ASSUME Init PROVE EvidenceInv
  OBVIOUS
<1>1. LeaseInv BY LeaseInit
<1>2. \A r \in Runs : row[r].status = "absent" BY DEF Init, NoRow
<1>3. \A w \in Workers : proc[w].pc = "idle" BY DEF Init, Idle
<1>4. /\ maint.pc = "idle" /\ maint.pending = {} /\ purgeQueue = {}
      /\ \A r \in Runs : store[r] = NoObjects
  BY DEF Init, Resting
<1>5. HoldInv
  BY <1>2, <1>3, PCNames
  DEF HoldInv, JobHolds, RecoveryHolds, LapseMeansDeath, LeaseLapsed, RecoveryPCs
<1>6. BundleInv BY <1>3 DEF BundleInv, ContainerThere, OwnBytes, HeartbeatPCs
<1>7. QueuedIsPurged /\ SweptSoFar /\ NoStoreNoObjects
  BY <1>3, <1>4 DEF QueuedIsPurged, SweptSoFar, NoStoreNoObjects
<1>8. EvidenceMatchesResult /\ PurgedEvidenceGone
  BY <1>2 DEF EvidenceMatchesResult, PurgedEvidenceGone
<1> QED BY <1>1, <1>5, <1>6, <1>7, <1>8 DEF EvidenceInv

(* Every step keeps it in order, when no live worker is late.              *)
LEMMA EvidenceNext ==
    ASSUME Punctual = Workers PROVE EvidenceInv /\ [Next]_vars => EvidenceInv'
<1> SUFFICES ASSUME EvidenceInv, [Next]_vars PROVE EvidenceInv'
  OBVIOUS
<1>1. LeaseInv' BY LeaseNext DEF EvidenceInv
<1>2. HoldInv' /\ BundleInv' BY HoldNext, BundleNext DEF EvidenceInv
<1>3. QueuedIsPurged' /\ SweptSoFar' /\ PurgedEvidenceGone' BY PurgeNext
<1>4. NoStoreNoObjects' /\ EvidenceMatchesResult' BY NoStoreNext, MatchesNext
<1> QED BY <1>1, <1>2, <1>3, <1>4 DEF EvidenceInv

(* So it is in order in every reachable state.                             *)
THEOREM EvidenceInvariant == ASSUME Punctual = Workers PROVE Spec => []EvidenceInv
<1>1. EvidenceInv /\ [Next]_vars => EvidenceInv' BY EvidenceNext
<1> QED BY <1>1, EvidenceInit, PTL DEF Spec

(* A completed run is served from the bytes its result was computed from,  *)
(* directory and object store, when no live worker is late for its lease:  *)
(* lost COMMIT answers, failed uploads and crashes do not disturb it       *)
(* (recordSuccessfulRun, deleteRun, the catch block of worker.js).         *)
THEOREM EvidenceTheorem == ASSUME Punctual = Workers PROVE Spec => []EvidenceMatchesResult
<1>1. EvidenceInv => EvidenceMatchesResult BY DEF EvidenceInv
<1> QED BY <1>1, EvidenceInvariant, PTL

(* No reaper takes the container of a live lease, when no live worker is   *)
(* late (recoverExpiredRuns).                                              *)
THEOREM ContainerTheorem == ASSUME Punctual = Workers PROVE Spec => []LiveJobKeepsItsContainer
<1>1. EvidenceInv => LiveJobKeepsItsContainer
  BY DEF EvidenceInv, BundleInv, ContainerThere, LiveJobKeepsItsContainer
<1> QED BY <1>1, EvidenceInvariant, PTL

(* What retention has forgotten is gone from the directory and from the    *)
(* store, whatever failed on the way, when no live worker is late          *)
(* (purgeExpiredRecords, sweepArtifactPurgeQueue).                         *)
THEOREM PurgeTheorem == ASSUME Punctual = Workers PROVE Spec => []PurgedEvidenceGone
<1>1. EvidenceInv => PurgedEvidenceGone BY DEF EvidenceInv
<1> QED BY <1>1, EvidenceInvariant, PTL
=============================================================================
