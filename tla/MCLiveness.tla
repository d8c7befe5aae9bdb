----------------------------- MODULE MCLiveness -----------------------------
(* What must happen in the end, in each of the parts that promise it: a    *)
(* behaviour is about one of them, the variables of the others are idle.   *)
(* The fairness is that of the part.                                       *)
EXTENDS Naturals, TLC

CONSTANTS a1, a2, a3

Actors == {a1, a2, a3}

VARIABLE subject

VARIABLES row, audits, proc, containers, localDir, store, purgeQueue, maint
queueVars == <<row, audits, proc, containers, localDir, store, purgeQueue, maint>>
QueueRuns    == {"r1"}
Queue == INSTANCE RunQueue WITH
    Runs <- QueueRuns, Workers <- Actors, Objects <- {"report"}, NoWorker <- "nobody",
    NoRun <- "no run", MaxAttempts <- 2, HasStore <- FALSE, Crashable <- {a1, a2},
    Punctual <- Actors, Expiring <- QueueRuns

VARIABLES runs, req, lock, day
admissionVars == <<runs, req, lock, day>>
Submissions == {a1, a2}
Admission == INSTANCE RunAdmission WITH
    Requests <- Submissions, Keys <- {"k1", "k2"}, Targets <- {"t1"}, NoRequest <- "nobody",
    DailyLimit <- 1, ConcurrentLimit <- 1, Retention <- 2, LastDay <- 2

VARIABLES caller, promises, sessionLock, records, usage, parent, ownPool
reviewVars == <<caller, promises, sessionLock, records, usage, parent, ownPool>>
ReviewCallers == {a1, a2}
Reviews == INSTANCE ReviewRequests WITH
    Asked <- {"review", "proposal"}, Callers <- ReviewCallers, Processes <- {"api"},
    Keys <- {"key"}, Bodies <- {"body", "other"}, Nobody <- "nobody", PoolSize <- 1,
    DailyLimit <- 1, Faults <- {"crash", "write"}

VARIABLES purgeLog, left, onDisk, stuck, sweep
sweepVars == <<purgeLog, left, onDisk, stuck, sweep>>
SweptRuns == {"r1", "r2", "r3"}
SweepApis == {a1}
Sweep == INSTANCE PurgeSweep WITH
    PurgedRuns <- SweptRuns, Sweepers <- SweepApis, Pages <- {1}, SweepLimit <- 1

Init ==
    /\ subject \in {"queue", "admission", "reviews", "sweep"}
    /\ IF subject = "queue" THEN Queue!Init
       ELSE /\ row = "idle" /\ audits = "idle" /\ proc = "idle" /\ containers = "idle"
            /\ localDir = "idle" /\ store = "idle" /\ purgeQueue = "idle" /\ maint = "idle"
    /\ IF subject = "admission" THEN Admission!Init
       ELSE runs = "idle" /\ req = "idle" /\ lock = "idle" /\ day = "idle"
    /\ IF subject = "reviews" THEN Reviews!Init
       ELSE /\ caller = "idle" /\ promises = "idle" /\ sessionLock = "idle" /\ records = "idle"
            /\ usage = "idle" /\ parent = "idle" /\ ownPool = "idle"
    /\ IF subject = "sweep" THEN Sweep!Init
       ELSE purgeLog = "idle" /\ left = "idle" /\ onDisk = "idle" /\ stuck = "idle" /\ sweep = "idle"

Next ==
    /\ IF subject = "queue"     THEN Queue!Next     ELSE UNCHANGED queueVars
    /\ IF subject = "admission" THEN Admission!Next ELSE UNCHANGED admissionVars
    /\ IF subject = "reviews"   THEN Reviews!Next   ELSE UNCHANGED reviewVars
    /\ IF subject = "sweep"     THEN Sweep!Next     ELSE UNCHANGED sweepVars
    /\ UNCHANGED subject

livenessVars == <<subject, queueVars, admissionVars, reviewVars, sweepVars>>

(* The variables that are not idle. *)
subjectVars ==
    CASE subject = "queue"     -> queueVars
      [] subject = "admission" -> admissionVars
      [] subject = "reviews"   -> reviewVars
      [] subject = "sweep"     -> sweepVars

(* An actor alive goes on with what it does. *)
OwnStep(a) == UNCHANGED subject /\
    \/ subject = "queue" /\ Queue!WorkerStep(a)
    \/ subject = "admission" /\ a \in Submissions /\ Admission!Transact(a)
    \/ subject = "reviews" /\ a \in ReviewCallers /\ Reviews!Progress(a)
    \/ subject = "sweep" /\ a \in SweepApis /\ Sweep!SweepError(a)

(* Its interval timers fire. *)
TimerStep(a) == UNCHANGED subject /\
    \/ subject = "queue" /\ Queue!RecoveryStep(a)
    \/ subject = "sweep" /\ a \in SweepApis /\ Sweep!StartSweep(a)

(* What can be taken from it again and again it gets in the end: a lock is *)
(* granted in turn, the store does not fail for ever.                      *)
ContendedStep(a) == UNCHANGED subject /\
    \/ subject = "admission" /\ a \in Submissions /\ Admission!Lock(a)
    \/ subject = "reviews" /\ a \in ReviewCallers /\ Reviews!Lock(a)
    \/ subject = "sweep" /\ a \in SweepApis /\ Sweep!DeletePage(a)

Fairness ==
    /\ \A a \in Actors : WF_subjectVars(OwnStep(a)) /\ WF_subjectVars(TimerStep(a))
    /\ \A a \in Submissions : SF_subjectVars(ContendedStep(a))
    /\ \A a \in SweepApis : SF_subjectVars(UNCHANGED subject /\ subject = "sweep" /\ Sweep!FinishEntry(a))
    /\ \A r \in QueueRuns : WF_subjectVars(UNCHANGED subject /\ subject = "queue" /\ Queue!LeaseExpires(r))
    /\ WF_subjectVars(UNCHANGED subject /\ subject = "queue" /\ Queue!MaintenanceStep)

FairSpec == Init /\ [][Next]_livenessVars /\ Fairness

(* As long as one worker lives, a queued run settles or is purged.         *)
EveryRunSettles ==
    \A r \in QueueRuns : (subject = "queue" /\ row[r].status = "queued")
                             ~> subject = "queue" /\ row[r].status \in Queue!Settled \cup {"purged"}

(* ... and a run that is asked to stop is cancelled.                       *)
CancelTakesEffect ==
    \A r \in QueueRuns :
        (subject = "queue" /\ row[r].status = "running" /\ row[r].cancelRequested)
            ~> subject = "queue" /\ row[r].status \in {"cancelled", "purged"}

(* A submitted request is answered, unless its process dies.               *)
EveryRequestAnswered ==
    \A q \in Submissions : (subject = "admission" /\ req[q].pc = "waiting")
                               ~> subject = "admission" /\ req[q].pc \in {"answered", "lost"}

(* A caller of the paid routes is answered, also when waiting callers hold *)
(* every connection of the pool.                                           *)
EveryCallerAnswered ==
    \A c \in ReviewCallers : (subject = "reviews" /\ caller[c].pc \notin {"idle", "lost"})
                                 ~> subject = "reviews" /\ caller[c].pc \in {"done", "lost"}

(* An entry of the purge queue with nothing stuck before it is swept.      *)
UnblockedIsSwept ==
    \A r \in SweptRuns : (subject = "sweep" /\ Sweep!Unblocked(r))
                              ~> subject = "sweep" /\ r \notin Sweep!Waiting
=============================================================================
