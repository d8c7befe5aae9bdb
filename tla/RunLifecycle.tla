---------------------------- MODULE RunLifecycle ----------------------------
(***************************************************************************)
(* What the control plane promises about one queued release run, without   *)
(* workers, leases, reapers or files.  A run is queued, attempted a        *)
(* bounded number of times, and settles exactly once; a run somebody asked *)
(* to stop can settle only as cancelled; a verdict other than INCONCLUSIVE *)
(* comes only from a completed attempt.  RunQueue implements this module.  *)
(***************************************************************************)
EXTENDS Naturals

CONSTANTS
    Runs,          \* ids of the runs a client may submit
    MaxAttempts    \* attempts one run may consume (MAX_ATTEMPTS)

VARIABLE life      \* the state of each run

Settled  == {"completed", "failed", "cancelled"}
Verdicts == {"SHIP", "HOLD", "INCONCLUSIVE"}

Life == [phase    : {"absent", "queued", "running", "purged"} \cup Settled,
         tries    : 0..MaxAttempts,
         verdict  : Verdicts \cup {"none"},
         stopping : BOOLEAN]

Unborn == [phase |-> "absent", tries |-> 0, verdict |-> "none", stopping |-> FALSE]

Init == life = [r \in Runs |-> Unborn]

Enqueue(r) ==
    /\ life[r].phase = "absent"
    /\ life' = [life EXCEPT ![r].phase = "queued"]

Start(r) ==
    /\ life[r].phase = "queued"
    /\ life[r].tries < MaxAttempts
    /\ life' = [life EXCEPT ![r].phase = "running", ![r].tries = @ + 1]

AskToStop(r) ==
    /\ life[r].phase = "running"
    /\ life' = [life EXCEPT ![r].stopping = TRUE]

Finish(r, v) ==
    /\ life[r].phase = "running"
    /\ ~life[r].stopping
    /\ life' = [life EXCEPT ![r].phase = "completed", ![r].verdict = v]

(* A harness failure or a lost worker: one more attempt, or INCONCLUSIVE.  *)
Retry(r) ==
    /\ life[r].phase = "running"
    /\ ~life[r].stopping
    /\ life[r].tries < MaxAttempts
    /\ life' = [life EXCEPT ![r].phase = "queued"]

GiveUp(r) ==
    /\ life[r].phase = "running"
    /\ ~life[r].stopping
    /\ life[r].tries = MaxAttempts
    /\ life' = [life EXCEPT ![r].phase = "failed", ![r].verdict = "INCONCLUSIVE"]

Stop(r) ==
    /\ \/ life[r].phase = "queued"
       \/ life[r].phase = "running" /\ life[r].stopping
    /\ life' = [life EXCEPT ![r].phase = "cancelled"]

(* Retention removes any set of runs, but never one that is running.       *)
Forget(S) ==
    /\ \A r \in S : life[r].phase \in Settled \cup {"queued"}
    /\ life' = [r \in Runs |-> IF r \in S THEN [Unborn EXCEPT !.phase = "purged"]
                                          ELSE life[r]]

Next ==
    \/ \E r \in Runs : \/ Enqueue(r)
                       \/ Start(r)
                       \/ AskToStop(r)
                       \/ \E v \in Verdicts : Finish(r, v)
                       \/ Retry(r)
                       \/ GiveUp(r)
                       \/ Stop(r)
    \/ \E S \in SUBSET Runs : Forget(S)

Spec == Init /\ [][Next]_life
=============================================================================
