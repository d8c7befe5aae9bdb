----------------------------- MODULE PurgeSweep -----------------------------
(***************************************************************************)
(* The sweep of artifact_purge_queue that follows the retention transaction*)
(* (maintenance.js), with the deletion of a run's objects in the store     *)
(* (deleteRun of artifact-store.js) and of its local directory.  A sweep   *)
(* takes the oldest entries up to its LIMIT, in order, and the first error *)
(* ends it.  Several API processes may sweep at once; in one process the   *)
(* next interval waits for the sweep in flight.                            *)
(*                                                                         *)
(* A page of a listing and its deletion are one step.  An error may happen *)
(* at any entry (a fault of the network or the store), and happens at every*)
(* attempt for a stuck one: an object the store refuses to delete, or a    *)
(* path that is not a directory.                                           *)
(***************************************************************************)
EXTENDS Naturals, Sequences, FiniteSets, SequencesExt

CONSTANTS
    PurgedRuns,    \* runs that the retention transaction deletes
    Sweepers,      \* API processes
    Pages,         \* pages of objects of a run in the store
    SweepLimit     \* LIMIT 100

VARIABLES
    purgeLog,      \* artifact_purge_queue, oldest requested_at first
    left,          \* pages of each run that the store still has
    onDisk,        \* runs that have a local directory
    stuck,         \* runs whose deletion fails at every attempt
    sweep          \* the batch that each process has still to do

sweepVars == <<purgeLog, left, onDisk, stuck, sweep>>

Waiting == {purgeLog[i] : i \in DOMAIN purgeLog}

TypeOK ==
    /\ Waiting \subseteq PurgedRuns
    /\ Len(purgeLog) = Cardinality(Waiting)
    /\ left \in [PurgedRuns -> SUBSET Pages]
    /\ onDisk \subseteq PurgedRuns
    /\ stuck \subseteq PurgedRuns
    /\ sweep \in [Sweepers -> Seq(PurgedRuns)]

Init ==
    /\ purgeLog = <<>>
    /\ left = [r \in PurgedRuns |-> Pages]
    /\ onDisk = PurgedRuns
    /\ stuck \in SUBSET PurgedRuns
    /\ sweep = [s \in Sweepers |-> <<>>]

(* A run whose row is still there has all of its evidence.                 *)
Enqueue(r) ==
    /\ r \notin Waiting
    /\ r \in onDisk
    /\ purgeLog' = Append(purgeLog, r)
    /\ UNCHANGED <<left, onDisk, stuck, sweep>>

Newest(q, n) == [i \in 1..(IF Len(q) < n THEN Len(q) ELSE n) |-> q[Len(q) + 1 - i]]
Oldest(q, n) == SubSeq(q, 1, IF Len(q) < n THEN Len(q) ELSE n)

StartSweep(s) ==
    /\ sweep[s] = <<>>
    /\ purgeLog # <<>>
    /\ sweep' = [sweep EXCEPT ![s] = Oldest(purgeLog, SweepLimit)]
    /\ UNCHANGED <<purgeLog, left, onDisk, stuck>>

(* deleteRun: one page after the other, whoever else is deleting.          *)
DeletePage(s) ==
    /\ sweep[s] # <<>>
    /\ Head(sweep[s]) \notin stuck
    /\ \E page \in left[Head(sweep[s])] :
          left' = [left EXCEPT ![Head(sweep[s])] = @ \ {page}]
    /\ UNCHANGED <<purgeLog, onDisk, stuck, sweep>>

(* An entry removed before its objects.                                    *)
FinishEntryEarly(s) ==
    /\ sweep[s] # <<>>
    /\ Head(sweep[s]) \notin stuck
    /\ onDisk' = onDisk \ {Head(sweep[s])}
    /\ purgeLog' = RemoveFirst(purgeLog, Head(sweep[s]))
    /\ sweep' = [sweep EXCEPT ![s] = Tail(@)]
    /\ UNCHANGED <<left, stuck>>

(* The directory, then the entry; an entry another process has removed is  *)
(* no error.                                                               *)
FinishEntry(s) ==
    /\ sweep[s] # <<>>
    /\ Head(sweep[s]) \notin stuck
    /\ left[Head(sweep[s])] = {}
    /\ onDisk' = onDisk \ {Head(sweep[s])}
    /\ purgeLog' = RemoveFirst(purgeLog, Head(sweep[s]))
    /\ sweep' = [sweep EXCEPT ![s] = Tail(@)]
    /\ UNCHANGED <<left, stuck>>

SweepError(s) ==
    /\ sweep[s] # <<>>
    /\ Head(sweep[s]) \in stuck
    /\ sweep' = [sweep EXCEPT ![s] = <<>>]
    /\ UNCHANGED <<purgeLog, left, onDisk, stuck>>

(* A fault, or the death of the process.                                   *)
SweepFault(s) ==
    /\ sweep[s] # <<>>
    /\ sweep' = [sweep EXCEPT ![s] = <<>>]
    /\ UNCHANGED <<purgeLog, left, onDisk, stuck>>

Next ==
    \/ \E r \in PurgedRuns : Enqueue(r)
    \/ \E s \in Sweepers :
          \/ StartSweep(s) \/ DeletePage(s) \/ FinishEntry(s) \/ SweepError(s) \/ SweepFault(s)

Spec == Init /\ [][Next]_sweepVars

(* The interval goes on, and faults are not for ever.                      *)
Fairness ==
    /\ WF_sweepVars(\E s \in Sweepers : StartSweep(s))
    /\ \A s \in Sweepers : /\ SF_sweepVars(DeletePage(s))
                           /\ SF_sweepVars(FinishEntry(s))
                           /\ WF_sweepVars(SweepError(s))

FairSpec == Spec /\ Fairness

(* An entry goes only after everything it stands for: a sweep that fails   *)
(* or dies at any point leaves what a later one needs.                     *)
NothingForgotten ==
    \A r \in PurgedRuns : r \notin onDisk => left[r] = {} /\ r \notin Waiting

(* An entry that has no stuck one before it is swept in the end, whatever  *)
(* is stuck or arrives behind it.  (A stuck one keeps those behind it from *)
(* being swept.)                                                           *)
Unblocked(r) ==
    \E i \in DOMAIN purgeLog : purgeLog[i] = r /\ \A j \in 1..i : purgeLog[j] \notin stuck

UnblockedIsSwept == \A r \in PurgedRuns : Unblocked(r) ~> r \notin Waiting
=============================================================================
