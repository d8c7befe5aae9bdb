--------------------------- MODULE MatrixRelease ---------------------------
(***************************************************************************)
(* The command line from capture to release: `atlas matrix` runs every     *)
(* profile in a page of its own, retries an attempt that throws, judges    *)
(* the trace and writes it; `atlas replay` re-runs a trace from disk;      *)
(* `atlas gate` reads what is on disk and decides.  The worker's job runs  *)
(* the matrix and the gate in a row, in a fresh container.  Commands run   *)
(* one at a time and leave files behind, which later commands read; a      *)
(* command may die at any step.                                            *)
(*                                                                         *)
(* A page of the bundled experience ("orbital") posts its own trace to the *)
(* runner's server, when it likes; the trace of a target page is read back *)
(* by the runner.                                                          *)
(***************************************************************************)
EXTENDS ReleaseRules

CONSTANTS
    Profiles,       \* the profiles of profiles.js
    Plans,          \* the lists of profiles a matrix may be asked for
    Baseline,       \* low-cpu-3g, which also runs with the router bypassed
    MaxAttempts,    \* 1 + the retries of a profile
    Observable,     \* the facts a page may show
    Answer,         \* what the primary engine may answer
    MaxMatrices     \* bound on the number of matrix commands

ASSUME MatrixAssumption ==
    /\ Plans \subseteq Seq(Profiles)
    /\ Baseline \in Profiles
    /\ MaxAttempts \in Nat \ {0}
    /\ MaxMatrices \in Nat
    /\ Observable \subseteq Facts
    /\ Answer \subseteq Answers

(* A list names a profile once: a second run would overwrite the first.    *)
ASSUME DistinctAssumption ==
    \A profiles \in Plans : \A i, j \in DOMAIN profiles : profiles[i] = profiles[j] => i = j

VARIABLES
    command,    \* what the command line is doing
    matrix,     \* the number of the last matrix command
    mode,       \* "orbital", or "target" for a contract
    plan,       \* the steps of the matrix: <<profile, kind>>
    rows,       \* the rows pushed so far; the next step is Len(rows) + 1
    attempt,    \* of the current step
    stage,      \* where the attempt stands
    journey,    \* what the drive returned: "none", "pass" or "fail"
    posted,     \* the attempt's page has posted its trace
    inFlight,   \* traces of this step on their way to the server, by attempt
    received,   \* the first trace with the trace id of this step in server.traces
    result,     \* of the session: its trace, its error and the verdict
    replaying,  \* the kind of the run that atlas replay re-runs
    disk        \* the files the commands leave
stepVars == <<attempt, stage, journey, posted, inFlight, received, result>>
vars == <<command, matrix, mode, plan, rows, stepVars, replaying, disk>>

Kinds == {"baseline", "adaptive"}
Runs == Profiles \X Kinds

NoResult == [trace |-> NoTrace, error |-> FALSE, verdict |-> NoVerdict]
NoFiles == [run \in Runs |-> NoTrace]

Step == plan[Len(rows) + 1]

(* One trace id serves every attempt of a step.                            *)
Trace(f) == [matrix |-> matrix, mode |-> mode, run |-> Step, facts |-> f]

Init ==
    /\ command = "idle" /\ matrix = 0 /\ mode = "orbital" /\ plan = <<>> /\ rows = <<>>
    /\ attempt = 1 /\ stage = "closed" /\ journey = "none" /\ posted = FALSE
    /\ inFlight = {} /\ received = NoTrace /\ result = NoResult
    /\ replaying = {}
    /\ disk = [traces |-> NoFiles, report |-> NoReport, gate |-> NoReport, job |-> NoReport,
               replay |-> [kind \in Kinds |-> "none"]]

(***************************************************************************)
(* atlas matrix                                                            *)
(***************************************************************************)
NewSession ==
    stage' = "closed" /\ journey' = "none" /\ posted' = FALSE /\ result' = NoResult

NewStep == NewSession /\ attempt' = 1 /\ inFlight' = {} /\ received' = NoTrace

(* A target has no router to bypass, hence no baseline.  The last gate's   *)
(* report stays on disk, but is forgotten here: no later command reads it. *)
NewMatrix(m, profiles, baseline) ==
    /\ baseline => m = "orbital" /\ \E i \in DOMAIN profiles : profiles[i] = Baseline
    /\ matrix' = matrix + 1
    /\ mode' = m
    /\ plan' = (IF baseline THEN << <<Baseline, "baseline">> >> ELSE <<>>)
                 \o [i \in DOMAIN profiles |-> <<profiles[i], "adaptive">>]
    /\ rows' = <<>> /\ NewStep
    /\ disk' = [disk EXCEPT !.gate = NoReport]
    /\ UNCHANGED replaying

StartMatrix(m, profiles, baseline) ==
    /\ command = "idle" /\ matrix < MaxMatrices
    /\ command' = "cleaning"
    /\ NewMatrix(m, profiles, baseline)

(* execute-job.js, in a container of its own: there is nothing to clean.   *)
StartJob(profiles) ==
    /\ command = "idle" /\ matrix = 0
    /\ command' = "job"
    /\ NewMatrix("target", profiles, FALSE)

SamePlan == UNCHANGED <<command, matrix, mode, plan, rows, replaying>>

(* emptyDir, file by file and in any order.                                *)
RemoveReport ==
    /\ command = "cleaning" /\ disk.report # NoReport
    /\ disk' = [disk EXCEPT !.report = NoReport]
    /\ SamePlan /\ UNCHANGED stepVars

RemoveTrace(run) ==
    /\ command = "cleaning" /\ disk.traces[run] # NoTrace
    /\ disk' = [disk EXCEPT !.traces[run] = NoTrace]
    /\ SamePlan /\ UNCHANGED stepVars

(* A matrix that starts among the files of the last one (--no-clean).      *)
NotCleaned ==
    /\ command = "cleaning"
    /\ command' = "matrix"
    /\ UNCHANGED <<matrix, mode, plan, rows, stepVars, replaying, disk>>

Cleaned ==
    /\ command = "cleaning" /\ disk.report = NoReport /\ disk.traces = NoFiles
    /\ command' = "matrix"
    /\ UNCHANGED <<matrix, mode, plan, rows, stepVars, replaying, disk>>

Working == command \in {"matrix", "job"} /\ Len(rows) < Len(plan)

(* runSession.                                                             *)
OpenPage ==
    /\ Working /\ stage = "closed"
    /\ stage' = "open"
    /\ SamePlan /\ UNCHANGED <<attempt, journey, posted, inFlight, received, result, disk>>

(* Orbital's page posts once, when its journey ends or fails.              *)
PagePosts(f) ==
    /\ Working /\ mode = "orbital" /\ stage \in {"open", "driven"} /\ ~posted
    /\ posted' = TRUE
    /\ inFlight' = inFlight \cup {<<attempt, Trace(f)>>}
    /\ SamePlan /\ UNCHANGED <<attempt, stage, journey, received, result, disk>>

(* The request arrives, perhaps when its page is gone, or it is lost.      *)
PostEnds(post, arrives) ==
    /\ Working /\ post \in inFlight
    /\ inFlight' = inFlight \ {post}
    /\ received' = IF arrives /\ received = NoTrace THEN post[2] ELSE received
    /\ SamePlan /\ UNCHANGED <<attempt, stage, journey, posted, result, disk>>

(* The drive returns; a failing step is a result and not an exception.     *)
DriveEnds(outcome) ==
    /\ Working /\ stage = "open"
    /\ journey' = outcome
    /\ stage' = "driven"
    /\ SamePlan /\ UNCHANGED <<attempt, posted, inFlight, received, result, disk>>

SessionReturns(trace, error) ==
    /\ result' = [trace |-> trace, error |-> error, verdict |-> NoVerdict]
    /\ stage' = "returned"
    /\ SamePlan /\ UNCHANGED <<attempt, journey, posted, inFlight, received, disk>>

(* Orbital, driven to the end: the page is done when its post is answered  *)
(* or has failed.  awaitTrace finds the first trace with the id, or none   *)
(* within its time.                                                        *)
TakePostedTrace ==
    /\ Working /\ mode = "orbital" /\ stage = "driven" /\ journey = "pass"
    /\ posted /\ \A post \in inFlight : post[1] # attempt
    /\ SessionReturns(received, received = NoTrace)

(* What the page's recorder yields when it is read.                        *)
Harvest == {Trace(f) : f \in Observable} \cup {NoTrace}

(* A target's recorder, or Orbital's when the drive gave up.               *)
HarvestTrace ==
    /\ Working /\ stage = "driven" /\ (mode = "target" \/ journey = "fail")
    /\ \E trace \in Harvest : SessionReturns(trace, trace = NoTrace)

(* The harness fails, or the page is never done: runSession returns the    *)
(* error, with whatever trace there is, and throws nothing.                *)
SessionFails ==
    /\ Working /\ stage \in {"open", "driven"}
    /\ \E trace \in IF mode = "orbital" THEN {received} ELSE Harvest : SessionReturns(trace, TRUE)

(* runStepOnce, after the session: the verdict, then the file.             *)
JudgeAndSave(answer) ==
    /\ Working /\ stage = "returned" /\ result.trace # NoTrace
    /\ result' = [result EXCEPT !.verdict = GuardedVerdict(result.trace.facts, answer)]
    /\ disk' = [disk EXCEPT !.traces[Step] = result.trace]
    /\ stage' = "saved"
    /\ SamePlan /\ UNCHANGED <<attempt, journey, posted, inFlight, received>>

(* Only the drive of a contract has a journey outcome.                     *)
Row(trace, verdict, outcome, error) ==
    [profile |-> Step[1], kind |-> Step[2], trace |-> trace, verdict |-> verdict,
     journey |-> IF mode = "target" THEN outcome ELSE "none", error |-> error]

Push(row) ==
    /\ rows' = Append(rows, row)
    /\ NewStep
    /\ UNCHANGED <<command, matrix, mode, plan, replaying, disk>>

FinishStep ==
    /\ Working
    /\ stage = "saved" \/ (stage = "returned" /\ result.trace = NoTrace)
    /\ Push(Row(result.trace, result.verdict, journey, result.error))

(* The page could not be opened, or judging or writing a file threw.       *)
MayThrow ==
    /\ Working
    /\ \/ stage \in {"closed", "saved"}
       \/ stage = "returned" /\ result.trace # NoTrace

(* Retries that are not counted, and that are not bounded.                 *)
RetryForever ==
    /\ MayThrow /\ attempt < MaxAttempts
    /\ NewSession
    /\ SamePlan /\ UNCHANGED <<attempt, inFlight, received, disk>>

RetryUnbounded ==
    /\ MayThrow
    /\ attempt' = attempt + 1
    /\ NewSession
    /\ SamePlan /\ UNCHANGED <<inFlight, received, disk>>

Retry ==
    /\ MayThrow /\ attempt < MaxAttempts
    /\ attempt' = attempt + 1
    /\ NewSession
    /\ SamePlan /\ UNCHANGED <<inFlight, received, disk>>

Quarantine ==
    /\ MayThrow /\ attempt >= MaxAttempts
    /\ Push(Row(NoTrace, NoVerdict, "none", TRUE))

WriteReport ==
    /\ command \in {"matrix", "job"} /\ Len(rows) = Len(plan)
    /\ disk' = [disk EXCEPT !.report = [matrix |-> matrix, mode |-> mode, rows |-> rows]]
    /\ command' = IF command = "job" THEN "job gate" ELSE "idle"
    /\ plan' = <<>> /\ rows' = <<>>
    /\ UNCHANGED <<matrix, mode, stepVars, replaying>>

(***************************************************************************)
(* atlas replay                                                            *)
(***************************************************************************)
(* Of the baseline profile: the replay of another is read by nobody.       *)
(* assertReplayable refuses a target's trace.                              *)
StartReplay(kind) ==
    LET trace == disk.traces[<<Baseline, kind>>]
    IN  /\ command = "idle"
        /\ trace # NoTrace /\ trace.mode = "orbital"
        /\ command' = "replay"
        /\ replaying' = {kind}
        /\ disk' = [disk EXCEPT !.replay[kind] = "none"]
        /\ UNCHANGED <<matrix, mode, plan, rows, stepVars>>

(* verdictOf: an error, no trace, another causal structure or another      *)
(* picture is no reproduction; other timing is.                            *)
EndReplay(kind, error, traced, causal, visual) ==
    /\ command = "replay" /\ kind \in replaying
    /\ disk' = [disk EXCEPT !.replay[kind] =
                   IF ~error /\ traced /\ causal /\ visual THEN "reproduced" ELSE "diverged"]
    /\ command' = "idle"
    /\ replaying' = {}
    /\ UNCHANGED <<matrix, mode, plan, rows, stepVars>>

(***************************************************************************)
(* atlas gate, and the job of the worker                                   *)
(***************************************************************************)
(* loadReplay: the adaptive replay, else that of the baseline, of whatever *)
(* matrix it is.                                                           *)
ReplayOnDisk == IF disk.replay["adaptive"] # "none" THEN disk.replay["adaptive"]
                ELSE disk.replay["baseline"]

Decision(report, replay) == IF report.mode = "target"
                            THEN TargetRelease(report.rows)
                            ELSE GateDecision(report.rows, disk.traces, replay)

Gate(replay) == [matrix |-> disk.report.matrix, replay |-> replay,
                 decision |-> Decision(disk.report, replay)]

RunGate(replay) ==
    /\ command = "idle" /\ disk.report # NoReport
    /\ disk' = [disk EXCEPT !.gate = Gate(replay)]
    /\ UNCHANGED <<command, matrix, mode, plan, rows, stepVars, replaying>>

(* Any report will do.                                                     *)
CompleteEnough(report) == Len(report.rows) > 0

(* execute-job.js: a lost profile fails the job before the gate.           *)
Complete(report) == \A i \in DOMAIN report.rows : ~report.rows[i].error

JobGate ==
    /\ command = "job gate" /\ Complete(disk.report)
    /\ disk' = [disk EXCEPT !.gate = Gate("none")]
    /\ command' = "job result"
    /\ UNCHANGED <<matrix, mode, plan, rows, stepVars, replaying>>

JobFails ==
    /\ command = "job gate" /\ ~Complete(disk.report)
    /\ command' = "exited"
    /\ UNCHANGED <<matrix, mode, plan, rows, stepVars, replaying, disk>>

JobResult ==
    /\ command = "job result"
    /\ disk' = [disk EXCEPT !.job = [matrix |-> disk.gate.matrix, decision |-> disk.gate.decision]]
    /\ command' = "exited"
    /\ UNCHANGED <<matrix, mode, plan, rows, stepVars, replaying>>

(* The process dies; the files stay.  A job's container is not used again. *)
Crash ==
    /\ command \notin {"idle", "exited"}
    /\ command' = IF command \in {"job", "job gate", "job result"} THEN "exited" ELSE "idle"
    /\ plan' = <<>> /\ rows' = <<>> /\ NewStep /\ replaying' = {}
    /\ UNCHANGED <<matrix, mode, disk>>

(***************************************************************************)
(* What the runner does by itself: every wait in it has a timeout.         *)
(***************************************************************************)
Runner ==
    \/ RemoveReport \/ (\E run \in Runs : RemoveTrace(run)) \/ Cleaned
    \/ OpenPage
    \/ \E outcome \in {"pass", "fail"} : DriveEnds(outcome)
    \/ TakePostedTrace \/ HarvestTrace \/ SessionFails
    \/ \E answer \in Answer : JudgeAndSave(answer)
    \/ FinishStep \/ Retry \/ Quarantine \/ WriteReport
    \/ \E kind \in Kinds, error, traced, causal, visual \in BOOLEAN :
          EndReplay(kind, error, traced, causal, visual)
    \/ JobGate \/ JobFails \/ JobResult

Next ==
    \/ \E m \in {"orbital", "target"}, profiles \in Plans, baseline \in BOOLEAN :
          StartMatrix(m, profiles, baseline)
    \/ \E profiles \in Plans : StartJob(profiles)
    \/ Runner
    \/ \E f \in Observable : PagePosts(f)
    \/ \E post \in inFlight, arrives \in BOOLEAN : PostEnds(post, arrives)
    \/ \E kind \in Kinds : StartReplay(kind)
    \/ \E replay \in {ReplayOnDisk, "none"} : RunGate(replay)
    \/ Crash

Spec == Init /\ [][Next]_vars
FairSpec == Spec /\ WF_vars(Runner)

-----------------------------------------------------------------------------
Modes == {"orbital", "target"}
Replays == {"none", "reproduced", "diverged"}

TraceFile == [matrix : Nat, mode : Modes, run : Runs, facts : Observable]
AnyTrace == TraceFile \cup {NoTrace}
AnyVerdict == [outcome : Outcomes, severity : Nat] \cup {NoVerdict}

RowType == [profile : Profiles, kind : Kinds, trace : AnyTrace, verdict : AnyVerdict,
            journey : {"none", "pass", "fail"}, error : BOOLEAN]
Report == [matrix : Nat, mode : Modes, rows : Seq(RowType)]
GateReport == [matrix : Nat, replay : Replays, decision : {"ship", "hold", "inconclusive"}]
JobReport == [matrix : Nat, decision : {"ship", "hold", "inconclusive"}]

Disk == [traces : [Runs -> AnyTrace],
         report : Report \cup {NoReport},
         gate : GateReport \cup {NoReport},
         job : JobReport \cup {NoReport},
         replay : [Kinds -> Replays]]

TypeOK ==
    /\ command \in {"idle", "cleaning", "matrix", "job", "job gate", "job result", "replay",
                    "exited"}
    /\ matrix \in Nat
    /\ mode \in Modes
    /\ plan \in Seq(Runs)
    /\ rows \in Seq(RowType)
    /\ attempt \in 1..MaxAttempts
    /\ stage \in {"closed", "open", "driven", "returned", "saved"}
    /\ journey \in {"none", "pass", "fail"}
    /\ posted \in BOOLEAN
    /\ inFlight \subseteq (1..MaxAttempts) \X TraceFile
    /\ received \in AnyTrace
    /\ result \in [trace : AnyTrace, error : BOOLEAN, verdict : AnyVerdict]
    /\ replaying \subseteq Kinds
    /\ disk \in Disk

(* What release-gate.js asks of the trace of a critical profile, in terms  *)
(* of what the page did: it is not for a verdict to say otherwise.         *)
Usable(f) == /\ f.end /\ ~f.detour /\ f.visual \in {"sound", "drifted"}
             /\ f.legal /\ ~f.severe /\ f.complete

Reaches(f, floor) == f.scored => f.score >= floor

(* The report that the last gate has judged is still the one on disk.      *)
Judged == disk.gate # NoReport /\ disk.report # NoReport /\ disk.gate.matrix = disk.report.matrix

(* A row of the report has a trace that this matrix took of this run.      *)
Evidenced(r) == /\ r.trace # NoTrace
                /\ r.trace.matrix = disk.report.matrix
                /\ r.trace.run = Run(r)

(* The bundled experience is shipped only if every critical profile has a  *)
(* usable trace, taken by this matrix, with a score over the floor if its  *)
(* file can be read: whatever a model answered, and after whichever        *)
(* crashes, retries, late posts and earlier matrices.                      *)
ShippedMeansUsable ==
    Judged /\ disk.report.mode = "orbital" /\ disk.gate.decision = "ship" =>
        \A p \in Critical : \E i \in Graded(disk.report.rows) :
            LET r == disk.report.rows[i]
            IN  /\ r.profile = p
                /\ Evidenced(r)
                /\ Usable(r.trace.facts)
                /\ disk.traces[Run(r)] # NoTrace => Reaches(r.trace.facts, ScoreFloor)

(* A contract is shipped only if every critical profile finished its       *)
(* journey without a harness error and its score reaches both floors.      *)
TargetShipMeansProven ==
    Judged /\ disk.report.mode = "target" /\ disk.gate.decision = "ship" =>
        \A p \in Critical : \E i \in DOMAIN disk.report.rows :
            LET r == disk.report.rows[i]
            IN  /\ r.profile = p /\ r.journey = "pass" /\ ~r.error
                /\ Evidenced(r)
                /\ r.trace.facts.scored
                /\ r.trace.facts.score >= ScoreFloor /\ r.trace.facts.score >= MinimumScore

(* A hold always has a reason a team can act on: a critical profile        *)
(* without a usable trace over the floor, a model that judged it worse     *)
(* than the rules do, or a replay that did not reproduce.  The baseline,   *)
(* budgets below twice their target and other profiles are none.           *)
HoldHasReason ==
    Judged /\ disk.report.mode = "orbital" /\ disk.gate.decision = "hold" =>
        \/ disk.gate.replay = "diverged"
        \/ \E p \in Critical : \A i \in Graded(disk.report.rows) :
              LET r == disk.report.rows[i]
              IN  r.profile = p =>
                    \/ ~Evidenced(r)
                    \/ ~Usable(r.trace.facts)
                    \/ ~Reaches(r.trace.facts, ScoreFloor)
                    \/ r.verdict # RuleVerdict(r.trace.facts)

(* The files the report names are its own: the trace that is found where a *)
(* row says its trace is was taken by the matrix, for the run and with the *)
(* facts of that row.                                                      *)
FilesMatchReport ==
    disk.report # NoReport =>
        \A i \in DOMAIN disk.report.rows :
            LET r == disk.report.rows[i]
            IN  r.trace # NoTrace => /\ Evidenced(r)
                                     /\ disk.traces[Run(r)] \in {r.trace, NoTrace}

(* A job says something about a release only when it lost no profile, and  *)
(* then what the gate decided on the rows it reports.                      *)
JobVerdictIsComplete ==
    disk.job # NoReport =>
        /\ disk.report # NoReport /\ disk.report.matrix = disk.job.matrix
        /\ \A i \in DOMAIN disk.report.rows :
              ~disk.report.rows[i].error /\ disk.report.rows[i].trace # NoTrace
        /\ disk.job.decision = TargetRelease(disk.report.rows)

(* A profile that keeps failing costs its row and not the matrix: however  *)
(* pages and posts behave, the command ends.                               *)
MatrixFinishes == command = "matrix" ~> command # "matrix"

(* "It blocks on: ... a severity at or above major" (walkthrough-5min.md): *)
(* no critical profile is shipped that the engine itself calls major.      *)
MajorBlocks ==
    Judged /\ disk.report.mode = "orbital" /\ disk.gate.decision = "ship" =>
        \A i \in Graded(disk.report.rows) :
            LET r == disk.report.rows[i]
            IN  r.profile \in Critical /\ r.verdict # NoVerdict =>
                    1000 * Level(r.verdict.severity) < BlockingSeverity

(* "Each profile is retried once on harness failure" (atlas matrix         *)
(* --help): an error row has used every attempt.                           *)
HarnessFailureRetried ==
    [][Len(rows') > Len(rows) /\ rows'[Len(rows')].error => attempt = MaxAttempts]_vars
=============================================================================
