---------------------------- MODULE ReleaseRules ----------------------------
(***************************************************************************)
(* How one run of a profile becomes a verdict, and how the verdicts of a   *)
(* matrix become a release decision: RuleBasedDecisionEngine.judgeTrace,   *)
(* the guard around a model-backed engine (GuardedDecisionEngine), the     *)
(* release gate (runGate) and the policy of a target contract              *)
(* (targetPolicyDecision).  Nothing here has state; MatrixRelease runs it. *)
(*                                                                         *)
(* A trace is what the runner measured of a page, reduced to the facts the *)
(* engine and the gate tell apart.  A severity is in thousandths of a      *)
(* level: the gate compares the mean of a distribution with a level.       *)
(***************************************************************************)
EXTENDS Naturals, Sequences

CONSTANTS
    Critical,       \* the profiles a release depends on (profiles.js, or the contract's policy)
    ScoreFloor,     \* policy.js: no critical profile may score less
    MinimumScore    \* the contract's own floor

ASSUME FloorAssumption == ScoreFloor \in Nat /\ MinimumScore \in Nat

NoTrace == [facts |-> "none"]
NoVerdict == [outcome |-> "none"]
NoReport == [decision |-> "none"]
NoAnswer == [sure |-> FALSE]

Outcomes == {"pass", "degraded", "inconclusive", "fail"}
Visuals == {"sound", "drifted", "uncovered", "blank"}

Facts == [end : BOOLEAN,        \* metrics.reachedEndState
          detour : BOOLEAN,     \* in more steps than the manifest declares
          visual : Visuals,     \* first frame and repeated checkpoints
          legal : BOOLEAN,      \* validateStateOrdering
          severe : BOOLEAN,     \* severeTimingBudgetBreaches
          over : Nat,           \* budgets exceeded
          idle : BOOLEAN,       \* no interaction was recorded
          complete : BOOLEAN,   \* the trace does not stop in mid-flow
          scored : BOOLEAN,     \* scoreTrace found something to grade
          score : Nat]

(***************************************************************************)
(* The rule engine.                                                        *)
(***************************************************************************)
HardFailure(f) ==
    ~f.end \/ f.detour \/ f.visual \in {"uncovered", "blank"} \/ ~f.legal \/ f.severe

SoftFailure(f) == f.over > 0 \/ f.idle \/ f.visual = "drifted"

Outcome(f) == IF ~f.complete THEN "inconclusive"
              ELSE IF HardFailure(f) THEN "fail"
              ELSE IF SoftFailure(f) THEN "degraded"
              ELSE "pass"

(* The engine aims at level 4, 3.5, 3, 1.5, 1 or 0 and spreads a           *)
(* distribution around it; the score is the mean.  Around "major" (3) the  *)
(* mean is 2.992, since there is less room above than below.               *)
Severity(f) == IF ~f.end \/ f.detour \/ f.visual = "blank" THEN 3932
               ELSE IF ~f.legal THEN 3448
               ELSE IF Outcome(f) = "fail" \/ f.over >= 3 THEN 2992
               ELSE IF Outcome(f) = "inconclusive" THEN 1505
               ELSE IF Outcome(f) = "degraded" THEN 1008
               ELSE 68

(* The nearest of the five levels, where the distribution has its peak.    *)
Level(severity) == (severity + 500) \div 1000

RuleVerdict(f) == [outcome |-> Outcome(f), severity |-> Severity(f)]

(***************************************************************************)
(* The guard.  NoAnswer: the primary engine failed, or there is none.  A   *)
(* sure answer has at least the confidence of the floor.                   *)
(***************************************************************************)
Answers == [sure : BOOLEAN, outcome : Outcomes, severity : Nat] \cup {NoAnswer}

Rank == [pass |-> 0, degraded |-> 1, inconclusive |-> 2, fail |-> 3]

(* A guard that only asks for confidence.                                  *)
AcceptedSure(safe, answer) == answer.sure

Accepted(safe, answer) == answer.sure /\ Rank[answer.outcome] >= Rank[safe.outcome]

GuardedVerdict(f, answer) ==
    IF Accepted(RuleVerdict(f), answer)
    THEN [outcome |-> answer.outcome, severity |-> answer.severity]
    ELSE RuleVerdict(f)

(***************************************************************************)
(* The gate on the bundled experience.  A row of the matrix report is      *)
(* [profile, kind, trace, verdict, journey, error].                        *)
(***************************************************************************)
BlockingSeverity == 3000

(* Grading the run that is meant to fail.                                  *)
GradedAll(rows) == DOMAIN rows

Graded(rows) == {i \in DOMAIN rows : rows[i].kind # "baseline"}

(* find((r) => r.profileId === id): the first graded row, if there is one. *)
RowOf(rows, p) == {i \in Graded(rows) : /\ rows[i].profile = p
                                        /\ \A j \in Graded(rows) : rows[j].profile = p => i <= j}

(* Rule 1.                                                                 *)
Uncovered(rows, p) == \A i \in RowOf(rows, p) : rows[i].trace = NoTrace

(* Rules 2, 3, 5, 4 and 9: what is held against a row that has a verdict.  *)
Objection(rule, r) ==
    \/ rule = "2-no-failures" /\ r.verdict.outcome = "fail"
    \/ rule = "3-severity" /\ r.verdict.severity >= BlockingSeverity
    \/ rule = "5-inconclusive" /\ r.verdict.outcome = "inconclusive"
    \/ rule = "4-business-invariant" /\ r.trace # NoTrace /\ ~r.trace.facts.end
    \/ rule = "9-severe-budget" /\ r.trace # NoTrace /\ r.trace.facts.severe

(* Rule 8, of the trace found where the row says its trace is.             *)
BelowFloor(trace, floor) ==
    trace # NoTrace /\ trace.facts.scored /\ trace.facts.score < floor

Run(r) == <<r.profile, r.kind>>

Rules == {"1-coverage", "2-no-failures", "3-severity", "4-business-invariant",
          "5-inconclusive", "8-score-floor", "9-severe-budget"}

(* The blocking findings about critical profile p; `files` are the traces  *)
(* on disk.                                                                *)
Blocked(rule, p, rows, files) ==
    \/ rule = "1-coverage" /\ Uncovered(rows, p)
    \/ \E i \in Graded(rows) :
          /\ rows[i].profile = p
          /\ rows[i].verdict # NoVerdict
          /\ \/ Objection(rule, rows[i])
             \/ /\ rule = "8-score-floor"
                /\ rows[i].trace # NoTrace
                /\ BelowFloor(files[Run(rows[i])], ScoreFloor)

(* Rule 7 is about the replay report that happens to be there, if any.     *)
GateDecision(rows, files, replay) ==
    IF replay = "diverged" \/ \E rule \in Rules, p \in Critical : Blocked(rule, p, rows, files)
    THEN "hold" ELSE "ship"

(***************************************************************************)
(* The gate on a target contract.  What the decision of the matrix calls   *)
(* the evidence of a profile is its first row.                             *)
(***************************************************************************)
JourneyFailed(rows, p, floor) ==
    \E i \in RowOf(rows, p) : rows[i].journey = "fail" \/ BelowFloor(rows[i].trace, floor)

(* What came before the harness failed is taken for evidence.              *)
EvidenceMissingLax(rows, p) ==
    ~ \E i \in RowOf(rows, p) : rows[i].journey # "none" /\ rows[i].trace # NoTrace
                                /\ rows[i].trace.facts.scored

EvidenceMissing(rows, p) ==
    ~ \E i \in RowOf(rows, p) : /\ ~rows[i].error
                                /\ rows[i].journey # "none"
                                /\ rows[i].trace # NoTrace
                                /\ rows[i].trace.facts.scored

(* targetPolicyDecision.                                                   *)
TargetDecision(rows) ==
    IF \E p \in Critical : JourneyFailed(rows, p, MinimumScore) THEN "hold"
    ELSE IF \E p \in Critical : EvidenceMissing(rows, p) THEN "inconclusive"
    ELSE "ship"

(* resolvePolicy: a contract may raise Atlas's floor and never lower it.   *)
EffectiveFloor == IF MinimumScore > ScoreFloor THEN MinimumScore ELSE ScoreFloor

TargetFinding(rows) ==
    \E p \in Critical : JourneyFailed(rows, p, EffectiveFloor) \/ EvidenceMissing(rows, p)

TargetRelease(rows) ==
    IF TargetDecision(rows) = "ship" /\ ~TargetFinding(rows) THEN "ship"
    ELSE IF TargetDecision(rows) = "inconclusive" THEN "inconclusive"
    ELSE "hold"
=============================================================================
