------------------------------ MODULE Diagnosis ------------------------------
(***************************************************************************)
(* The findings of a matrix report: src/diagnose.  The traces are read one *)
(* by one while other commands may move them.  A row is what decides its   *)
(* causes and a trace is read or not: how a slice is cut, the categories   *)
(* of its errors, observations and titles are left out.                    *)
(***************************************************************************)
CONSTANT Reports   \* matrix reports: functions from run ids to rows

VARIABLES
    matrix,      \* the report that is diagnosed
    bundle,      \* per run: its trace is "here", "copied" beside the report, or "gone"
    diagnosis    \* the command: runs left to read, traces read, missing, findings

diagnosisVars == <<matrix, bundle, diagnosis>>

Denied == {"webgl-unavailable", "camera-denied", "xr-denied"}

FailedRow(row) ==
    row.error \/ row.outcome \in {"fail", "inconclusive"} \/ row.journey = "fail" \/ row.replay = "differs"

(* DIAGNOSIS_RULES: the causes a row gives, each about the target or not.  *)
InferredCauses(row) ==
      (IF row.error THEN {[id |-> "harness-loss", about |-> "harness"]} ELSE {})
      \cup (IF row.profile \in Denied THEN {[id |-> "profile-denied-capability", about |-> "harness"]} ELSE {})
      \cup (IF row.profile \in Denied /\ (row.journey = "fail" \/ row.outcome = "fail")
            THEN {[id |-> "fallback-absent-under-denial", about |-> "target"]} ELSE {})
      \cup (IF row.replay = "differs" THEN {[id |-> "replay-did-not-reproduce", about |-> "open"]} ELSE {})

(* severityFor: a verdict of this program has a score there and no value.  *)
SeverityFor(row) == IF row.error THEN "hard block" ELSE "major"

(* The trace is looked up where the report says, then beside the report.   *)
ReadTrace(r) ==
    /\ diagnosis.phase = "reading" /\ r \in diagnosis.left
    /\ LET row  == matrix[r]
           here == row.traced /\ bundle[r] # "gone"
           lost == IF row.traced THEN ~here ELSE ~row.error
       IN  diagnosis' = [diagnosis EXCEPT !.left = @ \ {r},
                           !.traces  = IF here THEN @ \cup {r} ELSE @,
                           !.missing = IF lost THEN @ \cup {r} ELSE @]
    /\ UNCHANGED <<matrix, bundle>>

(* Another command empties the matrix directory, or someone moves the      *)
(* bundle.                                                                 *)
TraceMoves(r, place) ==
    /\ diagnosis.phase = "reading" /\ bundle[r] = "here"
    /\ bundle' = [bundle EXCEPT ![r] = place]
    /\ UNCHANGED <<matrix, diagnosis>>

FindingForRun(row, traced) ==
    [causes   |-> InferredCauses(row),
     severity |-> SeverityFor(row),
     slice    |-> traced]

WriteFindings ==
    /\ diagnosis.phase = "reading" /\ diagnosis.left = {}
    /\ diagnosis' = [diagnosis EXCEPT !.phase = "written",
                       !.findings = [r \in {x \in DOMAIN matrix : FailedRow(matrix[x])} |->
                                       FindingForRun(matrix[r], r \in diagnosis.traces)]]
    /\ UNCHANGED <<matrix, bundle>>

-----------------------------------------------------------------------------
Init ==
    /\ matrix \in Reports
    /\ bundle = [r \in DOMAIN matrix |-> "here"]
    /\ diagnosis = [phase |-> "reading", left |-> DOMAIN matrix, traces |-> {}, missing |-> {},
                    findings |-> <<>>]

Next ==
    \/ WriteFindings
    \/ \E r \in DOMAIN matrix : ReadTrace(r) \/ \E place \in {"copied", "gone"} : TraceMoves(r, place)

-----------------------------------------------------------------------------
TypeOK ==
    /\ matrix \in Reports
    /\ bundle \in [DOMAIN matrix -> {"here", "copied", "gone"}]
    /\ diagnosis.traces \cup diagnosis.missing \cup diagnosis.left \subseteq DOMAIN matrix
    /\ DOMAIN diagnosis.findings \subseteq DOMAIN matrix

(* A finding without a slice of its trace is one whose trace the report    *)
(* says it lacks, or of a run the harness lost with its trace, wherever    *)
(* the traces went while the command read them.                            *)
MissingTracesStated ==
    diagnosis.phase = "written" =>
        \A r \in DOMAIN diagnosis.findings :
            \/ diagnosis.findings[r].slice
            \/ r \in diagnosis.missing
            \/ matrix[r].error /\ ~matrix[r].traced
=============================================================================
