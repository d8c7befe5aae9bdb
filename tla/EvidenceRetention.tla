------------------------- MODULE EvidenceRetention -------------------------
(***************************************************************************)
(* What is derived from the evidence of runs and how long it lives: visual *)
(* gate evaluations (POST .../visual-gate-evaluations of server.js) of a   *)
(* run against an older one, visual reviews with the labels people give to *)
(* their findings (PUT .../disposition), the code proposals made from a    *)
(* review, and the transaction of the retention purge (maintenance.js)     *)
(* that removes all of them in a fixed order, with the cascades of the     *)
(* foreign keys.                                                           *)
(*                                                                         *)
(* Time is in days.  An evaluation is computed from rows and bytes read    *)
(* before its transaction; a label is written under a lock on its review.  *)
(***************************************************************************)
EXTENDS Naturals, FiniteSets

CONSTANTS
    Evaluators,    \* requests for the evaluation of the one component
    Labelers,      \* requests that set or clear the label of the one finding
    Proposals,     \* ids of code proposals
    Labels,        \* dispositions a finding may be given
    NoLabel,       \* no disposition, or null to clear it
    NoRequest,     \* nobody locks the review
    RunExpiry,     \* retention_expires_at of the current and of the older run
    Life,          \* days a review and a proposal are kept (30)
    LastDay        \* bound: the clock stops here

VARIABLES
    today,         \* the clock
    runKept,       \* rows of the two runs that are there
    evaluation,    \* the row of visual_gate_evaluations for the pair and path
    evaluators,    \* the requests for an evaluation
    review,        \* a row of visual_reviews: its expiry, whether it is there
    reviewLock,    \* FOR UPDATE on that row
    label,         \* its row in visual_finding_dispositions
    labelers,      \* the requests that set a label
    labelLog,      \* the label of the last audit event about it
    proposals,     \* rows of code_proposals
    purged         \* what a retention.purged audit event was written for

retentionVars == <<today, runKept, evaluation, evaluators, review, reviewLock, label,
                   labelers, labelLog, proposals, purged>>

BothRuns == {"current", "older"}
Row      == [state : {"absent", "present", "deleted"}, expires : Nat]
NoRow    == [state |-> "absent", expires |-> 0]
Subjects == {<<"run", r>> : r \in BothRuns} \cup {<<"evaluation">>, <<"review">>}
            \cup {<<"proposal", p>> : p \in Proposals}

TypeOK ==
    /\ today \in 0..LastDay
    /\ runKept \subseteq BothRuns
    /\ evaluation \in Row
    /\ evaluators \in [Evaluators -> {"idle", "reading", "comparing", "201", "200", "404",
                                      "409", "410", "500"}]
    /\ review \in Row
    /\ reviewLock \in Labelers \cup {NoRequest}
    /\ label \in Labels \cup {NoLabel}
    /\ labelers \in [Labelers -> [pc : {"idle", "checked", "locked", "200", "404"},
                                  wants : Labels \cup {NoLabel}, before : Labels \cup {NoLabel}]]
    /\ labelLog \in Labels \cup {NoLabel}
    /\ proposals \in [Proposals -> Row]
    /\ purged \subseteq Subjects

Init ==
    /\ today = 0
    /\ runKept = BothRuns
    /\ evaluation = NoRow
    /\ evaluators = [e \in Evaluators |-> "idle"]
    /\ review = [state |-> "present", expires |-> Life]
    /\ reviewLock = NoRequest
    /\ label = NoLabel
    /\ labelers = [w \in Labelers |-> [pc |-> "idle", wants |-> NoLabel, before |-> NoLabel]]
    /\ labelLog = NoLabel
    /\ proposals = [p \in Proposals |-> NoRow]
    /\ purged = {}

Live(row) == row.state = "present" /\ row.expires > today
Over(row) == row.state = "present" /\ row.expires <= today
RunLive(r) == r \in runKept /\ RunExpiry[r] > today

Earlier(a, b) == IF a < b THEN a ELSE b
Later(a, b)   == IF a < b THEN b ELSE a

GateUntouched  == UNCHANGED <<runKept, evaluation, evaluators>>
LabelUntouched == UNCHANGED <<reviewLock, label, labelers, labelLog>>

-----------------------------------------------------------------------------
(* The visual gate.                                                        *)

(* Both runs must be there, and comparable: same target and contract but   *)
(* for distinct builds, both completed, the older one with SHIP.           *)
EvaluatorReadsRuns(e) ==
    /\ evaluators[e] = "idle"
    /\ \E comparable \in BOOLEAN :
          evaluators' = [evaluators EXCEPT ![e] =
              IF ~(\A r \in BothRuns : RunLive(r)) THEN "404"
              ELSE IF comparable THEN "reading" ELSE "409"]
    /\ UNCHANGED <<runKept, evaluation, today, review, proposals, purged>>
    /\ LabelUntouched

(* The artifact rows go with their runs; the bytes may be gone or differ   *)
(* from their hash.                                                        *)
EvaluatorReadsArtifacts(e) ==
    /\ evaluators[e] = "reading"
    /\ \E intact \in BOOLEAN :
          evaluators' = [evaluators EXCEPT ![e] =
              IF runKept # BothRuns THEN "404" ELSE IF intact THEN "comparing" ELSE "410"]
    /\ UNCHANGED <<runKept, evaluation, today, review, proposals, purged>>
    /\ LabelUntouched

(* Retention that ends with the run that was evaluated.                    *)
EvaluationEndOfCurrent == RunExpiry["current"]
EvaluationEnd == Earlier(RunExpiry["current"], RunExpiry["older"])

(* INSERT ... ON CONFLICT DO NOTHING: the first evaluation stays.  The row *)
(* refers to both runs and artifacts.                                      *)
StoreEvaluation(e) ==
    /\ evaluators[e] = "comparing"
    /\ \/ /\ runKept # BothRuns
          /\ evaluators' = [evaluators EXCEPT ![e] = "500"]
          /\ UNCHANGED evaluation
       \/ /\ runKept = BothRuns
          /\ evaluation.state = "present"
          /\ evaluators' = [evaluators EXCEPT ![e] = "200"]
          /\ UNCHANGED evaluation
       \/ /\ runKept = BothRuns
          /\ evaluation.state # "present"
          /\ evaluation' = [state |-> "present", expires |-> EvaluationEnd]
          /\ evaluators' = [evaluators EXCEPT ![e] = "201"]
    /\ UNCHANGED <<runKept, today, review, proposals, purged>>
    /\ LabelUntouched

-----------------------------------------------------------------------------
(* Labels.                                                                 *)

CheckReview(w, wanted) ==
    /\ labelers[w].pc = "idle"
    /\ labelers' = [labelers EXCEPT ![w].pc = IF Live(review) THEN "checked" ELSE "404",
                                    ![w].wants = wanted]
    /\ UNCHANGED <<reviewLock, label, labelLog, today, review, proposals, purged>>
    /\ GateUntouched

(* The label is read before the review is locked.                          *)
LockReviewLate(w) ==
    /\ labelers[w].pc = "checked"
    /\ \/ /\ Live(review)
          /\ labelers' = [labelers EXCEPT ![w].pc = "locked", ![w].before = label]
       \/ /\ ~Live(review)
          /\ labelers' = [labelers EXCEPT ![w].pc = "404"]
    /\ UNCHANGED <<reviewLock, label, labelLog, today, review, proposals, purged>>
    /\ GateUntouched

(* SELECT ... FOR UPDATE on the review, then the label as it is.           *)
LockReview(w) ==
    /\ labelers[w].pc = "checked"
    /\ reviewLock = NoRequest
    /\ \/ /\ Live(review)
          /\ reviewLock' = w
          /\ labelers' = [labelers EXCEPT ![w].pc = "locked", ![w].before = label]
       \/ /\ ~Live(review)
          /\ labelers' = [labelers EXCEPT ![w].pc = "404"]
          /\ UNCHANGED reviewLock
    /\ UNCHANGED <<label, labelLog, today, review, proposals, purged>>
    /\ GateUntouched

(* The rest of the transaction: a label that does not change is not        *)
(* written and not audited.                                                *)
SetLabel(w) ==
    /\ labelers[w].pc = "locked"
    /\ IF labelers[w].before = labelers[w].wants
       THEN UNCHANGED <<label, labelLog>>
       ELSE /\ label' = labelers[w].wants
            /\ labelLog' = labelers[w].wants
    /\ reviewLock' = IF reviewLock = w THEN NoRequest ELSE reviewLock
    /\ labelers' = [labelers EXCEPT ![w].pc = "200"]
    /\ UNCHANGED <<today, review, proposals, purged>>
    /\ GateUntouched

-----------------------------------------------------------------------------
(* Proposals (their requests are modelled in ReviewRequests) and the purge *)

StoreProposal(p) ==
    /\ proposals[p].state = "absent"
    /\ Live(review)
    /\ proposals' = [proposals EXCEPT ![p] = [state |-> "present", expires |-> today + Life]]
    /\ UNCHANGED <<today, review, purged>>
    /\ GateUntouched
    /\ LabelUntouched

Deleted(row) == [row EXCEPT !.state = "deleted"]

(* The purge waits for the lock of a review that it is about to delete.    *)
Purge ==
    LET endedRuns      == {r \in runKept : RunExpiry[r] <= today}
        endedProposals == {p \in Proposals : Over(proposals[p])}
        reviewEnds     == Over(review)
        gateEnds       == Over(evaluation)
    IN  /\ reviewEnds => reviewLock = NoRequest
        /\ evaluation' = IF gateEnds \/ (endedRuns # {} /\ evaluation.state = "present")
                         THEN Deleted(evaluation) ELSE evaluation
        /\ runKept' = runKept \ endedRuns
        /\ proposals' = [p \in Proposals |->
               IF p \in endedProposals \/ (reviewEnds /\ proposals[p].state = "present")
               THEN Deleted(proposals[p]) ELSE proposals[p]]
        /\ review' = IF reviewEnds THEN Deleted(review) ELSE review
        /\ label' = IF reviewEnds THEN NoLabel ELSE label
        /\ purged' = purged \cup {<<"run", r>> : r \in endedRuns}
                            \cup {<<"proposal", p>> : p \in endedProposals}
                            \cup (IF reviewEnds THEN {<<"review">>} ELSE {})
                            \cup (IF gateEnds THEN {<<"evaluation">>} ELSE {})
        /\ UNCHANGED <<today, evaluators, reviewLock, labelers, labelLog>>

NextDay ==
    /\ today < LastDay
    /\ today' = today + 1
    /\ UNCHANGED <<review, proposals, purged>>
    /\ GateUntouched
    /\ LabelUntouched

Next ==
    \/ \E e \in Evaluators :
          EvaluatorReadsRuns(e) \/ EvaluatorReadsArtifacts(e) \/ StoreEvaluation(e)
    \/ \E w \in Labelers :
          \/ \E wanted \in Labels \cup {NoLabel} : CheckReview(w, wanted)
          \/ LockReview(w) \/ SetLabel(w)
    \/ \E p \in Proposals : StoreProposal(p)
    \/ Purge \/ NextDay

Spec == Init /\ [][Next]_retentionVars

-----------------------------------------------------------------------------
(* An evaluation ends no later than either of its runs, so the purge, which*)
(* deletes evaluations before runs, never lets a cascade take one away     *)
(* without its audit event.                                                *)
EvaluationEndsAudited ==
    /\ evaluation.state = "present" => runKept = BothRuns
    /\ evaluation.state = "deleted" => <<"evaluation">> \in purged

(* The label of a finding is the one its last audit event tells, and it    *)
(* goes with its review, however two editors and the purge interleave.     *)
LabelMatchesLog ==
    IF review.state = "present" THEN label = labelLog ELSE label = NoLabel
=============================================================================
