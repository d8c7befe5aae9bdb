------------------------- MODULE MatrixReleaseProofs -------------------------
(***************************************************************************)
(* Proofs about ReleaseRules and MatrixRelease: for any set of profiles,   *)
(* plans, pages, model answers, floors and retries.                        *)
(***************************************************************************)
EXTENDS MatrixRelease, SequenceTheorems, TLAPS

-----------------------------------------------------------------------------
(* The rules.                                                              *)

LEMMA RuleVerdictTyped ==
  ASSUME NEW f \in Facts
  PROVE  /\ Outcome(f) \in Outcomes
         /\ Severity(f) \in Nat
         /\ RuleVerdict(f) \in [outcome : Outcomes, severity : Nat]
  BY DEF Outcome, Severity, RuleVerdict, Outcomes

LEMMA GuardedTyped ==
  ASSUME NEW f \in Facts, NEW a \in Answers
  PROVE  /\ GuardedVerdict(f, a) \in [outcome : Outcomes, severity : Nat]
         /\ GuardedVerdict(f, a) # NoVerdict
<1>1. GuardedVerdict(f, a) \in [outcome : Outcomes, severity : Nat]
  <2>1. CASE Accepted(RuleVerdict(f), a)
    <3>1. a \in [sure : BOOLEAN, outcome : Outcomes, severity : Nat]
      BY <2>1 DEF Accepted, Answers, NoAnswer
    <3>. QED  BY <2>1, <3>1 DEF GuardedVerdict
  <2>2. CASE ~Accepted(RuleVerdict(f), a)
    BY <2>2, RuleVerdictTyped DEF GuardedVerdict
  <2>. QED  BY <2>1, <2>2
<1>2. "none" \notin Outcomes
  BY DEF Outcomes
<1>3. NoVerdict.outcome = "none"
  BY DEF NoVerdict
<1>4. GuardedVerdict(f, a).outcome \in Outcomes
  BY <1>1
<1>. QED  BY <1>1, <1>2, <1>3, <1>4

(* A model may tighten a verdict and never loosen it.                      *)
LEMMA GuardOnlyTightens ==
  ASSUME NEW f \in Facts, NEW a \in Answers,
         GuardedVerdict(f, a).outcome \in {"pass", "degraded"}
  PROVE  f.complete /\ ~HardFailure(f)
<1>1. Outcome(f) \in {"pass", "degraded"}
  <2>1. CASE Accepted(RuleVerdict(f), a)
    <3>1. GuardedVerdict(f, a).outcome = a.outcome
      BY <2>1 DEF GuardedVerdict
    <3>2. Rank[a.outcome] <= 1
      BY <3>1 DEF Rank
    <3>3. Rank[RuleVerdict(f).outcome] <= Rank[a.outcome]
      BY <2>1 DEF Accepted
    <3>4. RuleVerdict(f).outcome = Outcome(f)
      BY DEF RuleVerdict
    <3>5. Outcome(f) \in Outcomes
      BY RuleVerdictTyped
    <3>6. ASSUME Outcome(f) \in {"inconclusive", "fail"} PROVE Rank[Outcome(f)] \in {2, 3}
      BY <3>6 DEF Rank
    <3>7. Rank[Outcome(f)] <= Rank[a.outcome] /\ Rank[a.outcome] \in {0, 1}
      BY <3>1, <3>3, <3>4 DEF Rank
    <3>. QED  BY <3>5, <3>6, <3>7 DEF Outcomes
  <2>2. CASE ~Accepted(RuleVerdict(f), a)
    BY <2>2 DEF GuardedVerdict, RuleVerdict
  <2>. QED  BY <2>1, <2>2
<1>. QED  BY <1>1 DEF Outcome

(* Nothing in the verdict of the rules is held against a usable trace.     *)
LEMMA RulesAcceptUsable ==
  ASSUME NEW f \in Facts, Usable(f)
  PROVE  /\ RuleVerdict(f).outcome \in {"pass", "degraded"}
         /\ RuleVerdict(f).severity < BlockingSeverity
  BY DEF Usable, RuleVerdict, Outcome, Severity, HardFailure, SoftFailure, BlockingSeverity, Facts,
         Visuals

(* What is known of a row when the gate reads it: the verdict is a guarded *)
(* one on the facts of the trace, and the file is that trace or is gone.   *)
Read(r, files) ==
  r.trace # NoTrace =>
    /\ r.trace.facts \in Facts
    /\ \E a \in Answers : r.verdict = GuardedVerdict(r.trace.facts, a)
    /\ files[Run(r)] \in {r.trace, NoTrace}

(* Whatever a model answered, the gate ships only usable traces.           *)
THEOREM GateShipsUsable ==
  ASSUME NEW table, NEW files, NEW replay, NEW p \in Critical,
         \A i \in DOMAIN table : Read(table[i], files),
         GateDecision(table, files, replay) = "ship"
  PROVE  \E i \in Graded(table) :
            /\ table[i].profile = p
            /\ table[i].trace # NoTrace
            /\ Usable(table[i].trace.facts)
            /\ files[Run(table[i])] # NoTrace => Reaches(table[i].trace.facts, ScoreFloor)
<1>1. \A rule \in Rules : ~Blocked(rule, p, table, files)
  BY DEF GateDecision
<1>2. PICK i \in RowOf(table, p) : table[i].trace # NoTrace
  <2>1. ~Uncovered(table, p)
    BY <1>1 DEF Rules, Blocked
  <2>. QED  BY <2>1 DEF Uncovered
<1> DEFINE r == table[i]
           f == r.trace.facts
<1>3. i \in Graded(table) /\ r.profile = p /\ i \in DOMAIN table
  BY DEF RowOf, Graded
<1>4. /\ f \in Facts
      /\ \E a \in Answers : r.verdict = GuardedVerdict(f, a)
      /\ files[Run(r)] \in {r.trace, NoTrace}
  BY <1>2, <1>3 DEF Read
<1>5. PICK a \in Answers : r.verdict = GuardedVerdict(f, a)
  BY <1>4
<1>6. r.verdict # NoVerdict /\ r.verdict.outcome \in Outcomes
  BY <1>4, <1>5, GuardedTyped
<1>7. ASSUME NEW rule \in Rules PROVE ~Objection(rule, r)
  BY <1>1, <1>3, <1>6 DEF Blocked
<1>8. r.verdict.outcome \notin {"fail", "inconclusive"}
  BY <1>7 DEF Objection, Rules
<1>9. r.verdict.outcome \in {"pass", "degraded"}
  BY <1>6, <1>8 DEF Outcomes
<1>10. f.complete /\ ~HardFailure(f)
  BY <1>4, <1>5, <1>9, GuardOnlyTightens
<1>11. Usable(f)
  BY <1>4, <1>10 DEF Usable, HardFailure, Facts, Visuals
<1>12. ASSUME files[Run(r)] # NoTrace PROVE Reaches(f, ScoreFloor)
  <2>1. files[Run(r)] = r.trace
    BY <1>4, <1>12
  <2>3. ~BelowFloor(files[Run(r)], ScoreFloor)
    BY <1>1, <1>2, <1>3, <1>6 DEF Blocked, Rules
  <2>4. f.score \in Nat /\ f.scored \in BOOLEAN
    BY <1>4 DEF Facts
  <2>. QED  BY <2>1, <2>3, <2>4, <1>2, FloorAssumption DEF BelowFloor, Reaches
<1>. QED  BY <1>2, <1>3, <1>11, <1>12

(* A hold on the bundled experience comes from the replay or from a row of *)
(* a critical profile.                                                     *)
THEOREM GateHoldHasReason ==
  ASSUME NEW S, NEW table \in Seq(S), NEW files, NEW replay,
         \A i \in DOMAIN table : Read(table[i], files),
         \A i, j \in Graded(table) : table[i].profile = table[j].profile => i = j,
         GateDecision(table, files, replay) = "hold"
  PROVE  \/ replay = "diverged"
         \/ \E p \in Critical : \A i \in Graded(table) : table[i].profile = p =>
              \/ table[i].trace = NoTrace
              \/ ~Usable(table[i].trace.facts)
              \/ ~Reaches(table[i].trace.facts, ScoreFloor)
              \/ table[i].verdict # RuleVerdict(table[i].trace.facts)
<1> SUFFICES ASSUME replay # "diverged"
             PROVE  \E p \in Critical : \A i \in Graded(table) : table[i].profile = p =>
                      \/ table[i].trace = NoTrace
                      \/ ~Usable(table[i].trace.facts)
                      \/ ~Reaches(table[i].trace.facts, ScoreFloor)
                      \/ table[i].verdict # RuleVerdict(table[i].trace.facts)
  OBVIOUS
<1>1. PICK rule \in Rules, p \in Critical :
        \/ rule = "1-coverage" /\ Uncovered(table, p)
        \/ \E i \in Graded(table) :
              /\ table[i].profile = p
              /\ table[i].verdict # NoVerdict
              /\ \/ Objection(rule, table[i])
                 \/ /\ rule = "8-score-floor"
                    /\ table[i].trace # NoTrace
                    /\ BelowFloor(files[Run(table[i])], ScoreFloor)
  BY DEF GateDecision, Blocked
<1> SUFFICES ASSUME NEW i \in Graded(table), table[i].profile = p,
                    table[i].trace # NoTrace, Usable(table[i].trace.facts),
                    Reaches(table[i].trace.facts, ScoreFloor),
                    table[i].verdict = RuleVerdict(table[i].trace.facts)
             PROVE  FALSE
  OBVIOUS
<1> DEFINE r == table[i]
           f == r.trace.facts
<1>2. i \in DOMAIN table /\ i \in RowOf(table, p)
  <2>1. i \in DOMAIN table
    BY DEF Graded
  <2>2. ASSUME NEW j \in Graded(table), table[j].profile = p PROVE j = i
    BY <2>2
  <2>3. i \in Nat
    BY <2>1
  <2>. QED  BY <2>1, <2>2, <2>3 DEF RowOf
<1>3. f \in Facts /\ files[Run(r)] \in {r.trace, NoTrace}
  BY <1>2 DEF Read
<1>4. ~Uncovered(table, p)
  BY <1>2 DEF Uncovered
<1>5. \/ Objection(rule, r)
      \/ BelowFloor(files[Run(r)], ScoreFloor)
  BY <1>1, <1>4
<1>6. /\ r.verdict.outcome \in {"pass", "degraded"}
      /\ r.verdict.severity < BlockingSeverity
      /\ r.verdict.severity \in Nat
  BY <1>3, RulesAcceptUsable, RuleVerdictTyped
<1>7. ~Objection(rule, r)
  BY <1>6 DEF Objection, Usable, BlockingSeverity
<1>8. ~BelowFloor(files[Run(r)], ScoreFloor)
  <2>1. f.score \in Nat
    BY <1>3 DEF Facts
  <2>. QED  BY <1>3, <2>1, FloorAssumption DEF BelowFloor, Reaches
<1>. QED  BY <1>5, <1>7, <1>8

(* A contract ships only on journeys that passed and scores over both      *)
(* floors.                                                                 *)
THEOREM TargetShipsProven ==
  ASSUME NEW table, NEW p \in Critical,
         \A i \in DOMAIN table :
            /\ table[i].journey \in {"none", "pass", "fail"}
            /\ table[i].trace # NoTrace => table[i].trace.facts \in Facts,
         TargetRelease(table) = "ship"
  PROVE  \E i \in DOMAIN table :
            /\ table[i].profile = p /\ table[i].journey = "pass" /\ ~table[i].error
            /\ table[i].trace # NoTrace
            /\ table[i].trace.facts.scored
            /\ table[i].trace.facts.score >= ScoreFloor
            /\ table[i].trace.facts.score >= MinimumScore
<1>1. ~JourneyFailed(table, p, EffectiveFloor) /\ ~EvidenceMissing(table, p)
  BY DEF TargetRelease, TargetFinding
<1>2. PICK i \in RowOf(table, p) : /\ ~table[i].error
                                   /\ table[i].journey # "none"
                                   /\ table[i].trace # NoTrace
                                   /\ table[i].trace.facts.scored
  BY <1>1 DEF EvidenceMissing
<1>3. i \in DOMAIN table /\ table[i].profile = p
  BY DEF RowOf, Graded
<1>4. table[i].journey # "fail" /\ ~BelowFloor(table[i].trace, EffectiveFloor)
  BY <1>1, <1>2 DEF JourneyFailed
<1>5. table[i].trace.facts.score \in Nat
  BY <1>2, <1>3 DEF Facts
<1>6. table[i].trace.facts.score >= EffectiveFloor
  BY <1>2, <1>4, <1>5, FloorAssumption DEF BelowFloor, EffectiveFloor
<1>7. EffectiveFloor >= ScoreFloor /\ EffectiveFloor >= MinimumScore /\ EffectiveFloor \in Nat
  BY FloorAssumption DEF EffectiveFloor
<1>8. table[i].journey = "pass"
  BY <1>2, <1>3, <1>4
<1>. QED  BY <1>2, <1>3, <1>5, <1>6, <1>7, <1>8, FloorAssumption

-----------------------------------------------------------------------------
(* Typing, in three parts: what is planned, the attempt, and the files.    *)
Posts == (1..MaxAttempts) \X TraceFile
Result == [trace : AnyTrace, error : BOOLEAN, verdict : AnyVerdict]
Stages == {"closed", "open", "driven", "returned", "saved"}
Journeys == {"none", "pass", "fail"}
Commands == {"idle", "cleaning", "matrix", "job", "job gate", "job result", "replay", "exited"}

PlanTypes == /\ matrix \in Nat
             /\ mode \in Modes
             /\ plan \in Seq(Runs)
             /\ rows \in Seq(RowType)
             /\ replaying \subseteq Kinds

AttemptTypes == /\ attempt \in 1..MaxAttempts
                /\ stage \in Stages
                /\ journey \in Journeys
                /\ posted \in BOOLEAN
                /\ inFlight \subseteq Posts
                /\ received \in AnyTrace
                /\ result \in Result

(* The last two commands of a job read a file that the one before wrote.   *)
FilesThere == /\ command = "job gate" => disk.report # NoReport
              /\ command = "job result" => disk.gate # NoReport

TypeInv == /\ command \in Commands
           /\ PlanTypes
           /\ AttemptTypes
           /\ disk \in Disk
           /\ FilesThere

LEMMA ParameterTypes ==
  /\ Answer \subseteq Answers
  /\ Observable \subseteq Facts
  /\ MaxAttempts \in Nat \ {0}
  /\ 1 \in 1..MaxAttempts
<1>1. MaxAttempts \in Nat \ {0}
  BY MatrixAssumption
<1>2. 1 \in 1..MaxAttempts
  BY <1>1
<1>. QED  BY <1>1, <1>2, MatrixAssumption

LEMMA TypeInvImplies == TypeInv => TypeOK
  BY DEF TypeInv, PlanTypes, AttemptTypes, TypeOK, Posts, Result, Stages, Journeys, Commands

LEMMA NoResultTyped == NoResult \in Result /\ NoTrace \in AnyTrace
  BY DEF NoResult, Result, AnyTrace, AnyVerdict

LEMMA NewSessionTyped ==
  ASSUME NewSession
  PROVE  stage' \in Stages /\ journey' \in Journeys /\ posted' \in BOOLEAN /\ result' \in Result
  BY NoResultTyped DEF NewSession, Stages, Journeys

LEMMA NewStepTyped ==
  ASSUME NewStep
  PROVE  AttemptTypes'
<1>1. stage' \in Stages /\ journey' \in Journeys /\ posted' \in BOOLEAN /\ result' \in Result
  BY NewSessionTyped DEF NewStep
<1>2. attempt' \in 1..MaxAttempts /\ inFlight' \subseteq Posts /\ received' \in AnyTrace
  BY ParameterTypes, NoResultTyped DEF NewStep
<1>. QED  BY <1>1, <1>2 DEF AttemptTypes, Posts, Result, AnyTrace, TraceFile, AnyVerdict

LEMMA AttemptSame ==
  ASSUME AttemptTypes, UNCHANGED stepVars
  PROVE  AttemptTypes'
  BY DEF AttemptTypes, stepVars

LEMMA InitTyped == Init => TypeInv
<1> SUFFICES ASSUME Init PROVE TypeInv
  OBVIOUS
<1>1. NoFiles \in [Runs -> AnyTrace]
  BY DEF NoFiles, AnyTrace
<1>2. disk \in Disk
  BY <1>1 DEF Init, Disk, Replays
<1>3. PlanTypes
  BY DEF Init, PlanTypes, Modes
<1>4. AttemptTypes
  <2>1. inFlight \subseteq Posts
    BY DEF Init
  <2>. QED  BY <2>1, ParameterTypes, NoResultTyped DEF Init, AttemptTypes, Stages, Journeys
<1>. QED  BY <1>2, <1>3, <1>4 DEF Init, TypeInv, Commands, FilesThere

LEMMA StepTyped ==
  ASSUME PlanTypes, Working
  PROVE  /\ Step \in Runs
         /\ \A f \in Observable : Trace(f) \in TraceFile
<1>1. Len(rows) \in Nat /\ Len(plan) \in Nat
  BY LenProperties DEF PlanTypes
<1>2. Len(rows) + 1 \in 1..Len(plan)
  BY <1>1 DEF Working
<1>3. Step \in Runs
  BY <1>2, ElementOfSeq DEF PlanTypes, Step
<1>4. matrix \in Nat /\ mode \in Modes
  BY DEF PlanTypes
<1>. QED  BY <1>3, <1>4 DEF Trace, TraceFile

(* The plan of a matrix: a list of profiles, perhaps after the baseline.   *)
PlanOf(profiles, baseline) ==
  (IF baseline THEN << <<Baseline, "baseline">> >> ELSE <<>>)
     \o [i \in DOMAIN profiles |-> <<profiles[i], "adaptive">>]

LEMMA PlanTyped ==
  ASSUME NEW profiles \in Plans, NEW baseline \in BOOLEAN
  PROVE  /\ PlanOf(profiles, baseline) \in Seq(Runs)
         /\ \A i, j \in 1..Len(PlanOf(profiles, baseline)) :
              PlanOf(profiles, baseline)[i] = PlanOf(profiles, baseline)[j] => i = j
<1> DEFINE tail == [i \in DOMAIN profiles |-> <<profiles[i], "adaptive">>]
           head == IF baseline THEN << <<Baseline, "baseline">> >> ELSE <<>>
<1>1. profiles \in Seq(Profiles) /\ Baseline \in Profiles
  BY MatrixAssumption
<1>2. Len(profiles) \in Nat /\ DOMAIN profiles = 1..Len(profiles)
  BY <1>1, LenProperties
<1>3. \A i \in 1..Len(profiles) : profiles[i] \in Profiles
  BY <1>1, <1>2, ElementOfSeq
<1>4. \A i \in 1..Len(profiles) : <<profiles[i], "adaptive">> \in Runs
  BY <1>3 DEF Runs, Kinds
<1>5. tail \in Seq(Runs) /\ Len(tail) = Len(profiles)
  <2>1. tail \in [1..Len(profiles) -> Runs]
    BY <1>2, <1>4
  <2>. QED  BY <1>2, <2>1, IsASeq, LenProperties
<1>6. <<Baseline, "baseline">> \in Runs
  BY <1>1 DEF Runs, Kinds
<1>7. head \in Seq(Runs) /\ Len(head) \in 0..1 /\ \A i \in 1..Len(head) : head[i] = <<Baseline, "baseline">>
  BY <1>6
<1>8. PlanOf(profiles, baseline) = head \o tail
  BY DEF PlanOf
<1> HIDE DEF head
<1>9. /\ head \o tail \in Seq(Runs)
      /\ Len(head \o tail) = Len(head) + Len(tail)
      /\ \A i \in 1..Len(head) + Len(tail) :
           (head \o tail)[i] = IF i <= Len(head) THEN head[i] ELSE tail[i - Len(head)]
  BY <1>5, <1>7, ConcatProperties, Zenon
<1>10. ASSUME NEW i \in 1..Len(head \o tail), NEW j \in 1..Len(head \o tail),
              (head \o tail)[i] = (head \o tail)[j]
       PROVE  i = j
  <2>1. ASSUME NEW k \in 1..Len(head \o tail), k > Len(head)
        PROVE  /\ (head \o tail)[k] = <<profiles[k - Len(head)], "adaptive">>
               /\ k - Len(head) \in 1..Len(profiles)
    BY <1>2, <1>5, <1>7, <1>9, <2>1
  <2>2. ASSUME NEW k \in 1..Len(head \o tail), k <= Len(head)
        PROVE  (head \o tail)[k] = <<Baseline, "baseline">> /\ k = 1
    BY <1>2, <1>5, <1>7, <1>9, <2>2
  <2>3. CASE i <= Len(head) /\ j <= Len(head)
    BY <2>2, <2>3
  <2>4. CASE i > Len(head) /\ j > Len(head)
    <3>1. profiles[i - Len(head)] = profiles[j - Len(head)]
      BY <1>10, <2>1, <2>4
    <3>2. i - Len(head) = j - Len(head)
      BY <1>2, <2>1, <2>4, <3>1, DistinctAssumption
    <3>. QED  BY <1>7, <3>2
  <2>5. CASE i <= Len(head) /\ j > Len(head)
    BY <1>10, <2>1, <2>2, <2>5
  <2>6. CASE i > Len(head) /\ j <= Len(head)
    BY <1>10, <2>1, <2>2, <2>6
  <2>. QED  BY <1>5, <1>7, <1>9, <2>3, <2>4, <2>5, <2>6
<1>. QED  BY <1>8, <1>9, <1>10

LEMMA DecisionTyped ==
  ASSUME NEW report, NEW replay
  PROVE  Decision(report, replay) \in {"ship", "hold", "inconclusive"}
  BY DEF Decision, TargetRelease, GateDecision

(* What an attempt may change of itself.                                   *)
LEMMA AttemptSteps ==
  ASSUME TypeInv
  PROVE  /\ OpenPage => AttemptTypes'
         /\ \A f \in Observable : PagePosts(f) => AttemptTypes'
         /\ \A post \in inFlight, arrives \in BOOLEAN : PostEnds(post, arrives) => AttemptTypes'
         /\ \A outcome \in {"pass", "fail"} : DriveEnds(outcome) => AttemptTypes'
         /\ TakePostedTrace \/ HarvestTrace \/ SessionFails => AttemptTypes'
         /\ \A answer \in Answer : JudgeAndSave(answer) => AttemptTypes'
         /\ Retry => AttemptTypes'
<1> USE DEF TypeInv, AttemptTypes
<1>1. ASSUME OpenPage PROVE AttemptTypes'
  BY <1>1 DEF OpenPage, Stages
<1>2. ASSUME NEW f \in Observable, PagePosts(f) PROVE AttemptTypes'
  <2>1. Trace(f) \in TraceFile
    BY <1>2, StepTyped DEF PagePosts
  <2>2. <<attempt, Trace(f)>> \in Posts
    BY <2>1 DEF Posts
  <2>3. inFlight' \subseteq Posts
    BY <1>2, <2>2 DEF PagePosts
  <2>. QED  BY <1>2, <2>3 DEF PagePosts
<1>3. ASSUME NEW post \in inFlight, NEW arrives \in BOOLEAN, PostEnds(post, arrives)
      PROVE  AttemptTypes'
  <2>1. post \in Posts
    OBVIOUS
  <2>2. post[2] \in AnyTrace
    BY <2>1 DEF Posts, AnyTrace
  <2>3. received' \in AnyTrace /\ inFlight' \subseteq Posts
    BY <1>3, <2>2 DEF PostEnds
  <2>. QED  BY <1>3, <2>3 DEF PostEnds
<1>4. ASSUME NEW outcome \in {"pass", "fail"}, DriveEnds(outcome) PROVE AttemptTypes'
  BY <1>4 DEF DriveEnds, Stages, Journeys
<1>5. ASSUME NEW trace \in AnyTrace, NEW error \in BOOLEAN, SessionReturns(trace, error)
      PROVE  AttemptTypes'
  <2>1. [trace |-> trace, error |-> error, verdict |-> NoVerdict] \in Result
    BY DEF Result, AnyVerdict
  <2>2. result' \in Result /\ stage' \in Stages
    BY <1>5, <2>1 DEF SessionReturns, Stages
  <2>. QED  BY <1>5, <2>2 DEF SessionReturns
<1>6. ASSUME Working PROVE Harvest \subseteq AnyTrace
  BY <1>6, StepTyped DEF Harvest, AnyTrace
<1>7. ASSUME TakePostedTrace \/ HarvestTrace \/ SessionFails PROVE AttemptTypes'
  <2>1. received \in AnyTrace
    OBVIOUS
  <2>2. CASE TakePostedTrace
    <3>1. (received = NoTrace) \in BOOLEAN
      OBVIOUS
    <3>2. SessionReturns(received, received = NoTrace)
      BY <2>2 DEF TakePostedTrace
    <3>. HIDE DEF AttemptTypes
    <3>. QED  BY <1>5, <2>1, <3>1, <3>2
  <2>3. CASE HarvestTrace
    <3>1. PICK trace \in Harvest : SessionReturns(trace, trace = NoTrace)
      BY <2>3 DEF HarvestTrace
    <3>2. trace \in AnyTrace
      BY <1>6, <2>3 DEF HarvestTrace
    <3>3. (trace = NoTrace) \in BOOLEAN
      OBVIOUS
    <3>. HIDE DEF AttemptTypes
    <3>. QED  BY <1>5, <3>1, <3>2, <3>3
  <2>4. CASE SessionFails
    <3>1. PICK trace \in IF mode = "orbital" THEN {received} ELSE Harvest : SessionReturns(trace, TRUE)
      BY <2>4 DEF SessionFails
    <3>2. trace \in AnyTrace
      BY <1>6, <2>1, <2>4 DEF SessionFails
    <3>3. TRUE \in BOOLEAN
      OBVIOUS
    <3>. HIDE DEF AttemptTypes
    <3>. QED  BY <1>5, <3>1, <3>2, <3>3
  <2>. QED  BY <1>7, <2>2, <2>3, <2>4
<1>8. ASSUME NEW answer \in Answer, JudgeAndSave(answer) PROVE AttemptTypes'
  <2>1. result \in Result /\ result.trace \in TraceFile
    BY <1>8 DEF JudgeAndSave, Result, AnyTrace
  <2>2. result.trace.facts \in Facts /\ answer \in Answers
    BY <2>1, ParameterTypes DEF TraceFile
  <2>3. GuardedVerdict(result.trace.facts, answer) \in AnyVerdict
    BY <2>2, GuardedTyped DEF AnyVerdict
  <2>4. result' = [result EXCEPT !.verdict = GuardedVerdict(result.trace.facts, answer)]
    BY <1>8 DEF JudgeAndSave
  <2>5. result' \in Result
    BY <2>1, <2>3, <2>4 DEF Result
  <2>. QED  BY <1>8, <2>5 DEF JudgeAndSave, Stages
<1>9. ASSUME Retry PROVE AttemptTypes'
  <2>1. attempt' \in 1..MaxAttempts
    BY <1>9, ParameterTypes DEF Retry
  <2>2. stage' \in Stages /\ journey' \in Journeys /\ posted' \in BOOLEAN /\ result' \in Result
    BY <1>9, NewSessionTyped DEF Retry
  <2>. QED  BY <1>9, <2>1, <2>2 DEF Retry
<1> HIDE DEF TypeInv, AttemptTypes
<1>. QED  BY <1>1, <1>2, <1>3, <1>4, <1>7, <1>8, <1>9

LEMMA RowTyped ==
  ASSUME PlanTypes, Working, NEW trace \in AnyTrace, NEW verdict \in AnyVerdict,
         NEW outcome \in Journeys, NEW error \in BOOLEAN
  PROVE  /\ Row(trace, verdict, outcome, error) \in RowType
         /\ Append(rows, Row(trace, verdict, outcome, error)) \in Seq(RowType)
<1>1. Step[1] \in Profiles /\ Step[2] \in Kinds
  BY StepTyped DEF Runs
<1>2. Row(trace, verdict, outcome, error) \in RowType
  BY <1>1 DEF Row, RowType, Journeys
<1>. QED  BY <1>2, AppendProperties DEF PlanTypes

(* What a command may change of the files.                                 *)
LEMMA FileSteps ==
  ASSUME TypeInv
  PROVE  /\ [disk EXCEPT !.report = NoReport] \in Disk
         /\ [disk EXCEPT !.gate = NoReport] \in Disk
         /\ \A run \in Runs, trace \in AnyTrace : [disk EXCEPT !.traces[run] = trace] \in Disk
         /\ \A report \in Report : [disk EXCEPT !.report = report] \in Disk
         /\ \A gate \in GateReport : [disk EXCEPT !.gate = gate] \in Disk
         /\ \A job \in JobReport : [disk EXCEPT !.job = job] \in Disk
         /\ \A kind \in Kinds, outcome \in Replays : [disk EXCEPT !.replay[kind] = outcome] \in Disk
  BY DEF TypeInv, Disk

LEMMA GateTyped ==
  ASSUME TypeInv, NEW replay \in Replays, disk.report # NoReport
  PROVE  Gate(replay) \in GateReport
<1>1. disk.report.matrix \in Nat
  BY DEF TypeInv, Disk, Report
<1>. QED  BY <1>1, DecisionTyped DEF Gate, GateReport

LEMMA NextTyped == TypeInv /\ [Next]_vars => TypeInv'
<1> SUFFICES ASSUME TypeInv, [Next]_vars PROVE TypeInv'
  OBVIOUS
<1>a. command \in Commands /\ PlanTypes /\ AttemptTypes /\ disk \in Disk /\ FilesThere
  BY DEF TypeInv
<1>b. <<>> \in Seq(Runs) /\ <<>> \in Seq(RowType)
  OBVIOUS
<1>1. ASSUME NEW m \in Modes, NEW profiles \in Plans, NEW baseline \in BOOLEAN,
             NewMatrix(m, profiles, baseline), command' \in {"cleaning", "job"}
      PROVE  TypeInv'
  <2>1. plan' \in Seq(Runs)
    BY <1>1, PlanTyped DEF NewMatrix, PlanOf
  <2>2. disk' \in Disk
    BY <1>1, FileSteps DEF NewMatrix
  <2>3. PlanTypes'
    <3>1. matrix' \in Nat /\ mode' \in Modes /\ rows' = <<>> /\ replaying' \subseteq Kinds
      BY <1>a, <1>1 DEF NewMatrix, PlanTypes
    <3>. QED  BY <1>b, <2>1, <3>1 DEF PlanTypes
  <2>4. AttemptTypes'
    BY <1>1, NewStepTyped DEF NewMatrix
  <2>. QED  BY <1>1, <2>2, <2>3, <2>4 DEF TypeInv, Commands, FilesThere
<1>2. ASSUME NEW m \in {"orbital", "target"}, NEW profiles \in Plans, NEW baseline \in BOOLEAN,
             StartMatrix(m, profiles, baseline)
      PROVE  TypeInv'
  BY <1>1, <1>2 DEF StartMatrix, Modes
<1>3. ASSUME NEW profiles \in Plans, StartJob(profiles) PROVE TypeInv'
  <2>1. NewMatrix("target", profiles, FALSE) /\ command' = "job"
    BY <1>3 DEF StartJob
  <2>2. "target" \in Modes /\ FALSE \in BOOLEAN
    BY DEF Modes
  <2>. QED  BY <1>1, <2>1, <2>2
<1>4. ASSUME UNCHANGED <<matrix, mode, plan, rows, replaying>> PROVE PlanTypes'
  BY <1>a, <1>4 DEF PlanTypes
<1>5. ASSUME UNCHANGED stepVars PROVE AttemptTypes'
  BY <1>a, <1>5, AttemptSame
<1>6. ASSUME SamePlan, command \in {"cleaning", "matrix", "job"}, disk' \in Disk, AttemptTypes'
      PROVE  TypeInv'
  BY <1>a, <1>4, <1>6 DEF SamePlan, TypeInv, FilesThere
<1>7. CASE RemoveReport
  BY <1>5, <1>6, <1>7, FileSteps DEF RemoveReport
<1>8. ASSUME NEW run \in Runs, RemoveTrace(run) PROVE TypeInv'
  <2>1. disk' \in Disk
    BY <1>8, FileSteps, NoResultTyped DEF RemoveTrace
  <2>. QED  BY <1>5, <1>6, <1>8, <2>1 DEF RemoveTrace
<1>9. CASE Cleaned
  <2>1. PlanTypes' /\ AttemptTypes' /\ disk' \in Disk
    BY <1>a, <1>4, <1>5, <1>9 DEF Cleaned
  <2>. QED  BY <1>9, <2>1 DEF Cleaned, TypeInv, Commands, FilesThere
<1>10. Working => command \in {"cleaning", "matrix", "job"}
  BY DEF Working
<1>11. CASE OpenPage
  BY <1>a, <1>6, <1>10, <1>11, AttemptSteps DEF OpenPage
<1>12. ASSUME NEW f \in Observable, PagePosts(f) PROVE TypeInv'
  BY <1>a, <1>6, <1>10, <1>12, AttemptSteps DEF PagePosts
<1>13. ASSUME NEW post \in inFlight, NEW arrives \in BOOLEAN, PostEnds(post, arrives)
       PROVE  TypeInv'
  BY <1>a, <1>6, <1>10, <1>13, AttemptSteps DEF PostEnds
<1>14. ASSUME NEW outcome \in {"pass", "fail"}, DriveEnds(outcome) PROVE TypeInv'
  BY <1>a, <1>6, <1>10, <1>14, AttemptSteps DEF DriveEnds
<1>15. CASE TakePostedTrace \/ HarvestTrace \/ SessionFails
  <2>1. Working /\ SamePlan /\ disk' = disk
    BY <1>15 DEF TakePostedTrace, HarvestTrace, SessionFails, SessionReturns
  <2>. QED  BY <1>a, <1>6, <1>10, <1>15, <2>1, AttemptSteps
<1>16. ASSUME NEW answer \in Answer, JudgeAndSave(answer) PROVE TypeInv'
  <2>1. Working /\ SamePlan /\ Step \in Runs /\ result.trace \in AnyTrace
    BY <1>a, <1>16, StepTyped DEF JudgeAndSave, AttemptTypes, Result
  <2>2. disk' \in Disk
    BY <1>16, <2>1, FileSteps DEF JudgeAndSave
  <2>. QED  BY <1>6, <1>10, <1>16, <2>1, <2>2, AttemptSteps
<1>17. CASE Retry
  <2>1. Working /\ SamePlan /\ disk' = disk
    BY <1>17 DEF Retry, MayThrow
  <2>. QED  BY <1>a, <1>6, <1>10, <1>17, <2>1, AttemptSteps
<1>18. ASSUME NEW trace \in AnyTrace, NEW verdict \in AnyVerdict, NEW outcome \in Journeys,
              NEW error \in BOOLEAN, Working, Push(Row(trace, verdict, outcome, error))
       PROVE  TypeInv'
  <2>1. rows' \in Seq(RowType)
    BY <1>a, <1>18, RowTyped DEF Push
  <2>2. PlanTypes'
    BY <1>a, <1>18, <2>1 DEF Push, PlanTypes
  <2>3. AttemptTypes'
    BY <1>18, NewStepTyped DEF Push
  <2>. QED  BY <1>a, <1>18, <2>2, <2>3 DEF Push, TypeInv, FilesThere
<1>19. CASE FinishStep
  <2>1. result.trace \in AnyTrace /\ result.verdict \in AnyVerdict /\ result.error \in BOOLEAN
        /\ journey \in Journeys
    BY <1>a DEF AttemptTypes, Result
  <2>. QED  BY <1>18, <1>19, <2>1 DEF FinishStep
<1>20. CASE Quarantine
  <2>1. NoTrace \in AnyTrace /\ NoVerdict \in AnyVerdict /\ "none" \in Journeys /\ TRUE \in BOOLEAN
    BY NoResultTyped DEF AnyVerdict, Journeys
  <2>. QED  BY <1>18, <1>20, <2>1 DEF Quarantine, MayThrow
<1>21. CASE WriteReport
  <2>1. [matrix |-> matrix, mode |-> mode, rows |-> rows] \in Report
    BY <1>a DEF PlanTypes, Report
  <2>2. disk' \in Disk /\ disk'.report = [matrix |-> matrix, mode |-> mode, rows |-> rows]
    BY <1>a, <1>21, <2>1, FileSteps DEF WriteReport, Disk
  <2>3. disk'.report # NoReport
    BY <2>1, <2>2 DEF Report, NoReport
  <2>4. PlanTypes' /\ AttemptTypes'
    BY <1>a, <1>b, <1>5, <1>21 DEF WriteReport, PlanTypes
  <2>. QED  BY <1>21, <2>2, <2>3, <2>4 DEF WriteReport, TypeInv, Commands, FilesThere
<1>22. ASSUME UNCHANGED <<matrix, mode, plan, rows, stepVars>>, command' \in {"idle", "replay", "exited"},
              replaying' \subseteq Kinds, disk' \in Disk
       PROVE  TypeInv'
  <2>1. PlanTypes'
    BY <1>a, <1>22 DEF PlanTypes
  <2>. QED  BY <1>5, <1>22, <2>1 DEF TypeInv, Commands, FilesThere
<1>23. ASSUME NEW kind \in Kinds, StartReplay(kind) PROVE TypeInv'
  <2>1. disk' \in Disk
    BY <1>23, FileSteps DEF StartReplay, Replays
  <2>. QED  BY <1>22, <1>23, <2>1 DEF StartReplay
<1>24. ASSUME NEW kind \in Kinds, NEW error \in BOOLEAN, NEW traced \in BOOLEAN,
              NEW causal \in BOOLEAN, NEW visual \in BOOLEAN,
              EndReplay(kind, error, traced, causal, visual)
       PROVE  TypeInv'
  <2>1. disk' \in Disk
    BY <1>24, FileSteps DEF EndReplay, Replays
  <2>. QED  BY <1>22, <1>24, <2>1 DEF EndReplay
<1>25. ASSUME NEW replay \in {ReplayOnDisk, "none"}, RunGate(replay) PROVE TypeInv'
  <2>1. replay \in Replays
    BY <1>a DEF ReplayOnDisk, Disk, Replays, Kinds
  <2>2. disk' \in Disk
    BY <1>25, <2>1, GateTyped, FileSteps DEF RunGate
  <2>3. replaying' \subseteq Kinds /\ command' \in {"idle", "replay", "exited"}
    BY <1>a, <1>25 DEF RunGate, PlanTypes
  <2>. QED  BY <1>22, <1>25, <2>2, <2>3 DEF RunGate
<1>26. CASE JobGate
  <2>1. Gate("none") \in GateReport
    BY <1>a, <1>26, GateTyped DEF JobGate, FilesThere, Replays
  <2>2. disk' \in Disk /\ disk'.gate = Gate("none")
    BY <1>a, <1>26, <2>1, FileSteps DEF JobGate, Disk
  <2>3. disk'.gate # NoReport
    BY <2>1, <2>2 DEF GateReport, NoReport
  <2>4. PlanTypes' /\ AttemptTypes'
    BY <1>4, <1>5, <1>26 DEF JobGate
  <2>. QED  BY <1>26, <2>2, <2>3, <2>4 DEF JobGate, TypeInv, Commands, FilesThere
<1>27. CASE JobFails
  BY <1>a, <1>22, <1>27 DEF JobFails, PlanTypes
<1>28. CASE JobResult
  <2>1. disk.gate \in GateReport
    BY <1>a, <1>28 DEF JobResult, FilesThere, Disk
  <2>2. [matrix |-> disk.gate.matrix, decision |-> disk.gate.decision] \in JobReport
    BY <2>1 DEF GateReport, JobReport
  <2>3. disk' \in Disk
    BY <1>28, <2>2, FileSteps DEF JobResult
  <2>. QED  BY <1>a, <1>22, <1>28, <2>3 DEF JobResult, PlanTypes
<1>29. CASE Crash
  <2>1. PlanTypes' /\ AttemptTypes' /\ disk' \in Disk
    BY <1>a, <1>b, <1>29, NewStepTyped DEF Crash, PlanTypes
  <2>2. command' \in {"idle", "exited"}
    BY <1>29 DEF Crash
  <2>. QED  BY <2>1, <2>2 DEF TypeInv, Commands, FilesThere
<1>30. CASE UNCHANGED vars
  <2>1. PlanTypes' /\ AttemptTypes'
    BY <1>4, <1>5, <1>30 DEF vars
  <2>. QED  BY <1>a, <1>30, <2>1 DEF vars, TypeInv, FilesThere
<1>31. Next \/ UNCHANGED vars
  OBVIOUS
<1>. QED
  BY <1>2, <1>3, <1>7, <1>8, <1>9, <1>11, <1>12, <1>13, <1>14, <1>15, <1>16, <1>17, <1>19, <1>20,
     <1>21, <1>23, <1>24, <1>25, <1>26, <1>27, <1>28, <1>29, <1>30, <1>31 DEF Next, Runner

(* The variables keep their types, whatever crashes, posts and retries.    *)
THEOREM ReleaseTypeCorrect == Spec => []TypeOK
<1>1. Init => TypeInv
  BY InitTyped
<1>2. TypeInv /\ [Next]_vars => TypeInv'
  BY NextTyped
<1>3. TypeInv => TypeOK
  BY TypeInvImplies
<1>. QED  BY <1>1, <1>2, <1>3, PTL DEF Spec

-----------------------------------------------------------------------------
(* The inductive invariant.                                                *)
Busy == command \in {"cleaning", "matrix", "job"}

(* The rows follow a plan that names a run once, and there is a plan only  *)
(* while a matrix runs.                                                    *)
PlanInv ==
  /\ \A i, j \in 1..Len(plan) : plan[i] = plan[j] => i = j
  /\ Len(rows) <= Len(plan)
  /\ ~Busy => plan = <<>> /\ rows = <<>>
  /\ command = "cleaning" => rows = <<>>
  /\ \A i \in 1..Len(rows) : Run(rows[i]) = plan[i]
  /\ command = "job" => mode = "target"
  /\ Busy => matrix >= 1

(* What an attempt holds was taken by this matrix, for this step.          *)
Owned(trace) == trace # NoTrace => trace.matrix = matrix /\ trace.run = Step

AtRest == stage = "closed" /\ inFlight = {} /\ received = NoTrace /\ result = NoResult

Guarded(r) == \E answer \in Answers : r.verdict = GuardedVerdict(r.trace.facts, answer)

StepInv ==
  /\ ~Working => AtRest
  /\ \A post \in inFlight : Owned(post[2])
  /\ Owned(received)
  /\ Owned(result.trace)
  /\ stage \in {"closed", "open", "driven"} => result = NoResult
  /\ stage \in {"returned", "saved"} => result.trace # NoTrace \/ result.error
  /\ stage = "saved" => /\ result.trace # NoTrace
                        /\ disk.traces[Step] = result.trace
                        /\ Guarded(result)

(* A row without a trace is an error row; the trace of another was taken   *)
(* for it, and its verdict is a guarded one on that trace.                 *)
RowRight(r, number) ==
  IF r.trace = NoTrace THEN r.error
  ELSE r.trace.matrix = number /\ r.trace.run = Run(r) /\ Guarded(r)

RowsInv == \A i \in 1..Len(rows) :
              /\ RowRight(rows[i], matrix)
              /\ rows[i].trace # NoTrace => disk.traces[Run(rows[i])] = rows[i].trace

ReportInv ==
  disk.report # NoReport =>
    /\ \A i \in DOMAIN disk.report.rows :
          /\ RowRight(disk.report.rows[i], disk.report.matrix)
          /\ disk.report.rows[i].trace # NoTrace =>
                disk.traces[Run(disk.report.rows[i])] \in {disk.report.rows[i].trace, NoTrace}
    /\ \A i, j \in DOMAIN disk.report.rows :
          Run(disk.report.rows[i]) = Run(disk.report.rows[j]) => i = j

(* Which files there are while what runs: a matrix replaces the report,    *)
(* and what a gate says is about files that nobody touches any more.       *)
FileInv ==
  /\ command \in {"matrix", "job"} => disk.report = NoReport
  /\ Busy => disk.gate = NoReport
  /\ matrix = 0 => disk.report = NoReport
  /\ command \in {"job gate", "job result"} => disk.report # NoReport /\ disk.report.mode = "target"
  /\ command = "job result" => /\ Complete(disk.report)
                               /\ disk.gate.matrix = disk.report.matrix
                               /\ disk.gate.decision = TargetRelease(disk.report.rows)
  /\ disk.job # NoReport => command = "exited"

GateInv == ShippedMeansUsable /\ TargetShipMeansProven /\ HoldHasReason

MatrixInv == /\ TypeInv /\ PlanInv /\ StepInv /\ RowsInv /\ ReportInv /\ FileInv
             /\ GateInv /\ JobVerdictIsComplete

-----------------------------------------------------------------------------
(* What a step leaves alone.                                               *)
LEMMA SamePlanInv ==
  ASSUME PlanInv, SamePlan
  PROVE  PlanInv'
  BY DEF PlanInv, SamePlan, Busy, Run

LEMMA SameReport ==
  ASSUME ReportInv, disk'.report = disk.report, disk'.traces = disk.traces
  PROVE  ReportInv'
<1> SUFFICES ASSUME disk'.report # NoReport
             PROVE  /\ \A i \in DOMAIN disk.report.rows :
                          /\ RowRight(disk.report.rows[i], disk.report.matrix)
                          /\ disk.report.rows[i].trace # NoTrace =>
                                disk.traces[Run(disk.report.rows[i])] \in {disk.report.rows[i].trace, NoTrace}
                    /\ \A i, j \in DOMAIN disk.report.rows :
                          Run(disk.report.rows[i]) = Run(disk.report.rows[j]) => i = j
  BY DEF ReportInv, RowRight, Guarded, Run
<1>. QED  BY DEF ReportInv

LEMMA SameGate ==
  ASSUME GateInv, disk'.report = disk.report, disk'.gate = disk.gate, disk'.traces = disk.traces
  PROVE  GateInv'
<1>1. ShippedMeansUsable'
  BY DEF GateInv, ShippedMeansUsable, Judged, Evidenced
<1>2. TargetShipMeansProven'
  BY DEF GateInv, TargetShipMeansProven, Judged, Evidenced
<1>3. HoldHasReason'
  BY DEF GateInv, HoldHasReason, Judged, Evidenced
<1>. QED  BY <1>1, <1>2, <1>3 DEF GateInv

LEMMA NoGate ==
  ASSUME disk'.gate = NoReport \/ disk'.report = NoReport
  PROVE  GateInv'
  BY DEF GateInv, ShippedMeansUsable, TargetShipMeansProven, HoldHasReason, Judged

LEMMA SameJob ==
  ASSUME JobVerdictIsComplete, disk'.report = disk.report, disk'.job = disk.job
  PROVE  JobVerdictIsComplete'
  BY DEF JobVerdictIsComplete

LEMMA NoJob ==
  ASSUME disk'.job = NoReport
  PROVE  JobVerdictIsComplete'
  BY DEF JobVerdictIsComplete

LEMMA SameRows ==
  ASSUME RowsInv, rows' = rows, matrix' = matrix, disk'.traces = disk.traces
  PROVE  RowsInv'
  BY DEF RowsInv, RowRight, Guarded, Run

LEMMA NoRows ==
  ASSUME rows' = <<>>
  PROVE  RowsInv'
  BY DEF RowsInv

(* The fields of what is on disk after a command has changed one.          *)
LEMMA Fields ==
  ASSUME disk \in Disk
  PROVE  /\ \A x : LET d == [disk EXCEPT !.report = x]
                   IN  d.report = x /\ d.traces = disk.traces /\ d.gate = disk.gate /\ d.job = disk.job
         /\ \A x : LET d == [disk EXCEPT !.gate = x]
                   IN  d.gate = x /\ d.traces = disk.traces /\ d.report = disk.report /\ d.job = disk.job
         /\ \A x : LET d == [disk EXCEPT !.job = x]
                   IN  d.job = x /\ d.traces = disk.traces /\ d.report = disk.report /\ d.gate = disk.gate
         /\ \A run, x : LET d == [disk EXCEPT !.traces[run] = x]
                   IN  /\ d.traces = [disk.traces EXCEPT ![run] = x]
                       /\ d.report = disk.report /\ d.gate = disk.gate /\ d.job = disk.job
         /\ \A kind, x : LET d == [disk EXCEPT !.replay[kind] = x]
                   IN  d.traces = disk.traces /\ d.report = disk.report /\ d.gate = disk.gate
                       /\ d.job = disk.job
  BY DEF Disk

LEMMA AtRestStep ==
  ASSUME AtRest'
  PROVE  StepInv'
  BY DEF AtRest, StepInv, Owned, NoResult

LEMMA InitInv == Init => MatrixInv
<1> SUFFICES ASSUME Init PROVE MatrixInv
  OBVIOUS
<1>1. PlanInv
  BY DEF Init, PlanInv, Busy
<1>2. StepInv
  BY DEF Init, StepInv, AtRest, Owned, NoResult
<1>3. RowsInv
  BY DEF Init, RowsInv
<1>4. disk.report = NoReport /\ disk.gate = NoReport /\ disk.job = NoReport
  BY DEF Init
<1>5. ReportInv /\ FileInv /\ GateInv /\ JobVerdictIsComplete
  BY <1>4 DEF Init, ReportInv, FileInv, Busy, GateInv, ShippedMeansUsable, TargetShipMeansProven,
              HoldHasReason, Judged, JobVerdictIsComplete
<1>. QED  BY <1>1, <1>2, <1>3, <1>5, InitTyped DEF MatrixInv

(* A step of an attempt that writes no file leaves all but StepInv alone.  *)
LEMMA AttemptOnly ==
  ASSUME MatrixInv, SamePlan, disk' = disk, TypeInv', StepInv'
  PROVE  MatrixInv'
<1> USE DEF MatrixInv
<1>1. PlanInv'
  BY SamePlanInv
<1>2. RowsInv'
  BY SameRows DEF SamePlan
<1>3. ReportInv' /\ GateInv' /\ JobVerdictIsComplete'
  BY SameReport, SameGate, SameJob
<1>4. FileInv'
  BY DEF FileInv, SamePlan, Busy, Complete
<1>. QED  BY <1>1, <1>2, <1>3, <1>4

LEMMA SameStep == SamePlan => Step' = Step /\ Working' = Working
  BY DEF SamePlan, Step, Working

LEMMA TraceOwned ==
  ASSUME NEW f
  PROVE  Owned(Trace(f))
  BY DEF Owned, Trace

LEMMA SessionSteps ==
  ASSUME StepInv, SamePlan, Working, disk' = disk
  PROVE  /\ OpenPage => StepInv'
         /\ \A f \in Observable : PagePosts(f) => StepInv'
         /\ \A post \in inFlight, arrives \in BOOLEAN : PostEnds(post, arrives) => StepInv'
         /\ \A outcome \in {"pass", "fail"} : DriveEnds(outcome) => StepInv'
         /\ Retry => StepInv'
<1>1. Working' /\ Step' = Step /\ matrix' = matrix
  BY SameStep DEF SamePlan
<1>2. \A trace : Owned(trace) => (trace # NoTrace => trace.matrix = matrix' /\ trace.run = Step')
  BY <1>1 DEF Owned
<1>3. ASSUME OpenPage PROVE StepInv'
  BY <1>1, <1>3 DEF OpenPage, StepInv, Owned
<1>4. ASSUME NEW f \in Observable, PagePosts(f) PROVE StepInv'
  <2>1. \A post \in inFlight' : Owned(post[2])
    BY <1>4, TraceOwned DEF PagePosts, StepInv
  <2>2. (\A post \in inFlight : Owned(post[2]))'
    BY <1>1, <2>1 DEF Owned
  <2>. QED  BY <1>1, <1>4, <2>2 DEF PagePosts, StepInv, Owned
<1>5. ASSUME NEW post \in inFlight, NEW arrives \in BOOLEAN, PostEnds(post, arrives) PROVE StepInv'
  <2>1. \A p \in inFlight' : Owned(p[2])
    BY <1>5 DEF PostEnds, StepInv
  <2>2. Owned(received')
    BY <1>5 DEF PostEnds, StepInv
  <2>3. (\A p \in inFlight : Owned(p[2]))' /\ Owned(received)'
    BY <1>1, <2>1, <2>2 DEF Owned
  <2>. QED  BY <1>1, <1>5, <2>3 DEF PostEnds, StepInv, Owned
<1>6. ASSUME NEW outcome \in {"pass", "fail"}, DriveEnds(outcome) PROVE StepInv'
  BY <1>1, <1>6 DEF DriveEnds, StepInv, Owned
<1>7. ASSUME Retry PROVE StepInv'
  BY <1>1, <1>7 DEF Retry, NewSession, StepInv, Owned, NoResult
<1>. QED  BY <1>3, <1>4, <1>5, <1>6, <1>7

LEMMA ReturnSteps ==
  ASSUME StepInv, Working, NEW trace, NEW error \in BOOLEAN, SessionReturns(trace, error),
         Owned(trace), trace # NoTrace \/ error
  PROVE  StepInv'
<1>1. Working' /\ Step' = Step /\ matrix' = matrix
  BY SameStep DEF SamePlan, SessionReturns
<1>2. result'.trace = trace /\ result'.error = error
  BY DEF SessionReturns
<1>3. (\A post \in inFlight : Owned(post[2]))' /\ Owned(received)' /\ Owned(result.trace)'
  BY <1>1, <1>2 DEF SessionReturns, StepInv, Owned
<1>. QED  BY <1>1, <1>2, <1>3 DEF SessionReturns, StepInv

LEMMA SessionInv ==
  ASSUME MatrixInv, TypeInv',
         \/ OpenPage \/ Retry \/ TakePostedTrace \/ HarvestTrace \/ SessionFails
         \/ \E f \in Observable : PagePosts(f)
         \/ \E post \in inFlight, arrives \in BOOLEAN : PostEnds(post, arrives)
         \/ \E outcome \in {"pass", "fail"} : DriveEnds(outcome)
  PROVE  MatrixInv'
<1>1. Working /\ SamePlan /\ disk' = disk
  BY DEF OpenPage, Retry, MayThrow, TakePostedTrace, HarvestTrace, SessionFails, SessionReturns,
         PagePosts, PostEnds, DriveEnds
<1>2. \A trace \in Harvest : Owned(trace)
  BY TraceOwned DEF Harvest, Owned
<1>3. Owned(received) /\ StepInv
  BY DEF MatrixInv, StepInv
<1>4. ASSUME TakePostedTrace PROVE StepInv'
  <2>1. SessionReturns(received, received = NoTrace)
    BY <1>4 DEF TakePostedTrace
  <2>2. CASE received = NoTrace
    BY <1>1, <1>3, <2>1, <2>2, ReturnSteps
  <2>3. CASE received # NoTrace
    BY <1>1, <1>3, <2>1, <2>3, ReturnSteps
  <2>. QED  BY <2>2, <2>3
<1>5. ASSUME HarvestTrace PROVE StepInv'
  <2>1. PICK trace \in Harvest : SessionReturns(trace, trace = NoTrace)
    BY <1>5 DEF HarvestTrace
  <2>2. CASE trace = NoTrace
    BY <1>1, <1>2, <1>3, <2>1, <2>2, ReturnSteps
  <2>3. CASE trace # NoTrace
    BY <1>1, <1>2, <1>3, <2>1, <2>3, ReturnSteps
  <2>. QED  BY <2>2, <2>3
<1>6. ASSUME SessionFails PROVE StepInv'
  <2>1. PICK trace \in IF mode = "orbital" THEN {received} ELSE Harvest : SessionReturns(trace, TRUE)
    BY <1>6 DEF SessionFails
  <2>2. Owned(trace)
    BY <1>2, <1>3
  <2>. QED  BY <1>1, <1>3, <2>1, <2>2, ReturnSteps
<1>7. StepInv'
  BY <1>1, <1>3, <1>4, <1>5, <1>6, SessionSteps
<1>. QED  BY <1>1, <1>7, AttemptOnly

LEMMA Lengths ==
  ASSUME TypeInv
  PROVE  Len(plan) \in Nat /\ Len(rows) \in Nat /\ DOMAIN rows = 1..Len(rows)
  BY LenProperties DEF TypeInv, PlanTypes

(* While a matrix runs, nothing on disk speaks of its report.              *)
LEMMA MatrixRuns ==
  ASSUME FileInv, command \in {"matrix", "job"}
  PROVE  disk.report = NoReport /\ disk.gate = NoReport /\ disk.job = NoReport
  BY DEF FileInv, Busy

LEMMA JudgeInv ==
  ASSUME MatrixInv, TypeInv', NEW answer \in Answer, JudgeAndSave(answer)
  PROVE  MatrixInv'
<1> USE DEF MatrixInv
<1>1. Working /\ SamePlan /\ result.trace # NoTrace /\ command \in {"matrix", "job"}
  BY DEF JudgeAndSave, Working
<1>2. Working' /\ Step' = Step /\ matrix' = matrix /\ rows' = rows
  BY <1>1, SameStep DEF SamePlan
<1>3. Step \in Runs /\ Step = plan[Len(rows) + 1]
  BY <1>1, StepTyped DEF TypeInv, Step
<1>4. /\ disk'.traces = [disk.traces EXCEPT ![Step] = result.trace]
      /\ disk'.report = disk.report /\ disk'.gate = disk.gate /\ disk'.job = disk.job
  BY Fields DEF JudgeAndSave, TypeInv
<1>5. disk.traces \in [Runs -> AnyTrace]
  BY DEF TypeInv, Disk
<1>6. disk'.traces[Step] = result.trace /\ \A run : run # Step => disk'.traces[run] = disk.traces[run]
  BY <1>3, <1>4, <1>5
<1>7. PlanInv'
  BY <1>1, SamePlanInv
<1>8. StepInv'
  <2>1. result \in Result /\ result.trace.facts \in Facts /\ answer \in Answers
    <3>1. result \in Result /\ result.trace \in TraceFile
      BY <1>1 DEF TypeInv, AttemptTypes, Result, AnyTrace
    <3>. QED  BY <3>1, ParameterTypes DEF TraceFile
  <2>2. /\ result'.trace = result.trace /\ result'.error = result.error
        /\ result'.verdict = GuardedVerdict(result.trace.facts, answer)
    BY <2>1 DEF JudgeAndSave, Result
  <2>3. Guarded(result')
    BY <2>1, <2>2 DEF Guarded
  <2>4. (\A post \in inFlight : Owned(post[2]))' /\ Owned(received)' /\ Owned(result.trace)'
    BY <1>2, <2>2 DEF JudgeAndSave, StepInv, Owned
  <2>. QED  BY <1>1, <1>2, <1>6, <2>2, <2>3, <2>4 DEF JudgeAndSave, StepInv
<1>9. RowsInv'
  <2>1. ASSUME NEW i \in 1..Len(rows) PROVE Run(rows[i]) # Step
    <3>1. i \in 1..Len(plan) /\ Len(rows) + 1 \in 1..Len(plan) /\ i # Len(rows) + 1
      BY <1>1, Lengths DEF Working
    <3>. QED  BY <1>3, <3>1 DEF PlanInv
  <2>2. \A i \in 1..Len(rows) : /\ RowRight(rows[i], matrix)
                                /\ rows[i].trace # NoTrace => disk'.traces[Run(rows[i])] = rows[i].trace
    BY <1>6, <2>1 DEF RowsInv
  <2>. QED  BY <1>2, <2>2 DEF RowsInv, RowRight, Guarded, Run
<1>10. disk'.report = NoReport /\ disk'.gate = NoReport /\ disk'.job = NoReport
  BY <1>1, <1>4, MatrixRuns
<1>11. ReportInv' /\ GateInv' /\ JobVerdictIsComplete'
  BY <1>10, NoGate, NoJob DEF ReportInv
<1>12. FileInv'
  BY <1>1, <1>10 DEF FileInv, SamePlan
<1>. QED  BY <1>7, <1>8, <1>9, <1>11, <1>12

LEMMA PushInv ==
  ASSUME MatrixInv, TypeInv', Working, NEW row, Push(row),
         Run(row) = Step, RowRight(row, matrix),
         row.trace # NoTrace => disk.traces[Step] = row.trace
  PROVE  MatrixInv'
<1> USE DEF MatrixInv
<1>1. /\ disk' = disk /\ matrix' = matrix /\ plan' = plan /\ command' = command /\ mode' = mode
      /\ command \in {"matrix", "job"} /\ rows' = Append(rows, row)
  BY DEF Push, Working
<1>2. rows \in Seq(RowType) /\ rows' \in Seq(RowType)
  BY DEF TypeInv, PlanTypes
<1>3. /\ Len(rows') = Len(rows) + 1
      /\ rows'[Len(rows) + 1] = row
      /\ \A i \in 1..Len(rows) : rows'[i] = rows[i]
  BY <1>1, <1>2
<1>4. \A i \in 1..Len(rows') : i \in 1..Len(rows) \/ i = Len(rows) + 1
  BY <1>3, Lengths
<1>5. PlanInv'
  <2>1. \A i \in 1..Len(rows') : Run(rows'[i]) = plan[i]
    BY <1>3, <1>4 DEF PlanInv, Step
  <2>2. Len(rows') <= Len(plan)
    BY <1>3, Lengths DEF Working
  <2>. QED  BY <1>1, <2>1, <2>2 DEF PlanInv, Busy, Run
<1>6. StepInv'
  BY AtRestStep DEF Push, NewStep, NewSession, AtRest
<1>7. RowsInv'
  <2>1. \A i \in 1..Len(rows') :
           /\ RowRight(rows'[i], matrix)
           /\ rows'[i].trace # NoTrace => disk.traces[Run(rows'[i])] = rows'[i].trace
    BY <1>3, <1>4 DEF RowsInv
  <2>. QED  BY <1>1, <2>1 DEF RowsInv, RowRight, Guarded, Run
<1>8. ReportInv' /\ GateInv' /\ JobVerdictIsComplete'
  BY <1>1, SameReport, SameGate, SameJob
<1>9. FileInv'
  BY <1>1 DEF FileInv, Busy, Complete
<1>. QED  BY <1>5, <1>6, <1>7, <1>8, <1>9

LEMMA FinishInv ==
  ASSUME MatrixInv, TypeInv', FinishStep \/ Quarantine
  PROVE  MatrixInv'
<1> USE DEF MatrixInv
<1>1. Working
  BY DEF FinishStep, Quarantine, MayThrow
<1>2. Step \in Runs
  BY <1>1, StepTyped DEF TypeInv
<1>3. \A trace, verdict, outcome, error : Run(Row(trace, verdict, outcome, error)) = Step
  BY <1>2 DEF Run, Row, Runs
<1>4. CASE FinishStep
  <2> DEFINE row == Row(result.trace, result.verdict, journey, result.error)
  <2>1. row.trace = result.trace /\ row.verdict = result.verdict /\ row.error = result.error
    BY DEF Row
  <2>2. Push(row) /\ Run(row) = Step
    BY <1>3, <1>4 DEF FinishStep
  <2>3. CASE result.trace = NoTrace
    <3>1. result.error
      BY <1>4, <2>3 DEF FinishStep, StepInv
    <3>. QED  BY <1>1, <2>1, <2>2, <2>3, <3>1, PushInv DEF RowRight
  <2>4. CASE result.trace # NoTrace
    <3>1. stage = "saved" /\ Owned(result.trace)
      BY <1>4, <2>4 DEF FinishStep, StepInv
    <3>2. Guarded(result) /\ disk.traces[Step] = result.trace
      BY <3>1 DEF StepInv
    <3>3. RowRight(row, matrix)
      BY <2>1, <2>2, <2>4, <3>1, <3>2 DEF RowRight, Owned, Guarded
    <3>. QED  BY <1>1, <2>1, <2>2, <3>2, <3>3, PushInv
  <2>. QED  BY <2>3, <2>4
<1>5. CASE Quarantine
  <2> DEFINE row == Row(NoTrace, NoVerdict, "none", TRUE)
  <2>1. row.trace = NoTrace /\ row.error = TRUE
    BY DEF Row
  <2>2. Push(row) /\ Run(row) = Step
    BY <1>3, <1>5 DEF Quarantine
  <2>. QED  BY <1>1, <2>1, <2>2, PushInv DEF RowRight
<1>. QED  BY <1>4, <1>5

LEMMA WriteReportInv ==
  ASSUME MatrixInv, TypeInv', WriteReport
  PROVE  MatrixInv'
<1> USE DEF MatrixInv
<1>1. /\ command \in {"matrix", "job"} /\ matrix' = matrix /\ mode' = mode
      /\ plan' = <<>> /\ rows' = <<>>
      /\ command' = IF command = "job" THEN "job gate" ELSE "idle"
  BY DEF WriteReport
<1>a. Busy /\ ~Busy'
  BY <1>1 DEF Busy
<1>b. Len(rows) = Len(plan)
  BY DEF WriteReport
<1>2. /\ disk'.report = [matrix |-> matrix, mode |-> mode, rows |-> rows]
      /\ disk'.traces = disk.traces /\ disk'.gate = NoReport /\ disk'.job = NoReport
  BY <1>1, Fields, MatrixRuns DEF WriteReport, TypeInv
<1>3. PlanInv'
  <2>1. command' # "cleaning" /\ command' # "job"
    BY <1>a DEF Busy
  <2>2. Len(plan') = 0 /\ Len(rows') = 0
    BY <1>1
  <2>3. (1..Len(plan'))  = {} /\ (1..Len(rows')) = {} /\ Len(rows') <= Len(plan')
    BY <2>2
  <2>4. plan' = <<>> /\ rows' = <<>>
    BY <1>1
  <2>. QED  BY <1>a, <2>1, <2>3, <2>4, Zenon DEF PlanInv
<1>4. ~Working
  <2>1. Len(rows) \in Nat
    BY Lengths
  <2>. QED  BY <1>b, <2>1 DEF Working
<1>5. StepInv'
  BY <1>4, AtRestStep DEF StepInv, AtRest, WriteReport, stepVars
<1>6. RowsInv'
  BY <1>1, NoRows
<1>7. /\ disk'.report.rows = rows /\ disk'.report.matrix = matrix /\ disk'.report.mode = mode
  BY <1>2
<1>8. ReportInv'
  <2>1. \A i \in DOMAIN rows :
           /\ RowRight(rows[i], matrix)
           /\ rows[i].trace # NoTrace => disk'.traces[Run(rows[i])] \in {rows[i].trace, NoTrace}
    BY <1>2, Lengths DEF RowsInv
  <2>2. \A i, j \in DOMAIN rows : Run(rows[i]) = Run(rows[j]) => i = j
    BY <1>b, Lengths DEF PlanInv
  <2>. QED  BY <1>7, <2>1, <2>2 DEF ReportInv, RowRight, Guarded, Run
<1>9. GateInv' /\ JobVerdictIsComplete'
  BY <1>2, NoGate, NoJob
<1>10. FileInv'
  <2>1. disk'.report # NoReport
    BY <1>2 DEF NoReport
  <2>2. matrix # 0 /\ (command = "job" => mode = "target")
    <3>1. matrix >= 1 /\ matrix \in Nat
      BY <1>a DEF PlanInv, TypeInv, PlanTypes
    <3>. QED  BY <3>1 DEF PlanInv
  <2>. QED  BY <1>1, <1>2, <1>7, <2>1, <2>2 DEF FileInv, Busy
<1>. QED  BY <1>3, <1>5, <1>6, <1>8, <1>9, <1>10

-----------------------------------------------------------------------------
(* A gate that reads what is on disk says what the three properties ask.   *)
LEMMA ReportRead ==
  ASSUME TypeInv, ReportInv, disk.report # NoReport
  PROVE  /\ disk.report.rows \in Seq(RowType)
         /\ \A i \in DOMAIN disk.report.rows :
              /\ disk.report.rows[i] \in RowType
              /\ Read(disk.report.rows[i], disk.traces)
              /\ disk.report.rows[i].trace # NoTrace => Evidenced(disk.report.rows[i])
         /\ \A i, j \in Graded(disk.report.rows) :
              disk.report.rows[i].profile = disk.report.rows[j].profile => i = j
<1> DEFINE table == disk.report.rows
<1>1. table \in Seq(RowType)
  BY DEF TypeInv, Disk, Report
<1>2. \A i \in DOMAIN table : table[i] \in RowType
  BY <1>1, LenProperties, ElementOfSeq
<1>3. ASSUME NEW i \in DOMAIN table, table[i].trace # NoTrace
      PROVE  Read(table[i], disk.traces) /\ Evidenced(table[i])
  <2>1. table[i].trace.facts \in Facts
    <3>1. table[i].trace \in TraceFile
      BY <1>2, <1>3 DEF RowType, AnyTrace
    <3>. QED  BY <3>1, ParameterTypes DEF TraceFile
  <2>2. RowRight(table[i], disk.report.matrix) /\ disk.traces[Run(table[i])] \in {table[i].trace, NoTrace}
    BY <1>3 DEF ReportInv
  <2>. QED  BY <1>3, <2>1, <2>2 DEF RowRight, Guarded, Read, Evidenced
<1>4. \A i \in DOMAIN table : Read(table[i], disk.traces)
  BY <1>3 DEF Read
<1>5. ASSUME NEW i \in Graded(table), NEW j \in Graded(table), table[i].profile = table[j].profile
      PROVE  i = j
  <2>1. i \in DOMAIN table /\ j \in DOMAIN table /\ table[i].kind # "baseline" /\ table[j].kind # "baseline"
    BY DEF Graded
  <2>2. table[i].kind = "adaptive" /\ table[j].kind = "adaptive"
    BY <1>2, <2>1 DEF RowType, Kinds
  <2>. QED  BY <1>5, <2>1, <2>2 DEF ReportInv, Run
<1>. QED  BY <1>1, <1>2, <1>3, <1>4, <1>5

LEMMA GateRight ==
  ASSUME TypeInv, ReportInv, disk.report # NoReport, NEW replay, disk'.gate = Gate(replay),
         disk'.report = disk.report, disk'.traces = disk.traces
  PROVE  GateInv'
<1> DEFINE table == disk.report.rows
<1>1. disk'.gate.decision = Decision(disk.report, replay) /\ disk'.gate.replay = replay
  BY DEF Gate
<1>2. /\ table \in Seq(RowType)
      /\ \A i \in DOMAIN table : table[i] \in RowType
      /\ \A i \in DOMAIN table : Read(table[i], disk.traces)
      /\ \A i \in DOMAIN table : table[i].trace # NoTrace => Evidenced(table[i])
      /\ \A i, j \in Graded(table) : table[i].profile = table[j].profile => i = j
  BY ReportRead
<1>3. ShippedMeansUsable'
  <2>1. ASSUME disk.report.mode = "orbital", Decision(disk.report, replay) = "ship", NEW p \in Critical
        PROVE  \E i \in Graded(table) :
                 /\ table[i].profile = p
                 /\ Evidenced(table[i])
                 /\ Usable(table[i].trace.facts)
                 /\ disk.traces[Run(table[i])] # NoTrace => Reaches(table[i].trace.facts, ScoreFloor)
    <3>1. GateDecision(table, disk.traces, replay) = "ship"
      BY <2>1 DEF Decision
    <3>2. PICK i \in Graded(table) :
             /\ table[i].profile = p
             /\ table[i].trace # NoTrace
             /\ Usable(table[i].trace.facts)
             /\ disk.traces[Run(table[i])] # NoTrace => Reaches(table[i].trace.facts, ScoreFloor)
      BY <1>2, <3>1, GateShipsUsable
    <3>3. Evidenced(table[i])
      BY <1>2, <3>2 DEF Graded
    <3>. QED  BY <3>2, <3>3
  <2>. QED  BY <1>1, <2>1 DEF ShippedMeansUsable, Evidenced
<1>4. TargetShipMeansProven'
  <2>1. ASSUME disk.report.mode = "target", Decision(disk.report, replay) = "ship", NEW p \in Critical
        PROVE  \E i \in DOMAIN table :
                 /\ table[i].profile = p /\ table[i].journey = "pass" /\ ~table[i].error
                 /\ Evidenced(table[i])
                 /\ table[i].trace.facts.scored
                 /\ table[i].trace.facts.score >= ScoreFloor
                 /\ table[i].trace.facts.score >= MinimumScore
    <3>1. TargetRelease(table) = "ship"
      BY <2>1 DEF Decision
    <3>2. \A i \in DOMAIN table : /\ table[i].journey \in {"none", "pass", "fail"}
                                  /\ table[i].trace # NoTrace => table[i].trace.facts \in Facts
      BY <1>2 DEF RowType, Read
    <3>. QED  BY <1>2, <3>1, <3>2, TargetShipsProven
  <2>. QED  BY <1>1, <2>1 DEF TargetShipMeansProven, Evidenced
<1>5. HoldHasReason'
  <2>1. ASSUME disk.report.mode = "orbital", Decision(disk.report, replay) = "hold", replay # "diverged"
        PROVE  \E p \in Critical : \A i \in Graded(table) : table[i].profile = p =>
                 \/ ~Evidenced(table[i])
                 \/ ~Usable(table[i].trace.facts)
                 \/ ~Reaches(table[i].trace.facts, ScoreFloor)
                 \/ table[i].verdict # RuleVerdict(table[i].trace.facts)
    <3>1. GateDecision(table, disk.traces, replay) = "hold"
      BY <2>1 DEF Decision
    <3>2. PICK p \in Critical : \A i \in Graded(table) : table[i].profile = p =>
                 \/ table[i].trace = NoTrace
                 \/ ~Usable(table[i].trace.facts)
                 \/ ~Reaches(table[i].trace.facts, ScoreFloor)
                 \/ table[i].verdict # RuleVerdict(table[i].trace.facts)
      BY <1>2, <2>1, <3>1, GateHoldHasReason
    <3>3. \A i : table[i].trace = NoTrace => ~Evidenced(table[i])
      BY DEF Evidenced
    <3>. QED  BY <3>2, <3>3
  <2>. QED  BY <1>1, <2>1 DEF HoldHasReason, Evidenced
<1>. QED  BY <1>3, <1>4, <1>5 DEF GateInv

-----------------------------------------------------------------------------
(* The commands around the attempts.                                       *)
LEMMA NoPlan ==
  ASSUME ~Busy', plan' = <<>>, rows' = <<>>
  PROVE  PlanInv' /\ RowsInv'
<1>1. command' # "cleaning" /\ command' # "job"
  BY DEF Busy
<1>2. Len(plan') = 0 /\ Len(rows') = 0
  OBVIOUS
<1>3. (1..Len(plan'))  = {} /\ (1..Len(rows')) = {} /\ Len(rows') <= Len(plan')
  BY <1>2
<1>4. PlanInv'
  BY <1>1, <1>3, Zenon DEF PlanInv
<1>. QED  BY <1>4, NoRows

LEMMA AtRestSame ==
  ASSUME StepInv, ~Working, UNCHANGED stepVars
  PROVE  StepInv'
  BY AtRestStep DEF StepInv, AtRest, stepVars

LEMMA NotBusy ==
  ASSUME MatrixInv, ~Busy, ~Busy', UNCHANGED <<matrix, mode, plan, rows, stepVars>>
  PROVE  PlanInv' /\ RowsInv' /\ StepInv'
<1>1. plan = <<>> /\ rows = <<>>
  BY DEF MatrixInv, PlanInv
<1>2. ~Working
  BY DEF Working, Busy
<1>. QED  BY <1>1, <1>2, NoPlan, AtRestSame DEF MatrixInv

LEMMA NewMatrixInv ==
  ASSUME MatrixInv, TypeInv', NEW m \in Modes, NEW profiles \in Plans, NEW baseline \in BOOLEAN,
         NewMatrix(m, profiles, baseline), command = "idle",
         \/ command' = "cleaning"
         \/ command' = "job" /\ m = "target" /\ matrix = 0
  PROVE  MatrixInv'
<1> USE DEF MatrixInv
<1>1. /\ matrix' = matrix + 1 /\ mode' = m /\ plan' = PlanOf(profiles, baseline) /\ rows' = <<>> /\ NewStep
      /\ disk'.gate = NoReport /\ disk'.report = disk.report /\ disk'.traces = disk.traces
      /\ disk'.job = disk.job
  BY Fields DEF NewMatrix, PlanOf, TypeInv
<1>2. matrix \in Nat /\ matrix' >= 1
  BY <1>1 DEF TypeInv, PlanTypes
<1>3. PlanInv'
  <2>1. \A i, j \in 1..Len(plan') : plan'[i] = plan'[j] => i = j
    BY <1>1, PlanTyped
  <2>2. Len(rows') = 0 /\ (1..Len(rows')) = {}
    BY <1>1
  <2>3. Len(plan') \in Nat
    BY LenProperties DEF TypeInv, PlanTypes
  <2>4. Len(rows') <= Len(plan')
    BY <2>2, <2>3
  <2>5. Busy'
    BY DEF Busy
  <2>. QED  BY <1>1, <1>2, <2>1, <2>2, <2>4, <2>5 DEF PlanInv
<1>4. StepInv'
  BY <1>1, AtRestStep DEF NewStep, NewSession, AtRest
<1>5. disk.job = NoReport
  BY DEF FileInv
<1>6. ReportInv' /\ GateInv' /\ JobVerdictIsComplete' /\ RowsInv'
  BY <1>1, <1>5, SameReport, NoGate, NoJob, NoRows
<1>7. FileInv'
  <2>1. matrix' # 0 /\ command' \in {"cleaning", "job"}
    BY <1>2
  <2>2. command' = "job" => disk'.report = NoReport
    <3>1. command' = "job" => matrix = 0
      OBVIOUS
    <3>. QED  BY <1>1, <3>1 DEF FileInv
  <2>3. disk'.gate = NoReport /\ disk'.job = NoReport
    BY <1>1, <1>5
  <2>. QED  BY <2>1, <2>2, <2>3 DEF FileInv
<1>. QED  BY <1>3, <1>4, <1>6, <1>7

LEMMA CleaningInv ==
  ASSUME MatrixInv, TypeInv', RemoveReport \/ (\E run \in Runs : RemoveTrace(run)) \/ Cleaned
  PROVE  MatrixInv'
<1> USE DEF MatrixInv
<1>1. command = "cleaning" /\ ~Working /\ UNCHANGED stepVars /\ UNCHANGED <<matrix, mode, plan, rows>>
  BY DEF RemoveReport, RemoveTrace, Cleaned, Working, SamePlan
<1>2. StepInv'
  BY <1>1, AtRestSame
<1>3. rows = <<>> /\ disk.gate = NoReport /\ disk.job = NoReport
  BY <1>1 DEF PlanInv, FileInv, Busy
<1>4. RowsInv'
  BY <1>1, <1>3, NoRows
<1>5. CASE RemoveReport
  <2>1. SamePlan /\ disk'.report = NoReport /\ disk'.gate = NoReport /\ disk'.job = NoReport
    BY <1>3, <1>5, Fields DEF RemoveReport, TypeInv
  <2>2. PlanInv' /\ ReportInv' /\ GateInv' /\ JobVerdictIsComplete'
    BY <2>1, SamePlanInv, NoGate, NoJob DEF ReportInv
  <2>3. FileInv'
    BY <1>1, <2>1 DEF FileInv, SamePlan
  <2>. QED  BY <1>2, <1>4, <2>2, <2>3
<1>6. ASSUME NEW run \in Runs, RemoveTrace(run) PROVE MatrixInv'
  <2>1. /\ SamePlan /\ disk'.report = disk.report /\ disk'.gate = NoReport /\ disk'.job = NoReport
        /\ disk'.traces = [disk.traces EXCEPT ![run] = NoTrace]
    BY <1>3, <1>6, Fields DEF RemoveTrace, TypeInv
  <2>2. disk.traces \in [Runs -> AnyTrace]
    BY DEF TypeInv, Disk
  <2>3. \A r : disk'.traces[r] = disk.traces[r] \/ disk'.traces[r] = NoTrace
    BY <2>1, <2>2
  <2>4. ReportInv'
    <3>1. ASSUME disk.report # NoReport, NEW i \in DOMAIN disk.report.rows
          PROVE  /\ RowRight(disk.report.rows[i], disk.report.matrix)
                 /\ disk.report.rows[i].trace # NoTrace =>
                       disk'.traces[Run(disk.report.rows[i])] \in {disk.report.rows[i].trace, NoTrace}
      BY <2>3, <3>1 DEF ReportInv
    <3>. QED  BY <2>1, <3>1 DEF ReportInv, RowRight, Guarded, Run
  <2>5. PlanInv' /\ GateInv' /\ JobVerdictIsComplete'
    BY <2>1, SamePlanInv, NoGate, NoJob
  <2>6. FileInv'
    BY <1>1, <2>1 DEF FileInv, SamePlan
  <2>. QED  BY <1>2, <1>4, <2>4, <2>5, <2>6
<1>7. CASE Cleaned
  <2>1. disk' = disk /\ disk.report = NoReport /\ command' = "matrix"
    BY <1>7 DEF Cleaned
  <2>2. PlanInv'
    BY <1>1, <2>1 DEF PlanInv, Busy, Run
  <2>3. ReportInv' /\ GateInv' /\ JobVerdictIsComplete'
    BY <1>3, <2>1, NoGate, NoJob DEF ReportInv
  <2>4. FileInv'
    BY <1>1, <1>3, <2>1 DEF FileInv
  <2>. QED  BY <1>2, <1>4, <2>2, <2>3, <2>4
<1>. QED  BY <1>5, <1>6, <1>7

LEMMA ReplayInv ==
  ASSUME MatrixInv, TypeInv', NEW kind \in Kinds,
         \/ StartReplay(kind)
         \/ \E error, traced, causal, visual \in BOOLEAN :
               EndReplay(kind, error, traced, causal, visual)
  PROVE  MatrixInv'
<1> USE DEF MatrixInv
<1>1. /\ command \in {"idle", "replay"} /\ command' \in {"idle", "replay"}
      /\ UNCHANGED <<matrix, mode, plan, rows, stepVars>>
  BY DEF StartReplay, EndReplay
<1>2. /\ disk'.report = disk.report /\ disk'.gate = disk.gate /\ disk'.job = disk.job
      /\ disk'.traces = disk.traces
  <2>1. PICK outcome : disk' = [disk EXCEPT !.replay[kind] = outcome]
    <3>1. CASE StartReplay(kind)
      BY <3>1 DEF StartReplay
    <3>2. ASSUME NEW error \in BOOLEAN, NEW traced \in BOOLEAN, NEW causal \in BOOLEAN,
                 NEW visual \in BOOLEAN, EndReplay(kind, error, traced, causal, visual)
          PROVE  \E outcome : disk' = [disk EXCEPT !.replay[kind] = outcome]
      BY <3>2 DEF EndReplay
    <3>. QED  BY <3>1, <3>2
  <2>. QED  BY <2>1, Fields DEF TypeInv
<1>3. PlanInv' /\ RowsInv' /\ StepInv'
  BY <1>1, NotBusy DEF Busy
<1>4. ReportInv' /\ GateInv' /\ JobVerdictIsComplete'
  BY <1>2, SameReport, SameGate, SameJob
<1>5. FileInv'
  BY <1>1, <1>2 DEF FileInv, Busy
<1>. QED  BY <1>3, <1>4, <1>5

LEMMA GateStepInv ==
  ASSUME MatrixInv, TypeInv', (\E replay \in {ReplayOnDisk, "none"} : RunGate(replay)) \/ JobGate
  PROVE  MatrixInv'
<1> USE DEF MatrixInv
<1>1. /\ UNCHANGED <<matrix, mode, plan, rows, stepVars>> /\ disk.report # NoReport
      /\ command \in {"idle", "job gate"} /\ command' \in {"idle", "job result"}
  BY DEF RunGate, JobGate, FileInv
<1>2. PICK replay : disk' = [disk EXCEPT !.gate = Gate(replay)]
  BY DEF RunGate, JobGate
<1>3. /\ disk'.report = disk.report /\ disk'.gate = Gate(replay) /\ disk'.job = disk.job
      /\ disk'.traces = disk.traces
  BY <1>2, Fields DEF TypeInv
<1>4. PlanInv' /\ RowsInv' /\ StepInv'
  BY <1>1, NotBusy DEF Busy
<1>5. ReportInv' /\ GateInv' /\ JobVerdictIsComplete'
  BY <1>1, <1>3, SameReport, GateRight, SameJob
<1>6. CASE command' = "job result"
  <2>1. command = "job gate" /\ Complete(disk.report) /\ disk.report.mode = "target"
    BY <1>6 DEF RunGate, JobGate, FileInv
  <2>2. disk'.gate.matrix = disk.report.matrix /\ disk'.gate.decision = TargetRelease(disk.report.rows)
    <3>1. Decision(disk.report, replay) = TargetRelease(disk.report.rows)
      BY <2>1 DEF Decision
    <3>2. disk'.gate = [matrix |-> disk.report.matrix, replay |-> replay,
                        decision |-> Decision(disk.report, replay)]
      BY <1>3 DEF Gate
    <3>. QED  BY <3>1, <3>2
  <2>3. FileInv'
    BY <1>1, <1>3, <1>6, <2>1, <2>2 DEF FileInv, Busy, Complete
  <2>. QED  BY <1>4, <1>5, <2>3
<1>7. CASE command' = "idle"
  <2>1. command = "idle"
    BY <1>7 DEF RunGate, JobGate
  <2>2. FileInv'
    BY <1>1, <1>3, <1>7, <2>1 DEF FileInv, Busy
  <2>. QED  BY <1>4, <1>5, <2>2
<1>. QED  BY <1>1, <1>6, <1>7

LEMMA JobEndsInv ==
  ASSUME MatrixInv, TypeInv', JobFails \/ JobResult
  PROVE  MatrixInv'
<1> USE DEF MatrixInv
<1>1. /\ UNCHANGED <<matrix, mode, plan, rows, stepVars>> /\ disk.report # NoReport
      /\ command \in {"job gate", "job result"} /\ command' = "exited"
  BY DEF JobFails, JobResult, FileInv
<1>2. /\ disk'.report = disk.report /\ disk'.gate = disk.gate /\ disk'.traces = disk.traces
  <2>1. CASE JobFails
    BY <2>1 DEF JobFails
  <2>2. CASE JobResult
    BY <2>2, Fields DEF JobResult, TypeInv
  <2>. QED  BY <2>1, <2>2
<1>3. PlanInv' /\ RowsInv' /\ StepInv'
  BY <1>1, NotBusy DEF Busy
<1>4. ReportInv' /\ GateInv'
  BY <1>2, SameReport, SameGate
<1>5. FileInv'
  BY <1>1, <1>2 DEF FileInv, Busy
<1>6. JobVerdictIsComplete'
  <2>1. CASE JobFails
    BY <2>1, <1>1, NoJob DEF JobFails, FileInv
  <2>2. CASE JobResult
    <3>1. disk'.job = [matrix |-> disk.gate.matrix, decision |-> disk.gate.decision]
      BY <2>2, Fields DEF JobResult, TypeInv
    <3>2. /\ Complete(disk.report)
          /\ disk.gate.matrix = disk.report.matrix
          /\ disk.gate.decision = TargetRelease(disk.report.rows)
      BY <2>2 DEF JobResult, FileInv
    <3>3. \A i \in DOMAIN disk.report.rows :
             ~disk.report.rows[i].error /\ disk.report.rows[i].trace # NoTrace
      BY <1>1, <3>2 DEF Complete, ReportInv, RowRight
    <3>4. disk'.job.matrix = disk.report.matrix
          /\ disk'.job.decision = TargetRelease(disk.report.rows)
      BY <3>1, <3>2
    <3>. QED  BY <1>1, <1>2, <3>3, <3>4 DEF JobVerdictIsComplete
  <2>. QED  BY <2>1, <2>2
<1>. QED  BY <1>3, <1>4, <1>5, <1>6

LEMMA CrashInv ==
  ASSUME MatrixInv, TypeInv', Crash
  PROVE  MatrixInv'
<1> USE DEF MatrixInv
<1>1. /\ command \notin {"idle", "exited"} /\ command' \in {"idle", "exited"}
      /\ plan' = <<>> /\ rows' = <<>> /\ NewStep /\ matrix' = matrix /\ disk' = disk
  BY DEF Crash
<1>2. PlanInv' /\ RowsInv'
  BY <1>1, NoPlan DEF Busy
<1>3. StepInv'
  BY <1>1, AtRestStep DEF NewStep, NewSession, AtRest
<1>4. ReportInv' /\ GateInv' /\ JobVerdictIsComplete'
  BY <1>1, SameReport, SameGate, SameJob
<1>5. FileInv'
  BY <1>1 DEF FileInv, Busy
<1>. QED  BY <1>2, <1>3, <1>4, <1>5

LEMMA StutterInv ==
  ASSUME MatrixInv, UNCHANGED vars
  PROVE  MatrixInv'
<1> USE DEF MatrixInv
<1>1. SamePlan /\ UNCHANGED stepVars /\ disk' = disk
  BY DEF vars, SamePlan
<1>2. TypeInv'
  BY NextTyped
<1>3. StepInv'
  <2>1. Working' = Working /\ Step' = Step /\ matrix' = matrix
    BY <1>1, SameStep DEF SamePlan
  <2>. QED  BY <1>1, <2>1 DEF StepInv, AtRest, Owned, Guarded, stepVars
<1>. QED  BY <1>1, <1>2, <1>3, AttemptOnly

LEMMA NextInv == MatrixInv /\ [Next]_vars => MatrixInv'
<1> SUFFICES ASSUME MatrixInv, [Next]_vars PROVE MatrixInv'
  OBVIOUS
<1>1. TypeInv'
  BY NextTyped DEF MatrixInv
<1>2. ASSUME NEW m \in {"orbital", "target"}, NEW profiles \in Plans, NEW baseline \in BOOLEAN,
             StartMatrix(m, profiles, baseline)
      PROVE  MatrixInv'
  BY <1>1, <1>2, NewMatrixInv DEF StartMatrix, Modes
<1>3. ASSUME NEW profiles \in Plans, StartJob(profiles) PROVE MatrixInv'
  <2>1. "target" \in Modes /\ FALSE \in BOOLEAN
    BY DEF Modes
  <2>2. NewMatrix("target", profiles, FALSE) /\ command = "idle" /\ command' = "job" /\ matrix = 0
    BY <1>3 DEF StartJob
  <2>. QED  BY <1>1, <2>1, <2>2, NewMatrixInv
<1>4. ASSUME NEW answer \in Answer, JudgeAndSave(answer) PROVE MatrixInv'
  BY <1>1, <1>4, JudgeInv
<1>5. ASSUME NEW kind \in Kinds,
             \/ StartReplay(kind)
             \/ \E error, traced, causal, visual \in BOOLEAN :
                   EndReplay(kind, error, traced, causal, visual)
      PROVE  MatrixInv'
  BY <1>1, <1>5, ReplayInv
<1>6. CASE \/ OpenPage \/ Retry \/ TakePostedTrace \/ HarvestTrace \/ SessionFails
           \/ \E f \in Observable : PagePosts(f)
           \/ \E post \in inFlight, arrives \in BOOLEAN : PostEnds(post, arrives)
           \/ \E outcome \in {"pass", "fail"} : DriveEnds(outcome)
  BY <1>1, <1>6, SessionInv
<1>7. CASE FinishStep \/ Quarantine
  BY <1>1, <1>7, FinishInv
<1>8. CASE WriteReport
  BY <1>1, <1>8, WriteReportInv
<1>9. CASE RemoveReport \/ (\E run \in Runs : RemoveTrace(run)) \/ Cleaned
  BY <1>1, <1>9, CleaningInv
<1>10. CASE (\E replay \in {ReplayOnDisk, "none"} : RunGate(replay)) \/ JobGate
  BY <1>1, <1>10, GateStepInv
<1>11. CASE JobFails \/ JobResult
  BY <1>1, <1>11, JobEndsInv
<1>12. CASE Crash
  BY <1>1, <1>12, CrashInv
<1>13. CASE UNCHANGED vars
  BY <1>13, StutterInv
<1>14. Next \/ UNCHANGED vars
  OBVIOUS
<1>. QED  BY <1>2, <1>3, <1>4, <1>5, <1>6, <1>7, <1>8, <1>9, <1>10, <1>11, <1>12, <1>13, <1>14 DEF Next, Runner

LEMMA ReleaseInvariant == Spec => []MatrixInv
<1>1. Init => MatrixInv
  BY InitInv
<1>2. MatrixInv /\ [Next]_vars => MatrixInv'
  BY NextInv
<1>. QED  BY <1>1, <1>2, PTL DEF Spec

(* The bundled experience is shipped only on a usable trace of this matrix *)
(* for every critical profile.                                             *)
THEOREM ShipTheorem == Spec => []ShippedMeansUsable
<1>1. MatrixInv => ShippedMeansUsable
  BY DEF MatrixInv, GateInv
<1>. QED  BY <1>1, ReleaseInvariant, PTL

(* A contract is shipped only on journeys that passed with a score over    *)
(* both floors.                                                            *)
THEOREM TargetShipTheorem == Spec => []TargetShipMeansProven
<1>1. MatrixInv => TargetShipMeansProven
  BY DEF MatrixInv, GateInv
<1>. QED  BY <1>1, ReleaseInvariant, PTL

(* A hold always has a reason a team can act on.                           *)
THEOREM HoldTheorem == Spec => []HoldHasReason
<1>1. MatrixInv => HoldHasReason
  BY DEF MatrixInv, GateInv
<1>. QED  BY <1>1, ReleaseInvariant, PTL

(* The trace files a report names are its own or are gone.                 *)
THEOREM FilesTheorem == Spec => []FilesMatchReport
<1>1. MatrixInv => FilesMatchReport
  BY DEF MatrixInv, ReportInv, RowRight, FilesMatchReport, Evidenced
<1>. QED  BY <1>1, ReleaseInvariant, PTL

(* A job has a verdict only if every profile gave evidence, and then that  *)
(* of its own report.                                                      *)
THEOREM JobTheorem == Spec => []JobVerdictIsComplete
<1>1. MatrixInv => JobVerdictIsComplete
  BY DEF MatrixInv
<1>. QED  BY <1>1, ReleaseInvariant, PTL
=============================================================================
