------------------------------- MODULE Scoring -------------------------------
(***************************************************************************)
(* The Atlas score of one session: src/gate/atlas-score.js over            *)
(* src/gate/comfort.js.  The frames of the session go one by one through   *)
(* the sliding window of comfort.js; at the end the measurements and the   *)
(* worst window are graded.  A grade is a number of ten-thousandths, a     *)
(* ratio is in percent of the budget, and a time is in hundredths of a     *)
(* millisecond; labels, texts and the echo of the inputs are left out.     *)
(***************************************************************************)
EXTENDS Integers, Sequences, FiniteSets, SequencesExt, FiniteSetsExt

CONSTANTS
    Sessions,    \* what was measured in a session, NotMeasured where nothing was
    NotMeasured,
    Budgets,     \* [steps, coverage, drift, p95, tap, dropped, comfort, xr]
    Durations,   \* of a frame
    WindowMs, MinSamples, FloorMs, \* sustainedWindowMs, MIN_WINDOW_SAMPLES, 1000 / sustainedFpsFloor
    MaxFrames    \* bound: the frames of a session

VARIABLES
    session,     \* the measurements: a member of Sessions
    frames,      \* the frame durations the window has seen
    window,      \* the loop of worstWindow: where it starts, its sum, the worst p95
    graded       \* the result of scoreTrace, once the session is over

scoringVars == <<session, frames, window, graded>>

Measured(x) == x # NotMeasured
TotalOf(s) ==
    LET sum[n \in 0..Len(s)] == IF n = 0 THEN 0 ELSE sum[n - 1] + s[n]
    IN  sum[Len(s)]

-----------------------------------------------------------------------------
(* The worst window of the session.                                        *)

(* What stands at place k of the sorted samples: the least sample that at  *)
(* least k of them do not exceed.                                          *)
Ranked(s, k) == Min({x \in ToSet(s) : Cardinality({i \in 1..Len(s) : s[i] <= x}) >= k})

(* percentile(sorted, 0.95), interpolated, in hundredths. *)
P95(s) ==
    LET pos  == (Len(s) - 1) * 95
        lo   == pos \div 100
        frac == pos % 100
    IN  Ranked(s, lo + 1) * (100 - frac) + (IF frac = 0 THEN 0 ELSE Ranked(s, lo + 2) * frac)

(* The inner loop: drop the first sample while the rest is long enough. *)
TightStart(fs, start) ==
    Min({i \in start..Len(fs) : i = Len(fs) \/ TotalOf(SubSeq(fs, i + 1, Len(fs))) < WindowMs})

(* As if the window were never moved on. *)
LooseStart(fs, start) == start

WindowStart(fs, start) == TightStart(fs, start)

(* One iteration of worstWindow; the worst is replaced by a worse one only. *)
Sample(d) ==
    /\ graded = NotMeasured /\ Len(frames) < MaxFrames
    /\ LET fs   == Append(frames, d)
           from == WindowStart(fs, window.start)
           held == SubSeq(fs, from, Len(fs))
           long == TotalOf(held) >= WindowMs /\ Len(held) >= MinSamples
       IN  /\ frames' = fs
           /\ window' = [start |-> from,
                         worst |-> IF long /\ P95(held) > window.worst THEN P95(held) ELSE window.worst]
    /\ UNCHANGED <<session, graded>>

-----------------------------------------------------------------------------
(* The grading curve and the comfort dimensions.                           *)

(* 0.8 * exp(1 - ratio) above the budget, in straight pieces; next to none *)
(* from five times the budget on, where an infinite ratio is, too.         *)
Endless == 500
gradeRatio(r) ==
    CASE r <= 0                  -> 10000
      [] r > 0 /\ r <= 100       -> 10000 - 20 * r
      [] r > 100 /\ r <= 150     -> 8000 - (r - 100) * 63
      [] r > 150 /\ r <= 200     -> 4850 - (r - 150) * 38
      [] r > 200 /\ r <= 300     -> 2943 - (r - 200) * 18
      [] r > 300 /\ r < Endless  -> 1083 - (r - 300) * 5
      [] OTHER                   -> 0

Ratio(value, budget) == (value * 100) \div budget

NotApplicable == [held |-> NotMeasured, grade |-> NotMeasured]

sustainedPacing(worst) ==
    IF worst = 0 THEN NotApplicable
    ELSE [held |-> worst <= FloorMs * 100, grade |-> gradeRatio(worst \div FloorMs)]

(* A refused session is usable when the flow still ends where it should;   *)
(* judged only when the manifest wants it and XR was refused.              *)
xrFallback(s) ==
    IF ~Budgets.xr \/ ~s.refused THEN NotApplicable
    ELSE LET held == s.reachedEnd /\ ~s.enteredError
         IN  [held |-> held, grade |-> IF held THEN 10000 ELSE 0]

responsiveness(s) ==
    IF ~Measured(s.p95) THEN NotApplicable
    ELSE [held  |-> s.p95 <= Budgets.comfort,
          grade |-> gradeRatio(Ratio(s.p95, Budgets.comfort))]

evaluateComfort(s, worst) == <<sustainedPacing(worst), xrFallback(s), responsiveness(s)>>

-----------------------------------------------------------------------------
(* The four dimensions: each a grade, or NotMeasured for want of evidence.      *)

MeasuredIn(grades) == {i \in DOMAIN grades : Measured(grades[i])}

(* The mean over what was measured, each with its weight. *)
MeanOf(grades, weights) ==
    TotalOf([i \in DOMAIN grades |-> IF Measured(grades[i]) THEN weights[i] * grades[i] ELSE 0])
        \div TotalOf([i \in DOMAIN grades |-> IF Measured(grades[i]) THEN weights[i] ELSE 0])

Alike == <<1, 1, 1>>

businessScore(s) ==
    IF ~s.reachedEnd THEN 0
    ELSE 7500 + (IF Measured(s.steps) THEN gradeRatio(Ratio(s.steps, Budgets.steps)) ELSE 10000) \div 4

(* The worst checkpoint counts, and the worst of the three measurements.   *)
(* For the focal subject more is better, so its ratio is turned round.     *)
visualScore(s) ==
    LET parts == <<
            IF Measured(s.firstFrame) THEN (IF s.firstFrame = "painted" THEN 10000 ELSE 0) ELSE NotMeasured,
            IF s.coverages = {} THEN NotMeasured
            ELSE gradeRatio(IF Min(s.coverages) > 0 THEN Ratio(Budgets.coverage, Min(s.coverages))
                            ELSE Endless),
            IF s.drifts = {} THEN NotMeasured
            ELSE gradeRatio(IF Budgets.drift > 0 THEN Ratio(Max(s.drifts), Budgets.drift) ELSE 0)>>
    IN  IF MeasuredIn(parts) = {} THEN NotMeasured ELSE Min({parts[i] : i \in MeasuredIn(parts)})

interactionScore(s) ==
    MeanOf(<<
        IF s.legal THEN 10000 ELSE 0,
        IF Measured(s.p95) THEN gradeRatio(Ratio(s.p95, Min({Budgets.p95, Budgets.tap}))) ELSE NotMeasured,
        IF Measured(s.dropped)
        THEN gradeRatio(IF Budgets.dropped > 0 THEN Ratio(s.dropped, Budgets.dropped) ELSE 0)
        ELSE NotMeasured>>, Alike)

comfortScore(report) ==
    LET parts == [i \in 1..3 |-> report[i].grade]
    IN  IF MeasuredIn(parts) = {} THEN NotMeasured ELSE MeanOf(parts, Alike)

-----------------------------------------------------------------------------
(* The score: the mean over what was measured, under the caps.             *)

SCORE_WEIGHTS == <<35, 25, 22, 18>>

collectCaps(s, report) ==
      (IF s.reachedEnd THEN {} ELSE {40})
      \cup (IF s.firstFrame = "blank" THEN {35} ELSE {})
      \cup (IF s.legal THEN {} ELSE {45})
      \cup (IF report[2].held = FALSE THEN {55} ELSE {})

scoreTrace(s, worst) ==
    LET report     == evaluateComfort(s, worst)
        dimensions == <<businessScore(s), visualScore(s), interactionScore(s), comfortScore(report)>>
        uncapped   == MeanOf(dimensions, SCORE_WEIGHTS) \div 100
    IN  Min({uncapped} \cup collectCaps(s, report))

(* agreementWith: does the judge tell the same story. *)
Bands == [pass |-> <<70, 100>>, degraded |-> <<40, 90>>, fail |-> <<0, 60>>, inconclusive |-> <<0, 100>>]

Grade(outcome) ==
    /\ graded = NotMeasured
    /\ LET score == scoreTrace(session, window.worst)
       IN  graded' = [score  |-> score,
                      agrees |-> score >= Bands[outcome][1] /\ score <= Bands[outcome][2]]
    /\ UNCHANGED <<session, frames, window>>

Init ==
    /\ session \in Sessions
    /\ frames = <<>>
    /\ window = [start |-> 1, worst |-> 0]
    /\ graded = NotMeasured

Next ==
    \/ \E d \in Durations : Sample(d)
    \/ \E outcome \in {"pass", "degraded", "fail", "inconclusive"} : Grade(outcome)

-----------------------------------------------------------------------------
TypeOK ==
    /\ session \in Sessions /\ frames \in SeqOf(Durations, MaxFrames)
    /\ window.start \in 1..MaxFrames /\ window.worst \in Nat
    /\ graded = NotMeasured \/ (graded.score \in 0..100 /\ graded.agrees \in BOOLEAN)

(* The loop finds the worst of all tightest windows: of the runs of frames *)
(* that last long enough, shrink to none and hold enough samples, none has *)
(* a higher p95 than the one it reports, and it reports one of them.       *)
WorstWindowIsWorst ==
    LET Run(i, j) == SubSeq(frames, i, j)
        Lasts(i, j) == TotalOf(Run(i, j)) >= WindowMs
        Tight(i, j) == /\ i <= j /\ Lasts(i, j) /\ (i = j \/ ~Lasts(i + 1, j))
                       /\ j - i + 1 >= MinSamples
        Windows == {w \in (1..Len(frames)) \X (1..Len(frames)) : Tight(w[1], w[2])}
    IN  window.worst = Max({0} \cup {P95(Run(w[1], w[2])) : w \in Windows})

(* Of two sessions in which the same things were measured, the one that is *)
(* no worse in any of them: the first of a pair is the better one.         *)
NoWorse(a, b) ==
    LET Order(x, y) == Measured(x) = Measured(y) /\ (Measured(x) => x <= y)
    IN  /\ b.reachedEnd => a.reachedEnd /\ Order(a.steps, b.steps)
        /\ Measured(a.firstFrame) = Measured(b.firstFrame) /\ (b.firstFrame = "painted" => a.firstFrame = "painted")
        /\ (a.coverages = {}) = (b.coverages = {}) /\ (a.drifts = {}) = (b.drifts = {})
        /\ a.coverages = {} \/ Min(a.coverages) >= Min(b.coverages)
        /\ a.drifts = {} \/ Max(a.drifts) <= Max(b.drifts)
        /\ b.legal => a.legal
        /\ Order(a.p95, b.p95) /\ Order(a.dropped, b.dropped)
        /\ a.refused = b.refused /\ (a.enteredError => b.enteredError)

(* A session that is no worse in any measurement never scores less: no     *)
(* mean, ratio or cap turns an improvement into a loss.                    *)
ImprovementNeverCosts ==
    graded # NotMeasured =>
        \A s \in Sessions : /\ NoWorse(s, session) => scoreTrace(s, window.worst) >= graded.score
                            /\ NoWorse(session, s) => scoreTrace(s, window.worst) <= graded.score

ScoreFollowsMeasurement == WorstWindowIsWorst /\ ImprovementNeverCosts
=============================================================================
