------------------------ MODULE ServiceEvidenceProofs ------------------------
(***************************************************************************)
(* What becomes of evidence, for all values of the services' parameters:   *)
(* the retention purge, the sweep of the purge queue, a job's container    *)
(* and the run queue.  A section is about one of them: its inductive       *)
(* invariant, that each action keeps it, and the properties that follow.   *)
(* The theorems at the end are about every behaviour of MCServices.        *)
(***************************************************************************)
EXTENDS MCServices, SequenceTheorems, FiniteSetTheorems, TLAPS

-----------------------------------------------------------------------------
(* The sweep of the purge queue.                                           *)

Distinct(s) == \A i, j \in 1..Len(s) : s[i] = s[j] => i = j

(* A run's directory goes with its last page and before its entry, and an  *)
(* entry stands in the queue once.                                         *)
SweepInv ==
    /\ purgeLog \in Seq(PurgedRuns) /\ Distinct(purgeLog)
    /\ left \in [PurgedRuns -> SUBSET Pages]
    /\ onDisk \subseteq PurgedRuns
    /\ stuck \subseteq PurgedRuns
    /\ sweep \in [Sweepers -> Seq(PurgedRuns)]
    /\ Sweep!NothingForgotten

(* What is waiting are the entries, each at a place of its own. *)
LEMMA WaitingIsRange ==
  ASSUME NEW S, purgeLog \in Seq(S)
  PROVE  Sweep!Waiting = {purgeLog[i] : i \in 1..Len(purgeLog)}
BY LenProperties DEF Sweep!Waiting

(* Removing an element from a sequence without repetitions leaves the      *)
(* others, each at a place of its own.                                     *)
LEMMA RemoveFirstLeaves ==
  ASSUME NEW S, NEW s \in Seq(S), NEW e, Distinct(s)
  PROVE  /\ Sweep!RemoveFirst(s, e) \in Seq(S)
         /\ Distinct(Sweep!RemoveFirst(s, e))
         /\ \A i \in 1..Len(Sweep!RemoveFirst(s, e)) :
               /\ Sweep!RemoveFirst(s, e)[i] # e
               /\ \E j \in 1..Len(s) : Sweep!RemoveFirst(s, e)[i] = s[j]
<1> DEFINE r == Sweep!RemoveFirst(s, e)
<1>1. CASE ~\E i \in 1..Len(s) : s[i] = e
  <2>1. r = s
    BY <1>1 DEF Sweep!RemoveFirst
  <2> QED
    BY <1>1, <2>1
<1>2. CASE \E i \in 1..Len(s) : s[i] = e
  <2>1. PICK k \in 1..Len(s) : s[k] = e
    BY <1>2
  <2>2. {i \in 1..Len(s) : s[i] = e} = {k}
    BY <2>1 DEF Distinct
  <2>3. k \in Nat /\ Len(s) \in Nat /\ k <= Len(s) /\ 1 <= k
    BY LenProperties, <2>1
  <2>4. (CHOOSE x \in {k} : \A y \in {k} : x =< y) = k
    BY <2>3
  <2>5. r = SubSeq(s, 1, k - 1) \o SubSeq(s, k + 1, Len(s))
    BY <1>2, <2>2, <2>4, Zenon
    DEF Sweep!RemoveFirst, Sweep!RemoveAt, Sweep!SelectInSeq, Sweep!Min
  <2>6. \A i \in 1..Len(s) : s[i] \in S
    BY ElementOfSeq
  <2> DEFINE a == SubSeq(s, 1, k - 1)
             b == SubSeq(s, k + 1, Len(s))
  <2>7. a \in Seq(S) /\ Len(a) = k - 1 /\ \A i \in 1..(k - 1) : a[i] = s[i]
    <3>1. \A i \in 1..(k - 1) : s[i] \in S
      BY <2>3, <2>6
    <3>2. /\ a \in Seq(S)
          /\ Len(a) = IF 1 <= k - 1 THEN k - 1 - 1 + 1 ELSE 0
          /\ \A i \in 1..(k - 1 - 1 + 1) : a[i] = s[1 + i - 1]
      BY <2>3, <3>1, SubSeqProperties
    <3> HIDE DEF a
    <3> QED
      BY <2>3, <3>2
  <2>8. b \in Seq(S) /\ Len(b) = Len(s) - k /\ \A i \in 1..(Len(s) - k) : b[i] = s[i + k]
    <3>1. \A i \in (k + 1)..Len(s) : s[i] \in S
      BY <2>3, <2>6
    <3>2. /\ b \in Seq(S)
          /\ Len(b) = IF k + 1 <= Len(s) THEN Len(s) - (k + 1) + 1 ELSE 0
          /\ \A i \in 1..(Len(s) - (k + 1) + 1) : b[i] = s[k + 1 + i - 1]
      BY <2>3, <3>1, SubSeqProperties
    <3> HIDE DEF b
    <3> QED
      BY <2>3, <3>2
  <2> HIDE DEF a, b, r
  <2>9. /\ r \in Seq(S) /\ Len(r) = Len(s) - 1
        /\ \A i \in 1..(Len(s) - 1) : r[i] = IF i < k THEN s[i] ELSE s[i + 1]
    <3>1. /\ r \in Seq(S)
          /\ Len(r) = Len(a) + Len(b)
          /\ \A i \in 1..(Len(a) + Len(b)) : r[i] = IF i <= Len(a) THEN a[i] ELSE b[i - Len(a)]
      BY <2>5, <2>7, <2>8, ConcatProperties DEF a, b
    <3>2. Len(a) = k - 1 /\ Len(b) = Len(s) - k /\ Len(a) + Len(b) = Len(s) - 1
      BY <2>3, <2>7, <2>8
    <3>3. ASSUME NEW i \in 1..(Len(s) - 1), i < k
          PROVE  r[i] = s[i]
      BY <2>3, <2>7, <3>1, <3>2, <3>3
    <3>4. ASSUME NEW i \in 1..(Len(s) - 1), ~(i < k)
          PROVE  r[i] = s[i + 1]
      <4>1. i - Len(a) = i - k + 1 /\ i - k + 1 \in 1..(Len(s) - k) /\ i - k + 1 + k = i + 1
        BY <2>3, <3>2, <3>4
      <4>2. r[i] = b[i - k + 1]
        BY <2>3, <3>1, <3>2, <3>4, <4>1
      <4> QED
        BY <2>8, <4>1, <4>2
    <3>5. \A i \in 1..(Len(s) - 1) : r[i] = IF i < k THEN s[i] ELSE s[i + 1]
      BY <3>3, <3>4
    <3>6. r \in Seq(S) /\ Len(r) = Len(s) - 1
      BY <3>1, <3>2
    <3> QED
      BY <3>5, <3>6
  <2>10. Distinct(r)
    <3> DEFINE p(i) == IF i < k THEN i ELSE i + 1
    <3>1. ASSUME NEW i \in 1..Len(r)
          PROVE  r[i] = s[p(i)] /\ p(i) \in 1..Len(s)
      BY <2>3, <2>9
    <3>2. ASSUME NEW i \in 1..Len(r), NEW j \in 1..Len(r), r[i] = r[j]
          PROVE  i = j
      <4>1. p(i) = p(j)
        <5> HIDE DEF p
        <5> QED
          BY <3>1, <3>2 DEF Distinct
      <4> QED
        BY <2>3, <2>9, <4>1
    <3> QED
      BY <3>2 DEF Distinct
  <2>11. ASSUME NEW i \in 1..Len(r)
         PROVE  r[i] # e /\ \E j \in 1..Len(s) : r[i] = s[j]
    <3>1. CASE i < k
      BY <2>1, <2>3, <2>9, <3>1 DEF Distinct
    <3>2. CASE ~(i < k)
      BY <2>1, <2>3, <2>9, <3>2 DEF Distinct
    <3> QED
      BY <3>1, <3>2
  <2> QED
    BY <2>9, <2>10, <2>11 DEF r
<1> QED
  BY <1>1, <1>2

(* Every step of the sweep keeps the invariant. *)
LEMMA SweepNext == SweepInv /\ Sweep!Next => SweepInv'
<1> SUFFICES ASSUME SweepInv, Sweep!Next
             PROVE  SweepInv'
  OBVIOUS
<1> USE DEF SweepInv
<1>1. ASSUME NEW r \in PurgedRuns, Sweep!Enqueue(r)
      PROVE  SweepInv'
  <2> USE <1>1 DEF Sweep!Enqueue
  <2>1. /\ purgeLog' \in Seq(PurgedRuns)
        /\ Len(purgeLog') = Len(purgeLog) + 1
        /\ \A i \in 1..Len(purgeLog) : purgeLog'[i] = purgeLog[i]
        /\ purgeLog'[Len(purgeLog) + 1] = r
        /\ Len(purgeLog) \in Nat
    BY AppendProperties, LenProperties
  <2>2. \A i \in 1..Len(purgeLog) : purgeLog[i] # r
    BY WaitingIsRange
  <2>3. Distinct(purgeLog)'
    BY <2>1, <2>2 DEF Distinct
  <2>4. Sweep!Waiting' = Sweep!Waiting \cup {r}
    <3>1. DOMAIN purgeLog' = 1..Len(purgeLog')
      BY <2>1, LenProperties
    <3>2. Sweep!Waiting' = {purgeLog'[i] : i \in 1..Len(purgeLog')}
      BY <3>1 DEF Sweep!Waiting
    <3>3. Sweep!Waiting = {purgeLog[i] : i \in 1..Len(purgeLog)}
      BY WaitingIsRange
    <3>4. 1..(Len(purgeLog) + 1) = (1..Len(purgeLog)) \cup {Len(purgeLog) + 1}
      BY <2>1
    <3> HIDE <1>1 DEF SweepInv, Sweep!Enqueue
    <3> QED
      BY <2>1, <3>2, <3>3, <3>4
  <2> QED
    BY <2>1, <2>3, <2>4 DEF Sweep!NothingForgotten
<1>2. ASSUME NEW s \in Sweepers, Sweep!StartSweep(s)
      PROVE  SweepInv'
  <2> USE <1>2 DEF Sweep!StartSweep
  <2>1. Sweep!Oldest(purgeLog, SweepLimit) \in Seq(PurgedRuns)
    <3> DEFINE n == IF Len(purgeLog) < SweepLimit THEN Len(purgeLog) ELSE SweepLimit
    <3>1. n \in Int /\ Len(purgeLog) \in Nat /\ n <= Len(purgeLog)
      BY LenProperties, SweepAssumption
    <3>2. \A i \in 1..n : purgeLog[i] \in PurgedRuns
      BY <3>1, ElementOfSeq
    <3> HIDE DEF n
    <3>3. SubSeq(purgeLog, 1, n) \in Seq(PurgedRuns)
      BY <3>1, <3>2, SubSeqProperties
    <3> QED
      BY <3>3 DEF n, Sweep!Oldest
  <2> QED
    BY <2>1 DEF Distinct, Sweep!NothingForgotten, Sweep!Waiting
<1>3. ASSUME NEW s \in Sweepers, Sweep!DeletePage(s)
      PROVE  SweepInv'
  <2> USE <1>3 DEF Sweep!DeletePage
  <2>1. Head(sweep[s]) \in PurgedRuns
    BY HeadTailProperties
  <2> QED
    BY <2>1 DEF Distinct, Sweep!NothingForgotten, Sweep!Waiting
<1>4. ASSUME NEW s \in Sweepers, Sweep!FinishEntry(s)
      PROVE  SweepInv'
  <2> USE <1>4 DEF Sweep!FinishEntry
  <2>1. Head(sweep[s]) \in PurgedRuns /\ Tail(sweep[s]) \in Seq(PurgedRuns)
    BY HeadTailProperties
  <2>2. /\ purgeLog' \in Seq(PurgedRuns)
        /\ Distinct(purgeLog)'
        /\ \A i \in 1..Len(purgeLog') :
              /\ purgeLog'[i] # Head(sweep[s])
              /\ \E j \in 1..Len(purgeLog) : purgeLog'[i] = purgeLog[j]
    <3>1. purgeLog' = Sweep!RemoveFirst(purgeLog, Head(sweep[s]))
      OBVIOUS
    <3> HIDE <1>4
    <3> HIDE DEF Sweep!FinishEntry
    <3> QED
      BY <3>1, RemoveFirstLeaves DEF Distinct
  <2>3. Sweep!Waiting' \subseteq Sweep!Waiting \ {Head(sweep[s])}
    <3>1. Sweep!Waiting' = {purgeLog'[i] : i \in 1..Len(purgeLog')}
      BY <2>2, LenProperties DEF Sweep!Waiting
    <3> QED
      BY SMTT(30), <2>2, <3>1, WaitingIsRange
  <2>4. sweep' \in [Sweepers -> Seq(PurgedRuns)]
    BY <2>1
  <2>5. Sweep!NothingForgotten'
    BY <2>3 DEF Sweep!NothingForgotten
  <2> QED
    BY <2>2, <2>4, <2>5
<1>5. ASSUME NEW s \in Sweepers, Sweep!SweepError(s) \/ Sweep!SweepFault(s)
      PROVE  SweepInv'
  <2>1. <<>> \in Seq(PurgedRuns)
    BY EmptySeq
  <2>2. /\ sweep' = [sweep EXCEPT ![s] = <<>>]
        /\ UNCHANGED <<purgeLog, left, onDisk, stuck>>
    BY <1>5 DEF Sweep!SweepError, Sweep!SweepFault
  <2>3. sweep' \in [Sweepers -> Seq(PurgedRuns)]
    BY <2>1, <2>2
  <2> QED
    BY <2>2, <2>3 DEF Distinct, Sweep!NothingForgotten, Sweep!Waiting
<1> QED
  BY <1>1, <1>2, <1>3, <1>4, <1>5 DEF Sweep!Next

(* What the sweep starts from. *)
LEMMA SweepStart == Sweep!Init => SweepInv
BY EmptySeq DEF Sweep!Init, SweepInv, Distinct, Sweep!NothingForgotten

(* A step of the sweep, or of something else, keeps the invariant. *)
LEMMA SweepStep == SweepInv /\ [Sweep!Next]_sweepVars => SweepInv'
<1>1. SweepInv /\ UNCHANGED sweepVars => SweepInv'
  BY DEF SweepInv, sweepVars, Distinct, Sweep!NothingForgotten, Sweep!Waiting
<1> QED
  BY <1>1, SweepNext

-----------------------------------------------------------------------------
(* Evaluations, labels and the retention purge.                            *)

(* Who holds the lock of the review has it there, with the label as read.  *)
LabelHeld ==
    \A w \in Labelers :
        labelers[w].pc = "locked" =>
            reviewLock = w /\ review.state = "present" /\ labelers[w].before = label

(* An evaluation expires with the first of its runs.                       *)
EvaluationDated == evaluation.state = "present" => evaluation.expires = Retention!EvaluationEnd

RetentionInv ==
    /\ Retention!TypeOK
    /\ LabelHeld
    /\ EvaluationDated
    /\ Retention!EvaluationEndsAudited
    /\ Retention!LabelMatchesLog

(* A request for an evaluation keeps the invariant. *)
LEMMA EvaluatorKeeps ==
  ASSUME NEW e \in Evaluators, RetentionInv,
         \/ Retention!EvaluatorReadsRuns(e) \/ Retention!EvaluatorReadsArtifacts(e)
         \/ Retention!StoreEvaluation(e)
  PROVE  RetentionInv'
<1> USE RetentionAssumption DEF RetentionInv
<1>1. Retention!EvaluationEnd \in Nat
  BY DEF Retention!EvaluationEnd, Retention!Earlier
<1>2. /\ UNCHANGED <<today, runKept, review, reviewLock, label, labelers, labelLog, proposals, purged>>
      /\ evaluators' \in [Evaluators -> {"idle", "reading", "comparing", "201", "200", "404",
                                         "409", "410", "500"}]
  BY DEF Retention!EvaluatorReadsRuns, Retention!EvaluatorReadsArtifacts,
         Retention!StoreEvaluation,
         Retention!LabelUntouched, Retention!TypeOK
<1>3. \/ evaluation' = evaluation
      \/ /\ runKept = {"current", "older"}
         /\ evaluation' = [state |-> "present", expires |-> Retention!EvaluationEnd]
  BY DEF Retention!EvaluatorReadsRuns, Retention!EvaluatorReadsArtifacts,
         Retention!StoreEvaluation,
         Retention!BothRuns
<1>4. evaluation' \in Retention!Row
  BY <1>1, <1>3 DEF Retention!Row, Retention!TypeOK
<1>5. Retention!TypeOK'
  BY <1>2, <1>4 DEF Retention!TypeOK
<1>6. LabelHeld' /\ Retention!LabelMatchesLog'
  BY <1>2 DEF LabelHeld, Retention!LabelMatchesLog
<1>7. EvaluationDated'
  BY <1>3 DEF EvaluationDated, Retention!EvaluationEnd
<1>8. Retention!EvaluationEndsAudited'
  BY <1>2, <1>3 DEF Retention!EvaluationEndsAudited, Retention!BothRuns
<1> QED
  BY <1>5, <1>6, <1>7, <1>8

(* A request for a label keeps the invariant. *)
LEMMA LabelerKeeps ==
  ASSUME NEW w \in Labelers, RetentionInv,
         \/ \E wanted \in Labels \cup {NoLabel} : Retention!CheckReview(w, wanted)
         \/ Retention!LockReview(w) \/ Retention!SetLabel(w)
  PROVE  RetentionInv'
<1> USE RetentionAssumption DEF RetentionInv
<1> DEFINE Labeler == [pc : {"idle", "checked", "locked", "200", "404"},
                       wants : Labels \cup {NoLabel}, before : Labels \cup {NoLabel}]
<1>1. /\ UNCHANGED <<today, runKept, evaluation, evaluators, review, proposals, purged>>
  BY DEF Retention!CheckReview, Retention!LockReview, Retention!SetLabel, Retention!GateUntouched
<1>2. EvaluationDated' /\ Retention!EvaluationEndsAudited'
  BY <1>1 DEF EvaluationDated, Retention!EvaluationEndsAudited, Retention!EvaluationEnd
<1>3. /\ labelers \in [Labelers -> Labeler]
      /\ label \in Labels \cup {NoLabel} /\ labelLog \in Labels \cup {NoLabel}
      /\ reviewLock \in Labelers \cup {NoOne}
  BY DEF Retention!TypeOK
<1>4. ASSUME labelers' \in [Labelers -> Labeler], reviewLock' \in Labelers \cup {NoOne},
             label' \in Labels \cup {NoLabel}, labelLog' \in Labels \cup {NoLabel}
      PROVE  Retention!TypeOK'
  BY <1>1, <1>4 DEF Retention!TypeOK
<1> HIDE DEF Labeler
<1>5. ASSUME NEW wanted \in Labels \cup {NoLabel}, Retention!CheckReview(w, wanted)
      PROVE  RetentionInv'
  <2>1. PICK a \in {"checked", "404"} :
            labelers' = [labelers EXCEPT ![w].pc = a, ![w].wants = wanted]
    BY <1>5, Zenon DEF Retention!CheckReview
  <2>2. UNCHANGED <<reviewLock, label, labelLog>>
    BY <1>5 DEF Retention!CheckReview
  <2>3. labelers' \in [Labelers -> Labeler]
    BY ZenonT(60), <1>3, <2>1 DEF Labeler
  <2>4. \A z \in Labelers : labelers'[z].pc = "locked" => labelers'[z] = labelers[z]
    BY <1>3, <2>1 DEF Labeler
  <2>5. LabelHeld'
    BY <1>1, <2>2, <2>4 DEF LabelHeld
  <2> QED
    BY <1>1, <1>2, <1>3, <1>4, <2>2, <2>3, <2>5 DEF Retention!LabelMatchesLog
<1>6. ASSUME Retention!LockReview(w)
      PROVE  RetentionInv'
  <2> USE <1>6 DEF Retention!LockReview
  <2>1. UNCHANGED <<label, labelLog>> /\ reviewLock = NoOne
    OBVIOUS
  <2>2. ~\E z \in Labelers : labelers[z].pc = "locked"
    BY <2>1 DEF LabelHeld
  <2>3. CASE /\ Retention!Live(review) /\ reviewLock' = w
             /\ labelers' = [labelers EXCEPT ![w].pc = "locked", ![w].before = label]
    <3>1. labelers' \in [Labelers -> Labeler]
      BY ZenonT(60), <1>3, <2>3 DEF Labeler
    <3>2. \A z \in Labelers : labelers'[z].pc = "locked" => z = w /\ labelers'[z].before = label
      BY <1>3, <2>2, <2>3 DEF Labeler
    <3>3. LabelHeld'
      BY <1>1, <2>1, <2>3, <3>2 DEF LabelHeld, Retention!Live
    <3> QED
      BY <1>1, <1>2, <1>3, <1>4, <2>1, <2>3, <3>1, <3>3 DEF Retention!LabelMatchesLog
  <2>4. CASE labelers' = [labelers EXCEPT ![w].pc = "404"] /\ reviewLock' = reviewLock
    <3>1. labelers' \in [Labelers -> Labeler]
      BY <1>3, <2>4 DEF Labeler
    <3>2. ~\E z \in Labelers : labelers'[z].pc = "locked"
      BY <1>3, <2>2, <2>4 DEF Labeler
    <3>3. LabelHeld'
      BY <3>2 DEF LabelHeld
    <3> QED
      BY <1>1, <1>2, <1>3, <1>4, <2>1, <2>4, <3>1, <3>3 DEF Retention!LabelMatchesLog
  <2> QED
    BY <2>3, <2>4
<1>7. ASSUME Retention!SetLabel(w)
      PROVE  RetentionInv'
  <2> USE <1>7 DEF Retention!SetLabel
  <2>1. /\ labelers' = [labelers EXCEPT ![w].pc = "200"]
        /\ reviewLock' = IF reviewLock = w THEN NoOne ELSE reviewLock
    OBVIOUS
  <2>2. reviewLock = w /\ review.state = "present" /\ label = labelLog
    BY DEF LabelHeld, Retention!LabelMatchesLog
  <2>3. labelers' \in [Labelers -> Labeler]
    BY <1>3, <2>1 DEF Labeler
  <2>4. ~\E z \in Labelers : labelers'[z].pc = "locked"
    BY <1>3, <2>1, <2>2 DEF LabelHeld, Labeler
  <2>5. LabelHeld'
    BY <2>4 DEF LabelHeld
  <2>6. labelers[w].wants \in Labels \cup {NoLabel}
    BY <1>3 DEF Labeler
  <2>7. /\ label' \in Labels \cup {NoLabel} /\ labelLog' \in Labels \cup {NoLabel}
        /\ label' = labelLog'
    BY <1>3, <2>2, <2>6
  <2> QED
    BY <1>1, <1>2, <1>3, <1>4, <2>1, <2>2, <2>3, <2>5, <2>7 DEF Retention!LabelMatchesLog
<1> QED
  BY <1>5, <1>6, <1>7

(* The purge keeps the invariant: an evaluation ends before the cascade    *)
(* from its runs would take it, and a locked review stays.                 *)
LEMMA PurgeKeeps ==
  ASSUME RetentionInv, Retention!Purge
  PROVE  RetentionInv'
<1> USE RetentionAssumption DEF RetentionInv
<1> DEFINE endedRuns == {r \in runKept : RetentionEnds[r] <= today}
           endedProposals == {p \in Proposals : Retention!Over(proposals[p])}
           reviewEnds == Retention!Over(review)
           gateEnds == Retention!Over(evaluation)
<1>1. /\ reviewEnds => reviewLock = NoOne
      /\ evaluation' = IF gateEnds \/ (endedRuns # {} /\ evaluation.state = "present")
                       THEN Retention!Deleted(evaluation) ELSE evaluation
      /\ runKept' = runKept \ endedRuns
      /\ proposals' = [p \in Proposals |->
             IF p \in endedProposals \/ (reviewEnds /\ proposals[p].state = "present")
             THEN Retention!Deleted(proposals[p]) ELSE proposals[p]]
      /\ review' = IF reviewEnds THEN Retention!Deleted(review) ELSE review
      /\ label' = IF reviewEnds THEN NoLabel ELSE label
      /\ purged' = purged \cup {<<"run", r>> : r \in endedRuns}
                          \cup {<<"proposal", p>> : p \in endedProposals}
                          \cup (IF reviewEnds THEN {<<"review">>} ELSE {})
                          \cup (IF gateEnds THEN {<<"evaluation">>} ELSE {})
      /\ UNCHANGED <<today, evaluators, reviewLock, labelers, labelLog>>
  BY Zenon DEF Retention!Purge
<1>2. /\ \A r \in Retention!Row : /\ Retention!Deleted(r) \in Retention!Row
                                    /\ Retention!Deleted(r).state = "deleted"
      /\ evaluation \in Retention!Row /\ review \in Retention!Row
      /\ proposals \in [Proposals -> Retention!Row]
  BY DEF Retention!Deleted, Retention!Row, Retention!TypeOK
<1>3. endedRuns # {} /\ evaluation.state = "present" => gateEnds
  <2> SUFFICES ASSUME NEW r \in runKept, RetentionEnds[r] <= today, evaluation.state = "present"
               PROVE  gateEnds
    OBVIOUS
  <2>1. r \in {"current", "older"} /\ today \in Nat
    BY DEF Retention!TypeOK, Retention!BothRuns
  <2>2. Retention!EvaluationEnd <= RetentionEnds[r]
    BY <2>1 DEF Retention!EvaluationEnd, Retention!Earlier
  <2>3. Retention!EvaluationEnd \in Nat
    BY DEF Retention!EvaluationEnd, Retention!Earlier
  <2> QED
    BY <2>1, <2>2, <2>3 DEF EvaluationDated, Retention!Over
<1>4. /\ evaluation' \in Retention!Row /\ review' \in Retention!Row
      /\ proposals' \in [Proposals -> Retention!Row]
  BY <1>1, <1>2
<1>5. purged' \subseteq Retention!Subjects
  <2>1. purged \subseteq Retention!Subjects /\ endedRuns \subseteq Retention!BothRuns
    BY DEF Retention!TypeOK
  <2> QED
    BY <1>1, <2>1 DEF Retention!Subjects
<1> HIDE DEF endedRuns, endedProposals, reviewEnds, gateEnds
<1>6. Retention!TypeOK'
  BY <1>1, <1>4, <1>5 DEF Retention!TypeOK
<1>7. LabelHeld'
  <2> SUFFICES ASSUME NEW w \in Labelers, labelers[w].pc = "locked"
               PROVE  review' = review /\ label' = label
    BY <1>1 DEF LabelHeld
  <2>1. reviewLock = w
    BY DEF LabelHeld
  <2> QED
    BY <1>1, <2>1
<1>8. EvaluationDated' /\ Retention!EvaluationEndsAudited'
  <2>1. CASE gateEnds
    <3>1. evaluation'.state = "deleted" /\ <<"evaluation">> \in purged'
      BY <1>1, <1>2, <2>1
    <3> QED
      BY <3>1 DEF EvaluationDated, Retention!EvaluationEndsAudited
  <2>2. CASE ~gateEnds
    <3>1. /\ evaluation' = evaluation
          /\ evaluation.state = "present" => runKept' = runKept
          /\ purged \subseteq purged'
      BY <1>1, <1>3, <2>2
    <3> QED
      BY <3>1 DEF EvaluationDated, Retention!EvaluationEndsAudited, Retention!EvaluationEnd
  <2> QED
    BY <2>1, <2>2
<1>9. Retention!LabelMatchesLog'
  <2>1. CASE reviewEnds
    BY <1>1, <1>2, <2>1 DEF Retention!LabelMatchesLog
  <2>2. CASE ~reviewEnds
    BY <1>1, <2>2 DEF Retention!LabelMatchesLog
  <2> QED
    BY <2>1, <2>2
<1> QED
  BY <1>6, <1>7, <1>8, <1>9

(* Every step of the retained evidence keeps the invariant. *)
LEMMA RetentionStep == RetentionInv /\ [Retention!Next]_retentionVars => RetentionInv'
<1> SUFFICES ASSUME RetentionInv, [Retention!Next]_retentionVars
             PROVE  RetentionInv'
  OBVIOUS
<1>1. ASSUME NEW p \in Proposals, Retention!StoreProposal(p)
      PROVE  RetentionInv'
  <2> USE <1>1 DEF Retention!StoreProposal, Retention!GateUntouched, Retention!LabelUntouched,
                   RetentionInv
  <2>1. proposals' \in [Proposals -> Retention!Row]
    BY RetentionAssumption DEF Retention!TypeOK, Retention!Row
  <2>2. Retention!TypeOK'
    BY <2>1 DEF Retention!TypeOK
  <2> QED
    BY <2>2 DEF LabelHeld, EvaluationDated, Retention!EvaluationEndsAudited,
                Retention!LabelMatchesLog, Retention!EvaluationEnd
<1>2. ASSUME Retention!NextDay
      PROVE  RetentionInv'
  <2> USE <1>2 DEF Retention!NextDay, Retention!GateUntouched, Retention!LabelUntouched, RetentionInv
  <2>1. Retention!TypeOK'
    BY RetentionAssumption DEF Retention!TypeOK
  <2> QED
    BY <2>1 DEF LabelHeld, EvaluationDated, Retention!EvaluationEndsAudited,
                Retention!LabelMatchesLog, Retention!EvaluationEnd
<1>3. ASSUME UNCHANGED retentionVars
      PROVE  RetentionInv'
  <2> USE <1>3 DEF retentionVars, RetentionInv
  <2>1. Retention!TypeOK'
    BY DEF Retention!TypeOK
  <2> QED
    BY <2>1 DEF LabelHeld, EvaluationDated, Retention!EvaluationEndsAudited,
                Retention!LabelMatchesLog, Retention!EvaluationEnd
<1> QED
  BY <1>1, <1>2, <1>3, EvaluatorKeeps, LabelerKeeps, PurgeKeeps DEF Retention!Next

(* What the retained evidence starts from. *)
LEMMA RetentionStart == Retention!Init => RetentionInv
<1> SUFFICES ASSUME Retention!Init
             PROVE  RetentionInv
  OBVIOUS
<1> USE RetentionAssumption DEF Retention!Init
<1>1. Retention!TypeOK
  BY DEF Retention!TypeOK, Retention!NoRow, Retention!Row
<1> QED
  BY <1>1 DEF RetentionInv, LabelHeld, EvaluationDated, Retention!EvaluationEndsAudited,
              Retention!LabelMatchesLog, Retention!NoRow

-----------------------------------------------------------------------------
(* A job's container and its executor.                                     *)

JobParts   == {"network", "proxy", "worker"}
BeforeRun  == JobParts \cup {"starting"}
Uncopied   == BeforeRun \cup Job!Polling \cup {"listing"}
JobPcs     == BeforeRun \cup {"cleaning", "ended"} \cup Job!Polling \cup Job!Collecting
JobCodes   == Job!Codes \cup {Job!NoCode}
JobErrors  == {"none", "launch", "malformed", "lost", "stopped", "timeout", "export", "mismatch",
               "cancelled", "harness", "incomplete", "call", "unclean"}
Containers == [container : {"absent", "created", "running", "stopped"}, code : JobCodes,
               supervisor : {"child", "marking", "writing", "holding", "leaving"},
               interrupted : BOOLEAN, job : JobCodes, files : SUBSET BundleFiles,
               marker : {"none", "empty", "written"}, collected : BOOLEAN]
Executors  == [pc : JobPcs, active : SUBSET JobParts, late : BOOLEAN, cancelled : BOOLEAN,
               lost : BOOLEAN, exit : JobCodes, listing : SUBSET BundleFiles, exported : SUBSET BundleFiles,
               error : JobErrors, unclean : BOOLEAN]

JobTypes ==
    /\ resources \subseteq JobParts /\ inside \in Containers /\ executor \in Executors
    /\ beat \in {"idle", "kill"} /\ disturbed \in BOOLEAN

(* The marker is written when the job has ended; one that succeeded wrote  *)
(* every file.                                                             *)
JobInside ==
    /\ inside.supervisor # "child" => inside.job # Job!NoCode
    /\ inside.marker # "none" => inside.supervisor \in {"writing", "holding", "leaving"}
    /\ inside.marker = "written" => inside.supervisor \in {"holding", "leaving"}
    /\ inside.supervisor \in {"holding", "leaving"} => inside.marker = "written"
    /\ inside.job = 0 => inside.files = BundleFiles

(* Before it runs the container has done nothing, and it is told that the  *)
(* bundle is collected when it is.                                         *)
JobMeets ==
    /\ executor.pc \in BeforeRun => inside.supervisor = "child" /\ ~Job!Running
    /\ executor.pc \in Uncopied \cup {"copying"} => ~inside.collected
    /\ executor.pc = "waiting" /\ Job!Running => inside.collected
    /\ executor.pc \in Job!Collecting => inside.marker = "written" /\ executor.exit = inside.job

(* What is copied is what was there when the job had ended.                *)
JobCopies ==
    /\ executor.exported \subseteq executor.listing
    /\ executor.pc \in Uncopied => executor.exported = {}
    /\ executor.pc \in {"copying", "waiting", "checking"} => executor.listing = inside.files
    /\ executor.pc \in {"waiting", "checking"} => executor.exported = executor.listing
    /\ executor.exported # {} => inside.job # Job!NoCode

(* What is left behind is known or active.                                 *)
JobCleans ==
    /\ ~executor.unclean => resources \subseteq executor.active
    /\ executor.pc = "ended" => executor.active = {}
    /\ executor.pc \in {"cleaning", "ended"} /\ executor.error = "none" =>
           executor.exported = BundleFiles /\ inside.job = 0
    /\ executor.pc = "ended" /\ executor.error = "none" => ~executor.unclean

(* Unless somebody else takes a hand, the container is there until its     *)
(* bundle is collected, and then ends with the code of its job.            *)
JobAlone ==
    ~disturbed =>
        /\ ~executor.late /\ ~executor.cancelled /\ ~executor.lost /\ ~executor.unclean
        /\ ~inside.interrupted /\ beat = "idle"
        /\ executor.pc \in Job!Polling \cup {"listing", "copying"} =>
               Job!Running /\ inside.supervisor # "leaving"
        /\ executor.pc = "waiting" =>
               Job!Running \/ (inside.container = "stopped" /\ inside.code = inside.job)
        /\ executor.pc \in {"cleaning", "ended"} =>
               /\ inside.job # Job!NoCode
               /\ inside.job = 0 => executor.error \in {"none", "malformed"}

JobInv == JobTypes /\ JobInside /\ JobMeets /\ JobCopies /\ JobCleans /\ JobAlone

(* The fields of the two records. *)
LEMMA JobFields ==
  ASSUME JobTypes
  PROVE  /\ DOMAIN inside = {"container", "code", "supervisor", "interrupted", "job", "files",
                             "marker", "collected"}
         /\ inside.supervisor \in {"child", "marking", "writing", "holding", "leaving"}
         /\ inside.interrupted \in BOOLEAN /\ inside.collected \in BOOLEAN
         /\ inside.marker \in {"none", "empty", "written"}
         /\ inside.job \in JobCodes /\ inside.files \subseteq BundleFiles
         /\ DOMAIN executor = {"pc", "active", "late", "cancelled", "lost", "exit", "listing",
                               "exported", "error", "unclean"}
         /\ executor.pc \in JobPcs /\ executor.error \in JobErrors /\ executor.exit \in JobCodes
         /\ executor.late \in BOOLEAN /\ executor.cancelled \in BOOLEAN /\ executor.lost \in BOOLEAN
         /\ executor.unclean \in BOOLEAN /\ executor.active \subseteq JobParts
BY DEF JobTypes, Containers, Executors

(* A step inside the container keeps the invariant. *)
LEMMA InsideKeeps ==
  ASSUME JobInv,
         \/ \E f \in BundleFiles : Job!WriteFile(f)
         \/ Job!JobExits \/ Job!JobCloses \/ Job!OpenMarker \/ Job!WriteMarker \/ Job!SeeCollected
         \/ Job!SupervisorExits \/ Job!SupervisorThrows \/ Job!Signal \/ Job!ContainerDies
  PROVE  JobInv'
<1> USE DEF JobInv, Job!Codes, Job!NoCode, Job!Running, Job!Stopped, Job!Supervising, Job!InsideOnly
<1>1. ASSUME NEW f \in BundleFiles, Job!WriteFile(f)
      PROVE  JobInv'
  <2> USE <1>1, JobFields DEF Job!WriteFile
  <2>1. JobTypes'
    BY DEF JobTypes, Containers, JobCodes
  <2>2. JobInside'
    BY DEF JobInside, JobCodes
  <2>3. JobMeets'
    BY DEF JobInside, JobMeets, Uncopied, BeforeRun, JobParts, Job!Polling, Job!Collecting
  <2>4. JobCopies'
    BY DEF JobInside, JobMeets, JobCopies, Uncopied, BeforeRun, JobParts, Job!Polling,
           Job!Collecting
  <2>5. JobCleans'
    BY DEF JobInside, JobMeets, JobCopies, JobCleans, Uncopied, BeforeRun, JobParts, Job!Polling,
           Job!Collecting
  <2>6. JobAlone'
    BY DEF JobInside, JobMeets, JobCopies, JobCleans, JobAlone, JobPcs, Uncopied, BeforeRun,
           JobParts, Job!Polling, Job!Collecting
  <2> QED
    BY <2>1, <2>2, <2>3, <2>4, <2>5, <2>6
<1>2. ASSUME Job!JobExits
      PROVE  JobInv'
  <2> USE <1>2, JobFields DEF Job!JobExits
  <2>1. JobTypes'
    BY DEF JobTypes, Containers, JobCodes
  <2>2. JobInside'
    BY DEF JobInside, JobCodes
  <2>3. JobMeets'
    BY DEF JobInside, JobMeets, Uncopied, BeforeRun, JobParts, Job!Polling, Job!Collecting
  <2>4. JobCopies'
    BY DEF JobInside, JobMeets, JobCopies, Uncopied, BeforeRun, JobParts, Job!Polling,
           Job!Collecting
  <2>5. JobCleans'
    BY DEF JobInside, JobMeets, JobCopies, JobCleans, Uncopied, BeforeRun, JobParts, Job!Polling,
           Job!Collecting
  <2>6. JobAlone'
    BY DEF JobInside, JobMeets, JobCopies, JobCleans, JobAlone, JobPcs, Uncopied, BeforeRun,
           JobParts, Job!Polling, Job!Collecting
  <2> QED
    BY <2>1, <2>2, <2>3, <2>4, <2>5, <2>6
<1>3. ASSUME Job!JobCloses
      PROVE  JobInv'
  <2> USE <1>3, JobFields DEF Job!JobCloses
  <2>1. JobTypes'
    BY DEF JobTypes, Containers, JobCodes
  <2>2. JobInside'
    BY DEF JobInside, JobCodes
  <2>3. JobMeets'
    BY DEF JobInside, JobMeets, Uncopied, BeforeRun, JobParts, Job!Polling, Job!Collecting
  <2>4. JobCopies'
    BY DEF JobInside, JobMeets, JobCopies, Uncopied, BeforeRun, JobParts, Job!Polling,
           Job!Collecting
  <2>5. JobCleans'
    BY DEF JobInside, JobMeets, JobCopies, JobCleans, Uncopied, BeforeRun, JobParts, Job!Polling,
           Job!Collecting
  <2>6. JobAlone'
    BY DEF JobInside, JobMeets, JobCopies, JobCleans, JobAlone, JobPcs, Uncopied, BeforeRun,
           JobParts, Job!Polling, Job!Collecting
  <2> QED
    BY <2>1, <2>2, <2>3, <2>4, <2>5, <2>6
<1>4. ASSUME Job!OpenMarker
      PROVE  JobInv'
  <2> USE <1>4, JobFields DEF Job!OpenMarker
  <2>1. JobTypes'
    BY DEF JobTypes, Containers, JobCodes
  <2>2. JobInside'
    BY DEF JobInside, JobCodes
  <2>3. JobMeets'
    BY DEF JobInside, JobMeets, Uncopied, BeforeRun, JobParts, Job!Polling, Job!Collecting
  <2>4. JobCopies'
    BY DEF JobInside, JobMeets, JobCopies, Uncopied, BeforeRun, JobParts, Job!Polling,
           Job!Collecting
  <2>5. JobCleans'
    BY DEF JobInside, JobMeets, JobCopies, JobCleans, Uncopied, BeforeRun, JobParts, Job!Polling,
           Job!Collecting
  <2>6. JobAlone'
    BY DEF JobInside, JobMeets, JobCopies, JobCleans, JobAlone, JobPcs, Uncopied, BeforeRun,
           JobParts, Job!Polling, Job!Collecting
  <2> QED
    BY <2>1, <2>2, <2>3, <2>4, <2>5, <2>6
<1>5. ASSUME Job!WriteMarker
      PROVE  JobInv'
  <2> USE <1>5, JobFields DEF Job!WriteMarker
  <2>1. JobTypes'
    <3>1. PICK s \in {"holding", "leaving"} :
              inside' = [inside EXCEPT !.marker = "written", !.supervisor = s]
      OBVIOUS
    <3> QED
      BY ZenonT(60), <3>1 DEF JobTypes, Containers, JobCodes
  <2>2. JobInside'
    BY DEF JobInside, JobCodes
  <2>3. JobMeets'
    BY DEF JobInside, JobMeets, Uncopied, BeforeRun, JobParts, Job!Polling, Job!Collecting
  <2>4. JobCopies'
    BY DEF JobInside, JobMeets, JobCopies, Uncopied, BeforeRun, JobParts, Job!Polling,
           Job!Collecting
  <2>5. JobCleans'
    BY DEF JobInside, JobMeets, JobCopies, JobCleans, Uncopied, BeforeRun, JobParts, Job!Polling,
           Job!Collecting
  <2>6. JobAlone'
    BY DEF JobInside, JobMeets, JobCopies, JobCleans, JobAlone, JobPcs, Uncopied, BeforeRun,
           JobParts, Job!Polling, Job!Collecting
  <2> QED
    BY <2>1, <2>2, <2>3, <2>4, <2>5, <2>6
<1>6. ASSUME Job!SeeCollected
      PROVE  JobInv'
  <2> USE <1>6, JobFields DEF Job!SeeCollected
  <2>1. JobTypes'
    BY DEF JobTypes, Containers, JobCodes
  <2>2. JobInside'
    BY DEF JobInside, JobCodes
  <2>3. JobMeets'
    BY DEF JobInside, JobMeets, Uncopied, BeforeRun, JobParts, Job!Polling, Job!Collecting
  <2>4. JobCopies'
    BY DEF JobInside, JobMeets, JobCopies, Uncopied, BeforeRun, JobParts, Job!Polling,
           Job!Collecting
  <2>5. JobCleans'
    BY DEF JobInside, JobMeets, JobCopies, JobCleans, Uncopied, BeforeRun, JobParts, Job!Polling,
           Job!Collecting
  <2>6. JobAlone'
    BY DEF JobInside, JobMeets, JobCopies, JobCleans, JobAlone, JobPcs, Uncopied, BeforeRun,
           JobParts, Job!Polling, Job!Collecting
  <2> QED
    BY <2>1, <2>2, <2>3, <2>4, <2>5, <2>6
<1>7. ASSUME Job!SupervisorExits
      PROVE  JobInv'
  <2> USE <1>7, JobFields DEF Job!SupervisorExits
  <2>1. JobTypes'
    BY DEF JobTypes, Containers, JobCodes
  <2>2. JobInside'
    BY DEF JobInside, JobCodes
  <2>3. JobMeets'
    BY DEF JobInside, JobMeets, Uncopied, BeforeRun, JobParts, Job!Polling, Job!Collecting
  <2>4. JobCopies'
    BY DEF JobInside, JobMeets, JobCopies, Uncopied, BeforeRun, JobParts, Job!Polling,
           Job!Collecting
  <2>5. JobCleans'
    BY DEF JobInside, JobMeets, JobCopies, JobCleans, Uncopied, BeforeRun, JobParts, Job!Polling,
           Job!Collecting
  <2>6. JobAlone'
    BY DEF JobInside, JobMeets, JobCopies, JobCleans, JobAlone, JobPcs, Uncopied, BeforeRun,
           JobParts, Job!Polling, Job!Collecting
  <2> QED
    BY <2>1, <2>2, <2>3, <2>4, <2>5, <2>6
<1>8. ASSUME Job!SupervisorThrows
      PROVE  JobInv'
  <2> USE <1>8, JobFields DEF Job!SupervisorThrows
  <2>1. JobTypes'
    BY DEF JobTypes, Containers, JobCodes
  <2>2. JobInside'
    BY DEF JobInside, JobCodes
  <2>3. JobMeets'
    BY DEF JobInside, JobMeets, Uncopied, BeforeRun, JobParts, Job!Polling, Job!Collecting
  <2>4. JobCopies'
    BY DEF JobInside, JobMeets, JobCopies, Uncopied, BeforeRun, JobParts, Job!Polling,
           Job!Collecting
  <2>5. JobCleans'
    BY DEF JobInside, JobMeets, JobCopies, JobCleans, Uncopied, BeforeRun, JobParts, Job!Polling,
           Job!Collecting
  <2>6. JobAlone'
    BY DEF JobInside, JobMeets, JobCopies, JobCleans, JobAlone, JobPcs, Uncopied, BeforeRun,
           JobParts, Job!Polling, Job!Collecting
  <2> QED
    BY <2>1, <2>2, <2>3, <2>4, <2>5, <2>6
<1>9. ASSUME Job!Signal
      PROVE  JobInv'
  <2> USE <1>9, JobFields DEF Job!Signal
  <2>1. JobTypes'
    <3>1. PICK j \in JobCodes, s \in {"child", "marking", "writing", "holding", "leaving"} :
              inside' = [inside EXCEPT !.interrupted = TRUE, !.job = j, !.supervisor = s]
      BY ZenonT(60) DEF JobCodes
    <3> QED
      BY ZenonT(60), <3>1 DEF JobTypes, Containers, JobCodes
  <2>2. JobInside'
    BY DEF JobInside, JobCodes
  <2>3. JobMeets'
    BY DEF JobInside, JobMeets, Uncopied, BeforeRun, JobParts, Job!Polling, Job!Collecting
  <2>4. JobCopies'
    BY DEF JobInside, JobMeets, JobCopies, Uncopied, BeforeRun, JobParts, Job!Polling,
           Job!Collecting
  <2>5. JobCleans'
    BY DEF JobInside, JobMeets, JobCopies, JobCleans, Uncopied, BeforeRun, JobParts, Job!Polling,
           Job!Collecting
  <2>6. JobAlone'
    BY DEF JobInside, JobMeets, JobCopies, JobCleans, JobAlone, JobPcs, Uncopied, BeforeRun,
           JobParts, Job!Polling, Job!Collecting
  <2> QED
    BY <2>1, <2>2, <2>3, <2>4, <2>5, <2>6
<1>10. ASSUME Job!ContainerDies
       PROVE  JobInv'
  <2> USE <1>10, JobFields DEF Job!ContainerDies
  <2>1. JobTypes'
    BY DEF JobTypes, Containers, JobCodes
  <2>2. JobInside'
    BY DEF JobInside, JobCodes
  <2>3. JobMeets'
    BY DEF JobInside, JobMeets, Uncopied, BeforeRun, JobParts, Job!Polling, Job!Collecting
  <2>4. JobCopies'
    BY DEF JobInside, JobMeets, JobCopies, Uncopied, BeforeRun, JobParts, Job!Polling,
           Job!Collecting
  <2>5. JobCleans'
    BY DEF JobInside, JobMeets, JobCopies, JobCleans, Uncopied, BeforeRun, JobParts, Job!Polling,
           Job!Collecting
  <2>6. JobAlone'
    BY DEF JobInside, JobMeets, JobCopies, JobCleans, JobAlone, JobPcs, Uncopied, BeforeRun,
           JobParts, Job!Polling, Job!Collecting
  <2> QED
    BY <2>1, <2>2, <2>3, <2>4, <2>5, <2>6
<1> QED
  BY <1>1, <1>2, <1>3, <1>4, <1>5, <1>6, <1>7, <1>8, <1>9, <1>10

(* A step that throws keeps the invariant, when the error is no surprise.   *)
LEMMA ThrowKeeps ==
  ASSUME JobInv, NEW error \in JobErrors, Job!Throw(error), executor.pc # "ended",
         inside' \in Containers, JobInside', inside'.job = inside.job,
         UNCHANGED <<resources, beat>>, disturbed' \in BOOLEAN,
         ~disturbed' => ~disturbed /\ inside'.interrupted = inside.interrupted,
         error = "none" => executor.exported = BundleFiles /\ inside.job = 0,
         ~disturbed' => inside.job # Job!NoCode /\ (inside.job = 0 => error \in {"none", "malformed"})
  PROVE  JobInv'
<1> USE JobFields DEF JobInv, Job!Throw, JobPcs
<1>1. executor' \in Executors
  BY DEF JobTypes, Executors
<1>2. /\ executor'.pc = "cleaning" /\ executor'.error = error
      /\ executor'.active = executor.active /\ executor'.unclean = executor.unclean
      /\ executor'.listing = executor.listing /\ executor'.exported = executor.exported
      /\ executor'.late = executor.late /\ executor'.cancelled = executor.cancelled
      /\ executor'.lost = executor.lost
  OBVIOUS
<1> HIDE DEF Job!Throw
<1>3. JobTypes'
  BY <1>1 DEF JobTypes
<1>4. JobMeets'
  BY <1>2 DEF JobMeets, Uncopied, BeforeRun, JobParts, Job!Polling, Job!Collecting
<1>5. JobCopies'
  BY <1>2 DEF JobCopies, Uncopied, BeforeRun, JobParts, Job!Polling
<1>6. JobCleans'
  BY <1>2 DEF JobCleans
<1>7. JobAlone'
  BY <1>2 DEF JobAlone, Uncopied, BeforeRun, JobParts, Job!Polling
<1> QED
  BY <1>3, <1>4, <1>5, <1>6, <1>7

(* A step to the next call of the executor has it there, and nothing else. *)
LEMMA GoToFields ==
  ASSUME JobTypes, NEW pc \in JobPcs, Job!GoTo(pc)
  PROVE  /\ executor' \in Executors
         /\ executor'.pc = pc /\ executor'.exit = executor.exit
         /\ executor'.active = executor.active /\ executor'.unclean = executor.unclean
         /\ executor'.listing = executor.listing /\ executor'.exported = executor.exported
         /\ executor'.late = executor.late /\ executor'.cancelled = executor.cancelled
         /\ executor'.lost = executor.lost /\ executor'.error = executor.error
BY JobFields DEF JobTypes, Executors, Job!GoTo

(* Making the network and the containers keeps the invariant. *)
LEMMA LaunchKeeps ==
  ASSUME JobInv, NEW x \in JobParts, Job!Launch(x)
  PROVE  JobInv'
<1> USE JobFields DEF JobInv, Job!Codes, Job!NoCode, Job!Running, Job!At
<1>1. PICK made \in {{}, {x}}, fails \in BOOLEAN :
         /\ ~fails => made = {x}
         /\ resources' = resources \cup made
         /\ inside' = IF made = {"worker"} THEN [inside EXCEPT !.container = "created"] ELSE inside
         /\ executor' = [executor EXCEPT !.active = @ \cup made,
                             !.pc = IF fails THEN "cleaning" ELSE Job!After(x),
                             !.error = IF fails THEN "launch" ELSE @]
         /\ disturbed' = (disturbed \/ fails)
  BY Zenon DEF Job!Launch
<1>2. executor.pc = x /\ beat' = beat
  BY DEF Job!Launch
<1>3. PICK next \in BeforeRun \cup {"cleaning"}, error \in JobErrors :
         /\ executor' = [executor EXCEPT !.active = @ \cup made, !.pc = next, !.error = error]
         /\ fails => next = "cleaning" /\ error = "launch"
         /\ ~fails => next \in BeforeRun /\ error = executor.error
  <2>1. CASE fails
    BY <1>1, <2>1 DEF JobErrors
  <2>2. CASE ~fails
    <3>1. Job!After(x) \in BeforeRun
      BY DEF Job!After, BeforeRun, JobParts
    <3>2. executor' = [executor EXCEPT !.active = @ \cup made, !.pc = Job!After(x),
                                       !.error = executor.error]
      BY <1>1, <2>2
    <3> QED
      BY <2>2, <3>1, <3>2
  <2> QED
    BY <2>1, <2>2
<1>4. executor' \in Executors /\ made \subseteq JobParts
  <2>1. executor \in Executors /\ next \in JobPcs /\ made \subseteq JobParts
    BY <1>3 DEF JobTypes, JobPcs
  <2> QED
    BY <1>3, <2>1 DEF Executors
<1>5. /\ executor'.pc = next /\ executor'.error = error /\ executor'.active = executor.active \cup made
      /\ executor'.unclean = executor.unclean /\ executor'.exported = executor.exported
      /\ executor'.listing = executor.listing /\ executor'.late = executor.late
      /\ executor'.cancelled = executor.cancelled /\ executor'.lost = executor.lost
  BY <1>3
<1>6. inside' \in Containers /\ inside'.container \in {inside.container, "created"}
  BY <1>1 DEF JobTypes, Containers
<1>7. /\ inside'.supervisor = inside.supervisor /\ inside'.job = inside.job
      /\ inside'.marker = inside.marker /\ inside'.files = inside.files
      /\ inside'.collected = inside.collected /\ inside'.interrupted = inside.interrupted
  BY <1>1
<1>8. JobTypes'
  BY <1>1, <1>2, <1>4, <1>6 DEF JobTypes
<1>9. JobInside'
  BY <1>7 DEF JobInside
<1>10. JobMeets'
  BY <1>2, <1>3, <1>5, <1>6, <1>7
  DEF JobMeets, Uncopied, BeforeRun, JobParts, Job!Polling, Job!Collecting
<1>11. JobCopies'
  BY <1>2, <1>3, <1>5, <1>7 DEF JobCopies, Uncopied, BeforeRun, JobParts, Job!Polling
<1>12. JobCleans'
  BY <1>1, <1>2, <1>3, <1>5, <1>7 DEF JobCleans, BeforeRun, JobParts
<1>13. JobAlone'
  BY <1>1, <1>2, <1>3, <1>5, <1>7 DEF JobAlone, Uncopied, BeforeRun, JobParts, Job!Polling
<1> QED
  BY <1>8, <1>9, <1>10, <1>11, <1>12, <1>13

(* Starting the container and waiting for its marker keeps the invariant.  *)
LEMMA PollKeeps ==
  ASSUME JobInv,
         Job!Start \/ Job!ReadMarker \/ Job!Inspect \/ Job!TimeOut \/ Job!DeadlinePasses
  PROVE  JobInv'
<1> USE DEF JobInv, Job!Codes, Job!NoCode, Job!Running, Job!At, Job!ExecutorOnly, Job!PollThrow
<1>1. ASSUME Job!Start
      PROVE  JobInv'
  <2> USE <1>1 DEF Job!Start
  <2>1. Job!GoTo("reading") /\ "reading" \in JobPcs
    BY DEF JobPcs, Job!Polling
  <2>2. inside' \in Containers /\ inside'.container = "running" /\ inside'.supervisor = inside.supervisor
        /\ inside'.job = inside.job /\ inside'.marker = inside.marker /\ inside'.files = inside.files
        /\ inside'.collected = inside.collected /\ inside'.interrupted = inside.interrupted
    BY JobFields DEF JobTypes, Containers
  <2> USE <2>1, <2>2, GoToFields
  <2> HIDE DEF Job!Start
  <2>3. executor.pc = "starting" /\ UNCHANGED <<resources, beat, disturbed>>
    BY DEF Job!Start
  <2>4. JobTypes'
    BY <2>3 DEF JobTypes
  <2>5. JobInside'
    BY DEF JobInside
  <2>6. JobMeets'
    BY <2>3 DEF JobMeets, Uncopied, BeforeRun, JobParts, Job!Polling, Job!Collecting
  <2>7. JobCopies'
    BY <2>3 DEF JobCopies, Uncopied, BeforeRun, JobParts, Job!Polling
  <2>8. JobCleans'
    BY <2>3 DEF JobCleans
  <2>9. JobAlone'
    BY <2>3 DEF JobAlone, JobMeets, Uncopied, BeforeRun, JobParts, Job!Polling
  <2> QED
    BY <2>4, <2>5, <2>6, <2>7, <2>8, <2>9
<1>2. ASSUME NEW pc \in Job!Polling, executor.pc \in Job!Polling, Job!GoTo(pc), Job!ExecutorOnly
      PROVE  JobInv'
  <2> USE <1>2
  <2>1. pc \in JobPcs
    BY DEF JobPcs
  <2> USE <2>1, GoToFields
  <2>2. JobTypes'
    BY DEF JobTypes
  <2>3. JobInside'
    BY DEF JobInside
  <2>4. JobMeets'
    BY DEF JobMeets, Uncopied, BeforeRun, JobParts, Job!Polling, Job!Collecting
  <2>5. JobCopies'
    BY DEF JobCopies, Uncopied, BeforeRun, JobParts, Job!Polling
  <2>6. JobCleans'
    BY DEF JobCleans, Job!Polling
  <2>7. JobAlone'
    BY DEF JobAlone, Uncopied, BeforeRun, JobParts, Job!Polling
  <2> QED
    BY <2>2, <2>3, <2>4, <2>5, <2>6, <2>7
<1>3. ASSUME Job!ReadMarker
      PROVE  JobInv'
  <2> USE <1>3 DEF Job!ReadMarker
  <2>1. executor.pc = "reading" /\ Job!ExecutorOnly
    OBVIOUS
  <2>2. CASE Job!GoTo("inspecting")
    BY <1>2, <2>1, <2>2 DEF Job!Polling
  <2>3. ASSUME NEW error \in {"malformed", "lost"}, Job!Throw(error), inside.marker # "none",
               error = "malformed" \/ executor.lost
        PROVE  JobInv'
    <3>1. inside.job # -1
      BY <2>3 DEF JobInside
    <3>2. ~disturbed => error = "malformed"
      BY <2>3 DEF JobAlone
    <3>3. /\ inside' \in Containers /\ JobInside' /\ disturbed' \in BOOLEAN
          /\ UNCHANGED <<resources, inside, beat, disturbed>>
      BY <2>1 DEF JobTypes, JobInside
    <3>4. error \in JobErrors /\ error # "none"
      BY <2>3 DEF JobErrors
    <3> HIDE <1>3 DEF Job!ReadMarker, JobInv
    <3> QED
      BY JobInv, <2>1, <2>3, <3>1, <3>2, <3>3, <3>4, ThrowKeeps
  <2>4. CASE /\ executor' = [executor EXCEPT !.pc = "listing", !.exit = inside.job]
             /\ inside.marker = "written"
    <3> USE JobFields, <2>4
    <3>1. executor' \in Executors
      BY DEF JobTypes, Executors, JobPcs, Job!Collecting
    <3>2. /\ executor'.pc = "listing" /\ executor'.exit = inside.job
          /\ executor'.active = executor.active /\ executor'.unclean = executor.unclean
          /\ executor'.listing = executor.listing /\ executor'.exported = executor.exported
          /\ executor'.late = executor.late /\ executor'.cancelled = executor.cancelled
          /\ executor'.lost = executor.lost /\ executor'.error = executor.error
      OBVIOUS
    <3>3. UNCHANGED <<resources, inside, beat, disturbed>>
      OBVIOUS
    <3> HIDE <2>4, <1>3 DEF Job!ReadMarker
    <3>4. JobTypes'
      BY <3>1, <3>3 DEF JobTypes
    <3>5. JobInside'
      BY <3>3 DEF JobInside
    <3>6. JobMeets'
      BY <2>1, <2>4, <3>2, <3>3 DEF JobMeets, Uncopied, BeforeRun, JobParts, Job!Polling,
                                    Job!Collecting
    <3>7. JobCopies'
      BY <2>1, <3>2, <3>3 DEF JobCopies, Uncopied, BeforeRun, JobParts, Job!Polling
    <3>8. JobCleans'
      BY <3>2, <3>3 DEF JobCleans
    <3>9. JobAlone'
      BY <2>1, <3>2, <3>3 DEF JobAlone, Uncopied, BeforeRun, JobParts, Job!Polling
    <3> QED
      BY <3>4, <3>5, <3>6, <3>7, <3>8, <3>9
  <2>5. CASE executor.lost /\ Job!Throw("lost") /\ inside.marker # "none"
    BY <2>3, <2>5
  <2>6. CASE Job!Throw("malformed") /\ inside.marker # "none"
    BY <2>3, <2>6
  <2> QED
    BY <2>2, <2>4, <2>5, <2>6, JobFields
<1>4. ASSUME Job!Inspect
      PROVE  JobInv'
  <2> USE <1>4 DEF Job!Inspect
  <2>1. CASE Job!Running
    <3>1. Job!GoTo("reading")
      BY <2>1
    <3> QED
      BY <1>2, <3>1 DEF Job!Polling
  <2>2. CASE ~Job!Running
    <3>1. PICK error \in {"lost", "stopped"} : Job!Throw(error)
      BY <2>2, Zenon
    <3>2. disturbed
      BY <2>2 DEF JobAlone, JobTypes, Uncopied, Job!Polling
    <3>3. /\ inside' \in Containers /\ JobInside' /\ disturbed' \in BOOLEAN
          /\ UNCHANGED <<resources, inside, beat, disturbed>>
      BY DEF JobTypes, JobInside
    <3>4. error \in JobErrors /\ error # "none" /\ executor.pc = "inspecting"
      BY <3>1 DEF JobErrors
    <3> HIDE <1>4 DEF Job!Inspect, JobInv
    <3> QED
      BY JobInv, <3>1, <3>2, <3>3, <3>4, ThrowKeeps
  <2> QED
    BY <2>1, <2>2
<1>5. ASSUME Job!TimeOut
      PROVE  JobInv'
  <2> USE <1>5 DEF Job!TimeOut
  <2>1. PICK error \in {"lost", "timeout"} : Job!Throw(error)
    BY Zenon
  <2>2. disturbed
    BY DEF JobAlone, JobTypes
  <2>3. inside' \in Containers /\ JobInside' /\ inside'.job = inside.job
    <3>1. inside' = inside \/ inside' = Job!Stopped(137)
      BY DEF Job!MayKill
    <3>2. CASE inside' = inside
      BY <3>2 DEF JobTypes, JobInside
    <3>3. CASE inside' = Job!Stopped(137)
      <4>1. inside' \in Containers
        BY <3>3 DEF Job!Stopped, JobTypes, Containers, JobCodes
      <4>2. /\ inside'.job = inside.job /\ inside'.supervisor = inside.supervisor
            /\ inside'.marker = inside.marker /\ inside'.files = inside.files
        BY <3>3, JobFields DEF Job!Stopped
      <4> QED
        BY <4>1, <4>2 DEF JobInside
    <3> QED
      BY <3>1, <3>2, <3>3
  <2>4. UNCHANGED <<resources, beat, disturbed>> /\ executor.pc # "ended"
    OBVIOUS
  <2> HIDE <1>5
  <2> QED
    BY <2>1, <2>2, <2>3, <2>4, ThrowKeeps DEF JobErrors, JobTypes
<1>6. ASSUME Job!DeadlinePasses
      PROVE  JobInv'
  <2> USE <1>6, JobFields DEF Job!DeadlinePasses
  <2>1. executor' \in Executors
    BY DEF JobTypes, Executors
  <2>2. /\ executor'.pc = executor.pc /\ executor'.exit = executor.exit
        /\ executor'.active = executor.active /\ executor'.unclean = executor.unclean
        /\ executor'.listing = executor.listing /\ executor'.exported = executor.exported
        /\ executor'.error = executor.error
    OBVIOUS
  <2>3. UNCHANGED <<resources, inside, beat>> /\ disturbed' = TRUE
    OBVIOUS
  <2> HIDE <1>6 DEF Job!DeadlinePasses
  <2>4. JobTypes' /\ JobAlone'
    BY <2>1, <2>3 DEF JobTypes, JobAlone
  <2>5. JobInside' /\ JobMeets'
    BY <2>2, <2>3 DEF JobInside, JobMeets
  <2>6. JobCopies' /\ JobCleans'
    BY <2>2, <2>3 DEF JobCopies, JobCleans
  <2> QED
    BY <2>4, <2>5, <2>6
<1> QED
  BY <1>1, <1>3, <1>4, <1>5, <1>6

(* Throwing with nothing else touched keeps the invariant. *)
LEMMA PlainThrowKeeps ==
  ASSUME JobInv, NEW error \in JobErrors, Job!Throw(error), executor.pc # "ended",
         UNCHANGED <<resources, inside, beat>>, disturbed' \in {disturbed, TRUE},
         error = "none" => executor.exported = BundleFiles /\ inside.job = 0,
         ~disturbed' => inside.job # Job!NoCode /\ (inside.job = 0 => error \in {"none", "malformed"})
  PROVE  JobInv'
<1>1. inside' \in Containers /\ JobInside' /\ disturbed' \in BOOLEAN
  BY DEF JobInv, JobTypes, JobInside
<1>2. ~disturbed' => ~disturbed
  BY DEF JobInv, JobTypes
<1> QED
  BY <1>1, <1>2, ThrowKeeps

(* Copying the bundle and waiting for the end keeps the invariant.         *)
LEMMA CollectKeeps ==
  ASSUME JobInv,
         \/ \E f \in BundleFiles : Job!CopyFile(f)
         \/ Job!ListFiles \/ Job!Acknowledge \/ Job!Wait \/ Job!Check \/ Job!CallFails
  PROVE  JobInv'
<1> USE DEF Job!Codes, Job!NoCode, Job!Running, Job!At, Job!ExecutorOnly
<1>1. /\ JobTypes /\ JobInside /\ JobMeets /\ JobCopies /\ JobCleans /\ JobAlone
      /\ disturbed \in BOOLEAN
  BY DEF JobInv, JobTypes
<1>2. ASSUME executor.pc \in Job!Collecting
      PROVE  inside.job # -1 /\ inside.marker = "written" /\ executor.exit = inside.job
  BY <1>1, <1>2 DEF JobMeets, JobInside
<1>3. ASSUME executor.pc \in {"listing", "copying"}, Job!Throw("export"), ~Job!Running,
             UNCHANGED <<resources, inside, beat, disturbed>>
      PROVE  JobInv'
  <2>1. disturbed
    BY <1>1, <1>3 DEF JobAlone
  <2> QED
    BY <1>1, <1>3, <2>1, PlainThrowKeeps DEF JobErrors
<1>4. ASSUME Job!ListFiles
      PROVE  JobInv'
  <2> USE <1>4 DEF Job!ListFiles
  <2>1. executor.pc = "listing" /\ UNCHANGED <<resources, inside, beat, disturbed>>
    OBVIOUS
  <2>2. CASE Job!Running /\ inside.files # {}
    <3> USE JobFields, <2>2
    <3>1. executor' = [executor EXCEPT !.pc = "copying", !.listing = inside.files]
      OBVIOUS
    <3>2. executor' \in Executors
      BY <1>1, <3>1 DEF JobTypes, Executors, JobPcs, Job!Collecting
    <3>3. /\ executor'.pc = "copying" /\ executor'.exit = executor.exit
          /\ executor'.active = executor.active /\ executor'.unclean = executor.unclean
          /\ executor'.listing = inside.files /\ executor'.exported = executor.exported
          /\ executor'.late = executor.late /\ executor'.cancelled = executor.cancelled
          /\ executor'.lost = executor.lost
      BY <1>1, <3>1
    <3> HIDE <1>4
    <3> HIDE DEF Job!ListFiles
    <3>4. JobTypes' /\ JobInside'
      BY <1>1, <2>1, <3>2 DEF JobTypes, JobInside
    <3>5. JobMeets'
      BY <1>1, <2>1, <3>3 DEF JobMeets, Uncopied, BeforeRun, JobParts, Job!Polling, Job!Collecting
    <3>6. JobCopies'
      BY <1>1, <2>1, <3>3 DEF JobCopies, Uncopied, BeforeRun, JobParts, Job!Polling
    <3>7. JobCleans'
      BY <1>1, <2>1, <3>3 DEF JobCleans
    <3>8. JobAlone'
      BY <1>1, <2>1, <3>3 DEF JobAlone, Job!Polling
    <3> QED
      BY <3>4, <3>5, <3>6, <3>7, <3>8 DEF JobInv
  <2>3. CASE ~(Job!Running /\ inside.files # {})
    <3>1. Job!Throw("export")
      BY <2>3
    <3>2. CASE ~Job!Running
      BY <1>3, <2>1, <3>1, <3>2
    <3>3. CASE inside.files = {}
      <4>1. inside.job # -1 /\ inside.job # 0
        BY <1>1, <1>2, <2>1, <3>3, JobAssumption DEF JobInside, Job!Collecting
      <4> HIDE <1>4
      <4> QED
        BY <1>1, <2>1, <3>1, <4>1, PlainThrowKeeps DEF JobErrors
    <3> QED
      BY <2>3, <3>2, <3>3
  <2> QED
    BY <2>2, <2>3
<1>5. ASSUME NEW f \in BundleFiles, Job!CopyFile(f)
      PROVE  JobInv'
  <2> USE <1>5 DEF Job!CopyFile
  <2>1. executor.pc = "copying" /\ UNCHANGED <<resources, inside, beat, disturbed>>
    OBVIOUS
  <2>2. CASE Job!Running
    <3> USE JobFields, <2>2
    <3>1. /\ executor' = [executor EXCEPT !.exported = @ \cup {f}]
          /\ f \in executor.listing
      OBVIOUS
    <3>2. executor' \in Executors
      BY <1>1, <3>1 DEF JobTypes, Executors
    <3>3. /\ executor'.pc = executor.pc /\ executor'.exit = executor.exit
          /\ executor'.active = executor.active /\ executor'.unclean = executor.unclean
          /\ executor'.listing = executor.listing
          /\ executor'.exported = executor.exported \cup {f}
          /\ executor'.late = executor.late /\ executor'.cancelled = executor.cancelled
          /\ executor'.lost = executor.lost
      BY <1>1, <3>1
    <3> HIDE <1>5
    <3> HIDE DEF Job!CopyFile
    <3>4. JobTypes' /\ JobInside'
      BY <1>1, <2>1, <3>2 DEF JobTypes, JobInside
    <3>5. JobMeets'
      BY <1>1, <2>1, <3>3 DEF JobMeets
    <3>6. JobCopies'
      <4>1. inside.job # -1
        BY <1>2, <2>1 DEF Job!Collecting
      <4> QED
        BY <1>1, <2>1, <3>1, <3>3, <4>1
        DEF JobCopies, Uncopied, BeforeRun, JobParts, Job!Polling
    <3>7. JobCleans'
      BY <1>1, <2>1, <3>3 DEF JobCleans
    <3>8. JobAlone'
      BY <1>1, <2>1, <3>3 DEF JobAlone
    <3> QED
      BY <3>4, <3>5, <3>6, <3>7, <3>8 DEF JobInv
  <2>3. CASE ~Job!Running
    BY <1>3, <2>1, <2>3
  <2> QED
    BY <2>2, <2>3
<1>6. ASSUME Job!Acknowledge
      PROVE  JobInv'
  <2> USE <1>6 DEF Job!Acknowledge
  <2>1. /\ executor.pc = "copying" /\ UNCHANGED <<resources, beat, disturbed>>
        /\ executor.exported = executor.listing
        /\ inside' = [inside EXCEPT !.collected = Job!Running]
    OBVIOUS
  <2>2. inside' \in Containers
    BY <1>1, <2>1 DEF JobTypes, Containers
  <2>3. /\ inside'.container = inside.container /\ inside'.supervisor = inside.supervisor
        /\ inside'.job = inside.job /\ inside'.marker = inside.marker
        /\ inside'.files = inside.files /\ inside'.interrupted = inside.interrupted
        /\ Job!Running => inside'.collected
    BY <1>1, <2>1, JobFields
  <2>4. JobInside'
    BY <1>1, <2>3 DEF JobInside
  <2>5. CASE Job!Running
    <3>1. Job!GoTo("waiting") /\ "waiting" \in JobPcs
      BY <2>5 DEF JobPcs, Job!Collecting
    <3> HIDE <1>6
    <3> HIDE DEF Job!Acknowledge
    <3> USE GoToFields, <1>1, <3>1
    <3>2. JobTypes'
      BY <2>1, <2>2 DEF JobTypes
    <3>3. JobMeets'
      BY <2>1, <2>3, <2>5
      DEF JobMeets, Uncopied, BeforeRun, JobParts, Job!Polling, Job!Collecting
    <3>4. JobCopies'
      BY <2>1, <2>3 DEF JobCopies, Uncopied, BeforeRun, JobParts, Job!Polling
    <3>5. JobCleans'
      BY <2>1, <2>3 DEF JobCleans
    <3>6. JobAlone'
      BY <2>1, <2>3, <2>5 DEF JobAlone, Job!Polling
    <3> QED
      BY <2>4, <3>2, <3>3, <3>4, <3>5, <3>6 DEF JobInv
  <2>6. CASE ~Job!Running
    <3>1. Job!Throw("export") /\ "export" \in JobErrors
      BY <2>6 DEF JobErrors
    <3>2. disturbed
      BY <1>1, <2>1, <2>6 DEF JobAlone
    <3> HIDE <1>6
    <3> HIDE DEF Job!Acknowledge
    <3> QED
      BY <1>1, <2>1, <2>2, <2>3, <2>4, <3>1, <3>2, ThrowKeeps
  <2> QED
    BY <2>5, <2>6
<1>7. ASSUME Job!Wait
      PROVE  JobInv'
  <2> USE <1>7 DEF Job!Wait
  <2>1. /\ executor.pc = "waiting" /\ UNCHANGED <<resources, inside, beat, disturbed>>
        /\ ~Job!Running
    OBVIOUS
  <2>2. CASE inside.container = "stopped" /\ inside.code = executor.exit
    <3>1. Job!GoTo("checking") /\ "checking" \in JobPcs
      BY <2>2 DEF JobPcs, Job!Collecting
    <3> HIDE <1>7
    <3> HIDE DEF Job!Wait
    <3> USE GoToFields, <1>1, <3>1
    <3>2. JobTypes' /\ JobInside'
      BY <2>1 DEF JobTypes, JobInside
    <3>3. JobMeets'
      BY <2>1 DEF JobMeets, Uncopied, BeforeRun, JobParts, Job!Polling, Job!Collecting
    <3>4. JobCopies'
      BY <2>1 DEF JobCopies, Uncopied, BeforeRun, JobParts, Job!Polling
    <3>5. JobCleans'
      BY <2>1 DEF JobCleans
    <3>6. JobAlone'
      BY <2>1 DEF JobAlone, Job!Polling
    <3> QED
      BY <3>2, <3>3, <3>4, <3>5, <3>6 DEF JobInv
  <2>3. CASE ~(inside.container = "stopped" /\ inside.code = executor.exit)
    <3>1. Job!Throw("mismatch") /\ "mismatch" \in JobErrors
      BY <2>3 DEF JobErrors
    <3>2. disturbed
      BY <1>1, <1>2, <2>1, <2>3 DEF JobAlone, Job!Collecting
    <3> HIDE <1>7
    <3> HIDE DEF Job!Wait
    <3> QED
      BY <1>1, <2>1, <3>1, <3>2, PlainThrowKeeps
  <2> QED
    BY <2>2, <2>3
<1>8. ASSUME Job!Check
      PROVE  JobInv'
  <2> DEFINE error == IF executor.cancelled THEN "cancelled"
                      ELSE IF executor.exit # 0 THEN "harness"
                      ELSE IF Result \notin executor.exported THEN "incomplete" ELSE "none"
  <2>1. /\ executor.pc = "checking" /\ UNCHANGED <<resources, inside, beat, disturbed>>
        /\ Job!Throw(error)
    BY <1>8 DEF Job!Check
  <2>2. executor.exit = inside.job /\ inside.job # -1
    BY <1>2, <2>1 DEF Job!Collecting
  <2>3. inside.job = 0 => executor.exported = BundleFiles
    BY <1>1, <2>1 DEF JobCopies, JobInside
  <2>4. ~disturbed => ~executor.cancelled
    BY <1>1 DEF JobAlone
  <2>5. error \in JobErrors
    BY DEF JobErrors
  <2>6. error = "none" => inside.job = 0
    BY <2>2
  <2>7. ~disturbed => (inside.job = 0 => error = "none")
    BY <2>2, <2>3, <2>4, JobAssumption
  <2> HIDE DEF error
  <2> QED
    BY <1>1, <2>1, <2>2, <2>3, <2>5, <2>6, <2>7, PlainThrowKeeps
<1>9. ASSUME Job!CallFails
      PROVE  JobInv'
  <2>1. /\ executor.pc # "ended" /\ UNCHANGED <<resources, inside, beat>> /\ disturbed' = TRUE
    BY <1>9 DEF Job!CallFails, Job!Polling, Job!Collecting
  <2>2. PICK error \in {"lost", "call"} : Job!Throw(error)
    BY <1>9, Zenon DEF Job!CallFails, Job!PollThrow
  <2>3. error \in JobErrors /\ error # "none"
    BY <2>2 DEF JobErrors
  <2> QED
    BY <2>1, <2>2, <2>3, PlainThrowKeeps
<1> QED
  BY <1>4, <1>5, <1>6, <1>7, <1>8, <1>9

(* The clean-up keeps the invariant. *)
LEMMA CleanUpKeeps ==
  ASSUME JobInv, Job!CleanUp \/ Job!Settle
  PROVE  JobInv'
<1> USE JobFields DEF Job!Codes, Job!NoCode, Job!Running, Job!At, Job!ExecutorOnly
<1>1. /\ JobTypes /\ JobInside /\ JobMeets /\ JobCopies /\ JobCleans /\ JobAlone
      /\ disturbed \in BOOLEAN
  BY DEF JobInv, JobTypes
<1>2. ASSUME Job!CleanUp
      PROVE  JobInv'
  <2> DEFINE x == Job!FirstToRemove
             refused == x = "network" /\ resources \cap {"proxy", "worker"} # {}
  <2>1. PICK fails \in BOOLEAN :
              /\ refused => fails
              /\ resources' = IF fails THEN resources ELSE resources \ {x}
              /\ inside' = IF x = "worker" /\ ~fails THEN [inside EXCEPT !.container = "absent"] ELSE inside
              /\ executor' = [executor EXCEPT !.active = @ \ {x}, !.unclean = @ \/ fails]
              /\ disturbed' = (disturbed \/ (fails /\ ~refused))
    BY <1>2, Zenon DEF Job!CleanUp
  <2>2. executor.pc = "cleaning" /\ beat' = beat
    BY <1>2 DEF Job!CleanUp
  <2>3. x = "network" => executor.active \cap {"proxy", "worker"} = {}
    BY DEF Job!FirstToRemove
  <2> HIDE DEF x
  <2>4. executor' \in Executors
    BY <1>1, <2>1 DEF JobTypes, Executors
  <2>5. /\ executor'.pc = "cleaning" /\ executor'.active = executor.active \ {x}
        /\ executor'.unclean = (executor.unclean \/ fails)
        /\ executor'.exported = executor.exported /\ executor'.listing = executor.listing
        /\ executor'.error = executor.error /\ executor'.late = executor.late
        /\ executor'.cancelled = executor.cancelled /\ executor'.lost = executor.lost
    BY <1>1, <2>1, <2>2
  <2>6. inside' \in Containers
    BY <1>1, <2>1 DEF JobTypes, Containers
  <2>7. /\ inside'.supervisor = inside.supervisor /\ inside'.job = inside.job
        /\ inside'.marker = inside.marker /\ inside'.files = inside.files
        /\ inside'.interrupted = inside.interrupted
    BY <1>1, <2>1
  <2>8. ~disturbed' => ~disturbed /\ ~fails
    <3>1. ~disturbed => ~refused
      BY <1>1, <2>3 DEF JobAlone, JobCleans
    <3> QED
      BY <1>1, <2>1, <3>1
  <2>9. resources' \subseteq resources /\ disturbed' \in BOOLEAN
    BY <1>1, <2>1
  <2>10. ~fails => x \notin resources'
    BY <2>1
  <2>11. JobTypes'
    BY <1>1, <2>2, <2>4, <2>6, <2>9 DEF JobTypes
  <2> HIDE DEF refused
  <2>12. JobInside'
    BY <1>1, <2>7 DEF JobInside
  <2>13. JobMeets'
    BY <2>5 DEF JobMeets, Uncopied, BeforeRun, JobParts, Job!Polling, Job!Collecting
  <2>14. JobCopies'
    BY <1>1, <2>5, <2>7 DEF JobCopies, Uncopied, BeforeRun, JobParts, Job!Polling
  <2>15. JobCleans'
    BY <1>1, <2>2, <2>5, <2>7, <2>9, <2>10 DEF JobCleans
  <2>16. JobAlone'
    BY <1>1, <2>2, <2>5, <2>7, <2>8 DEF JobAlone, Uncopied, BeforeRun, JobParts, Job!Polling
  <2> QED
    BY <2>11, <2>12, <2>13, <2>14, <2>15, <2>16 DEF JobInv
<1>3. ASSUME Job!Settle
      PROVE  JobInv'
  <2> DEFINE error == IF executor.error = "none" /\ executor.unclean THEN "unclean" ELSE executor.error
  <2>1. /\ executor.pc = "cleaning" /\ executor.active = {}
        /\ UNCHANGED <<resources, inside, beat, disturbed>>
        /\ executor' = [executor EXCEPT !.pc = "ended", !.error = error]
    BY <1>1, <1>3 DEF Job!Settle
  <2>2. error \in JobErrors /\ "ended" \in JobPcs
    BY <1>1 DEF JobErrors, JobPcs
  <2>3. /\ error = "none" => executor.error = "none" /\ ~executor.unclean
        /\ ~executor.unclean => error = executor.error
    OBVIOUS
  <2> HIDE DEF error
  <2>4. executor' \in Executors
    BY <1>1, <2>1, <2>2 DEF JobTypes, Executors
  <2>5. /\ executor'.pc = "ended" /\ executor'.active = {} /\ executor'.error = error
        /\ executor'.unclean = executor.unclean
        /\ executor'.exported = executor.exported /\ executor'.listing = executor.listing
        /\ executor'.late = executor.late
        /\ executor'.cancelled = executor.cancelled /\ executor'.lost = executor.lost
    BY <1>1, <2>1
  <2>6. JobTypes' /\ JobInside'
    BY <1>1, <2>1, <2>4 DEF JobTypes, JobInside
  <2>7. JobMeets'
    BY <2>5 DEF JobMeets, Uncopied, BeforeRun, JobParts, Job!Polling, Job!Collecting
  <2>8. JobCopies'
    BY <1>1, <2>1, <2>5 DEF JobCopies, Uncopied, BeforeRun, JobParts, Job!Polling
  <2>9. JobCleans'
    BY <1>1, <2>1, <2>3, <2>5 DEF JobCleans
  <2>10. JobAlone'
    BY <1>1, <2>1, <2>3, <2>5 DEF JobAlone, Uncopied, BeforeRun, JobParts, Job!Polling
  <2> QED
    BY <2>6, <2>7, <2>8, <2>9, <2>10 DEF JobInv
<1> QED
  BY <1>2, <1>3

(* Every step of a job keeps the invariant. *)
LEMMA JobStep == JobInv /\ [Job!Next]_jobVars => JobInv'
<1> SUFFICES ASSUME JobInv, [Job!Next]_jobVars
             PROVE  JobInv'
  OBVIOUS
<1>1. /\ JobTypes /\ JobInside /\ JobMeets /\ JobCopies /\ JobCleans /\ JobAlone
      /\ disturbed \in BOOLEAN
  BY DEF JobInv, JobTypes
<1>2. ASSUME Job!Beat
      PROVE  JobInv'
  <2> USE <1>1, <1>2, JobFields DEF Job!Beat
  <2>1. PICK c \in BOOLEAN, l \in BOOLEAN :
            executor' = [executor EXCEPT !.cancelled = c, !.lost = l]
    <3>1. CASE executor' = [executor EXCEPT !.cancelled = TRUE]
      <4>1. executor' = [executor EXCEPT !.cancelled = TRUE, !.lost = executor.lost]
        BY <3>1 DEF JobTypes, Executors
      <4> QED
        BY <4>1
    <3>2. CASE executor' = [executor EXCEPT !.lost = TRUE]
      <4>1. executor' = [executor EXCEPT !.cancelled = executor.cancelled, !.lost = TRUE]
        BY <3>2 DEF JobTypes, Executors
      <4> QED
        BY <4>1
    <3> QED
      BY <3>1, <3>2
  <2>2. executor' \in Executors
    BY <2>1 DEF JobTypes, Executors
  <2>3. /\ executor'.pc = executor.pc /\ executor'.exit = executor.exit
        /\ executor'.active = executor.active /\ executor'.unclean = executor.unclean
        /\ executor'.listing = executor.listing /\ executor'.exported = executor.exported
        /\ executor'.error = executor.error
    BY <2>1
  <2>4. UNCHANGED <<resources, inside>> /\ disturbed' = TRUE /\ beat' = "kill"
    OBVIOUS
  <2> HIDE <1>2
  <2> HIDE DEF Job!Beat
  <2>5. JobTypes' /\ JobAlone'
    BY <2>2, <2>4 DEF JobTypes, JobAlone
  <2>6. JobInside' /\ JobMeets'
    BY <2>3, <2>4 DEF JobInside, JobMeets, Job!Running
  <2>7. JobCopies' /\ JobCleans'
    BY <2>3, <2>4 DEF JobCopies, JobCleans
  <2> QED
    BY <2>5, <2>6, <2>7 DEF JobInv
<1>3. ASSUME Job!Kill \/ Job!Reap
      PROVE  JobInv'
  <2> USE <1>1, JobFields
  <2>1. /\ inside' \in Containers
        /\ inside'.supervisor = inside.supervisor /\ inside'.job = inside.job
        /\ inside'.marker = inside.marker /\ inside'.files = inside.files
        /\ inside'.collected = inside.collected /\ inside'.interrupted = inside.interrupted
        /\ inside'.container = "running" => inside.container = "running"
    <3>1. CASE inside' = inside
      BY <3>1 DEF JobTypes
    <3>2. CASE inside' = [inside EXCEPT !.container = "stopped", !.code = 137]
      BY ZenonT(60), <3>2 DEF JobTypes, Containers, JobCodes, Job!Codes
    <3>3. CASE inside' = [inside EXCEPT !.container = "absent"]
      BY <3>3 DEF JobTypes, Containers
    <3> QED
      BY <1>3, <3>1, <3>2, <3>3 DEF Job!Kill, Job!Reap, Job!MayKill, Job!Stopped
  <2>2. /\ executor' = executor /\ resources' \subseteq resources /\ disturbed'
        /\ disturbed' \in BOOLEAN /\ beat' \in {"idle", "kill"}
    BY <1>3 DEF Job!Kill, Job!Reap, JobTypes, JobAlone
  <2>3. JobTypes' /\ JobAlone'
    BY <2>1, <2>2 DEF JobTypes, JobAlone
  <2>4. JobInside'
    BY <2>1 DEF JobInside
  <2>5. JobMeets'
    BY <2>1, <2>2 DEF JobMeets, Job!Running
  <2>6. JobCopies' /\ JobCleans'
    BY <2>1, <2>2 DEF JobCopies, JobCleans
  <2> QED
    BY <2>3, <2>4, <2>5, <2>6 DEF JobInv
<1>4. ASSUME UNCHANGED jobVars
      PROVE  JobInv'
  BY <1>1, <1>4
  DEF jobVars, JobInv, JobTypes, JobInside, JobMeets, JobCopies, JobCleans, JobAlone, Job!Running
<1> QED
  BY <1>2, <1>3, <1>4, InsideKeeps, LaunchKeeps, PollKeeps, CollectKeeps, CleanUpKeeps
  DEF Job!Next, JobParts

(* What a job starts from. *)
LEMMA JobStart == Job!Init => JobInv
<1> SUFFICES ASSUME Job!Init
             PROVE  JobInv
  OBVIOUS
<1> USE DEF Job!Init, Job!NoCode, Job!Running
<1>1. JobTypes
  BY DEF JobTypes, Containers, Executors, JobCodes, JobPcs, JobErrors, BeforeRun, JobParts
<1> QED
  BY <1>1
  DEF JobInv, JobInside, JobMeets, JobCopies, JobCleans, JobAlone, Uncopied, BeforeRun, JobParts,
      Job!Polling, Job!Collecting

(* The invariant says what a job promises. *)
LEMMA JobPromise == JobInv => Job!BundleCollected
<1> SUFFICES ASSUME JobInv
             PROVE  Job!BundleCollected
  OBVIOUS
<1> USE DEF JobInv, Job!At, Job!NoCode, Job!Collecting
<1>1. /\ executor.exported # {} => inside.job # Job!NoCode
      /\ executor.pc = "waiting" /\ Job!Running =>
             inside.collected /\ inside.supervisor \in {"holding", "leaving"}
  BY DEF JobCopies, JobMeets, JobInside
<1>2. /\ executor.pc = "ended" /\ executor.error = "none" =>
             executor.exported = BundleFiles /\ inside.job = 0 /\ ~executor.unclean
      /\ executor.pc = "ended" /\ ~executor.unclean => resources = {}
  BY DEF JobCleans
<1>3. executor.pc = "ended" /\ ~disturbed /\ inside.job = 0 => executor.error \in {"none", "malformed"}
  BY DEF JobAlone
<1> QED
  BY <1>1, <1>2, <1>3 DEF Job!BundleCollected

-----------------------------------------------------------------------------
(* The run queue.  RunQueueProofs has its invariant; here it is    *)
(* that of the queue among the services.                                   *)

Proved == INSTANCE RunQueueProofs WITH NoWorker <- NoOne, Punctual <- Workers

(* The queue of the services is the queue that the proofs are about. *)
LEMMA QueueIsProved ==
  /\ Queue!Init => Proved!Init
  /\ [Queue!Next]_queueVars => [Proved!Next]_Proved!vars
<1>1. Queue!Init => Proved!Init
  BY DEF Queue!NoRow, Proved!NoRow, Queue!Idle, Proved!Idle, Queue!Resting, Proved!Resting,
         Queue!NoObjects, Proved!NoObjects, Queue!Init, Proved!Init
<1>2. Queue!Next => Proved!Next
  BY DEF Queue!ReaperId, Proved!ReaperId, Queue!Attempts, Proved!Attempts, Queue!Settled,
         Proved!Settled, Queue!Verdicts, Proved!Verdicts, Queue!NoRow, Proved!NoRow,
         Queue!HeartbeatPCs, Proved!HeartbeatPCs, Queue!Idle, Proved!Idle, Queue!Resting,
         Proved!Resting, Queue!NoObjects, Proved!NoObjects, Queue!Submit, Proved!Submit,
         Queue!Cancel, Proved!Cancel, Queue!LeaseExpires, Proved!LeaseExpires,
         Queue!RetentionExpires, Proved!RetentionExpires, Queue!Step, Proved!Step, Queue!Owns,
         Proved!Owns, Queue!FailurePC, Proved!FailurePC, Queue!Claim, Proved!Claim, Queue!Launch,
         Proved!Launch, Queue!Heartbeat, Proved!Heartbeat, Queue!HasContainer, Proved!HasContainer,
         Queue!KillContainer, Proved!KillContainer, Queue!Throw, Proved!Throw, Queue!SeeMarker,
         Proved!SeeMarker, Queue!Export, Proved!Export, Queue!ClearDestination,
         Proved!ClearDestination, Queue!Rename, Proved!Rename, Queue!Hash, Proved!Hash,
         Queue!CleanUp, Proved!CleanUp, Queue!UploadObject, Proved!UploadObject, Queue!UploadFails,
         Proved!UploadFails, Queue!MayCommit, Proved!MayCommit, Queue!Commit, Proved!Commit,
         Queue!CommitFails, Proved!CommitFails, Queue!Release, Proved!Release,
         Queue!CheckOwnership, Proved!CheckOwnership, Queue!PurgeRemote, Proved!PurgeRemote,
         Queue!Discard, Proved!Discard, Queue!Released, Proved!Released, Queue!StatusAfter,
         Proved!StatusAfter, Queue!RecordFailure, Proved!RecordFailure, Queue!Crash, Proved!Crash,
         Queue!LeaseLapsed, Proved!LeaseLapsed, Queue!BeginRecovery, Proved!BeginRecovery,
         Queue!Reap, Proved!Reap, Queue!HoldsForRecovery, Proved!HoldsForRecovery, Queue!Requeue,
         Proved!Requeue, Queue!AuditRecovery, Proved!AuditRecovery, Queue!EndRecovery,
         Proved!EndRecovery, Queue!Purgeable, Proved!Purgeable, Queue!PurgeRows, Proved!PurgeRows,
         Queue!SweepStore, Proved!SweepStore, Queue!SweepLocal, Proved!SweepLocal, Queue!Dequeue,
         Proved!Dequeue, Queue!SweepFails, Proved!SweepFails, Queue!WorkerStep, Proved!WorkerStep,
         Queue!RecoveryStep, Proved!RecoveryStep, Queue!MaintenanceStep, Proved!MaintenanceStep,
         Queue!Next, Proved!Next
<1>3. UNCHANGED queueVars => UNCHANGED Proved!vars
  BY DEF queueVars, Proved!vars
<1> QED
  BY <1>1, <1>2, <1>3

(* The queue's invariant holds at the start, every step keeps it, and it   *)
(* says what is promised.                                                  *)
LEMMA QueueStart == Queue!Init => Proved!EvidenceInv
BY QueueIsProved, Proved!EvidenceInit, QueueServed
DEF Queue!Reapers, Queue!ReaperId, Proved!Reapers, Proved!ReaperId

LEMMA QueueStep == Proved!EvidenceInv /\ [Queue!Next]_queueVars => Proved!EvidenceInv'
BY QueueIsProved, Proved!EvidenceNext, QueueServed
DEF Queue!Reapers, Queue!ReaperId, Proved!Reapers, Proved!ReaperId

LEMMA QueuePromise ==
  Proved!EvidenceInv =>
      Queue!EvidenceMatchesResult /\ Queue!LiveJobKeepsItsContainer /\ Queue!PurgedEvidenceGone
<1> SUFFICES ASSUME Proved!EvidenceInv
             PROVE  /\ Queue!EvidenceMatchesResult /\ Queue!LiveJobKeepsItsContainer
                    /\ Queue!PurgedEvidenceGone
  OBVIOUS
<1>1. Proved!EvidenceMatchesResult /\ Proved!PurgedEvidenceGone
  BY DEF Proved!EvidenceInv
<1>2. Proved!LiveJobKeepsItsContainer
  BY DEF Proved!EvidenceInv, Proved!BundleInv, Proved!ContainerThere, Proved!LiveJobKeepsItsContainer
<1>3. Queue!EvidenceMatchesResult
  BY <1>1 DEF Queue!EvidenceMatchesResult, Proved!EvidenceMatchesResult, Queue!NoObjects, Proved!NoObjects
<1>4. Queue!PurgedEvidenceGone
  BY <1>1 DEF Queue!PurgedEvidenceGone, Proved!PurgedEvidenceGone, Queue!NoObjects, Proved!NoObjects
<1>5. Queue!LiveJobKeepsItsContainer
  BY <1>2 DEF Queue!LiveJobKeepsItsContainer, Proved!LiveJobKeepsItsContainer, Queue!Owns, Proved!Owns
<1> QED
  BY <1>3, <1>4, <1>5

(* In every behaviour of the services an evaluation, a label or a stored   *)
(* object is gone only together with what it belonged to, and the audit    *)
(* event or the entry of the queue says so: the routes of server.js, the   *)
(* purge and the sweep of maintenance.js, and the workers.                 *)
THEOREM AccountedTheorem == ServicesSpec => []EvidenceAccounted
<1> DEFINE Inv == /\ subject = "retention" => RetentionInv
                  /\ subject = "sweep"     => SweepInv
                  /\ subject = "queue"     => Proved!EvidenceInv
<1>1. ServicesInit => Inv
  BY RetentionStart, SweepStart, QueueStart DEF ServicesInit
<1>2. Inv /\ [ServicesNext /\ UNCHANGED subject]_<<subject, serviceVars>> => Inv'
  <2> SUFFICES ASSUME Inv, [ServicesNext /\ UNCHANGED subject]_<<subject, serviceVars>>
               PROVE  Inv'
    OBVIOUS
  <2>1. /\ UNCHANGED subject
        /\ subject = "retention" => [Retention!Next]_retentionVars
        /\ subject = "sweep"     => [Sweep!Next]_sweepVars
        /\ subject = "queue"     => [Queue!Next]_queueVars
    BY DEF ServicesNext, serviceVars
  <2> QED
    BY <2>1, RetentionStep, SweepStep, QueueStep
<1>3. Inv => EvidenceAccounted
  BY QueuePromise DEF EvidenceAccounted, RetentionInv, SweepInv
<1> QED
  BY <1>1, <1>2, <1>3, PTL DEF ServicesSpec

(* In every behaviour of the services an attempt that was overtaken mixes  *)
(* nothing into another's result and takes no live job its container, and  *)
(* a bundle that is published undisturbed is whole (worker.js and          *)
(* local-worker.js).                                                       *)
THEOREM AttemptTheorem == ServicesSpec => []AttemptKeepsItsOwn
<1> DEFINE Inv == /\ subject = "queue" => Proved!EvidenceInv
                  /\ subject = "job"   => JobInv
<1>1. ServicesInit => Inv
  BY QueueStart, JobStart DEF ServicesInit
<1>2. Inv /\ [ServicesNext /\ UNCHANGED subject]_<<subject, serviceVars>> => Inv'
  <2> SUFFICES ASSUME Inv, [ServicesNext /\ UNCHANGED subject]_<<subject, serviceVars>>
               PROVE  Inv'
    OBVIOUS
  <2>1. /\ UNCHANGED subject
        /\ subject = "queue" => [Queue!Next]_queueVars
        /\ subject = "job"   => [Job!Next]_jobVars
    BY DEF ServicesNext, serviceVars
  <2> QED
    BY <2>1, QueueStep, JobStep
<1>3. Inv => AttemptKeepsItsOwn
  BY QueuePromise, JobPromise DEF AttemptKeepsItsOwn
<1> QED
  BY <1>1, <1>2, <1>3, PTL DEF ServicesSpec

-----------------------------------------------------------------------------
(* The types: the invariants have them.                                    *)

(* So do the evaluations and the labels. *)
LEMMA RetentionTyped == RetentionInv => Retention!TypeOK
BY DEF RetentionInv

(* The executor is where one of its steps is, with files of the bundle.  *)
LEMMA JobTyped == JobInv => Job!TypeOK
<1> SUFFICES ASSUME JobInv
             PROVE  Job!TypeOK
  OBVIOUS
<1>1. JobTypes /\ executor.exported \subseteq executor.listing
  BY DEF JobInv, JobCopies
<1>2. inside \in Containers /\ executor.listing \subseteq BundleFiles
  BY <1>1 DEF JobTypes, Executors
<1>3. executor.pc \in {"network", "proxy", "worker", "starting", "cleaning", "ended"}
                         \cup Job!Polling \cup Job!Collecting
  BY <1>1, JobFields DEF JobPcs, BeforeRun, JobParts
<1> QED
  BY <1>1, <1>2, <1>3 DEF JobTypes, JobParts, JobCodes, Containers, Job!TypeOK

(* The queue's types are those of its proved instance. *)
LEMMA QueueTyped == Proved!EvidenceInv => Queue!TypeOK
<1> SUFFICES ASSUME Proved!EvidenceInv
             PROVE  Queue!TypeOK
  OBVIOUS
<1>1. Proved!TypeOK
  BY DEF Proved!EvidenceInv, Proved!BundleInv, Proved!LeaseInv, Proved!TypeInv
<1> QED
  BY <1>1 DEF Proved!TypeOK, Proved!Row, Proved!Proc, Proved!Maint, Proved!Settled, Proved!Verdicts,
              Proved!Reapers, Proved!ReaperId, Proved!Attempts, Proved!PCs, Proved!JobPCs,
              Proved!HeartbeatPCs, Proved!RecoveryPCs,
              Queue!TypeOK, Queue!Row, Queue!Proc, Queue!Maint, Queue!Settled, Queue!Verdicts,
              Queue!Reapers, Queue!ReaperId, Queue!Attempts, Queue!PCs, Queue!JobPCs,
              Queue!HeartbeatPCs, Queue!RecoveryPCs

(* An entry stands in the queue once, so as many wait as there are entries.*)
LEMMA SweepTyped == SweepInv => Sweep!TypeOK
<1> SUFFICES ASSUME SweepInv
             PROVE  Sweep!TypeOK
  OBVIOUS
<1>1. purgeLog \in Seq(PurgedRuns) /\ Distinct(purgeLog)
  BY DEF SweepInv
<1>2. Sweep!Waiting = {purgeLog[i] : i \in 1..Len(purgeLog)} /\ Sweep!Waiting \subseteq PurgedRuns
  BY <1>1, WaitingIsRange
<1> DEFINE at == [i \in 1..Len(purgeLog) |-> purgeLog[i]]
<1>3. at \in Bijection(1..Len(purgeLog), Sweep!Waiting)
  BY <1>1, <1>2 DEF Distinct, Bijection, Injection, Surjection, IsInjective
<1>4. Len(purgeLog) \in Nat
  BY <1>1
<1>5. Cardinality(Sweep!Waiting) = Len(purgeLog)
  <2>1. IsFiniteSet(1..Len(purgeLog)) /\ Cardinality(1..Len(purgeLog)) = Len(purgeLog)
    BY <1>4, FS_Interval
  <2> QED
    BY <1>3, <2>1, FS_Bijection DEF ExistsBijection
<1>6. Sweep!Cardinality(Sweep!Waiting) = Cardinality(Sweep!Waiting)
  BY DEF Sweep!Cardinality, Cardinality, Sweep!IsFiniteSet, IsFiniteSet
<1> QED
  BY <1>2, <1>5, <1>6 DEF SweepInv, Sweep!TypeOK
=============================================================================
