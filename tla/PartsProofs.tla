----------------------------- MODULE PartsProofs -----------------------------
(***************************************************************************)
(* Every part keeps to its types, for all values of the parameters.  The   *)
(* proof modules of the parts say of each that what it keeps has the types *)
(* and is kept; here they are joined into TypeTheorem.                     *)
(***************************************************************************)
EXTENDS MCParts, ServicesProofs, ServiceEvidenceProofs, SessionProofs

-----------------------------------------------------------------------------
(* All parts together.                                                     *)

(* What each service keeps, and the types it has by it. *)
ServicesKept ==
    /\ subject = "shares"    => SharesInv
    /\ subject = "reviews"   => ReviewInv
    /\ subject = "retention" => RetentionInv
    /\ subject = "sweep"     => SweepInv
    /\ subject = "accounts"  => AccountsInv /\ TokensTyped
    /\ subject = "queue"     => Proved!EvidenceInv
    /\ subject = "job"       => JobInv
    /\ subject = "images"    => ImagesInv /\ ReviewsCounted
    /\ subject = "page"      => PageInv
    /\ subject = "card"      => CardInv /\ ContractsTyped

(* What the services keep has the types. *)
LEMMA ServicesTyped == ServicesKept => ServicesTypeOK
BY SharesTyped, ReviewsTyped, RetentionTyped, SweepTyped, AccountsTyped, QueueTyped, JobTyped, ImagesTyped,
   CardTyped
DEF ServicesKept, ServicesTypeOK, PageInv

(* Each service starts with what it keeps. *)
LEMMA ServicesStart == ServicesInit => ServicesKept
BY SharesStart, ReviewStart, RetentionStart, SweepStart, AccountsStart, TokensStart, QueueStart, JobStart,
   ImagesStart, ReviewsStart, PageStart, CardStart, ContractsStart
DEF ServicesInit, ServicesKept

(* A step is one of the part looked at, or changes nothing of it. *)
LEMMA ServicesStep ==
  ASSUME ServicesKept, UNCHANGED subject, ServicesNext \/ UNCHANGED serviceVars
  PROVE  ServicesKept'
<1>1. /\ subject = "shares"    => [Shares!Next]_shareVars
      /\ subject = "reviews"   => [Reviews!Next]_reviewVars
      /\ subject = "retention" => [Retention!Next]_retentionVars
      /\ subject = "sweep"     => [Sweep!Next]_sweepVars
      /\ subject = "accounts"  => [Accounts!Next]_accountVars
      /\ subject = "queue"     => [Queue!Next]_queueVars
      /\ subject = "job"       => [Job!Next]_jobVars
      /\ subject = "images"    => [Images!Next]_imageVars
      /\ subject = "page"      => [Page!Next]_studioVars
      /\ subject = "card"      => [Card!Next]_cardVars
  BY DEF ServicesNext, serviceVars
<1> QED
  BY <1>1, SharesStep, ReviewStep, RetentionStep, SweepStep, AccountsStep, TokensStep, QueueStep, JobStep,
     ImagesStep, ReviewsStep, PageTyped, CardStep, ContractsStep
  DEF ServicesKept

(* What each part of a job keeps, and the types it has by it. *)
LabKept ==
    /\ subject = "orbital"   => OrbitalInv /\ DriverTyped
    /\ subject = "generic"   => GenericInv /\ DeviceTyped
    /\ subject = "cdp"       => CdpInv /\ ConnectionTyped
    /\ subject = "egress"    => EgressInv
    /\ subject = "preflight" => PreflightInv /\ ProbeTyped
    /\ subject = "decision"  => DecisionInv /\ KindsKept
    /\ subject = "score"     => ScoreInv /\ FramesTyped
    /\ subject = "judge"     => JudgeInv /\ BatchTyped
    /\ subject = "findings"  => FindingsInv /\ Findings!TypeOK

(* What the parts of a job keep has the types. *)
LEMMA LabTyped == LabKept => LabTypeOK
BY OrbitalTypes, GenericTypes, ConnectionTypes, EgressTypes, PreflightTypes, DecisionTypes, ScoreTypes,
   JudgeTypes
DEF LabKept, LabTypeOK

(* Each part of a job starts with what it keeps. *)
LEMMA LabStart == LabInit => LabKept
<1>1. Findings!Init => FindingsInv
  BY DEF FindingsInv, Findings!Init
<1> QED
  BY <1>1, OrbitalStart, DriverStart, GenericStart, DeviceStart, CdpStart, ConnectionStart, EgressStart,
     PreflightStart, ProbeStart, DecisionStart, KindsStart, ScoreStart, FramesStart, JudgeStart, BatchStart,
     FindingsStart
  DEF LabInit, LabKept

(* Where a part of a job stands still, its types do. *)
LEMMA TypesStutter ==
  /\ DriverTyped /\ UNCHANGED experienceVars => DriverTyped'
  /\ DeviceTyped /\ UNCHANGED genericVars => DeviceTyped'
  /\ ConnectionTyped /\ UNCHANGED cdpVars => ConnectionTyped'
  /\ ProbeTyped /\ UNCHANGED preflightVars => ProbeTyped'
  /\ KindsKept /\ UNCHANGED decisionVars => KindsKept'
  /\ FramesTyped /\ UNCHANGED scoringVars => FramesTyped'
  /\ BatchTyped /\ UNCHANGED triageVars => BatchTyped'
  /\ FindingsInv /\ Findings!TypeOK /\ UNCHANGED diagnosisVars => FindingsInv' /\ Findings!TypeOK'
<1>1. DriverTyped /\ UNCHANGED experienceVars => DriverTyped'
  BY DEF DriverTyped, experienceVars
<1>2. DeviceTyped /\ UNCHANGED genericVars => DeviceTyped'
  BY DEF DeviceTyped, genericVars
<1>3. ConnectionTyped /\ UNCHANGED cdpVars => ConnectionTyped'
  BY DEF ConnectionTyped, cdpVars
<1>4. ProbeTyped /\ UNCHANGED preflightVars => ProbeTyped'
  BY DEF ProbeTyped, preflightVars, Chosen, Judged
<1>5. KindsKept /\ UNCHANGED decisionVars => KindsKept'
  BY DEF KindsKept, decisionVars
<1>6. FramesTyped /\ UNCHANGED scoringVars => FramesTyped'
  BY DEF FramesTyped, scoringVars
<1>7. BatchTyped /\ UNCHANGED triageVars => BatchTyped'
  BY DEF BatchTyped, triageVars
<1>8. FindingsInv /\ Findings!TypeOK /\ UNCHANGED diagnosisVars => FindingsInv' /\ Findings!TypeOK'
  BY DEF FindingsInv, diagnosisVars, Findings!TypeOK
<1> QED
  BY <1>1, <1>2, <1>3, <1>4, <1>5, <1>6, <1>7, <1>8

(* A step is one of the part looked at, or changes nothing of it. *)
LEMMA LabStep ==
  ASSUME LabKept, UNCHANGED subject, LabNext \/ UNCHANGED labVars
  PROVE  LabKept'
<1>1. /\ subject = "orbital"   => Orbital!Next \/ UNCHANGED experienceVars
      /\ subject = "generic"   => Generic!Next \/ UNCHANGED genericVars
      /\ subject = "cdp"       => Cdp!Next \/ UNCHANGED cdpVars
      /\ subject = "egress"    => Egress!Next \/ UNCHANGED egressVars
      /\ subject = "preflight" => Probe!Next \/ UNCHANGED preflightVars
      /\ subject = "decision"  => Engines!Next \/ UNCHANGED decisionVars
      /\ subject = "score"     => Score!Next \/ UNCHANGED scoringVars
      /\ subject = "judge"     => Judge!Next \/ UNCHANGED triageVars
      /\ subject = "findings"  => Findings!Next \/ UNCHANGED diagnosisVars
  BY DEF LabNext, labVars
<1>2. subject = "orbital" => (OrbitalInv /\ DriverTyped)'
  BY <1>1, OrbitalNext, OrbitalStutters, DriverStep, TypesStutter DEF LabKept
<1>3. subject = "generic" => (GenericInv /\ DeviceTyped)'
  BY <1>1, GenericNext, GenericStutters, DeviceStep, TypesStutter DEF LabKept
<1>4. subject = "cdp" => (CdpInv /\ ConnectionTyped)'
  BY <1>1, CdpNext, CdpStutters, ConnectionStep, TypesStutter DEF LabKept
<1>5. subject = "egress" => EgressInv'
  BY <1>1, EgressNext, EgressStutters DEF LabKept
<1>6. subject = "preflight" => (PreflightInv /\ ProbeTyped)'
  BY <1>1, PreflightNext, PreflightStutters, ProbeStep, TypesStutter DEF LabKept
<1>7. subject = "decision" => (DecisionInv /\ KindsKept)'
  BY <1>1, DecisionNext, DecisionStutters, KindsStep, TypesStutter DEF LabKept
<1>8. subject = "score" => (ScoreInv /\ FramesTyped)'
  BY <1>1, ScoreNext, ScoreStutters, FramesStep, TypesStutter DEF LabKept
<1>9. subject = "judge" => (JudgeInv /\ BatchTyped)'
  BY <1>1, JudgeNext, JudgeStutters, BatchStep, TypesStutter DEF LabKept
<1>10. subject = "findings" => (FindingsInv /\ Findings!TypeOK)'
  BY <1>1, FindingsNext, FindingsStep, TypesStutter DEF LabKept
<1> QED
  BY <1>2, <1>3, <1>4, <1>5, <1>6, <1>7, <1>8, <1>9, <1>10 DEF LabKept

(* In every behaviour every part keeps to its types, whatever the values   *)
(* of the parameters: what is counted stays a number within its bounds,    *)
(* and the score of a session is one of 0 to 100 or is not given.          *)
THEOREM TypeTheorem == Spec => []TypeOK
<1>1. Init => ServicesKept /\ LabKept
  BY ServicesStart, LabStart DEF Init
<1>2. ServicesKept /\ LabKept /\ [Next]_partsVars => (ServicesKept /\ LabKept)'
  <2> SUFFICES ASSUME ServicesKept, LabKept, [Next]_partsVars
               PROVE  ServicesKept' /\ LabKept'
    OBVIOUS
  <2>1. /\ UNCHANGED subject
        /\ ServicesNext \/ UNCHANGED serviceVars
        /\ LabNext \/ UNCHANGED labVars
    BY DEF Next, partsVars
  <2> QED
    BY <2>1, ServicesStep, LabStep
<1>3. ServicesKept /\ LabKept => TypeOK
  BY ServicesTyped, LabTyped DEF TypeOK
<1> QED
  BY <1>1, <1>2, <1>3, PTL DEF Spec
=============================================================================
