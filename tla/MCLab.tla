------------------------------- MODULE MCLab --------------------------------
(* Small instances of the parts of a job: its guard on the network, the    *)
(* preflight, the browser connection, the two kinds of session, the        *)
(* decisions, the score, the judge and the findings.  The variables of all *)
(* but the subject are idle.  The parameters of all of them are constants, *)
(* so that a theorem holds for all their values.                           *)
EXTENDS MCSubject, FiniteSets

CONSTANTS
    Scripts, Grants, MaxRequests,
    Commands, WireLimit,
    Browsers, Hosts, Listed, Addresses, AddressOf, MaxTunnels,
    Mentions, HostOf, Landings, Sizes, MaxAssets, NominalMass, AllowPrivate,
    Requests, KindsOf, Capabilities, Weights, TierFloor, VerdictFloor, FanOut,
    Sessions, Budgets, Durations, WindowMs, MinSamples, FloorMs, MaxFrames,
    Incidents, OpenCap, Batches, Contents, LastSeen,
    Reports

(* Tunnels are counted, and a limit is a number.                           *)
ASSUME EgressAssumption == IsFiniteSet(Browsers) /\ MaxTunnels \in Nat

(* Requests are counted, and a confidence is compared with a floor.        *)
ASSUME DecisionAssumption ==
    /\ IsFiniteSet(Requests)
    /\ \A r \in Requests : KindsOf[r] \subseteq {"route", "preflight", "judge"}
    /\ \A w \in Weights : w \in [1..4 -> Nat]
    /\ TierFloor \in Nat /\ VerdictFloor \in Nat

(* Incidents are counted, and so are the times at which they are seen.     *)
ASSUME IncidentAssumption == IsFiniteSet(Incidents) /\ OpenCap \in Nat /\ LastSeen \in Nat

(* A script is the purchase, or what a session of it recorded: the product *)
(* is opened once at most, and nothing can be tapped after the checkout.   *)
ASSUME ScriptAssumption ==
    \A s \in Scripts :
        /\ s \in Seq({"product", "back", "cart", "checkout"})
        /\ \A i, j \in 1..Len(s) : s[i] = "product" /\ s[j] = "product" => i = j
        /\ \A i \in 1..Len(s) : s[i] = "checkout" => i = Len(s)

(* A page asks for so many XR sessions. *)
ASSUME PageAssumption == MaxRequests \in Nat

(* A command's id is neither the event nor the text of a frame without one.*)
ASSUME CommandAssumption ==
    "event" \notin Commands /\ "none" \notin Commands /\ WireLimit \in Nat

(* The page's links are URLs, and what is measured is counted in bytes.    *)
ASSUME PreflightAssumption ==
    /\ Mentions \in Seq(DOMAIN HostOf)
    /\ Sizes \subseteq Nat /\ MaxAssets \in Nat /\ NominalMass \in Nat \ {0}

(* What is measured is counted, or was not measured; a budget divides.     *)
ASSUME ScoreAssumption ==
    /\ NoOne \notin Nat \cup BOOLEAN \cup {"painted", "blank"}
    /\ Sessions \subseteq
          [reachedEnd : BOOLEAN, steps : Nat \cup {NoOne}, firstFrame : {"painted", "blank", NoOne},
           coverages : SUBSET Nat, drifts : SUBSET Nat, legal : BOOLEAN, p95 : Nat \cup {NoOne},
           dropped : Nat \cup {NoOne}, refused : BOOLEAN, enteredError : BOOLEAN]
    /\ \A s \in Sessions : IsFiniteSet(s.coverages) /\ IsFiniteSet(s.drifts)
    /\ Budgets \in [steps : Nat \ {0}, coverage : Nat, drift : Nat, p95 : Nat \ {0}, tap : Nat \ {0},
                    dropped : Nat, comfort : Nat \ {0}, xr : BOOLEAN]
    /\ Durations \subseteq Nat /\ WindowMs \in Nat /\ FloorMs \in Nat \ {0} /\ MaxFrames \in Nat \ {0}

VARIABLES page, trace, waiting, unpainted, runner, driver, posted
experienceVars == <<page, trace, waiting, unpainted, runner, driver, posted>>
Orbital == INSTANCE Experience WITH AckTimesOut <- FALSE

VARIABLES grant, anyPage, recorder, anyDriver, capture, shots, anyTrace
genericVars == <<grant, anyPage, recorder, anyDriver, capture, shots, anyTrace>>
Generic == INSTANCE GenericSession WITH
    PaintsLate <- FALSE, page <- anyPage, driver <- anyDriver, trace <- anyTrace

VARIABLES wire, upgraded, ended, socket, connect, pending, command, answered
cdpVars == <<wire, upgraded, ended, socket, connect, pending, command, answered>>
Cdp == INSTANCE CdpConnection

VARIABLES resolver, client, ask, found, upstream, admitted, tunnelCount, listening
egressVars == <<resolver, client, ask, found, upstream, admitted, tunnelCount, listening>>
Egress == INSTANCE EgressProxy WITH Clients <- Browsers, Contract <- Listed

VARIABLES stage, visited, asset, sized, asked, stated, report
preflightVars == <<stage, visited, asset, sized, asked, stated, report>>
Probe == INSTANCE Preflight WITH Links <- Mentions, Pages <- Landings

VARIABLES mode, request, stats
decisionVars == <<mode, request, stats>>
Engines == INSTANCE Decision WITH Keys <- FanOut

VARIABLES session, frames, window, graded
scoringVars == <<session, frames, window, graded>>
Score == INSTANCE Scoring WITH NotMeasured <- NoOne

VARIABLES incidents, clock, batch, summary
triageVars == <<incidents, clock, batch, summary>>
Judge == INSTANCE Triage

VARIABLES matrix, bundle, diagnosis
diagnosisVars == <<matrix, bundle, diagnosis>>
Findings == INSTANCE Diagnosis

LabParts == {"orbital", "generic", "cdp", "egress", "preflight", "decision", "score", "judge",
             "findings"}

LabInit ==
    /\ IF subject = "orbital" THEN Orbital!Init
       ELSE /\ page = "idle" /\ trace = "idle" /\ waiting = "idle" /\ unpainted = "idle"
            /\ runner = "idle" /\ driver = "idle" /\ posted = "idle"
    /\ IF subject = "generic" THEN Generic!Init
       ELSE /\ grant = "idle" /\ anyPage = "idle" /\ recorder = "idle" /\ anyDriver = "idle"
            /\ capture = "idle" /\ shots = "idle" /\ anyTrace = "idle"
    /\ IF subject = "cdp" THEN Cdp!Init
       ELSE /\ wire = "idle" /\ upgraded = "idle" /\ ended = "idle" /\ socket = "idle"
            /\ connect = "idle" /\ pending = "idle" /\ command = "idle" /\ answered = "idle"
    /\ IF subject = "egress" THEN Egress!Init
       ELSE /\ resolver = "idle" /\ client = "idle" /\ ask = "idle" /\ found = "idle"
            /\ upstream = "idle" /\ admitted = "idle" /\ tunnelCount = "idle" /\ listening = "idle"
    /\ IF subject = "preflight" THEN Probe!Init
       ELSE /\ stage = "idle" /\ visited = "idle" /\ asset = "idle" /\ sized = "idle"
            /\ asked = "idle" /\ stated = "idle" /\ report = "idle"
    /\ IF subject = "decision" THEN Engines!Init
       ELSE mode = "idle" /\ request = "idle" /\ stats = "idle"
    /\ IF subject = "score" THEN Score!Init
       ELSE session = "idle" /\ frames = "idle" /\ window = "idle" /\ graded = "idle"
    /\ IF subject = "judge" THEN Judge!Init
       ELSE incidents = "idle" /\ clock = "idle" /\ batch = "idle" /\ summary = "idle"
    /\ IF subject = "findings" THEN Findings!Init
       ELSE matrix = "idle" /\ bundle = "idle" /\ diagnosis = "idle"

LabNext ==
    /\ IF subject = "orbital"   THEN Orbital!Next ELSE UNCHANGED experienceVars
    /\ IF subject = "generic"   THEN Generic!Next ELSE UNCHANGED genericVars
    /\ IF subject = "cdp"       THEN Cdp!Next     ELSE UNCHANGED cdpVars
    /\ IF subject = "egress"    THEN Egress!Next  ELSE UNCHANGED egressVars
    /\ IF subject = "preflight" THEN Probe!Next   ELSE UNCHANGED preflightVars
    /\ IF subject = "decision"  THEN Engines!Next ELSE UNCHANGED decisionVars
    /\ IF subject = "score"     THEN Score!Next   ELSE UNCHANGED scoringVars
    /\ IF subject = "judge"     THEN Judge!Next   ELSE UNCHANGED triageVars
    /\ IF subject = "findings"  THEN Findings!Next ELSE UNCHANGED diagnosisVars

labVars == <<experienceVars, genericVars, cdpVars, egressVars, preflightVars, decisionVars,
             scoringVars, triageVars, diagnosisVars>>

LabSpec == LabInit /\ [][LabNext /\ UNCHANGED subject]_<<subject, labVars>>

LabTypeOK ==
    /\ subject = "orbital"   => Orbital!TypeOK
    /\ subject = "generic"   => Generic!TypeOK
    /\ subject = "cdp"       => Cdp!TypeOK
    /\ subject = "egress"    => Egress!TypeOK
    /\ subject = "preflight" => Probe!TypeOK
    /\ subject = "decision"  => Engines!TypeOK
    /\ subject = "score"     => Score!TypeOK
    /\ subject = "judge"     => Judge!TypeOK
    /\ subject = "findings"  => Findings!TypeOK

(* What an emulated session leaves behind is of that session, on Orbital   *)
(* and on any other page: its screenshots, states, taps and hash.          *)
SessionEvidence ==
    /\ subject = "orbital" => Orbital!ScreenshotOfItsState /\ Orbital!TraceTellsTheSession
    /\ subject = "generic" => Generic!GenericEvidence

(* A command is settled once, by its own answer, wherever frames and       *)
(* chunks are cut.                                                         *)
AnswersReachTheirCommands == subject = "cdp" => Cdp!AnswersReachTheirCommands

(* A tunnel goes to an address its own lookup judged, and ends with its    *)
(* client.                                                                 *)
EgressKept == subject = "egress" => Egress!EgressKept

(* A report that is not truncated has every asset once, known or stated    *)
(* as unknown.                                                             *)
PreflightAccountsForPage == subject = "preflight" => Probe!PreflightAccountsForPage

(* A model's answer never loosens a decision.                              *)
DecisionsFailClosed == subject = "decision" => Engines!DecisionsFailClosed

(* A score follows what was measured, the triage accounts for every file   *)
(* and incident, and a finding says where its trace is missing.            *)
ReportsFollowEvidence ==
    /\ subject = "score"    => Score!ScoreFollowsMeasurement
    /\ subject = "judge"    => Judge!TriageAccounts
    /\ subject = "findings" => Findings!MissingTracesStated
=============================================================================
