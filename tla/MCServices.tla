----------------------------- MODULE MCServices -----------------------------
(* The control plane's services.  A behaviour is about one of them, the    *)
(* subject; the variables of the others are idle.  The parameters of the   *)
(* services are constants, so that a theorem holds for all their values.   *)
EXTENDS MCSubject, FiniteSets

CONSTANTS
    Links, Artifacts, Visits, Lifetimes, RunExpiry, LinkLimit, RouteLimit, LastMinute,
    Asked, Callers, Processes, Keys, Bodies, PoolSize, ReviewLimit, Faults,
    Evaluators, Labelers, Proposals, Labels, NoLabel, RetentionEnds, ReviewLife, LastDay,
    PurgedRuns, Sweepers, Pages, SweepLimit,
    Emails, SupabaseUsers, Clients, Tokens,
    Runs, Workers, Objects, NoRun, MaxAttempts, HasStore, Crashable, Expiring,
    Screenshots, StoredAs, Uploads, ReviewProjects, MaxReviews,
    Organizations, StudioProjects, OrgOf, Loads,
    Contracts, Handlers, MaxKeys,
    BundleFiles, Result

(* Limits and times are numbers, and requests are finitely many.           *)
ASSUME SharesAssumption ==
    /\ IsFiniteSet(Visits) /\ Links # {}
    /\ RunExpiry \in Nat /\ LinkLimit \in Nat /\ RouteLimit \in Nat /\ LastMinute \in Nat
    /\ Lifetimes \subseteq Nat

ASSUME ReviewAssumption ==
    /\ IsFiniteSet(Callers) /\ NoOne \notin Callers
    /\ Asked \subseteq {"review", "proposal"} /\ ReviewLimit \in Nat

ASSUME SweepAssumption == SweepLimit \in Nat

ASSUME RetentionAssumption ==
    /\ RetentionEnds \in [{"current", "older"} -> Nat] /\ ReviewLife \in Nat /\ LastDay \in Nat
    /\ NoOne \notin Labelers

ASSUME AccountsAssumption == NoOne \notin Emails \cup Clients

ASSUME FormAssumption == MaxReviews \in Nat

ASSUME CardAssumption == MaxKeys \in Nat /\ NoOne \notin Nat

ASSUME JobAssumption == Result \in BundleFiles

VARIABLES minute, sharedRun, links, linkBucket, routeBucket, bytes, visits
shareVars == <<minute, sharedRun, links, linkBucket, routeBucket, bytes, visits>>
Shares == INSTANCE ShareLinks

VARIABLES caller, promises, sessionLock, records, usage, parent, ownPool
reviewVars == <<caller, promises, sessionLock, records, usage, parent, ownPool>>
Reviews == INSTANCE ReviewRequests WITH Nobody <- NoOne, DailyLimit <- ReviewLimit

VARIABLES today, runKept, evaluation, evaluators, review, reviewLock, label, labelers,
          labelLog, proposals, purged
retentionVars == <<today, runKept, evaluation, evaluators, review, reviewLock, label,
                   labelers, labelLog, proposals, purged>>
Retention == INSTANCE EvidenceRetention WITH
    NoRequest <- NoOne, RunExpiry <- RetentionEnds, Life <- ReviewLife

VARIABLES purgeLog, left, onDisk, stuck, sweep
sweepVars == <<purgeLog, left, onDisk, stuck, sweep>>
Sweep == INSTANCE PurgeSweep

VARIABLES provider, users, identities, workspaces, provisionLock, clients, sessions, target
accountVars == <<provider, users, identities, workspaces, provisionLock, clients, sessions, target>>
Accounts == INSTANCE Workspace WITH Subjects <- SupabaseUsers, Nothing <- NoOne

VARIABLES row, audits, proc, containers, localDir, store, purgeQueue, maint
queueVars == <<row, audits, proc, containers, localDir, store, purgeQueue, maint>>
Queue == INSTANCE RunQueue WITH NoWorker <- NoOne, Punctual <- Workers

ASSUME QueueServed ==
    /\ MaxAttempts \in Nat \ {0} /\ HasStore \in BOOLEAN
    /\ Crashable \subseteq Workers /\ Expiring \subseteq Runs /\ NoRun \notin Runs
    /\ NoOne \notin Workers \cup Queue!Reapers /\ Workers \cap Queue!Reapers = {}

VARIABLES project, form, submission, preview, reviews
imageVars == <<project, form, submission, preview, reviews>>
Images == INSTANCE ReviewForm WITH
    Artifacts <- Screenshots, Projects <- ReviewProjects, Nothing <- NoOne

VARIABLES org, selected, wished, shown, loads, switch, creating, timer
studioVars == <<org, selected, wished, shown, loads, switch, creating, timer>>
Page == INSTANCE Studio WITH Projects <- StudioProjects, Nothing <- NoOne

VARIABLES drawnKeys, storedKey, presses, queued, runsAnswered, contract, snapshot, checking,
          passed, registered
cardVars == <<drawnKeys, storedKey, presses, queued, runsAnswered, contract, snapshot, checking,
              passed, registered>>
Card == INSTANCE TargetCard WITH Nothing <- NoOne, answered <- runsAnswered

VARIABLES resources, inside, executor, beat, disturbed
jobVars == <<resources, inside, executor, beat, disturbed>>
Job == INSTANCE JobHandshake WITH Files <- BundleFiles

Services == {"shares", "reviews", "retention", "sweep", "accounts", "queue", "job",
             "images", "page", "card"}

ServicesInit ==
    /\ IF subject = "shares" THEN Shares!Init
       ELSE /\ minute = "idle" /\ sharedRun = "idle" /\ links = "idle" /\ linkBucket = "idle"
            /\ routeBucket = "idle" /\ bytes = "idle" /\ visits = "idle"
    /\ IF subject = "reviews" THEN Reviews!Init
       ELSE /\ caller = "idle" /\ promises = "idle" /\ sessionLock = "idle" /\ records = "idle"
            /\ usage = "idle" /\ parent = "idle" /\ ownPool = "idle"
    /\ IF subject = "retention" THEN Retention!Init
       ELSE /\ today = "idle" /\ runKept = "idle" /\ evaluation = "idle" /\ evaluators = "idle"
            /\ review = "idle" /\ reviewLock = "idle" /\ label = "idle" /\ labelers = "idle"
            /\ labelLog = "idle" /\ proposals = "idle" /\ purged = "idle"
    /\ IF subject = "sweep" THEN Sweep!Init
       ELSE purgeLog = "idle" /\ left = "idle" /\ onDisk = "idle" /\ stuck = "idle" /\ sweep = "idle"
    /\ IF subject = "accounts" THEN Accounts!Init
       ELSE /\ provider = "idle" /\ users = "idle" /\ identities = "idle" /\ workspaces = "idle"
            /\ provisionLock = "idle" /\ clients = "idle" /\ sessions = "idle" /\ target = "idle"
    /\ IF subject = "queue" THEN Queue!Init
       ELSE /\ row = "idle" /\ audits = "idle" /\ proc = "idle" /\ containers = "idle"
            /\ localDir = "idle" /\ store = "idle" /\ purgeQueue = "idle" /\ maint = "idle"
    /\ IF subject = "job" THEN Job!Init
       ELSE /\ resources = "idle" /\ inside = "idle" /\ executor = "idle" /\ beat = "idle"
            /\ disturbed = "idle"
    /\ IF subject = "images" THEN Images!Init
       ELSE /\ project = "idle" /\ form = "idle" /\ submission = "idle" /\ preview = "idle"
            /\ reviews = "idle"
    /\ IF subject = "page" THEN Page!Init
       ELSE /\ org = "idle" /\ selected = "idle" /\ wished = "idle" /\ shown = "idle"
            /\ loads = "idle" /\ switch = "idle" /\ creating = "idle" /\ timer = "idle"
    /\ IF subject = "card" THEN Card!Init
       ELSE /\ drawnKeys = "idle" /\ storedKey = "idle" /\ presses = "idle" /\ queued = "idle"
            /\ runsAnswered = "idle" /\ contract = "idle" /\ snapshot = "idle"
            /\ checking = "idle" /\ passed = "idle" /\ registered = "idle"

ServicesNext ==
    /\ IF subject = "shares"    THEN Shares!Next    ELSE UNCHANGED shareVars
    /\ IF subject = "reviews"   THEN Reviews!Next   ELSE UNCHANGED reviewVars
    /\ IF subject = "retention" THEN Retention!Next ELSE UNCHANGED retentionVars
    /\ IF subject = "sweep"     THEN Sweep!Next     ELSE UNCHANGED sweepVars
    /\ IF subject = "accounts"  THEN Accounts!Next  ELSE UNCHANGED accountVars
    /\ IF subject = "queue"     THEN Queue!Next     ELSE UNCHANGED queueVars
    /\ IF subject = "job"       THEN Job!Next       ELSE UNCHANGED jobVars
    /\ IF subject = "images"    THEN Images!Next    ELSE UNCHANGED imageVars
    /\ IF subject = "page"      THEN Page!Next      ELSE UNCHANGED studioVars
    /\ IF subject = "card"      THEN Card!Next      ELSE UNCHANGED cardVars

serviceVars == <<shareVars, reviewVars, retentionVars, sweepVars, accountVars, queueVars, jobVars,
                 imageVars, studioVars, cardVars>>

ServicesSpec ==
    ServicesInit /\ [][ServicesNext /\ UNCHANGED subject]_<<subject, serviceVars>>

ServicesTypeOK ==
    /\ subject = "shares"    => Shares!TypeOK
    /\ subject = "reviews"   => Reviews!TypeOK
    /\ subject = "retention" => Retention!TypeOK
    /\ subject = "sweep"     => Sweep!TypeOK
    /\ subject = "accounts"  => Accounts!TypeOK
    /\ subject = "queue"     => Queue!TypeOK
    /\ subject = "job"       => Job!TypeOK
    /\ subject = "images"    => Images!TypeOK
    /\ subject = "page"      => Page!TypeOK
    /\ subject = "card"      => Card!TypeOK

(* What a link serves, it serves while it is shared, and within its limits.*)
SharesHonoured == subject = "shares" => Shares!ServedWhileShared /\ Shares!GrantsWithinLimit

(* A call to a paid provider is charged and, with a key, made again only   *)
(* for a reason.                                                           *)
PaidCallsJustified == subject = "reviews" => Reviews!PaidCallsJustified

(* Evaluations, labels and stored objects end with what they belong to and *)
(* leave the audit event and the queue entry that says so.                 *)
EvidenceAccounted ==
    /\ subject = "retention" => Retention!EvaluationEndsAudited /\ Retention!LabelMatchesLog
    /\ subject = "sweep"     => Sweep!NothingForgotten
    /\ subject = "queue"     => Queue!PurgedEvidenceGone

(* A user has one first workspace however many requests sign the user in.  *)
OneFirstWorkspace == subject = "accounts" => Accounts!OneFirstWorkspace

(* An attempt that another one overtook neither mixes its evidence into    *)
(* the other's nor loses a live job its container; and what a job is       *)
(* published with is its own whole bundle, collected after its end.        *)
AttemptKeepsItsOwn ==
    /\ subject = "queue" => Queue!EvidenceMatchesResult /\ Queue!LiveJobKeepsItsContainer
    /\ subject = "job"   => Job!BundleCollected

(* What the studio sends and shows is what the user chose, whatever else   *)
(* was chosen, drawn or answered between.                                  *)
StudioSendsWhatWasChosen ==
    /\ subject = "images" => Images!ReviewsNameTheirImages
    /\ subject = "page"   => Page!NothingReopens
    /\ subject = "card"   => Card!RunsAnswered /\ Card!RegisteredAsValidated
=============================================================================
