------------------------------ MODULE Decision -------------------------------
(***************************************************************************)
(* One guarded engine answering several requests at a time:                *)
(* src/decision/guarded.js around jev.js and its transport, with the rules *)
(* of rule-based.js beside it.  Confidence is in percent and a             *)
(* probability is a weight.  How the rules weigh transfer times, budgets   *)
(* and comfort is left out: they may prefer any tier and reach any outcome *)
(* that their hard conditions leave them.                                  *)
(***************************************************************************)
EXTENDS Integers, Sequences, FiniteSets, SequencesExt, FiniteSetsExt

CONSTANTS
    Requests,
    KindsOf,       \* what each request may ask: "route", "preflight", "judge"
    Capabilities,  \* device states: [webgl, camera, strained, motion]
    Weights,       \* the four weights a model's choice may come with
    TierFloor,     \* ATLAS_TIER_CONFIDENCE_FLOOR, in percent
    VerdictFloor,  \* ATLAS_VERDICT_CONFIDENCE_FLOOR
    Keys           \* the fan-out answers of a verdict, worse when higher

VARIABLES
    mode,          \* what selectEngine chose
    request,       \* each request: its question, the rules' answer, the served one
    stats          \* the guard's counters of routed tiers, and the engine's calls

decisionVars == <<mode, request, stats>>

(* Best first: TIER_OPTIONS, and the outcomes by severityRank. *)
TierOptions    == <<"high", "mid", "low", "static-fallback">>
OutcomeOptions == <<"pass", "degraded", "inconclusive", "fail">>

tierQuestions      == {"tier", "cameraPathSafe", "firstFrameRisk"}
preflightQuestions == {"tier", "blowBudget", "transferFits"}
traceQuestions     == {"outcome", "rootCause", "releaseBlocking", "visualInvariantHeld",
                       "interactionInvariantHeld", "businessInvariantHeld"} \cup Keys
Questions == [route |-> tierQuestions, preflight |-> preflightQuestions, judge |-> traceQuestions]

Options(kind) == IF kind = "judge" THEN OutcomeOptions ELSE TierOptions

(* tierRank and severityRank: how far from the best. *)
Rank(kind, value) == CHOOSE i \in 1..4 : Options(kind)[i] = value

Floor(kind) == IF kind = "judge" THEN VerdictFloor ELSE TierFloor

-----------------------------------------------------------------------------
(* What a device can show.                                                 *)

tierRenderable(cap, tier) ==
    CASE tier = "high" -> cap.webgl = 2
      [] tier = "mid"  -> cap.webgl >= 1
      [] OTHER         -> TRUE

(* The fallback paths of the manifest by priority. *)
resolvePath(cap, tier) ==
    IF tier = "static-fallback" THEN "static-safe"
    ELSE IF cap.camera /\ cap.webgl >= 1 /\ ~cap.strained THEN "camera-xr"
    ELSE "interactive-2d"

(* The rules: what cannot be rendered, and anything that moves when no     *)
(* motion is asked for, scores below the poster.                           *)
RuleTiers(cap) ==
    {"static-fallback"} \cup {t \in {"high", "mid", "low"} : cap.motion /\ tierRenderable(cap, t)}

Nothing == [k \in Keys |-> 0]
Answer(tier, path, outcome, fanOut) ==
    [tier |-> tier, path |-> path, outcome |-> outcome, fanOut |-> fanOut]
NoAnswer == Answer("none", "none", "none", Nothing)

RuleAnswers(kind, cap) ==
    CASE kind = "route"     -> {Answer(t, resolvePath(cap, t), "none", Nothing) : t \in RuleTiers(cap)}
      [] kind = "preflight" -> {Answer(t, "none", "none", Nothing) : t \in ToSet(TierOptions)}
      [] kind = "judge"     -> {Answer("none", "none", o, f) : o \in ToSet(OutcomeOptions), f \in [Keys -> 0..1]}

-----------------------------------------------------------------------------
(* What jev.js makes of a response.                                        *)

Total(w) == w[1] + w[2] + w[3] + w[4]

(* argmaxKey: the first of the heaviest. *)
Heaviest(w) == Min({i \in 1..4 : \A j \in 1..4 : w[i] >= w[j]})

(* The plausible slip: a distribution that is not there is certain. *)
ConfidenceFaked(w) == IF Total(w) = 0 THEN 100 ELSE (100 * w[Heaviest(w)]) \div Total(w)

(* normalizeDistribution, confidenceOfChoice: without any weight, uniform. *)
Confidence(w) == IF Total(w) = 0 THEN 25 ELSE (100 * w[Heaviest(w)]) \div Total(w)

(* A response: the questions it answers, the option it names (or none of   *)
(* the allowed), the weights, how sure the yes/no answers are (an answer   *)
(* without a number is a 0.5, which is no confidence at all), the fan-out. *)
Responses(kind) ==
    [answered : {Questions[kind], Questions[kind] \ {"tier", "outcome"}},
     choice   : ToSet(Options(kind)) \cup {"unlisted"},
     weights  : Weights,
     nouls    : IF kind = "judge" THEN {0, 100} ELSE {100},
     fanOut   : IF kind = "judge" THEN [Keys -> 0..1] ELSE {Nothing}]

readChoice(kind, res) ==
    IF res.choice = "unlisted" THEN Options(kind)[Heaviest(res.weights)] ELSE res.choice

ConfidenceOf(res) == Min({Confidence(res.weights), res.nouls})

Read(kind, cap, res) ==
    LET value == readChoice(kind, res)
    IN  CASE kind = "route"     -> Answer(value, resolvePath(cap, value), "none", Nothing)
          [] kind = "preflight" -> Answer(value, "none", "none", Nothing)
          [] kind = "judge"     -> Answer("none", "none", value, res.fanOut)

-----------------------------------------------------------------------------
TypeOK ==
    /\ mode \in {"live", "fixture", "rules"}
    /\ \A r \in Requests :
          /\ request[r].state \in {"none", "waiting", "answered"}
          /\ request[r].kind \in KindsOf[r]
          /\ request[r].overridden \in BOOLEAN
          /\ request[r].heard \in {"nothing", "failure", "weightless", "answer"}
    /\ stats \in [total : Nat, trusted : Nat, lowConfidence : Nat, infeasible : Nat, error : Nat]

Init ==
    /\ mode \in {"live", "fixture", "rules"}
    /\ request \in [Requests ->
          [state : {"none"}, kind : UNION {KindsOf[r] : r \in Requests}, cap : Capabilities,
           safe : {NoAnswer}, served : {NoAnswer}, overridden : {FALSE}, heard : {"nothing"}]]
    /\ \A r \in Requests :
          /\ request[r].kind \in KindsOf[r]
          /\ request[r].kind # "route" => request[r].cap = CHOOSE c \in Capabilities : TRUE
    /\ stats = [total |-> 0, trusted |-> 0, lowConfidence |-> 0, infeasible |-> 0, error |-> 0]

(* The rules answer first; with no key and no fixtures theirs is served. *)
Ask(r) ==
    /\ request[r].state = "none"
    /\ \E safe \in RuleAnswers(request[r].kind, request[r].cap) :
          request' = [request EXCEPT ![r].safe = safe,
                                     ![r].state = IF mode = "rules" THEN "answered" ELSE "waiting",
                                     ![r].served = IF mode = "rules" THEN safe ELSE NoAnswer]
    /\ stats' = IF mode # "rules" /\ request[r].kind = "route"
                THEN [stats EXCEPT !.total = @ + 1] ELSE stats
    /\ UNCHANGED mode

Counted(r, what) ==
    stats' = IF request[r].kind = "route" THEN [stats EXCEPT ![what] = @ + 1] ELSE stats

Serve(r, answer, overridden, heard) ==
    request' = [request EXCEPT ![r].state = "answered", ![r].served = answer,
                               ![r].overridden = overridden, ![r].heard = heard]

(* mergeTighteningFanOut: the worse of the two answers, key by key. *)
MergeTightening(safe, primary) ==
    [safe EXCEPT !.fanOut = [k \in Keys |-> Max({safe.fanOut[k], primary.fanOut[k]})]]

(* An HTTP error, the transport's timeout, a body that is not JSON, a      *)
(* fixture that is missing, an answer that is missing.                     *)
PrimaryFails(r) ==
    /\ request[r].state = "waiting"
    /\ Serve(r, request[r].safe, TRUE, "failure")
    /\ Counted(r, "error")
    /\ UNCHANGED mode

Infeasible(r, primary) ==
    request[r].kind = "route" /\ ~tierRenderable(request[r].cap, primary.tier)

(* Richer than the rules for a preflight, more permissive for a verdict. *)
Looser(r, primary) ==
    LET kind == request[r].kind
    IN  \/ kind = "preflight" /\ Rank(kind, primary.tier) < Rank(kind, request[r].safe.tier)
        \/ kind = "judge" /\ Rank(kind, primary.outcome) < Rank(kind, request[r].safe.outcome)

PrimaryAnswers(r) ==
    /\ request[r].state = "waiting"
    /\ \E res \in Responses(request[r].kind) :
          LET primary == Read(request[r].kind, request[r].cap, res)
              heard   == IF Total(res.weights) = 0 THEN "weightless" ELSE "answer"
              unsure  == ConfidenceOf(res) < Floor(request[r].kind)
          IN  /\ res.answered = Questions[request[r].kind]
              /\ \/ /\ Infeasible(r, primary)
                    /\ Serve(r, request[r].safe, TRUE, heard)
                    /\ Counted(r, "infeasible")
                 \/ /\ ~Infeasible(r, primary)
                    /\ unsure \/ Looser(r, primary)
                    /\ Serve(r, IF request[r].kind = "judge" THEN MergeTightening(request[r].safe, primary)
                                ELSE request[r].safe, TRUE, heard)
                    /\ Counted(r, "lowConfidence")
                 \/ /\ ~Infeasible(r, primary) /\ ~unsure /\ ~Looser(r, primary)
                    /\ Serve(r, primary, FALSE, heard)
                    /\ Counted(r, "trusted")
    /\ UNCHANGED mode

Next == \E r \in Requests : Ask(r) \/ PrimaryFails(r) \/ PrimaryAnswers(r)

Spec == Init /\ [][Next]_decisionVars

-----------------------------------------------------------------------------
(* A model's answer never loosens a decision: what is served can be        *)
(* rendered, takes the path the device alone decides, is no richer and no  *)
(* more permissive than the rules; what failed is overridden by the rules, *)
(* and so is what came without any probability where the floor asks for    *)
(* more than one answer in four; a verdict that is overridden keeps every  *)
(* worse fan-out answer; and every routed tier is counted under exactly    *)
(* one reason, whatever else is in flight.                                 *)
DecisionsFailClosed ==
    /\ \A r \in Requests :
          LET q == request[r] IN q.state = "answered" =>
              /\ q.kind = "route" => /\ tierRenderable(q.cap, q.served.tier)
                                     /\ q.served.path = resolvePath(q.cap, q.served.tier)
              /\ q.kind = "preflight" => Rank(q.kind, q.served.tier) >= Rank(q.kind, q.safe.tier)
              /\ q.kind = "judge" =>
                    /\ Rank(q.kind, q.served.outcome) >= Rank(q.kind, q.safe.outcome)
                    /\ q.overridden => \A k \in Keys : q.served.fanOut[k] >= q.safe.fanOut[k]
              /\ q.heard = "failure" => q.overridden
              /\ q.heard = "weightless" /\ Floor(q.kind) > 25 => q.overridden
              /\ q.overridden => [q.served EXCEPT !.fanOut = Nothing] = [q.safe EXCEPT !.fanOut = Nothing]
    /\ stats.total = stats.trusted + stats.lowConfidence + stats.infeasible + stats.error
           + Cardinality({r \in Requests : request[r].state = "waiting" /\ request[r].kind = "route"})
=============================================================================
