-------------------------- MODULE AtomicAdmission --------------------------
(***************************************************************************)
(* What POST /v1/targets/:id/runs promises an organization: every request  *)
(* is decided as if nobody else were there.  In one step it finds the run  *)
(* that its idempotency key already names, or it is refused by a quota     *)
(* that is really reached, or it adds a run while neither quota is.        *)
(* RunAdmission, where requests interleave, implements this module.        *)
(***************************************************************************)
EXTENDS Naturals, FiniteSets

CONSTANTS
    Requests,         \* requests; a run is named after the one that creates it
    Keys,             \* idempotency keys
    Targets,          \* verified targets
    DailyLimit,       \* ATLAS_RUN_DAILY_LIMIT
    ConcurrentLimit,  \* ATLAS_RUN_CONCURRENT_LIMIT
    Retention         \* days until a run expires

VARIABLES
    runs,             \* table runs
    answer,           \* what was decided for each request
    day               \* the UTC day

Kept              == {r \in Requests : runs[r].status \in {"queued", "running", "settled"}}
WithKey(k)        == {r \in Kept : runs[r].key = k}
Expired(r, now)   == runs[r].day + Retention <= now
CreatedSince(now) == {r \in Kept : runs[r].day >= now}
ActiveAt(now)     == {r \in Kept : runs[r].status # "settled" /\ ~Expired(r, now)}

NoRun    == [status |-> "absent"]
NoAnswer == [outcome |-> "none"]

Init ==
    /\ runs = [r \in Requests |-> NoRun]
    /\ answer = [q \in Requests |-> NoAnswer]
    /\ day = 0

(* What a request asks for, and when.                                      *)
Ask == [key : Keys, target : Targets, now : 0..day]

Decide(q, ask, a) ==
    /\ answer[q] = NoAnswer
    /\ answer' = [answer EXCEPT ![q] = [ask |-> ask, outcome |-> a]]

Create(q, ask) ==
    /\ runs[q] = NoRun
    /\ WithKey(ask.key) = {}
    /\ Cardinality(CreatedSince(ask.now)) < DailyLimit
    /\ Cardinality(ActiveAt(ask.now)) < ConcurrentLimit
    /\ runs' = [runs EXCEPT ![q] = [status |-> "queued", key |-> ask.key,
                                    target |-> ask.target, day |-> ask.now]]
    /\ Decide(q, ask, "created")
    /\ UNCHANGED day

Find(q, ask) ==
    /\ \E r \in WithKey(ask.key) :
         Decide(q, ask, IF runs[r].target # ask.target THEN "conflict"
                        ELSE IF Expired(r, ask.now) THEN "expired" ELSE "existing")
    /\ UNCHANGED <<runs, day>>

Refuse(q, ask) ==
    /\ WithKey(ask.key) = {}
    /\ \/ Cardinality(CreatedSince(ask.now)) >= DailyLimit /\ Decide(q, ask, "daily")
       \/ Cardinality(ActiveAt(ask.now)) >= ConcurrentLimit /\ Decide(q, ask, "concurrent")
    /\ UNCHANGED <<runs, day>>

(* Workers, cancellations and retention change runs on their own.          *)
Progress(r, status) ==
    /\ runs[r].status \in {"queued", "running"}
    /\ runs' = [runs EXCEPT ![r].status = status]
    /\ UNCHANGED <<answer, day>>

Purge(S) ==
    /\ \A r \in S : r \in Kept /\ runs[r].status # "running" /\ Expired(r, day)
    /\ runs' = [r \in Requests |-> IF r \in S THEN [status |-> "purged"] ELSE runs[r]]
    /\ UNCHANGED <<answer, day>>

Tomorrow ==
    /\ day' = day + 1
    /\ UNCHANGED <<runs, answer>>

Next ==
    \/ \E q \in Requests, ask \in Ask : Create(q, ask) \/ Find(q, ask) \/ Refuse(q, ask)
    \/ \E r \in Requests, status \in {"queued", "running", "settled"} : Progress(r, status)
    \/ \E S \in SUBSET Requests : Purge(S)
    \/ Tomorrow

Spec == Init /\ [][Next]_<<runs, answer, day>>
=============================================================================
