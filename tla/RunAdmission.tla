---------------------------- MODULE RunAdmission ----------------------------
(***************************************************************************)
(* The admission of runs by POST /v1/targets/:targetId/runs (server.js),   *)
(* for one organization: each of its statements filters on the             *)
(* organization.  A request is one transaction, whose statements           *)
(* interleave with those of the requests of other clients and of other API *)
(* processes; an advisory lock that the transaction holds to its end is    *)
(* what keeps them apart.  Workers, cancellations and the purge change     *)
(* runs without that lock.  A client that got no answer sends another      *)
(* request with the same key.                                              *)
(*                                                                         *)
(* Time is the UTC day.  now() is the time a transaction began, however    *)
(* long it has waited since.                                               *)
(***************************************************************************)
EXTENDS Naturals, FiniteSets

CONSTANTS
    Requests,         \* requests, each of which names the run it may insert
    Keys,             \* idempotency keys
    Targets,          \* verified targets of the organization
    NoRequest,        \* nobody holds the lock
    DailyLimit,       \* ATLAS_RUN_DAILY_LIMIT
    ConcurrentLimit,  \* ATLAS_RUN_CONCURRENT_LIMIT
    Retention,        \* days until a run expires (30)
    LastDay           \* bound: the clock stops here

ASSUME AdmissionAssumption ==
    /\ IsFiniteSet(Requests)
    /\ NoRequest \notin Requests
    /\ DailyLimit \in Nat
    /\ ConcurrentLimit \in Nat
    /\ Retention \in Nat \ {0}
    /\ LastDay \in Nat

VARIABLES
    runs,             \* committed rows of table runs
    req,              \* the requests and their transactions
    lock,             \* pg_advisory_xact_lock(atlas-run-quota-v1, organization)
    day               \* the UTC day

vars == <<runs, req, lock, day>>

Run == [status : {"queued", "running", "settled"}, key : Keys, target : Targets, day : Nat]

NoRun  == [status |-> "absent"]
Purged == [status |-> "purged"]

(* The states of a transaction that is open, and of one that has the lock. *)
LockedPCs == {"locked", "fresh", "admitted", "closing"}
OpenPCs   == {"waiting"} \cup LockedPCs

Answers == {"created", "existing", "conflict", "expired", "daily", "concurrent"}

Request == [pc      : OpenPCs \cup {"answered", "lost"},
            key     : Keys,
            target  : Targets,
            now     : Nat,                      \* now() of its transaction
            outcome : Answers \cup {"none"}]

Unsent == [pc |-> "unsent", outcome |-> "none"]

TypeOK ==
    /\ runs \in [Requests -> Run \cup {NoRun, Purged}]
    /\ req \in [Requests -> Request \cup {Unsent}]
    /\ lock \in Requests \cup {NoRequest}
    /\ day \in Nat

Init ==
    /\ runs = [r \in Requests |-> NoRun]
    /\ req = [q \in Requests |-> Unsent]
    /\ lock = NoRequest
    /\ day = 0

-----------------------------------------------------------------------------
(* What the statements of a transaction select.                            *)

Kept            == {r \in Requests : runs[r].status \in {"queued", "running", "settled"}}
Expired(r, now) == runs[r].day + Retention <= now

(* A look-up that only sees the runs that are under way.                   *)
WithKeyActive(k) == {r \in Kept : runs[r].key = k /\ runs[r].status # "settled"}

WithKey(k) == {r \in Kept : runs[r].key = k}

(* A count that takes finished runs for none, and one that only sees the   *)
(* runs nobody has claimed yet.                                            *)
CreatedSinceUnsettled(now) == {r \in Kept : runs[r].day >= now /\ runs[r].status # "settled"}
ActiveAtQueued(now) == {r \in Kept : runs[r].status = "queued" /\ ~Expired(r, now)}

(* created_at >= the start of the UTC day of now()                         *)
CreatedSince(now) == {r \in Kept : runs[r].day >= now}

(* status IN ('queued','running') AND retention_expires_at > now()         *)
ActiveAt(now) == {r \in Kept : runs[r].status # "settled" /\ ~Expired(r, now)}

CreatedOn(d) == {r \in Kept : runs[r].day = d}

-----------------------------------------------------------------------------
(* The transaction of a request.                                           *)

Goto(q, pc) == req' = [req EXCEPT ![q].pc = pc]

(* The transaction is about to end with this answer.                       *)
Conclude(q, a) == req' = [req EXCEPT ![q].pc = "closing", ![q].outcome = a]

(* Roles, ownership, the contract, the key and the build binding are       *)
(* checked before.                                                         *)
Begin(q, k, t) ==
    /\ req[q] = Unsent
    /\ req' = [req EXCEPT ![q] = [pc |-> "waiting", key |-> k, target |-> t, now |-> day,
                                  outcome |-> "none"]]
    /\ UNCHANGED <<runs, lock, day>>

(* A lock that does not exclude.                                           *)
LockShared(q) ==
    /\ req[q].pc = "waiting"
    /\ lock' = q
    /\ Goto(q, "locked")
    /\ UNCHANGED <<runs, day>>

Lock(q) ==
    /\ req[q].pc = "waiting"
    /\ lock = NoRequest
    /\ lock' = q
    /\ Goto(q, "locked")
    /\ UNCHANGED <<runs, day>>

(* Answers that look at the dates first, and that hand out the status.     *)
FoundAnswerDated(q, r) ==
    IF Expired(r, req[q].now) THEN "expired"
    ELSE IF runs[r].target # req[q].target THEN "conflict" ELSE "existing"
FoundAnswerStatus(q, r) == runs[r].status

(* What a run with the key tells the request that looked it up.            *)
FoundAnswer(q, r) ==
    IF runs[r].target # req[q].target THEN "conflict"
    ELSE IF Expired(r, req[q].now) THEN "expired" ELSE "existing"

LookUp(q) ==
    /\ req[q].pc = "locked"
    /\ \/ WithKey(req[q].key) = {} /\ Goto(q, "fresh")
       \/ \E r \in WithKey(req[q].key) : Conclude(q, FoundAnswer(q, r))
    /\ UNCHANGED <<runs, lock, day>>

Count(q) ==
    LET now == req[q].now
    IN  /\ req[q].pc = "fresh"
        /\ IF Cardinality(CreatedSince(now)) >= DailyLimit THEN Conclude(q, "daily")
           ELSE IF Cardinality(ActiveAt(now)) >= ConcurrentLimit THEN Conclude(q, "concurrent")
           ELSE Goto(q, "admitted")
        /\ UNCHANGED <<runs, lock, day>>

(* The row waits for COMMIT.  On a conflict over the key, which first      *)
(* waits for an uncommitted row with it, the statement inserts nothing and *)
(* the run is looked up again.                                             *)
Insert(q) ==
    LET key == req[q].key
    IN  /\ req[q].pc = "admitted"
        /\ \A p \in Requests : req[p].pc = "closing" /\ req[p].outcome = "created" =>
              req[p].key # key
        /\ IF WithKey(key) = {} THEN Conclude(q, "created")
           ELSE \E r \in WithKey(key) : Conclude(q, FoundAnswer(q, r))
        /\ UNCHANGED <<runs, lock, day>>

Unlocked(q) == IF lock = q THEN NoRequest ELSE lock

(* COMMIT; the answer may get lost on its way to the process or client.    *)
Commit(q) ==
    /\ req[q].pc = "closing"
    /\ runs' = IF req[q].outcome = "created"
               THEN [runs EXCEPT ![q] = [status |-> "queued", key |-> req[q].key,
                                         target |-> req[q].target, day |-> req[q].now]]
               ELSE runs
    /\ lock' = Unlocked(q)
    /\ \E pc \in {"answered", "lost"} : Goto(q, pc)
    /\ UNCHANGED day

(* A session's lock, which outlives its transaction.                       *)
RollbackHolding(q) ==
    /\ req[q].pc \in OpenPCs
    /\ req' = [req EXCEPT ![q].pc = "lost",
                          ![q].outcome = IF @ = "created" THEN "none" ELSE @]
    /\ UNCHANGED <<runs, lock, day>>

(* A statement fails, or the API process or its connection dies.           *)
Rollback(q) ==
    /\ req[q].pc \in OpenPCs
    /\ req' = [req EXCEPT ![q].pc = "lost",
                          ![q].outcome = IF @ = "created" THEN "none" ELSE @]
    /\ lock' = Unlocked(q)
    /\ UNCHANGED <<runs, day>>

-----------------------------------------------------------------------------
(* What happens to runs elsewhere: see RunQueue.                           *)
Start(r) ==
    /\ runs[r].status = "queued"
    /\ ~Expired(r, day)
    /\ runs' = [runs EXCEPT ![r].status = "running"]
    /\ UNCHANGED <<req, lock, day>>

Retry(r) ==
    /\ runs[r].status = "running"
    /\ runs' = [runs EXCEPT ![r].status = "queued"]
    /\ UNCHANGED <<req, lock, day>>

(* Completed, failed or cancelled.                                         *)
Settle(r) ==
    /\ runs[r].status \in {"queued", "running"}
    /\ runs' = [runs EXCEPT ![r].status = "settled"]
    /\ UNCHANGED <<req, lock, day>>

Purge ==
    LET gone == {r \in Kept : Expired(r, day) /\ runs[r].status # "running"}
    IN  /\ gone # {}
        /\ runs' = [r \in Requests |-> IF r \in gone THEN Purged ELSE runs[r]]
        /\ UNCHANGED <<req, lock, day>>

Tomorrow ==
    /\ day < LastDay
    /\ day' = day + 1
    /\ UNCHANGED <<runs, req, lock>>

-----------------------------------------------------------------------------
Transact(q) == LookUp(q) \/ Count(q) \/ Insert(q) \/ Commit(q)

Next ==
    \/ \E q \in Requests : \/ \E k \in Keys, t \in Targets : Begin(q, k, t)
                           \/ Lock(q)
                           \/ Transact(q)
                           \/ Rollback(q)
    \/ \E r \in Requests : Start(r) \/ Retry(r) \/ Settle(r)
    \/ Purge
    \/ Tomorrow

Spec == Init /\ [][Next]_vars

(* Open transactions go on, and the lock is granted in turn.               *)
Fairness == \A q \in Requests : WF_vars(Transact(q)) /\ SF_vars(Lock(q))

FairSpec == Spec /\ Fairness

-----------------------------------------------------------------------------
(* No more than DailyLimit of the runs that exist were created on any one  *)
(* day, although the day may end between a transaction's BEGIN and its     *)
(* counting.                                                               *)
DailyQuotaKept ==
    \A d \in 0..day : Cardinality(CreatedOn(d)) <= DailyLimit

(* No more than ConcurrentLimit unexpired runs are queued or running,      *)
(* although they start, are put back and settle without the lock.          *)
ConcurrentQuotaKept == Cardinality(ActiveAt(day)) <= ConcurrentLimit

(* A retry is neither counted again nor refused: a request that was        *)
(* refused by a quota, or is about to insert, had a key without a run, and *)
(* that is still so when its transaction ends.                             *)
RetryFindsItsRun ==
    \A q \in Requests :
        (req[q].pc = "closing" /\ req[q].outcome \in {"created", "daily", "concurrent"})
            => WithKey(req[q].key) = {}

(* Every run in the table was asked for, with this key and target, by a    *)
(* request that was told so or whose answer was lost, and only by one.     *)
OneRunPerKey ==
    \A r \in Kept :
        /\ req[r].outcome = "created"
        /\ req[r].pc \in {"answered", "lost"}
        /\ WithKey(runs[r].key) = {r}

(* Requests are decided as if they came one by one.  What a transaction    *)
(* inserts is decided when it commits, everything else when it is found.   *)
Ask(q) == [key |-> req[q].key, target |-> req[q].target, now |-> req[q].now]

Decided(q) == /\ req[q].outcome # "none"
              /\ ~(req[q].pc = "closing" /\ req[q].outcome = "created")

Answer(q) == IF Decided(q) THEN [ask |-> Ask(q), outcome |-> req[q].outcome]
             ELSE [outcome |-> "none"]

Atomic == INSTANCE AtomicAdmission WITH answer <- [q \in Requests |-> Answer(q)]

AdmissionIsAtomic == Atomic!Spec

(* A request that waits for the lock is answered, or its connection ended: *)
(* no transaction, however it ends, keeps the lock.                        *)
EveryRequestAnswered ==
    \A q \in Requests : req[q].pc = "waiting" ~> req[q].pc \in {"answered", "lost"}
=============================================================================
