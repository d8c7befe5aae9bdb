--------------------------- MODULE ReviewRequests ---------------------------
(***************************************************************************)
(* POST .../visual-reviews and POST .../code-proposals of server.js: a     *)
(* paid call to a model provider behind an idempotency key, a daily quota  *)
(* and withIdempotencyLock, in several API processes over one database.    *)
(*                                                                         *)
(* withIdempotencyLock keeps callers of one process apart with a map of    *)
(* promises and callers of different processes apart with a PostgreSQL     *)
(* session lock, for which a caller holds a connection of the idempotency  *)
(* pool until it is done.  A caller awaits the promise it finds once, so   *)
(* all who waited for the same one go on together: what really separates   *)
(* them is the session lock.  startServer gives the lock a pool of its     *)
(* own; buildApp alone takes it from the pool that every query uses.       *)
(*                                                                         *)
(* One organization.  The hash of the session lock does not tell the two   *)
(* routes apart, their maps do.  A process may die and come back, a        *)
(* connection may drop, the provider and the last transaction may fail.    *)
(***************************************************************************)
EXTENDS Naturals, FiniteSets

CONSTANTS
    Asked,         \* the routes that are called: "review", "proposal"
    Callers,       \* requests to the two routes
    Processes,     \* API processes
    Keys,          \* idempotency keys
    Bodies,        \* request_sha256 of what is asked
    Nobody,        \* no caller
    PoolSize,      \* connections of a pool (max)
    DailyLimit,    \* visualReviewDailyLimit, codeProposalDailyLimit
    Faults         \* which of "crash", "drop", "write" may happen

VARIABLES
    caller,        \* the callers
    promises,      \* visualReviewLocks and codeProposalLocks of each process
    sessionLock,   \* the session lock of each key
    records,       \* tables visual_reviews and code_proposals, by key
    usage,         \* visual_review_usage and code_proposal_usage of the day
    parent,        \* the review a code proposal is about
    ownPool        \* whether the lock has a pool of its own

reviewVars == <<caller, promises, sessionLock, records, usage, parent, ownPool>>

Kinds == {"review", "proposal"}

(* Inside the callback the session lock is held, or was until it dropped.  *)
CallbackPCs == {"duplicate", "quota", "calling", "recording"}
HoldingPCs  == {"locking"} \cup CallbackPCs \cup {"leaving"}   \* a pool connection
PCs == {"idle", "waiting", "connecting", "done", "lost"} \cup HoldingPCs

Answers == {"none", "200", "201", "400", "404", "409", "410", "429", "500"}

Caller == [pc      : PCs,
           kind    : Kinds,
           process : Processes,
           key     : Keys,
           body    : Bodies,
           await   : Callers \cup {Nobody},   \* whose promise it awaits
           locked  : BOOLEAN,                 \* acquired, and the session is alive
           called  : BOOLEAN,                 \* it called the provider
           after   : SUBSET Callers,          \* who had, with its key, before it
           record  : Callers \cup {Nobody},   \* whose record it answers with
           answer  : Answers]

Idle == [pc |-> "idle", answer |-> "none"]

Record == [by : Callers, body : Bodies, active : BOOLEAN]
NoRecord == [by |-> Nobody]

TypeOK ==
    /\ caller \in [Callers -> Caller \cup {Idle}]
    /\ promises \in [Processes -> [Kinds -> [Keys -> Callers \cup {Nobody}]]]
    /\ sessionLock \in [Keys -> Callers \cup {Nobody}]
    /\ records \in [Kinds -> [Keys -> Record \cup {NoRecord}]]
    /\ usage \in [Kinds -> 0..DailyLimit]
    /\ parent \in {"kept", "expired", "purged"}
    /\ ownPool \in BOOLEAN

Init ==
    /\ caller = [c \in Callers |-> Idle]
    /\ promises = [p \in Processes |-> [k \in Kinds |-> [y \in Keys |-> Nobody]]]
    /\ sessionLock = [y \in Keys |-> Nobody]
    /\ records = [k \in Kinds |-> [y \in Keys |-> NoRecord]]
    /\ usage = [k \in Kinds |-> 0]
    /\ parent = "kept"
    /\ ownPool \in BOOLEAN

-----------------------------------------------------------------------------

Stored(c) == records[caller[c].kind][caller[c].key]
Promise(p, k, y) == promises[p][k][y]

(* The connections of the lock's pool that callers of a process hold.      *)
Held(p) == {d \in Callers : caller[d].pc \in HoldingPCs /\ caller[d].process = p}

PoolFull(p) == Cardinality(Held(p)) >= PoolSize

(* A query of the callback takes a connection of the main pool.            *)
QueryCan(c)  == ownPool \/ ~PoolFull(caller[c].process)

Moved(c, pc)   == caller' = [caller EXCEPT ![c].pc = pc]
Leaves(c, a)   == caller' = [caller EXCEPT ![c].pc = "leaving", ![c].answer = a]
NoLocksMoved   == UNCHANGED <<promises, sessionLock>>
NoTablesMoved  == UNCHANGED <<records, usage, parent, ownPool>>

-----------------------------------------------------------------------------
(* withIdempotencyLock.                                                    *)

(* The checks before the lock may refuse any request; a proposal is refused *)
(* when its review is not there.                                           *)
Arrive(c, k, p, y, b) ==
    LET found == Promise(p, k, y)
        new   == [pc |-> "connecting", kind |-> k, process |-> p, key |-> y, body |-> b,
                  await |-> Nobody, locked |-> FALSE, called |-> FALSE, after |-> {},
                  record |-> Nobody, answer |-> "none"]
    IN  /\ caller[c].pc = "idle"
        /\ \/ /\ caller' = [caller EXCEPT ![c] = [new EXCEPT !.pc = "done", !.answer = "400"]]
              /\ NoLocksMoved
           \/ /\ k = "proposal" /\ parent # "kept"
              /\ caller' = [caller EXCEPT ![c] = [new EXCEPT !.pc = "done", !.answer = "404"]]
              /\ NoLocksMoved
           \/ /\ k = "review" \/ parent = "kept"
              /\ found = Nobody
              /\ caller' = [caller EXCEPT ![c] = new]
              /\ promises' = [promises EXCEPT ![p][k][y] = c]
              /\ UNCHANGED sessionLock
           \/ /\ k = "review" \/ parent = "kept"
              /\ found # Nobody
              /\ caller' = [caller EXCEPT ![c] = [new EXCEPT !.pc = "waiting", !.await = found]]
              /\ NoLocksMoved
        /\ NoTablesMoved

(* The awaited promise is resolved; the map entry is overwritten whoever   *)
(* has put one there since.                                                *)
Resume(c) ==
    /\ caller[c].pc = "waiting"
    /\ caller[caller[c].await].pc = "done"
    /\ Moved(c, "connecting")
    /\ promises' = [promises EXCEPT ![caller[c].process][caller[c].kind][caller[c].key] = c]
    /\ UNCHANGED sessionLock
    /\ NoTablesMoved

Connect(c) ==
    /\ caller[c].pc = "connecting"
    /\ ~PoolFull(caller[c].process)
    /\ Moved(c, "locking")
    /\ NoLocksMoved
    /\ NoTablesMoved

(* connectionTimeoutMillis: the wait for a connection is over.             *)
ConnectTimesOut(c) ==
    /\ caller[c].pc = "connecting"
    /\ PoolFull(caller[c].process)
    /\ Leaves(c, "500")
    /\ NoLocksMoved
    /\ NoTablesMoved

(* pg_advisory_lock without looking who has it.                            *)
LockAtOnce(c) ==
    /\ caller[c].pc = "locking"
    /\ caller' = [caller EXCEPT ![c].pc = "duplicate", ![c].locked = TRUE]
    /\ sessionLock' = [sessionLock EXCEPT ![caller[c].key] = c]
    /\ UNCHANGED promises
    /\ NoTablesMoved

Lock(c) ==
    /\ caller[c].pc = "locking"
    /\ sessionLock[caller[c].key] = Nobody
    /\ caller' = [caller EXCEPT ![c].pc = "duplicate", ![c].locked = TRUE]
    /\ sessionLock' = [sessionLock EXCEPT ![caller[c].key] = c]
    /\ UNCHANGED promises
    /\ NoTablesMoved

(* The promise entry that a leaving caller removes: its own, no other's.   *)
WithoutPromise(c) ==
    LET p == caller[c].process
        k == caller[c].kind
        y == caller[c].key
    IN  IF Promise(p, k, y) = c THEN [promises EXCEPT ![p][k][y] = Nobody] ELSE promises

(* A finally block that forgets the lock of a callback that threw.         *)
UnlockAfterSuccess(c) ==
    /\ caller[c].pc = "leaving"
    /\ Moved(c, "done")
    /\ sessionLock' = IF caller[c].locked /\ caller[c].answer # "500"
                      THEN [sessionLock EXCEPT ![caller[c].key] = Nobody] ELSE sessionLock
    /\ promises' = WithoutPromise(c)
    /\ NoTablesMoved

(* The finally block: unlock, give the connection back, resolve.           *)
Unlock(c) ==
    /\ caller[c].pc = "leaving"
    /\ Moved(c, "done")
    /\ sessionLock' = IF caller[c].locked
                      THEN [sessionLock EXCEPT ![caller[c].key] = Nobody] ELSE sessionLock
    /\ promises' = WithoutPromise(c)
    /\ NoTablesMoved

-----------------------------------------------------------------------------
(* The callback.                                                           *)

Calls(k) == {c \in Callers : caller[c].pc # "idle" /\ caller[c].kind = k /\ caller[c].called}

(* The call to the provider, after those others made with this key.        *)
CallsProvider(c) ==
    caller' = [caller EXCEPT ![c].pc = "calling", ![c].called = TRUE,
                  ![c].after = {d \in Calls(caller[c].kind) : caller[d].key = caller[c].key}]

(* The main pool has no connection for a query before the timeout.         *)
QueryTimesOut(c) ==
    /\ caller[c].pc \in {"duplicate", "quota", "recording"}
    /\ ~QueryCan(c)
    /\ Leaves(c, "500")
    /\ NoLocksMoved
    /\ NoTablesMoved

FindDuplicate(c) ==
    LET found == Stored(c)
    IN  /\ caller[c].pc = "duplicate"
        /\ QueryCan(c)
        /\ \/ found = NoRecord /\ Moved(c, "quota")
           \/ found # NoRecord /\ ~found.active /\ Leaves(c, "410")
           \/ found # NoRecord /\ found.active /\ found.body # caller[c].body /\ Leaves(c, "409")
           \/ /\ found # NoRecord /\ found.active /\ found.body = caller[c].body
              /\ caller' = [caller EXCEPT ![c].pc = "leaving", ![c].answer = "200",
                                          ![c].record = found.by]
        /\ NoLocksMoved
        /\ NoTablesMoved

(* The upsert counts the call it lets through, before the call is made.    *)
TakeQuota(c) ==
    LET k == caller[c].kind
    IN  /\ caller[c].pc = "quota"
        /\ QueryCan(c)
        /\ \/ /\ usage[k] < DailyLimit
              /\ usage' = [usage EXCEPT ![k] = @ + 1]
              /\ CallsProvider(c)
           \/ /\ usage[k] >= DailyLimit
              /\ Leaves(c, "429")
              /\ UNCHANGED usage
        /\ NoLocksMoved
        /\ UNCHANGED <<records, parent, ownPool>>

(* A provider that fails or times out leaves an inconclusive record, which *)
(* is stored and answered like any other.                                  *)
ProviderReturns(c) ==
    /\ caller[c].pc = "calling"
    /\ Moved(c, "recording")
    /\ NoLocksMoved
    /\ NoTablesMoved

(* UNIQUE(organization, key), and a proposal refers to its review.         *)
InsertCan(c) == Stored(c) = NoRecord /\ (caller[c].kind = "proposal" => parent # "purged")

StoreRecord(c) ==
    /\ caller[c].pc = "recording"
    /\ QueryCan(c)
    /\ InsertCan(c)
    /\ records' = [records EXCEPT ![caller[c].kind][caller[c].key] =
                       [by |-> c, body |-> caller[c].body, active |-> TRUE]]
    /\ caller' = [caller EXCEPT ![c].pc = "leaving", ![c].answer = "201", ![c].record = c]
    /\ NoLocksMoved
    /\ UNCHANGED <<usage, parent, ownPool>>

StoreFails(c) ==
    /\ caller[c].pc = "recording"
    /\ QueryCan(c)
    /\ ~InsertCan(c) \/ "write" \in Faults
    /\ Leaves(c, "500")
    /\ NoLocksMoved
    /\ NoTablesMoved

Progress(c) ==
    \/ Resume(c) \/ Connect(c) \/ ConnectTimesOut(c) \/ Unlock(c)
    \/ QueryTimesOut(c) \/ FindDuplicate(c) \/ TakeQuota(c)
    \/ ProviderReturns(c) \/ StoreRecord(c) \/ StoreFails(c)

-----------------------------------------------------------------------------
(* The surroundings.                                                       *)

(* A process dies: its callers get no answer, its sessions end.            *)
Crash(p) ==
    LET dying == {c \in Callers : /\ caller[c].pc \notin {"idle", "done", "lost"}
                                  /\ caller[c].process = p}
    IN  /\ "crash" \in Faults
        /\ dying # {}
        /\ caller' = [c \in Callers |->
                         IF c \in dying THEN [caller[c] EXCEPT !.pc = "lost", !.locked = FALSE]
                                        ELSE caller[c]]
        /\ promises' = [promises EXCEPT ![p] = [k \in Kinds |-> [y \in Keys |-> Nobody]]]
        /\ sessionLock' = [y \in Keys |-> IF sessionLock[y] \in dying THEN Nobody
                                                                    ELSE sessionLock[y]]
        /\ NoTablesMoved

(* The connection that holds the lock drops; the callback does not notice. *)
SessionDrops(c) ==
    /\ "drop" \in Faults
    /\ caller[c].pc \in CallbackPCs
    /\ caller[c].locked
    /\ caller' = [caller EXCEPT ![c].locked = FALSE]
    /\ sessionLock' = [sessionLock EXCEPT ![caller[c].key] = Nobody]
    /\ UNCHANGED promises
    /\ NoTablesMoved

Expire(k, y) ==
    /\ records[k][y] # NoRecord
    /\ records[k][y].active
    /\ records' = [records EXCEPT ![k][y].active = FALSE]
    /\ NoLocksMoved
    /\ UNCHANGED <<caller, usage, parent, ownPool>>

PurgeRecord(k, y) ==
    /\ records[k][y] # NoRecord
    /\ ~records[k][y].active
    /\ records' = [records EXCEPT ![k][y] = NoRecord]
    /\ NoLocksMoved
    /\ UNCHANGED <<caller, usage, parent, ownPool>>

ExpireParent ==
    /\ parent = "kept"
    /\ parent' = "expired"
    /\ NoLocksMoved
    /\ UNCHANGED <<caller, records, usage, ownPool>>

(* The proposals of the review go with it.                                 *)
PurgeParent ==
    /\ parent = "expired"
    /\ parent' = "purged"
    /\ records' = [records EXCEPT !["proposal"] = [y \in Keys |-> NoRecord]]
    /\ NoLocksMoved
    /\ UNCHANGED <<caller, usage, ownPool>>

Next ==
    \/ \E c \in Callers :
          \/ \E k \in Asked, p \in Processes, y \in Keys, b \in Bodies : Arrive(c, k, p, y, b)
          \/ Progress(c) \/ Lock(c) \/ SessionDrops(c)
    \/ \E p \in Processes : Crash(p)
    \/ \E k \in Kinds, y \in Keys : Expire(k, y) \/ PurgeRecord(k, y)
    \/ ExpireParent \/ PurgeParent

Spec == Init /\ [][Next]_reviewVars

(* Node runs what is ready, a timeout fires, a provider call ends within   *)
(* its own timeout, and the queue of a session lock is first come, first   *)
(* served: a caller that waits for a lock which is freed again and again   *)
(* gets it.                                                                *)
Fairness ==
    \A c \in Callers : WF_reviewVars(Progress(c)) /\ SF_reviewVars(Lock(c))

FairSpec == Spec /\ Fairness

-----------------------------------------------------------------------------
(* Every call to the paid provider is charged to the day's quota, whatever *)
(* becomes of it; and the provider is called again with a key only when    *)
(* the record of the earlier call is missing for a reason: its process     *)
(* died, its session or its transaction failed, or retention took it.      *)
(* Callers of one process that the map does not keep apart are included.   *)
PaidCallsJustified ==
    \A k \in Kinds :
        /\ Cardinality(Calls(k)) <= usage[k]
        /\ \A d \in Calls(k) : \A c \in caller[d].after :
              \/ caller[c].pc = "lost"
              \/ ~caller[c].locked \/ ~caller[d].locked
              \/ caller[c].answer = "500"
              \/ caller[c].answer = "201" /\ records[k][caller[c].key].by # c

(* A caller whose process lives is answered, also when waiting callers     *)
(* hold every connection that the holder of the lock needs.                *)
EveryCallerAnswered ==
    \A c \in Callers : caller[c].pc \notin {"idle", "lost"} ~> caller[c].pc \in {"done", "lost"}
=============================================================================
