------------------------- MODULE RunAdmissionProofs -------------------------
(***************************************************************************)
(* Proofs about RunAdmission: for any number of requests, keys and         *)
(* targets, and whatever the limits, the quotas are kept, a key names one  *)
(* run, and requests are decided as if they came one by one.               *)
(***************************************************************************)
EXTENDS RunAdmission, FiniteSetTheorems, TLAPS

-----------------------------------------------------------------------------
(* Typing.                                                                 *)

LEMMA InitTyped == Init => TypeOK
  BY AdmissionAssumption DEF Init, TypeOK

(* The steps of one request's transaction leave the types alone.           *)
LEMMA RequestTyped ==
  ASSUME TypeOK, NEW q \in Requests,
         \/ \E k \in Keys, t \in Targets : Begin(q, k, t)
         \/ Lock(q) \/ Transact(q) \/ Rollback(q)
  PROVE  TypeOK'
<1> USE AdmissionAssumption
<1>0. req[q] \in Request \/ req[q] = Unsent
  BY DEF TypeOK
<1>1. ASSUME NEW k \in Keys, NEW t \in Targets, Begin(q, k, t) PROVE TypeOK'
  <2>1. [pc |-> "waiting", key |-> k, target |-> t, now |-> day, outcome |-> "none"] \in Request
    BY DEF Request, OpenPCs, TypeOK
  <2>. QED  BY <1>1, <2>1 DEF Begin, TypeOK
<1>2. ASSUME NEW pc \in OpenPCs \cup {"answered", "lost"}, req[q] \in Request
      PROVE  [req[q] EXCEPT !.pc = pc] \in Request
  BY <1>2 DEF Request
<1>3. ASSUME NEW a \in Answers, req[q] \in Request
      PROVE  [req[q] EXCEPT !.pc = "closing", !.outcome = a] \in Request
  BY <1>3 DEF Request, OpenPCs, LockedPCs
<1>4. CASE Lock(q)
  <2>1. req[q] \in Request
    BY <1>0, <1>4 DEF Lock, Unsent
  <2>. QED  BY <1>4, <1>2, <2>1 DEF Lock, Goto, TypeOK, OpenPCs, LockedPCs
<1>5. ASSUME NEW r \in Requests PROVE FoundAnswer(q, r) \in Answers
  BY DEF FoundAnswer, Answers
<1>6. CASE LookUp(q)
  <2>1. req[q] \in Request
    BY <1>0, <1>6 DEF LookUp, Unsent
  <2>2. CASE Goto(q, "fresh")
    BY <1>6, <1>2, <2>1, <2>2 DEF LookUp, Goto, TypeOK, OpenPCs, LockedPCs
  <2>3. ASSUME NEW r \in Requests, Conclude(q, FoundAnswer(q, r)) PROVE TypeOK'
    BY <1>6, <1>3, <1>5, <2>1, <2>3 DEF LookUp, Conclude, TypeOK
  <2>. QED  BY <1>6, <2>2, <2>3 DEF LookUp, WithKey, Kept
<1>7. CASE Count(q)
  <2>1. req[q] \in Request
    BY <1>0, <1>7 DEF Count, Unsent
  <2>2. CASE Goto(q, "admitted")
    BY <1>7, <1>2, <2>1, <2>2 DEF Count, Goto, TypeOK, OpenPCs, LockedPCs
  <2>3. ASSUME NEW a \in {"daily", "concurrent"}, Conclude(q, a) PROVE TypeOK'
    BY <1>7, <1>3, <2>1, <2>3 DEF Count, Conclude, TypeOK, Answers
  <2>. QED  BY <1>7, <2>2, <2>3 DEF Count
<1>8. CASE Insert(q)
  <2>1. req[q] \in Request
    BY <1>0, <1>8 DEF Insert, Unsent
  <2>2. CASE Conclude(q, "created")
    BY <1>8, <1>3, <2>1, <2>2 DEF Insert, Conclude, TypeOK, Answers
  <2>3. ASSUME NEW r \in Requests, Conclude(q, FoundAnswer(q, r)) PROVE TypeOK'
    BY <1>8, <1>3, <1>5, <2>1, <2>3 DEF Insert, Conclude, TypeOK
  <2>. QED  BY <1>8, <2>2, <2>3 DEF Insert, WithKey, Kept
<1>9. CASE Commit(q)
  <2>1. req[q] \in Request
    BY <1>0, <1>9 DEF Commit, Unsent
  <2>2. [status |-> "queued", key |-> req[q].key, target |-> req[q].target,
         day |-> req[q].now] \in Run
    BY <2>1 DEF Run, Request
  <2>3. runs' \in [Requests -> Run \cup {NoRun, Purged}]
    BY <1>9, <2>2 DEF Commit, TypeOK
  <2>4. req' \in [Requests -> Request \cup {Unsent}]
    BY <1>9, <1>2, <2>1 DEF Commit, Goto, TypeOK
  <2>5. lock' \in Requests \cup {NoRequest} /\ day' \in Nat
    BY <1>9 DEF Commit, Unlocked, TypeOK
  <2>. QED  BY <2>3, <2>4, <2>5 DEF TypeOK
<1>10. CASE Rollback(q)
  <2>1. req[q] \in Request
    BY <1>0, <1>10 DEF Rollback, Unsent, OpenPCs, LockedPCs
  <2>2. [req[q] EXCEPT !.pc = "lost", !.outcome = IF @ = "created" THEN "none" ELSE @] \in Request
    BY <2>1 DEF Request
  <2>3. req' \in [Requests -> Request \cup {Unsent}]
    BY <1>10, <2>2 DEF Rollback, TypeOK
  <2>4. lock' \in Requests \cup {NoRequest} /\ day' \in Nat /\ runs' = runs
    BY <1>10 DEF Rollback, Unlocked, TypeOK
  <2>. QED  BY <2>3, <2>4 DEF TypeOK
<1>. QED  BY <1>1, <1>4, <1>6, <1>7, <1>8, <1>9, <1>10 DEF Transact

(* Nor does anything that happens to runs elsewhere.                       *)
LEMMA ElsewhereTyped ==
  ASSUME TypeOK,
         \/ \E r \in Requests : Start(r) \/ Retry(r) \/ Settle(r)
         \/ Purge \/ Tomorrow
  PROVE  TypeOK'
<1>1. ASSUME NEW r \in Requests, NEW s \in {"queued", "running", "settled"},
             runs[r].status \in {"queued", "running"},
             runs' = [runs EXCEPT ![r].status = s], UNCHANGED <<req, lock, day>>
      PROVE  TypeOK'
  <2>1. runs[r] \in Run
    BY <1>1 DEF TypeOK, NoRun, Purged
  <2>2. [runs[r] EXCEPT !.status = s] \in Run
    BY <2>1 DEF Run
  <2>. QED  BY <1>1, <2>2 DEF TypeOK
<1>2. ASSUME NEW r \in Requests, Start(r) \/ Retry(r) \/ Settle(r) PROVE TypeOK'
  BY <1>1, <1>2 DEF Start, Retry, Settle
<1>3. CASE Purge
  BY <1>3 DEF Purge, TypeOK
<1>4. CASE Tomorrow
  BY <1>4 DEF Tomorrow, TypeOK
<1>. QED  BY <1>2, <1>3, <1>4

LEMMA NextTyped == TypeOK /\ [Next]_vars => TypeOK'
<1> SUFFICES ASSUME TypeOK, [Next]_vars PROVE TypeOK'
  OBVIOUS
<1>1. CASE UNCHANGED vars
  BY <1>1 DEF vars, TypeOK
<1>. QED  BY <1>1, RequestTyped, ElsewhereTyped DEF Next

(* Every reachable state of the admission is well typed.                   *)
THEOREM TypeCorrect == Spec => []TypeOK
<1>. QED  BY InitTyped, NextTyped, PTL DEF Spec

-----------------------------------------------------------------------------
(* The inductive invariant.  The lock is held by exactly the transaction   *)
(* that is past it, so what that transaction has read of keys and counts   *)
(* is still so when it commits, up to runs that settled or were purged.    *)

Holds(q)     == req[q].pc \in LockedPCs <=> lock = q
Undecided(q) == /\ req[q].pc \notin {"closing", "answered", "lost"} => req[q].outcome = "none"
                /\ req[q].pc = "closing" => req[q].outcome \in Answers
InPast(q)    == req[q].pc # "unsent" => req[q].now <= day
KeyIsFree(q) == \/ req[q].pc \in {"fresh", "admitted"}
                \/ /\ req[q].pc = "closing"
                   /\ req[q].outcome \in {"created", "daily", "concurrent"}
                => WithKey(req[q].key) = {}
HasRoom(q)   == \/ req[q].pc = "admitted"
                \/ req[q].pc = "closing" /\ req[q].outcome = "created"
                => /\ Cardinality(CreatedSince(req[q].now)) < DailyLimit
                   /\ Cardinality(ActiveAt(req[q].now)) < ConcurrentLimit
RequestInv(q) == Holds(q) /\ Undecided(q) /\ InPast(q) /\ KeyIsFree(q) /\ HasRoom(q)

Asked(r) == runs[r] # NoRun => req[r].outcome = "created" /\ req[r].pc \in {"answered", "lost"}

KeysUnique == \A r, s \in Kept : runs[r].key = runs[s].key => r = s

Quotas == /\ \A d \in Nat : Cardinality(CreatedOn(d)) <= DailyLimit
          /\ Cardinality(ActiveAt(day)) <= ConcurrentLimit

TableInv == (\A r \in Requests : Asked(r)) /\ KeysUnique /\ Quotas

AdmissionInv == TypeOK /\ (\A q \in Requests : RequestInv(q)) /\ TableInv

LEMMA CardSub ==
  ASSUME NEW S \in SUBSET Requests, NEW T \in SUBSET S
  PROVE  /\ IsFiniteSet(S) /\ IsFiniteSet(T)
         /\ Cardinality(S) \in Nat /\ Cardinality(T) \in Nat
         /\ Cardinality(T) <= Cardinality(S)
<1>1. IsFiniteSet(S)
  BY AdmissionAssumption, FS_Subset
<1>2. IsFiniteSet(T) /\ Cardinality(T) <= Cardinality(S)
  BY <1>1, FS_Subset
<1>. QED  BY <1>1, <1>2, FS_CardinalityType

LEMMA InitAdmissionInv == Init => AdmissionInv
<1> SUFFICES ASSUME Init PROVE AdmissionInv
  OBVIOUS
<1>1. TypeOK
  BY InitTyped
<1>2. Kept = {}
  BY DEF Init, Kept, NoRun
<1>3. \A q \in Requests : RequestInv(q)
  BY AdmissionAssumption DEF Init, RequestInv, Holds, Undecided, InPast, KeyIsFree, HasRoom,
     Unsent, LockedPCs
<1>4. Cardinality({}) = 0
  BY FS_EmptySet
<1>5. Quotas
  <2>1. \A d \in Nat : CreatedOn(d) = {}
    BY <1>2 DEF CreatedOn
  <2>2. ActiveAt(day) = {}
    BY <1>2 DEF ActiveAt
  <2>3. 0 <= DailyLimit /\ 0 <= ConcurrentLimit
    BY AdmissionAssumption
  <2>4. ASSUME NEW d \in Nat PROVE Cardinality(CreatedOn(d)) <= DailyLimit
    BY <2>1, <1>4, <2>3
  <2>5. Cardinality(ActiveAt(day)) <= ConcurrentLimit
    BY <2>2, <1>4, <2>3
  <2>. QED  BY <2>4, <2>5 DEF Quotas
<1>6. TableInv
  BY <1>2, <1>5 DEF TableInv, KeysUnique, Asked, Init
<1>. QED  BY <1>1, <1>3, <1>6 DEF AdmissionInv

-----------------------------------------------------------------------------
(* Steps that leave the table alone.                                       *)

LEMMA TableKept ==
  ASSUME runs' = runs
  PROVE  /\ Kept' = Kept
         /\ \A k : WithKey(k)' = WithKey(k)
         /\ \A n : /\ CreatedSince(n)' = CreatedSince(n)
                   /\ CreatedOn(n)' = CreatedOn(n)
                   /\ ActiveAt(n)' = ActiveAt(n)
BY DEF Kept, WithKey, CreatedSince, CreatedOn, ActiveAt, Expired

(* What a step of q's transaction, other than its COMMIT, does.            *)
LEMMA RequestEffect ==
  ASSUME TypeOK, NEW q \in Requests, Undecided(q), KeyIsFree(q),
         \/ \E k \in Keys, t \in Targets : Begin(q, k, t)
         \/ Lock(q) \/ LookUp(q) \/ Count(q) \/ Insert(q) \/ Rollback(q)
  PROVE  /\ runs' = runs /\ day' = day
         /\ req[q].pc \notin {"answered", "lost"}
         /\ \A p \in Requests \ {q} : req'[p] = req[p]
         /\ \/ /\ req[q] = Unsent /\ lock' = lock
               /\ req'[q].pc = "waiting" /\ req'[q].outcome = "none" /\ req'[q].now = day
            \/ /\ req[q].pc = "waiting" /\ lock = NoRequest /\ lock' = q
               /\ req'[q] = [req[q] EXCEPT !.pc = "locked"]
            \/ /\ req[q].pc = "locked" /\ lock' = lock /\ WithKey(req[q].key) = {}
               /\ req'[q] = [req[q] EXCEPT !.pc = "fresh"]
            \/ /\ req[q].pc = "locked" /\ lock' = lock
               /\ \E a \in {"conflict", "expired", "existing"} :
                     req'[q] = [req[q] EXCEPT !.pc = "closing", !.outcome = a]
            \/ /\ req[q].pc = "fresh" /\ lock' = lock
               /\ \E a \in {"daily", "concurrent"} :
                     req'[q] = [req[q] EXCEPT !.pc = "closing", !.outcome = a]
            \/ /\ req[q].pc = "fresh" /\ lock' = lock
               /\ ~ Cardinality(CreatedSince(req[q].now)) >= DailyLimit
               /\ ~ Cardinality(ActiveAt(req[q].now)) >= ConcurrentLimit
               /\ req'[q] = [req[q] EXCEPT !.pc = "admitted"]
            \/ /\ req[q].pc = "admitted" /\ lock' = lock
               /\ req'[q] = [req[q] EXCEPT !.pc = "closing", !.outcome = "created"]
            \/ /\ req[q].pc \in OpenPCs /\ lock' = Unlocked(q)
               /\ \E a : req'[q] = [req[q] EXCEPT !.pc = "lost", !.outcome = a]
<1>1. ASSUME NEW k \in Keys, NEW t \in Targets, Begin(q, k, t)
      PROVE  /\ runs' = runs /\ day' = day /\ lock' = lock /\ req[q] = Unsent
             /\ \A p \in Requests \ {q} : req'[p] = req[p]
             /\ req'[q] = [pc |-> "waiting", key |-> k, target |-> t, now |-> day,
                           outcome |-> "none"]
  BY <1>1 DEF Begin, TypeOK
<1>2. ASSUME NEW k \in Keys, NEW t \in Targets, Begin(q, k, t)
      PROVE  /\ req[q].pc \notin {"answered", "lost"}
             /\ req'[q].pc = "waiting" /\ req'[q].outcome = "none" /\ req'[q].now = day
  <2>1. /\ req[q] = Unsent
        /\ req'[q] = [pc |-> "waiting", key |-> k, target |-> t, now |-> day,
                      outcome |-> "none"]
    BY <1>1, <1>2
  <2>. QED  BY <2>1 DEF Unsent
<1>3. \A r \in Requests : FoundAnswer(q, r) \in {"conflict", "expired", "existing"}
  BY DEF FoundAnswer
<1>4. CASE Lock(q)
  BY <1>4 DEF Lock, Goto, TypeOK
<1>5. CASE LookUp(q)
  BY <1>3, <1>5 DEF LookUp, Goto, Conclude, TypeOK, WithKey, Kept
<1>6. CASE Count(q)
  BY <1>6 DEF Count, Goto, Conclude, TypeOK
<1>7. CASE Insert(q)
  <2>1. WithKey(req[q].key) = {}
    BY <1>7 DEF Insert, KeyIsFree
  <2>. QED  BY <1>7, <2>1 DEF Insert, Conclude, TypeOK
<1>8. CASE Rollback(q)
  BY <1>8 DEF Rollback, TypeOK, OpenPCs, LockedPCs
<1>. QED  BY <1>1, <1>2, <1>4, <1>5, <1>6, <1>7, <1>8

LEMMA RequestStepInv ==
  ASSUME AdmissionInv, NEW q \in Requests,
         \/ \E k \in Keys, t \in Targets : Begin(q, k, t)
         \/ Lock(q) \/ LookUp(q) \/ Count(q) \/ Insert(q) \/ Rollback(q)
  PROVE  AdmissionInv'
<1>1. TypeOK /\ TypeOK' /\ TableInv /\ (\A p \in Requests : RequestInv(p))
  BY RequestTyped DEF AdmissionInv, Transact
<1>2. Holds(q) /\ Undecided(q) /\ InPast(q) /\ KeyIsFree(q) /\ HasRoom(q)
  BY <1>1 DEF RequestInv
<1>3. runs' = runs /\ day' = day /\ req[q].pc \notin {"answered", "lost"}
  BY <1>1, <1>2, RequestEffect
<1>4. \A p \in Requests \ {q} : req'[p] = req[p]
  BY <1>1, <1>2, RequestEffect
<1>e. \/ /\ req[q] = Unsent /\ lock' = lock
         /\ req'[q].pc = "waiting" /\ req'[q].outcome = "none" /\ req'[q].now = day
      \/ /\ req[q].pc = "waiting" /\ lock = NoRequest /\ lock' = q
         /\ req'[q] = [req[q] EXCEPT !.pc = "locked"]
      \/ /\ req[q].pc = "locked" /\ lock' = lock /\ WithKey(req[q].key) = {}
         /\ req'[q] = [req[q] EXCEPT !.pc = "fresh"]
      \/ /\ req[q].pc = "locked" /\ lock' = lock
         /\ \E a \in {"conflict", "expired", "existing"} :
               req'[q] = [req[q] EXCEPT !.pc = "closing", !.outcome = a]
      \/ /\ req[q].pc = "fresh" /\ lock' = lock
         /\ \E a \in {"daily", "concurrent"} :
               req'[q] = [req[q] EXCEPT !.pc = "closing", !.outcome = a]
      \/ /\ req[q].pc = "fresh" /\ lock' = lock
         /\ ~ Cardinality(CreatedSince(req[q].now)) >= DailyLimit
         /\ ~ Cardinality(ActiveAt(req[q].now)) >= ConcurrentLimit
         /\ req'[q] = [req[q] EXCEPT !.pc = "admitted"]
      \/ /\ req[q].pc = "admitted" /\ lock' = lock
         /\ req'[q] = [req[q] EXCEPT !.pc = "closing", !.outcome = "created"]
      \/ /\ req[q].pc \in OpenPCs /\ lock' = Unlocked(q)
         /\ \E a : req'[q] = [req[q] EXCEPT !.pc = "lost", !.outcome = a]
  BY <1>1, <1>2, RequestEffect
<1>5. /\ Kept' = Kept
      /\ \A k : WithKey(k)' = WithKey(k)
      /\ \A n : /\ CreatedSince(n)' = CreatedSince(n)
                /\ CreatedOn(n)' = CreatedOn(n)
                /\ ActiveAt(n)' = ActiveAt(n)
  BY <1>3, TableKept
<1>6. TableInv'
  <2>1. runs[q] = NoRun
    BY <1>1, <1>3 DEF TableInv, Asked
  <2>2. \A r \in Requests : Asked(r)'
    BY <1>1, <1>3, <1>4, <2>1 DEF TableInv, Asked
  <2>3. KeysUnique'
    BY <1>1, <1>3, <1>5 DEF TableInv, KeysUnique
  <2>4. Quotas'
    BY <1>1, <1>3, <1>5 DEF TableInv, Quotas
  <2>. QED  BY <2>2, <2>3, <2>4 DEF TableInv
<1>7. ASSUME NEW p \in Requests \ {q} PROVE RequestInv(p)'
  <2>1. RequestInv(p) /\ req'[p] = req[p]
    BY <1>1, <1>4
  <2>2. lock' = p <=> lock = p
    <3>1. lock' = lock \/ (lock = NoRequest /\ lock' = q) \/ lock' = Unlocked(q)
      BY <1>e
    <3>. QED  BY <3>1, AdmissionAssumption DEF Unlocked
  <2>3. Holds(p)' /\ Undecided(p)' /\ InPast(p)'
    BY <1>3, <2>1, <2>2 DEF RequestInv, Holds, Undecided, InPast
  <2>4. KeyIsFree(p)' /\ HasRoom(p)'
    BY <1>5, <2>1 DEF RequestInv, KeyIsFree, HasRoom
  <2>. QED  BY <2>3, <2>4 DEF RequestInv
<1>8. RequestInv(q)'
  <2>. DEFINE n == req[q].now
              k == req[q].key
  <2>0. req[q] # Unsent => req[q] \in Request
    BY <1>1 DEF TypeOK
  <2>1. CASE /\ req[q] = Unsent /\ lock' = lock
             /\ req'[q].pc = "waiting" /\ req'[q].outcome = "none" /\ req'[q].now = day
    BY <1>1, <1>2, <1>3, <2>1 DEF RequestInv, Holds, Undecided, InPast, KeyIsFree, HasRoom,
       Unsent, LockedPCs, TypeOK
  <2>2. ASSUME NEW pc \in OpenPCs, req[q] # Unsent, req'[q] = [req[q] EXCEPT !.pc = pc]
        PROVE  /\ req'[q].pc = pc /\ req'[q].outcome = req[q].outcome
               /\ req'[q].key = req[q].key /\ req'[q].now = req[q].now
    BY <2>0, <2>2 DEF Request
  <2>3. ASSUME NEW pc, NEW a, req[q] # Unsent,
               req'[q] = [req[q] EXCEPT !.pc = pc, !.outcome = a]
        PROVE  /\ req'[q].pc = pc /\ req'[q].outcome = a
               /\ req'[q].key = req[q].key /\ req'[q].now = req[q].now
    BY <2>0, <2>3 DEF Request
  <2>4. ASSUME req[q] # Unsent, req'[q].now = req[q].now,
               req'[q].pc \in LockedPCs => lock' = q,
               req'[q].pc \notin LockedPCs => lock' # q,
               req'[q].pc \notin {"closing", "answered", "lost"} => req'[q].outcome = "none",
               req'[q].pc = "closing" => req'[q].outcome \in Answers
        PROVE  Holds(q)' /\ Undecided(q)' /\ InPast(q)'
    <3>1. req[q].pc # "unsent"
      BY <2>0, <2>4 DEF Request, OpenPCs, LockedPCs
    <3>. QED  BY <1>2, <1>3, <2>4, <3>1 DEF Holds, Undecided, InPast
  <2>5. CASE /\ req[q].pc = "waiting" /\ lock = NoRequest /\ lock' = q
             /\ req'[q] = [req[q] EXCEPT !.pc = "locked"]
    <3>1. req[q] # Unsent
      BY <2>5 DEF Unsent
    <3>2. /\ req'[q].pc = "locked" /\ req'[q].outcome = req[q].outcome
          /\ req'[q].now = req[q].now
      BY <2>2, <2>5, <3>1 DEF OpenPCs, LockedPCs
    <3>3. Holds(q)' /\ Undecided(q)' /\ InPast(q)'
      BY <1>2, <2>4, <2>5, <3>1, <3>2 DEF Undecided, LockedPCs
    <3>. QED  BY <3>2, <3>3 DEF RequestInv, KeyIsFree, HasRoom
  <2>6. CASE /\ req[q].pc = "locked" /\ lock' = lock /\ WithKey(k) = {}
             /\ req'[q] = [req[q] EXCEPT !.pc = "fresh"]
    <3>1. req[q] # Unsent
      BY <2>6 DEF Unsent
    <3>2. /\ req'[q].pc = "fresh" /\ req'[q].outcome = req[q].outcome
          /\ req'[q].key = k /\ req'[q].now = req[q].now
      BY <2>2, <2>6, <3>1 DEF OpenPCs, LockedPCs
    <3>3. Holds(q)' /\ Undecided(q)' /\ InPast(q)'
      BY <1>2, <2>4, <2>6, <3>1, <3>2 DEF Holds, Undecided, LockedPCs
    <3>4. KeyIsFree(q)' /\ HasRoom(q)'
      BY <1>5, <2>6, <3>2 DEF KeyIsFree, HasRoom
    <3>. QED  BY <3>3, <3>4 DEF RequestInv
  <2>7. CASE /\ req[q].pc = "locked" /\ lock' = lock
             /\ \E a \in {"conflict", "expired", "existing"} :
                   req'[q] = [req[q] EXCEPT !.pc = "closing", !.outcome = a]
    <3>1. req[q] # Unsent
      BY <2>7 DEF Unsent
    <3>2. /\ req'[q].pc = "closing"
          /\ req'[q].outcome \in {"conflict", "expired", "existing"}
          /\ req'[q].now = req[q].now
      <4>1. PICK a \in {"conflict", "expired", "existing"} :
                  req'[q] = [req[q] EXCEPT !.pc = "closing", !.outcome = a]
        BY <2>7
      <4>. QED  BY <2>3, <3>1, <4>1
    <3>3. Holds(q)' /\ Undecided(q)' /\ InPast(q)'
      BY <1>2, <2>4, <2>7, <3>1, <3>2 DEF Holds, LockedPCs, Answers
    <3>. QED  BY <3>2, <3>3 DEF RequestInv, KeyIsFree, HasRoom
  <2>8. CASE /\ req[q].pc = "fresh" /\ lock' = lock
             /\ \E a \in {"daily", "concurrent"} :
                   req'[q] = [req[q] EXCEPT !.pc = "closing", !.outcome = a]
    <3>1. req[q] # Unsent
      BY <2>8 DEF Unsent
    <3>2. /\ req'[q].pc = "closing" /\ req'[q].outcome \in {"daily", "concurrent"}
          /\ req'[q].key = k /\ req'[q].now = req[q].now
      <4>1. PICK a \in {"daily", "concurrent"} :
                  req'[q] = [req[q] EXCEPT !.pc = "closing", !.outcome = a]
        BY <2>8
      <4>. QED  BY <2>3, <3>1, <4>1
    <3>3. Holds(q)' /\ Undecided(q)' /\ InPast(q)'
      BY <1>2, <2>4, <2>8, <3>1, <3>2 DEF Holds, LockedPCs, Answers
    <3>4. KeyIsFree(q)' /\ HasRoom(q)'
      BY <1>2, <1>5, <2>8, <3>2 DEF KeyIsFree, HasRoom
    <3>. QED  BY <3>3, <3>4 DEF RequestInv
  <2>9. CASE /\ req[q].pc = "fresh" /\ lock' = lock
             /\ ~ Cardinality(CreatedSince(n)) >= DailyLimit
             /\ ~ Cardinality(ActiveAt(n)) >= ConcurrentLimit
             /\ req'[q] = [req[q] EXCEPT !.pc = "admitted"]
    <3>1. req[q] # Unsent
      BY <2>9 DEF Unsent
    <3>2. /\ req'[q].pc = "admitted" /\ req'[q].outcome = req[q].outcome
          /\ req'[q].key = k /\ req'[q].now = n
      BY <2>2, <2>9, <3>1 DEF OpenPCs, LockedPCs
    <3>3. Holds(q)' /\ Undecided(q)' /\ InPast(q)'
      BY <1>2, <2>4, <2>9, <3>1, <3>2 DEF Holds, Undecided, LockedPCs
    <3>4. /\ CreatedSince(n) \in SUBSET Requests
          /\ ActiveAt(n) \in SUBSET Requests
      BY DEF CreatedSince, ActiveAt, Kept
    <3>5. Cardinality(CreatedSince(n)) \in Nat /\ Cardinality(ActiveAt(n)) \in Nat
      BY <3>4, CardSub
    <3>6. Cardinality(CreatedSince(n)) < DailyLimit /\ Cardinality(ActiveAt(n)) < ConcurrentLimit
      BY <2>9, <3>5, AdmissionAssumption
    <3>7. KeyIsFree(q)'
      BY <1>2, <1>5, <2>9, <3>2 DEF KeyIsFree
    <3>8. HasRoom(q)'
      BY <1>5, <3>2, <3>6 DEF HasRoom
    <3>. QED  BY <3>3, <3>7, <3>8 DEF RequestInv
  <2>10. CASE /\ req[q].pc = "admitted" /\ lock' = lock
              /\ req'[q] = [req[q] EXCEPT !.pc = "closing", !.outcome = "created"]
    <3>1. req[q] # Unsent
      BY <2>10 DEF Unsent
    <3>2. /\ req'[q].pc = "closing" /\ req'[q].outcome = "created"
          /\ req'[q].key = k /\ req'[q].now = n
      BY <2>3, <2>10, <3>1
    <3>3. Holds(q)' /\ Undecided(q)' /\ InPast(q)'
      BY <1>2, <2>4, <2>10, <3>1, <3>2 DEF Holds, LockedPCs, Answers
    <3>4. KeyIsFree(q)'
      BY <1>2, <1>5, <2>10, <3>2 DEF KeyIsFree
    <3>5. HasRoom(q)'
      BY <1>2, <1>5, <2>10, <3>2 DEF HasRoom
    <3>. QED  BY <3>3, <3>4, <3>5 DEF RequestInv
  <2>11. CASE /\ req[q].pc \in OpenPCs /\ lock' = Unlocked(q)
              /\ \E a : req'[q] = [req[q] EXCEPT !.pc = "lost", !.outcome = a]
    <3>1. req[q] # Unsent
      BY <2>11 DEF Unsent, OpenPCs, LockedPCs
    <3>2. req'[q].pc = "lost" /\ req'[q].now = req[q].now
      <4>1. PICK a : req'[q] = [req[q] EXCEPT !.pc = "lost", !.outcome = a]
        BY <2>11
      <4>. QED  BY <2>3, <3>1, <4>1
    <3>3. lock' # q
      BY <2>11, AdmissionAssumption DEF Unlocked
    <3>4. Holds(q)' /\ Undecided(q)' /\ InPast(q)'
      BY <2>4, <3>1, <3>2, <3>3 DEF LockedPCs
    <3>. QED  BY <3>2, <3>4 DEF RequestInv, KeyIsFree, HasRoom
  <2>. HIDE DEF n, k
  <2>. QED
    BY <1>e, <2>1, <2>5, <2>6, <2>7, <2>8, <2>9, <2>10, <2>11 DEF n, k
<1>. QED  BY <1>1, <1>6, <1>7, <1>8 DEF AdmissionInv

-----------------------------------------------------------------------------
(* COMMIT.                                                                 *)

LEMMA CommitEffect ==
  ASSUME AdmissionInv, NEW q \in Requests, Commit(q)
  PROVE  /\ req[q] \in Request /\ lock = q /\ lock' = NoRequest /\ day' = day
         /\ \A p \in Requests \ {q} : req'[p] = req[p] /\ runs'[p] = runs[p]
         /\ req'[q].pc \in {"answered", "lost"} /\ req'[q].outcome = req[q].outcome
         /\ req'[q].now = req[q].now
         /\ runs[q] = NoRun
<1>1. TypeOK /\ RequestInv(q) /\ Asked(q) /\ req[q].pc = "closing"
  BY DEF AdmissionInv, TableInv, Commit
<1>2. req[q] \in Request
  BY <1>1 DEF TypeOK, Unsent
<1>3. lock = q
  BY <1>1 DEF RequestInv, Holds, LockedPCs
<1>4. PICK pc \in {"answered", "lost"} : req' = [req EXCEPT ![q].pc = pc]
  BY DEF Commit, Goto
<1>5. req'[q] = [req[q] EXCEPT !.pc = pc] /\ \A p \in Requests \ {q} : req'[p] = req[p]
  BY <1>1, <1>4 DEF TypeOK
<1>6. req'[q].pc = pc /\ req'[q].outcome = req[q].outcome /\ req'[q].now = req[q].now
  BY <1>2, <1>5 DEF Request
<1>7. \A p \in Requests \ {q} : runs'[p] = runs[p]
  BY <1>1 DEF Commit, TypeOK
<1>8. runs[q] = NoRun
  BY <1>1 DEF Asked
<1>. QED  BY <1>2, <1>3, <1>5, <1>6, <1>7, <1>8 DEF Commit, Unlocked

(* The table after the COMMIT of a transaction that inserted its run.      *)
LEMMA CreatedEffect ==
  ASSUME AdmissionInv, NEW q \in Requests, Commit(q), req[q].outcome = "created"
  PROVE  /\ runs'[q].status = "queued" /\ runs'[q].key = req[q].key
         /\ runs'[q].target = req[q].target /\ runs'[q].day = req[q].now
         /\ runs'[q] # NoRun
         /\ Kept' = Kept \cup {q}
         /\ \A r \in Kept : r # q /\ runs'[r] = runs[r]
         /\ \A d : CreatedOn(d)' \subseteq IF d = req[q].now THEN CreatedSince(d) \cup {q}
                                           ELSE CreatedOn(d)
         /\ ActiveAt(day)' \subseteq ActiveAt(req[q].now) \cup {q}
<1>1. /\ req[q] \in Request /\ day' = day /\ runs[q] = NoRun
      /\ \A p \in Requests \ {q} : runs'[p] = runs[p]
  BY CommitEffect
<1>2. runs'[q] = [status |-> "queued", key |-> req[q].key, target |-> req[q].target,
                  day |-> req[q].now]
  BY DEF Commit, AdmissionInv, TypeOK
<1>3. /\ runs'[q].status = "queued" /\ runs'[q].key = req[q].key
      /\ runs'[q].target = req[q].target /\ runs'[q].day = req[q].now
  BY <1>2
<1>4. runs'[q] # NoRun
  BY <1>3 DEF NoRun
<1>5. q \notin Kept
  BY <1>1 DEF Kept, NoRun
<1>6. Kept' = Kept \cup {q}
  BY <1>1, <1>3, <1>5 DEF Kept
<1>7. \A r \in Kept : r # q /\ runs'[r] = runs[r]
  BY <1>1, <1>5 DEF Kept
<1>8. \A r \in Kept : runs[r].day \in Nat
  BY DEF AdmissionInv, TypeOK, Kept, Run, NoRun, Purged
<1>9. ASSUME NEW d
      PROVE  CreatedOn(d)' \subseteq IF d = req[q].now THEN CreatedSince(d) \cup {q}
                                     ELSE CreatedOn(d)
  <2>1. \A r \in CreatedOn(d)' : r = q \/ r \in CreatedOn(d)
    BY <1>6, <1>7 DEF CreatedOn
  <2>2. q \in CreatedOn(d)' => d = req[q].now
    BY <1>3 DEF CreatedOn
  <2>3. d = req[q].now => CreatedOn(d) \subseteq CreatedSince(d)
    BY <1>1, <1>8 DEF CreatedOn, CreatedSince, Request
  <2>. QED  BY <2>1, <2>2, <2>3
<1>10. req[q].now <= day /\ req[q].now \in Nat /\ day \in Nat /\ Retention \in Nat
  BY <1>1, AdmissionAssumption DEF AdmissionInv, RequestInv, InPast, Request, TypeOK, OpenPCs,
     LockedPCs, Commit
<1>11. ActiveAt(day)' \subseteq ActiveAt(req[q].now) \cup {q}
  <2>1. ASSUME NEW r \in Kept, ~ (runs[r].day + Retention <= day)
        PROVE  ~ (runs[r].day + Retention <= req[q].now)
    BY <1>8, <1>10, <2>1
  <2>. QED  BY <1>1, <1>6, <1>7, <2>1 DEF ActiveAt, Expired
<1>. QED  BY <1>3, <1>4, <1>6, <1>7, <1>9, <1>11

LEMMA CommitInv ==
  ASSUME AdmissionInv, NEW q \in Requests, Commit(q)
  PROVE  AdmissionInv'
<1>1. TypeOK /\ TypeOK' /\ TableInv /\ (\A p \in Requests : RequestInv(p))
  BY RequestTyped DEF AdmissionInv, Transact
<1>2. /\ lock = q /\ lock' = NoRequest /\ day' = day
      /\ \A p \in Requests \ {q} : req'[p] = req[p] /\ runs'[p] = runs[p]
      /\ req'[q].pc \in {"answered", "lost"} /\ req'[q].outcome = req[q].outcome
      /\ req'[q].now = req[q].now /\ runs[q] = NoRun
  BY CommitEffect
<1>3. req[q].pc = "closing"
  BY DEF Commit
<1>4. ASSUME NEW p \in Requests PROVE RequestInv(p)'
  <2>1. CASE p = q
    BY <1>1, <1>2, <1>3, <2>1, AdmissionAssumption
       DEF RequestInv, Holds, Undecided, InPast, KeyIsFree, HasRoom, LockedPCs
  <2>2. CASE p # q
    <3>1. req'[p] = req[p] /\ RequestInv(p) /\ req[p].pc \notin LockedPCs
      BY <1>1, <1>2, <2>2 DEF RequestInv, Holds
    <3>. QED  BY <1>2, <3>1, <2>2, AdmissionAssumption
              DEF RequestInv, Holds, Undecided, InPast, KeyIsFree, HasRoom, LockedPCs
  <2>. QED  BY <2>1, <2>2
<1>5. CASE req[q].outcome = "created"
  <2>1. /\ runs'[q].key = req[q].key
        /\ Kept' = Kept \cup {q}
        /\ \A r \in Kept : r # q /\ runs'[r] = runs[r]
        /\ \A d : CreatedOn(d)' \subseteq IF d = req[q].now THEN CreatedSince(d) \cup {q}
                                          ELSE CreatedOn(d)
        /\ ActiveAt(day)' \subseteq ActiveAt(req[q].now) \cup {q}
    BY <1>5, CreatedEffect
  <2>2. /\ WithKey(req[q].key) = {}
        /\ Cardinality(CreatedSince(req[q].now)) < DailyLimit
        /\ Cardinality(ActiveAt(req[q].now)) < ConcurrentLimit
    BY <1>1, <1>3, <1>5 DEF RequestInv, KeyIsFree, HasRoom
  <2>3. \A r \in Requests : Asked(r)'
    BY <1>1, <1>2, <1>5 DEF TableInv, Asked
  <2>4. KeysUnique'
    BY <1>1, <2>1, <2>2 DEF TableInv, KeysUnique, WithKey
  <2>5. ASSUME NEW S \in SUBSET Requests, NEW T \in SUBSET (S \cup {q}), NEW limit \in Nat,
               Cardinality(S) < limit
        PROVE  Cardinality(T) <= limit
    <3>1. IsFiniteSet(S) /\ Cardinality(S) \in Nat
      BY CardSub
    <3>2. Cardinality(S \cup {q}) <= Cardinality(S) + 1
      <4>1. Cardinality(S \cup {q}) = IF q \in S THEN Cardinality(S) ELSE Cardinality(S) + 1
        BY <3>1, FS_AddElement
      <4>. QED  BY <3>1, <4>1
    <3>3. S \cup {q} \in SUBSET Requests
      OBVIOUS
    <3>4. /\ Cardinality(T) <= Cardinality(S \cup {q}) /\ Cardinality(T) \in Nat
          /\ Cardinality(S \cup {q}) \in Nat
      BY <3>3, CardSub
    <3>. QED  BY <2>5, <3>1, <3>2, <3>4
  <2>6. ASSUME NEW d \in Nat PROVE Cardinality(CreatedOn(d)') <= DailyLimit
    <3>1. CASE d = req[q].now
      <4>1. /\ CreatedSince(d) \in SUBSET Requests
            /\ CreatedOn(d)' \in SUBSET (CreatedSince(d) \cup {q})
        BY <2>1, <3>1 DEF CreatedSince, Kept
      <4>2. Cardinality(CreatedSince(d)) < DailyLimit
        BY <2>2, <3>1
      <4>. QED  BY <2>5, <4>1, <4>2, AdmissionAssumption
    <3>2. CASE d # req[q].now
      <4>1. CreatedOn(d) \in SUBSET Requests /\ CreatedOn(d)' \in SUBSET CreatedOn(d)
        BY <2>1, <3>2 DEF CreatedOn, Kept
      <4>2. /\ Cardinality(CreatedOn(d)') <= Cardinality(CreatedOn(d))
            /\ Cardinality(CreatedOn(d)') \in Nat /\ Cardinality(CreatedOn(d)) \in Nat
        BY <4>1, CardSub
      <4>3. Cardinality(CreatedOn(d)) <= DailyLimit
        BY <1>1 DEF TableInv, Quotas
      <4>. QED  BY <4>2, <4>3, AdmissionAssumption
    <3>. QED  BY <3>1, <3>2
  <2>7. Cardinality(ActiveAt(day)') <= ConcurrentLimit
    <3>1. ActiveAt(req[q].now) \in SUBSET Requests
      BY DEF ActiveAt, Kept
    <3>2. ActiveAt(day)' \in SUBSET (ActiveAt(req[q].now) \cup {q})
      BY <2>1
    <3>. QED  BY <2>2, <2>5, <3>1, <3>2, AdmissionAssumption
  <2>8. Quotas'
    BY <2>6, <2>7 DEF Quotas
  <2>. QED  BY <1>1, <1>4, <2>3, <2>4, <2>8 DEF AdmissionInv, TableInv
<1>6. CASE req[q].outcome # "created"
  <2>1. runs' = runs
    BY <1>6 DEF Commit
  <2>2. /\ Kept' = Kept
        /\ \A n : CreatedOn(n)' = CreatedOn(n) /\ ActiveAt(n)' = ActiveAt(n)
    BY <2>1, TableKept
  <2>3. \A r \in Requests : Asked(r)'
    BY <1>1, <1>2, <2>1 DEF TableInv, Asked
  <2>4. KeysUnique' /\ Quotas'
    BY <1>1, <1>2, <2>1, <2>2 DEF TableInv, KeysUnique, Quotas
  <2>. QED  BY <1>1, <1>4, <2>3, <2>4 DEF AdmissionInv, TableInv
<1>. QED  BY <1>5, <1>6

-----------------------------------------------------------------------------
(* What happens to runs elsewhere takes them out of every count and never  *)
(* brings one back.                                                        *)

LEMMA ElsewhereEffect ==
  ASSUME TypeOK,
         \/ \E r \in Requests : Start(r) \/ Retry(r) \/ Settle(r)
         \/ Purge \/ Tomorrow
  PROVE  /\ req' = req /\ lock' = lock /\ day <= day'
         /\ \A r \in Requests : runs'[r] # NoRun => runs[r] # NoRun
         /\ \A r \in Kept' : /\ r \in Kept
                             /\ runs'[r].key = runs[r].key /\ runs'[r].target = runs[r].target
                             /\ runs'[r].day = runs[r].day
                             /\ runs'[r].status # "settled" => runs[r].status # "settled"
<1>1. ASSUME NEW r \in Requests, NEW s \in {"queued", "running", "settled"},
             runs[r].status \in {"queued", "running"},
             runs' = [runs EXCEPT ![r].status = s], UNCHANGED <<req, lock, day>>
      PROVE  /\ req' = req /\ lock' = lock /\ day <= day'
             /\ runs[r] # NoRun
             /\ \A p \in Requests \ {r} : runs'[p] = runs[p]
             /\ runs'[r].key = runs[r].key /\ runs'[r].target = runs[r].target
             /\ runs'[r].day = runs[r].day
  <2>1. runs[r] \in Run /\ day \in Nat
    BY <1>1 DEF TypeOK, NoRun, Purged
  <2>2. runs'[r] = [runs[r] EXCEPT !.status = s]
    BY <1>1 DEF TypeOK
  <2>3. /\ runs'[r].key = runs[r].key /\ runs'[r].target = runs[r].target
        /\ runs'[r].day = runs[r].day
    BY <2>1, <2>2 DEF Run
  <2>. QED  BY <1>1, <2>1, <2>3 DEF TypeOK, NoRun
<1>2. ASSUME NEW r \in Requests, Start(r) \/ Retry(r) \/ Settle(r)
      PROVE  /\ req' = req /\ lock' = lock /\ day <= day'
             /\ runs[r] # NoRun /\ runs[r].status \in {"queued", "running"}
             /\ \A p \in Requests \ {r} : runs'[p] = runs[p]
             /\ runs'[r].key = runs[r].key /\ runs'[r].target = runs[r].target
             /\ runs'[r].day = runs[r].day
  BY <1>1, <1>2 DEF Start, Retry, Settle
<1>3. CASE \E r \in Requests : Start(r) \/ Retry(r) \/ Settle(r)
  BY <1>2, <1>3 DEF Kept
<1>4. CASE Purge
  <2>1. day <= day' /\ req' = req /\ lock' = lock
    BY <1>4 DEF Purge, TypeOK
  <2>2. \A r \in Requests : runs'[r] = runs[r] \/ (r \in Kept /\ runs'[r] = Purged)
    BY <1>4 DEF Purge
  <2>. QED  BY <2>1, <2>2 DEF Kept, NoRun, Purged
<1>5. CASE Tomorrow
  BY <1>5 DEF Tomorrow, TypeOK, Kept
<1>. QED  BY <1>3, <1>4, <1>5

LEMMA ElsewhereInv ==
  ASSUME AdmissionInv,
         \/ \E r \in Requests : Start(r) \/ Retry(r) \/ Settle(r)
         \/ Purge \/ Tomorrow
  PROVE  AdmissionInv'
<1>1. TypeOK /\ TypeOK' /\ TableInv /\ (\A p \in Requests : RequestInv(p))
  BY ElsewhereTyped DEF AdmissionInv
<1>2. /\ req' = req /\ lock' = lock /\ day <= day'
      /\ \A r \in Requests : runs'[r] # NoRun => runs[r] # NoRun
      /\ \A r \in Kept' : /\ r \in Kept
                          /\ runs'[r].key = runs[r].key /\ runs'[r].target = runs[r].target
                          /\ runs'[r].day = runs[r].day
                          /\ runs'[r].status # "settled" => runs[r].status # "settled"
  BY <1>1, ElsewhereEffect
<1>3. day \in Nat /\ day' \in Nat /\ Retention \in Nat /\ \A r \in Kept : runs[r].day \in Nat
  BY <1>1, AdmissionAssumption DEF TypeOK, Kept, Run, NoRun, Purged
<1>4. \A k : WithKey(k)' \subseteq WithKey(k)
  BY <1>2 DEF WithKey
<1>5. \A n : /\ CreatedSince(n)' \subseteq CreatedSince(n)
            /\ CreatedOn(n)' \subseteq CreatedOn(n)
  BY <1>2 DEF CreatedSince, CreatedOn
<1>6. \A n : {r \in Kept' : runs'[r].status # "settled" /\ ~(runs'[r].day + Retention <= n)}
              \subseteq ActiveAt(n)
  BY <1>2 DEF ActiveAt, Expired
<1>7. ASSUME NEW S \in SUBSET Requests, NEW T \in SUBSET S, NEW limit \in Nat
      PROVE  /\ Cardinality(S) < limit => Cardinality(T) < limit
             /\ Cardinality(S) <= limit => Cardinality(T) <= limit
  BY CardSub
<1>8. \A n : /\ CreatedSince(n) \in SUBSET Requests /\ CreatedOn(n) \in SUBSET Requests
            /\ ActiveAt(n) \in SUBSET Requests
  BY DEF CreatedSince, CreatedOn, ActiveAt, Kept
<1>9. ASSUME NEW p \in Requests PROVE RequestInv(p)'
  <2>1. RequestInv(p) /\ req'[p] = req[p] /\ lock' = lock
    BY <1>1, <1>2
  <2>2. Holds(p)' /\ Undecided(p)'
    BY <2>1 DEF RequestInv, Holds, Undecided
  <2>3. InPast(p)'
    <3>1. CASE req[p].pc = "unsent"
      BY <2>1, <3>1 DEF InPast
    <3>2. CASE req[p].pc # "unsent"
      <4>1. req[p].now \in Nat
        BY <1>1, <3>2 DEF TypeOK, Request, Unsent
      <4>2. req[p].now <= day
        BY <2>1, <3>2 DEF RequestInv, InPast
      <4>3. req[p].now <= day'
        BY <1>2, <1>3, <4>1, <4>2
      <4>. QED  BY <2>1, <4>3 DEF InPast
    <3>. QED  BY <3>1, <3>2
  <2>4. KeyIsFree(p)'
    BY <1>4, <2>1 DEF RequestInv, KeyIsFree
  <2>5. HasRoom(p)'
    <3>1. ASSUME HasRoom(p), Cardinality(CreatedSince(req[p].now)) < DailyLimit,
                 Cardinality(ActiveAt(req[p].now)) < ConcurrentLimit
          PROVE  /\ Cardinality(CreatedSince(req[p].now)') < DailyLimit
                 /\ Cardinality(ActiveAt(req[p].now)') < ConcurrentLimit
      <4>1. CreatedSince(req[p].now)' \in SUBSET CreatedSince(req[p].now)
        BY <1>2, <2>1 DEF CreatedSince
      <4>2. ActiveAt(req[p].now)' \in SUBSET ActiveAt(req[p].now)
        BY <1>2, <2>1 DEF ActiveAt, Expired
      <4>3. Cardinality(CreatedSince(req[p].now)') < DailyLimit
        BY <1>7, <1>8, <3>1, <4>1, AdmissionAssumption
      <4>4. Cardinality(ActiveAt(req[p].now)') < ConcurrentLimit
        BY <1>7, <1>8, <3>1, <4>2, AdmissionAssumption
      <4>. QED  BY <4>3, <4>4
    <3>. QED  BY <2>1, <3>1 DEF RequestInv, HasRoom
  <2>. QED  BY <2>2, <2>3, <2>4, <2>5 DEF RequestInv
<1>10. \A r \in Requests : Asked(r)'
  BY <1>1, <1>2 DEF TableInv, Asked
<1>11. KeysUnique'
  BY <1>1, <1>2 DEF TableInv, KeysUnique
<1>12. ASSUME NEW d \in Nat PROVE Cardinality(CreatedOn(d)') <= DailyLimit
  <2>1. CreatedOn(d)' \in SUBSET CreatedOn(d)
    BY <1>5
  <2>2. Cardinality(CreatedOn(d)) <= DailyLimit
    BY <1>1 DEF TableInv, Quotas
  <2>. QED  BY <1>7, <1>8, <2>1, <2>2, AdmissionAssumption
<1>13. Cardinality(ActiveAt(day)') <= ConcurrentLimit
  <2>1. ASSUME NEW r \in Kept, ~ (runs[r].day + Retention <= day')
        PROVE  ~ (runs[r].day + Retention <= day)
    BY <1>2, <1>3, <2>1
  <2>2. ActiveAt(day)' \in SUBSET ActiveAt(day)
    BY <1>2, <2>1 DEF ActiveAt, Expired
  <2>3. Cardinality(ActiveAt(day)) <= ConcurrentLimit
    BY <1>1 DEF TableInv, Quotas
  <2>. QED  BY <1>7, <1>8, <2>2, <2>3, AdmissionAssumption
<1>14. Quotas'
  BY <1>12, <1>13 DEF Quotas
<1>. QED  BY <1>1, <1>9, <1>10, <1>11, <1>14 DEF AdmissionInv, TableInv

-----------------------------------------------------------------------------
(* The theorems.                                                           *)

LEMMA NextAdmissionInv == AdmissionInv /\ [Next]_vars => AdmissionInv'
<1> SUFFICES ASSUME AdmissionInv, [Next]_vars PROVE AdmissionInv'
  OBVIOUS
<1>1. CASE UNCHANGED vars
  BY <1>1 DEF vars, AdmissionInv, TypeOK, RequestInv, Holds, Undecided, InPast, KeyIsFree, HasRoom,
     TableInv, Asked, KeysUnique, Quotas, WithKey, CreatedSince, CreatedOn, ActiveAt, Kept, Expired
<1>. QED  BY <1>1, RequestStepInv, CommitInv, ElsewhereInv DEF Next, Transact

LEMMA AdmissionInvariant == Spec => []AdmissionInv
<1>. QED  BY InitAdmissionInv, NextAdmissionInv, PTL DEF Spec

(* No day ever gets more runs than the daily limit.                        *)
THEOREM DailyTheorem == Spec => []DailyQuotaKept
<1>1. AdmissionInv => DailyQuotaKept
  BY DEF AdmissionInv, TableInv, Quotas, DailyQuotaKept, TypeOK
<1>. QED  BY <1>1, AdmissionInvariant, PTL

(* Never are more runs under way than the concurrent limit.                *)
THEOREM ConcurrentTheorem == Spec => []ConcurrentQuotaKept
<1>1. AdmissionInv => ConcurrentQuotaKept
  BY DEF AdmissionInv, TableInv, Quotas, ConcurrentQuotaKept
<1>. QED  BY <1>1, AdmissionInvariant, PTL

(* A request that is refused by a quota, or inserts, had a fresh key.      *)
THEOREM RetryTheorem == Spec => []RetryFindsItsRun
<1>1. AdmissionInv => RetryFindsItsRun
  BY DEF AdmissionInv, RequestInv, KeyIsFree, RetryFindsItsRun
<1>. QED  BY <1>1, AdmissionInvariant, PTL

(* A key names one run, that of the one request that created it.           *)
THEOREM KeyTheorem == Spec => []OneRunPerKey
<1>1. AdmissionInv => OneRunPerKey
  <2> SUFFICES ASSUME AdmissionInv, NEW r \in Kept
               PROVE  /\ req[r].outcome = "created" /\ req[r].pc \in {"answered", "lost"}
                      /\ WithKey(runs[r].key) = {r}
    BY DEF OneRunPerKey
  <2>1. runs[r] # NoRun /\ r \in Requests
    BY DEF Kept, NoRun
  <2>2. req[r].outcome = "created" /\ req[r].pc \in {"answered", "lost"}
    BY <2>1 DEF AdmissionInv, TableInv, Asked
  <2>3. WithKey(runs[r].key) = {r}
    BY DEF AdmissionInv, TableInv, KeysUnique, WithKey
  <2>. QED  BY <2>2, <2>3
<1>. QED  BY <1>1, AdmissionInvariant, PTL

-----------------------------------------------------------------------------
(* Refinement: look-ups that find a run, counts that refuse and COMMITs    *)
(* that create are where AtomicAdmission decides; other steps of a         *)
(* transaction change nothing that it sees.                                *)

answers == [q \in Requests |-> Answer(q)]

AtomicVars == <<runs, answers, day>>

LEMMA InitAtomic == Init => Atomic!Init
BY DEF Init, Atomic!Init, Atomic!NoRun, Atomic!NoAnswer, NoRun, Answer, Decided, Unsent

(* A step of one transaction that decides nothing.                         *)
LEMMA SilentStep ==
  ASSUME NEW q \in Requests, runs' = runs, day' = day,
         \A p \in Requests \ {q} : req'[p] = req[p],
         Answer(q)' = Answer(q)
  PROVE  UNCHANGED AtomicVars
<1>1. \A p \in Requests : Answer(p)' = Answer(p)
  BY DEF Answer, Decided, Ask
<1>. QED  BY <1>1 DEF AtomicVars, answers

(* One that decides on what q asked for.                                   *)
LEMMA DecidingStep ==
  ASSUME NEW q \in Requests, NEW a,
         \A p \in Requests \ {q} : req'[p] = req[p],
         ~Decided(q), Answer(q)' = [ask |-> Ask(q), outcome |-> a]
  PROVE  Atomic!Decide(q, Ask(q), a)
<1>1. \A p \in Requests \ {q} : Answer(p)' = Answer(p)
  BY DEF Answer, Decided, Ask
<1>2. answers' = [answers EXCEPT ![q] = [ask |-> Ask(q), outcome |-> a]]
  BY <1>1 DEF answers
<1>3. answers[q] = [outcome |-> "none"]
  BY DEF answers, Answer
<1>. QED  BY <1>2, <1>3 DEF Atomic!Decide, Atomic!NoAnswer, answers

(* What a transaction that is about to end makes of the answer, and one    *)
(* that only goes on.                                                      *)
LEMMA ConcludedAnswer ==
  ASSUME NEW q \in Requests, req[q] \in Request, NEW a, a \notin {"none", "created"},
         req'[q] = [req[q] EXCEPT !.pc = "closing", !.outcome = a]
  PROVE  Answer(q)' = [ask |-> Ask(q), outcome |-> a]
<1>1. /\ req'[q].outcome = a
      /\ req'[q].key = req[q].key /\ req'[q].target = req[q].target
      /\ req'[q].now = req[q].now
  BY DEF Request
<1>2. Decided(q)'
  BY <1>1 DEF Decided
<1>3. Ask(q)' = Ask(q)
  BY <1>1 DEF Ask
<1>. QED  BY <1>1, <1>2, <1>3 DEF Answer

LEMMA MovedAnswer ==
  ASSUME NEW q \in Requests, req[q] \in Request, req[q].outcome = "none",
         NEW s, req'[q] = [req[q] EXCEPT !.pc = s]
  PROVE  Answer(q)' = Answer(q)
<1>1. req'[q].outcome = "none"
  BY DEF Request
<1>. QED  BY <1>1 DEF Answer, Decided

(* Both modules select the same rows.                                      *)
LEMMA SameSelections ==
  /\ Atomic!Kept = Kept
  /\ \A k : Atomic!WithKey(k) = WithKey(k)
  /\ \A r, n : Atomic!Expired(r, n) = Expired(r, n)
  /\ \A n : Atomic!CreatedSince(n) = CreatedSince(n) /\ Atomic!ActiveAt(n) = ActiveAt(n)
  /\ \A S : Atomic!Cardinality(S) = Cardinality(S)
<1>1. \A S : Atomic!Cardinality(S) = Cardinality(S)
  BY DEF Atomic!Cardinality, Cardinality
<1>. QED
  BY <1>1 DEF Atomic!Kept, Atomic!WithKey, Atomic!Expired, Atomic!CreatedSince,
              Atomic!ActiveAt, Kept, WithKey, Expired, CreatedSince, ActiveAt

(* What a request that has begun asks for.                                 *)
LEMMA Asking ==
  ASSUME NEW q \in Requests, req[q] \in Request, req[q].now \in 0..day
  PROVE  /\ Ask(q) \in Atomic!Ask
         /\ Ask(q).key = req[q].key /\ Ask(q).target = req[q].target
         /\ Ask(q).now = req[q].now
BY DEF Ask, Atomic!Ask, Request

(* The same, for what a request asks.                                      *)
LEMMA SelectedBy ==
  ASSUME NEW q \in Requests, req[q] \in Request, req[q].now \in 0..day
  PROVE  /\ Atomic!WithKey(Ask(q).key) = WithKey(req[q].key)
         /\ Atomic!Cardinality(Atomic!CreatedSince(Ask(q).now))
              = Cardinality(CreatedSince(req[q].now))
         /\ Atomic!Cardinality(Atomic!ActiveAt(Ask(q).now))
              = Cardinality(ActiveAt(req[q].now))
BY SameSelections, Asking

LEMMA LookUpAtomic ==
  ASSUME AdmissionInv, NEW q \in Requests, LookUp(q)
  PROVE  Atomic!Next \/ UNCHANGED AtomicVars
<1>1. /\ req[q].pc = "locked" /\ req[q].outcome = "none" /\ req[q] \in Request
      /\ req[q].now \in 0..day
  BY DEF AdmissionInv, RequestInv, Undecided, InPast, LookUp, TypeOK, Unsent, Request
<1>2. runs' = runs /\ day' = day /\ \A p \in Requests \ {q} : req'[p] = req[p]
  BY DEF LookUp, Goto, Conclude, AdmissionInv, TypeOK
<1>3. CASE Goto(q, "fresh")
  <2>1. req'[q] = [req[q] EXCEPT !.pc = "fresh"]
    BY <1>3 DEF Goto, AdmissionInv, TypeOK
  <2>. QED  BY <1>1, <1>2, <2>1, MovedAnswer, SilentStep
<1>4. ASSUME NEW r \in WithKey(req[q].key), Conclude(q, FoundAnswer(q, r))
      PROVE  Atomic!Next
  <2>1. PICK a \in {"conflict", "expired", "existing"} : a = FoundAnswer(q, r)
    BY DEF FoundAnswer
  <2>2. req'[q] = [req[q] EXCEPT !.pc = "closing", !.outcome = a]
    BY <1>4, <2>1 DEF Conclude, AdmissionInv, TypeOK
  <2>3. ~Decided(q) /\ Answer(q)' = [ask |-> Ask(q), outcome |-> a]
    BY <1>1, <2>2, ConcludedAnswer DEF Decided
  <2>4. Atomic!Decide(q, Ask(q), a)
    BY <1>2, <2>3, DecidingStep
  <2>5. a = IF runs[r].target # Ask(q).target THEN "conflict"
            ELSE IF Atomic!Expired(r, Ask(q).now) THEN "expired" ELSE "existing"
    BY <1>1, <2>1, SameSelections, Asking DEF FoundAnswer
  <2>6. r \in Atomic!WithKey(Ask(q).key)
    BY <1>1, <1>4, SameSelections, Asking
  <2>7. Atomic!Find(q, Ask(q))
    BY <1>2, <2>4, <2>5, <2>6 DEF Atomic!Find
  <2>. QED  BY <1>1, <2>7, Asking DEF Atomic!Next
<1>. QED  BY <1>3, <1>4 DEF LookUp

LEMMA CountAtomic ==
  ASSUME AdmissionInv, NEW q \in Requests, Count(q)
  PROVE  Atomic!Next \/ UNCHANGED AtomicVars
<1>1. /\ req[q].pc = "fresh" /\ req[q].outcome = "none" /\ req[q] \in Request
      /\ req[q].now \in 0..day /\ WithKey(req[q].key) = {}
  BY DEF AdmissionInv, RequestInv, Undecided, InPast, KeyIsFree, Count, TypeOK, Unsent, Request
<1>2. runs' = runs /\ day' = day /\ \A p \in Requests \ {q} : req'[p] = req[p]
  BY DEF Count, Goto, Conclude, AdmissionInv, TypeOK
<1>3. CASE Goto(q, "admitted")
  <2>1. req'[q] = [req[q] EXCEPT !.pc = "admitted"]
    BY <1>3 DEF Goto, AdmissionInv, TypeOK
  <2>. QED  BY <1>1, <1>2, <2>1, MovedAnswer, SilentStep
<1>4. ASSUME NEW a \in {"daily", "concurrent"}, Conclude(q, a)
      PROVE  Atomic!Decide(q, Ask(q), a)
  <2>1. req'[q] = [req[q] EXCEPT !.pc = "closing", !.outcome = a]
    BY <1>4 DEF Conclude, AdmissionInv, TypeOK
  <2>2. ~Decided(q) /\ Answer(q)' = [ask |-> Ask(q), outcome |-> a]
    BY <1>1, <1>4, <2>1, ConcludedAnswer DEF Decided
  <2>. QED  BY <1>2, <2>2, DecidingStep
<1>5. ASSUME \/ Cardinality(CreatedSince(req[q].now)) >= DailyLimit /\ Conclude(q, "daily")
             \/ Cardinality(ActiveAt(req[q].now)) >= ConcurrentLimit /\ Conclude(q, "concurrent")
      PROVE  Atomic!Next
  <2>1. /\ Atomic!WithKey(Ask(q).key) = {}
        /\ \/ /\ Atomic!Cardinality(Atomic!CreatedSince(Ask(q).now)) >= DailyLimit
              /\ Atomic!Decide(q, Ask(q), "daily")
           \/ /\ Atomic!Cardinality(Atomic!ActiveAt(Ask(q).now)) >= ConcurrentLimit
              /\ Atomic!Decide(q, Ask(q), "concurrent")
    BY <1>1, <1>4, <1>5, SelectedBy, Asking
  <2>2. Atomic!Refuse(q, Ask(q))
    BY <1>2, <2>1 DEF Atomic!Refuse
  <2>. QED  BY <1>1, <2>2, Asking DEF Atomic!Next
<1>. QED  BY <1>3, <1>5 DEF Count

LEMMA CommitAtomic ==
  ASSUME AdmissionInv, NEW q \in Requests, Commit(q)
  PROVE  Atomic!Next \/ UNCHANGED AtomicVars
<1>1. /\ req[q] \in Request /\ day' = day
      /\ \A p \in Requests \ {q} : req'[p] = req[p]
      /\ req'[q].pc \in {"answered", "lost"} /\ req'[q].outcome = req[q].outcome
      /\ runs[q] = NoRun
  BY CommitEffect
<1>2. req[q].pc = "closing" /\ Ask(q)' = Ask(q)
  <2>1. PICK s \in {"answered", "lost"} : req'[q] = [req[q] EXCEPT !.pc = s]
    BY DEF Commit, Goto, AdmissionInv, TypeOK
  <2>. QED  BY <1>1, <2>1 DEF Commit, Ask, Request
<1>3. CASE req[q].outcome = "created"
  <2>1. /\ WithKey(req[q].key) = {} /\ req[q].now \in 0..day
        /\ Cardinality(CreatedSince(req[q].now)) < DailyLimit
        /\ Cardinality(ActiveAt(req[q].now)) < ConcurrentLimit
    BY <1>1, <1>3 DEF AdmissionInv, RequestInv, KeyIsFree, HasRoom, InPast, Commit, TypeOK, Request
  <2>2. ~Decided(q) /\ Answer(q)' = [ask |-> Ask(q), outcome |-> "created"]
    BY <1>1, <1>2, <1>3 DEF Answer, Decided
  <2>3. Atomic!Decide(q, Ask(q), "created")
    BY <1>1, <2>2, DecidingStep
  <2>4. /\ Atomic!WithKey(Ask(q).key) = {}
        /\ Atomic!Cardinality(Atomic!CreatedSince(Ask(q).now)) < DailyLimit
        /\ Atomic!Cardinality(Atomic!ActiveAt(Ask(q).now)) < ConcurrentLimit
    BY <1>1, <2>1, SelectedBy, Asking
  <2>5. runs' = [runs EXCEPT ![q] = [status |-> "queued", key |-> Ask(q).key,
                                     target |-> Ask(q).target, day |-> Ask(q).now]]
    BY <1>3 DEF Commit, Ask
  <2>6. runs[q] = Atomic!NoRun
    BY <1>1 DEF Atomic!NoRun, NoRun
  <2>7. Atomic!Create(q, Ask(q))
    BY <1>1, <2>3, <2>4, <2>5, <2>6 DEF Atomic!Create
  <2>. QED  BY <1>1, <2>1, <2>7, Asking DEF Atomic!Next
<1>4. CASE req[q].outcome # "created"
  <2>1. runs' = runs /\ Answer(q)' = Answer(q)
    BY <1>1, <1>2, <1>4 DEF Commit, Answer, Decided
  <2>. QED  BY <1>1, <2>1, SilentStep
<1>. QED  BY <1>3, <1>4

(* Begin, Lock, Insert and Rollback decide nothing.                        *)
LEMMA SilentAtomic ==
  ASSUME AdmissionInv, NEW q \in Requests,
         \/ \E k \in Keys, t \in Targets : Begin(q, k, t)
         \/ Lock(q) \/ Insert(q) \/ Rollback(q)
  PROVE  UNCHANGED AtomicVars
<1>1. TypeOK /\ Undecided(q) /\ KeyIsFree(q)
  BY DEF AdmissionInv, RequestInv
<1>2. runs' = runs /\ day' = day /\ \A p \in Requests \ {q} : req'[p] = req[p]
  BY <1>1, RequestEffect
<1>3. ASSUME NEW k \in Keys, NEW t \in Targets, Begin(q, k, t) PROVE Answer(q)' = Answer(q)
  <2>1. /\ req[q] = Unsent
        /\ req'[q] = [pc |-> "waiting", key |-> k, target |-> t, now |-> day, outcome |-> "none"]
    BY <1>1, <1>3 DEF Begin, TypeOK
  <2>. QED  BY <2>1 DEF Answer, Decided, Unsent
<1>4. CASE Lock(q)
  <2>1. /\ req[q] \in Request /\ req[q].outcome = "none"
        /\ req'[q] = [req[q] EXCEPT !.pc = "locked"]
    BY <1>1, <1>4 DEF Lock, Goto, TypeOK, Unsent, Undecided
  <2>. QED  BY <1>2, <2>1, MovedAnswer, SilentStep
<1>5. CASE Insert(q)
  <2>1. WithKey(req[q].key) = {} /\ req[q].outcome = "none" /\ req[q] \in Request
    BY <1>1, <1>5 DEF Insert, KeyIsFree, Undecided, TypeOK, Unsent
  <2>2. req'[q] = [req[q] EXCEPT !.pc = "closing", !.outcome = "created"]
    BY <1>1, <1>5, <2>1 DEF Insert, Conclude, TypeOK
  <2>3. req'[q].pc = "closing" /\ req'[q].outcome = "created"
    BY <2>1, <2>2 DEF Request
  <2>4. Answer(q)' = Answer(q)
    BY <2>1, <2>3 DEF Answer, Decided
  <2>. QED  BY <1>2, <2>4, SilentStep
<1>6. CASE Rollback(q)
  <2>1. req[q] \in Request /\ req[q].pc \in OpenPCs
    BY <1>1, <1>6 DEF Rollback, TypeOK, Unsent, OpenPCs, LockedPCs
  <2>2. req'[q] = [req[q] EXCEPT !.pc = "lost",
                                 !.outcome = IF @ = "created" THEN "none" ELSE @]
    BY <1>1, <1>6 DEF Rollback, TypeOK
  <2>3. /\ req'[q].pc = "lost"
        /\ req'[q].outcome = IF req[q].outcome = "created" THEN "none" ELSE req[q].outcome
        /\ req'[q].key = req[q].key /\ req'[q].target = req[q].target
        /\ req'[q].now = req[q].now
    BY <2>1, <2>2 DEF Request
  <2>4. req[q].outcome = "created" => req[q].pc = "closing"
    BY <1>1, <2>1 DEF Undecided, OpenPCs, LockedPCs
  <2>5. Answer(q)' = Answer(q)
    BY <2>3, <2>4 DEF Answer, Decided, Ask
  <2>. QED  BY <1>2, <2>5, SilentStep
<1>. QED  BY <1>2, <1>3, <1>4, <1>5, <1>6, SilentStep

LEMMA ElsewhereAtomic ==
  ASSUME AdmissionInv,
         \/ \E r \in Requests : Start(r) \/ Retry(r) \/ Settle(r)
         \/ Purge \/ Tomorrow
  PROVE  Atomic!Next
<1>1. req' = req => answers' = answers
  BY DEF answers, Answer, Decided, Ask
<1>2. ASSUME NEW r \in Requests, Start(r) \/ Retry(r) \/ Settle(r) PROVE Atomic!Next
  <2>1. \E s \in {"queued", "running", "settled"} : Atomic!Progress(r, s)
    BY <1>1, <1>2 DEF Start, Retry, Settle, Atomic!Progress, answers
  <2>. QED  BY <2>1 DEF Atomic!Next
<1>3. CASE Purge
  <2>. DEFINE gone == {r \in Kept : Expired(r, day) /\ runs[r].status # "running"}
  <2>1. Atomic!Purge(gone)
    BY <1>1, <1>3, SameSelections DEF Purge, Purged, Atomic!Purge, answers
  <2>2. gone \in SUBSET Requests
    BY DEF Kept
  <2>. HIDE DEF gone
  <2>. QED  BY <2>1, <2>2 DEF Atomic!Next
<1>4. CASE Tomorrow
  BY <1>1, <1>4 DEF Tomorrow, Atomic!Tomorrow, Atomic!Next, answers
<1>. QED  BY <1>2, <1>3, <1>4

(* Interleaved transactions decide as if requests came one by one.         *)
THEOREM AtomicTheorem == Spec => AdmissionIsAtomic
<1>1. AdmissionInv /\ [Next]_vars => [Atomic!Next]_AtomicVars
  <2> SUFFICES ASSUME AdmissionInv, [Next]_vars PROVE Atomic!Next \/ UNCHANGED AtomicVars
    OBVIOUS
  <2>1. CASE UNCHANGED vars
    BY <2>1 DEF vars, AtomicVars, answers, Answer, Decided, Ask
  <2>. QED  BY <2>1, LookUpAtomic, CountAtomic, CommitAtomic, SilentAtomic, ElsewhereAtomic
            DEF Next, Transact
<1>. QED  BY <1>1, InitAtomic, AdmissionInvariant, PTL
          DEF Spec, AdmissionIsAtomic, Atomic!Spec, AtomicVars, answers
=============================================================================
