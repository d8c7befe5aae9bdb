--------------------------- MODULE ServicesProofs ----------------------------
(***************************************************************************)
(* The control plane's links, paid calls and accounts and the studio, for  *)
(* all values of their parameters.  A section is about one of them: its    *)
(* inductive invariant, that each action keeps it, and the property that   *)
(* follows.  The theorem at the end of a section is about every behaviour  *)
(* of MCServices.                                                          *)
(***************************************************************************)
EXTENDS MCServices, FiniteSetTheorems, TLAPS

-----------------------------------------------------------------------------
(* Share links.                                                            *)

Sent(v)      == visits[v].pc # "unsent"
Granted(v)   == visits[v].pc \in {"granted", "found", "read", "counted"}
LinkOf(v)    == links[visits[v].link]
IsOver(link) == link.revoked \/ link.state = "purged"

(* A request has the route and the answer that its step says.              *)
VisitFits(v) ==
    /\ Sent(v) => visits[v].sent <= minute
    /\ visits[v].pc = "admitted" => visits[v].route \in Shares!Routes /\ visits[v].granted = 0
    /\ Granted(v) => visits[v].route = "artifact"
    /\ visits[v].pc \in {"owned", "ownedRead"} => visits[v].route = "owner"
    /\ visits[v].pc # "done" => visits[v].answer = "none"

(* Who came late, came after the end of the link.                          *)
LateIsOver(v) == Sent(v) /\ visits[v].route # "owner" /\ visits[v].late => IsOver(LinkOf(v))

(* A download that was granted is in the scope of its link.                *)
GrantedInScope(v) ==
    Granted(v) => LinkOf(v).state # "absent" /\ visits[v].artifact \in LinkOf(v).scope

(* A request is counted once, in the last step but one, or else its link   *)
(* was over by then.                                                       *)
Uncounted == {"unsent", "admitted", "granted", "found", "read"}
CountedOnce(v) ==
    /\ visits[v].pc \in Uncounted => \A l \in Links : v \notin links[l].audited
    /\ visits[v].pc = "counted" =>
           v \in LinkOf(v).audited \/ IsOver(LinkOf(v)) \/ LinkOf(v).expires <= minute

(* What was served was served well.                                        *)
ServedWell(v) ==
    visits[v].answer = "served" /\ visits[v].route # "owner" =>
        /\ LinkOf(v).state # "absent" /\ ~visits[v].late
        /\ visits[v].sent < LinkOf(v).expires
        /\ visits[v].route = "artifact" => visits[v].artifact \in LinkOf(v).scope
        /\ v \in LinkOf(v).audited

VisitInv ==
    \A v \in Visits :
        VisitFits(v) /\ LateIsOver(v) /\ GrantedInScope(v) /\ CountedOnce(v) /\ ServedWell(v)

(* A link that is not there yet has nothing, one that is ends with the run.*)
LinkFits(l) ==
    /\ links[l].state = "absent" => links[l] = Shares!NoLink
    /\ links[l].state = "present" => links[l].expires <= RunExpiry
    /\ links[l].accesses = Cardinality(links[l].audited)

LinkInv == \A l \in Links : LinkFits(l)

GrantedBy(l, m) == {v \in Visits : Sent(v) /\ visits[v].link = l /\ visits[v].granted = m + 1}
LetIn(r, m)     == {v \in Visits : /\ Sent(v) /\ visits[v].route = r /\ visits[v].sent = m
                                   /\ visits[v].answer # "429"}

(* A bucket that may still be asked has counted all that it let in.        *)
LinkWithin(l, m) ==
    /\ Cardinality(GrantedBy(l, m)) <= LinkLimit
    /\ links[l].state # "purged" /\ minute <= m + 2 =>
           Cardinality(GrantedBy(l, m)) <= linkBucket[l][m]
RouteWithin(r, m) ==
    /\ Cardinality(LetIn(r, m)) <= RouteLimit
    /\ minute <= m + 2 => Cardinality(LetIn(r, m)) <= routeBucket[r][m]

BucketsCount ==
    \A m \in Shares!Minutes :
        (\A l \in Links : LinkWithin(l, m)) /\ (\A r \in Shares!Routes : RouteWithin(r, m))

SharesInv ==
    /\ Shares!TypeOK
    /\ VisitInv /\ LinkInv /\ BucketsCount

(* What no step takes from a link that was made: its end, its scope, its   *)
(* log, and that it is over.                                               *)
LinkGoesOn(l) ==
    /\ links[l].state # "absent" =>
           /\ links'[l].state # "absent"
           /\ links'[l].expires = links[l].expires
           /\ links'[l].scope = links[l].scope
           /\ IsOver(links[l]) => IsOver(links'[l])
    /\ links[l].audited \subseteq links'[l].audited

(* A request that was sent has all its fields. *)
LEMMA SentVisit ==
  ASSUME Shares!TypeOK, NEW v \in Visits, Sent(v)
  PROVE  visits[v] \in Shares!Visit
BY DEF Shares!TypeOK, Sent

(* A request that moves on keeps its type, the others keep theirs. *)
LEMMA VisitMoves ==
  ASSUME Shares!TypeOK, NEW v \in Visits, NEW x \in Shares!Visit,
         visits' = [visits EXCEPT ![v] = x]
  PROVE  visits' \in [Visits -> Shares!Visit \cup {[pc |-> "unsent", answer |-> "none"]}]
BY DEF Shares!TypeOK

(* The same where a request is given a step and an answer. *)
LEMMA VisitAnswered ==
  ASSUME Shares!TypeOK, NEW v \in Visits, Sent(v), NEW pc \in Shares!PCs, NEW a \in Shares!Answers
  PROVE  /\ [visits[v] EXCEPT !.pc = pc] \in Shares!Visit
         /\ [visits[v] EXCEPT !.pc = pc, !.answer = a] \in Shares!Visit
         /\ \A g \in Nat : /\ [visits[v] EXCEPT !.pc = pc, !.granted = g] \in Shares!Visit
                           /\ [visits[v] EXCEPT !.pc = pc, !.granted = g, !.answer = a]
                                  \in Shares!Visit
<1>1. visits[v] \in Shares!Visit
  BY SentVisit
<1> QED
  BY <1>1 DEF Shares!Visit

(* Every step of the share links keeps the types. *)
LEMMA ShareTypes ==
  ASSUME Shares!TypeOK, Shares!Next
  PROVE  Shares!TypeOK'
<1> USE SharesAssumption DEF Shares!Minutes, Shares!Routes
<1>1. minute \in Nat /\ minute \in Shares!Minutes
  BY DEF Shares!TypeOK
<1>2. ASSUME NEW l \in Links, NEW scope \in SUBSET Artifacts, NEW t \in Lifetimes,
             Shares!CreateLink(l, scope, t)
      PROVE  Shares!TypeOK'
  <2>1. Shares!LinkEnd(minute, t) \in Nat
    BY <1>1 DEF Shares!LinkEnd
  <2>2. [Shares!NoLink EXCEPT !.state = "present", !.scope = scope,
                              !.expires = Shares!LinkEnd(minute, t)] \in Shares!Link
    BY <2>1 DEF Shares!NoLink, Shares!Link
  <2> QED
    BY <1>2, <2>2 DEF Shares!CreateLink, Shares!TypeOK
<1>3. ASSUME NEW l \in Links, Shares!Revoke(l)
      PROVE  Shares!TypeOK'
  <2>1. [links[l] EXCEPT !.revoked = TRUE] \in Shares!Link
    BY ZenonT(60) DEF Shares!TypeOK, Shares!Link
  <2> QED
    BY <1>3, <2>1 DEF Shares!Revoke, Shares!TypeOK
<1>4. ASSUME NEW v \in Visits, NEW l \in Links, NEW a \in Artifacts, NEW r \in Shares!Routes,
             Shares!Arrive(v, r, l, a)
      PROVE  Shares!TypeOK'
  <2>1. links[l].revoked \in BOOLEAN /\ (links[l].state = "purged") \in BOOLEAN
    BY DEF Shares!TypeOK, Shares!Link
  <2>2. routeBucket' \in [Shares!Routes -> [Shares!Minutes -> Nat]]
    <3>0. routeBucket[r] \in [Shares!Minutes -> Nat]
      BY DEF Shares!TypeOK
    <3>1. [routeBucket[r] EXCEPT ![minute] = @ + 1] \in [Shares!Minutes -> Nat]
      BY <1>1, <3>0
    <3> QED
      BY <3>1, <1>4 DEF Shares!Arrive, Shares!TypeOK
  <2>3. (links[l].revoked \/ links[l].state = "purged") \in BOOLEAN
    BY <2>1
  <2>4. PICK x \in Shares!Visit : visits' = [visits EXCEPT ![v] = x]
    <3>1. PICK late \in BOOLEAN : late = (links[l].revoked \/ links[l].state = "purged")
      BY <2>3
    <3>2. PICK pc \in Shares!PCs, answer \in Shares!Answers :
              visits' = [visits EXCEPT ![v] =
                  [pc |-> pc, route |-> r, link |-> l, artifact |-> a, sent |-> minute,
                   late |-> late, granted |-> 0, answer |-> answer]]
      BY <3>1, <1>4 DEF Shares!Arrive, Shares!PCs, Shares!Answers
    <3>3. [pc |-> pc, route |-> r, link |-> l, artifact |-> a, sent |-> minute,
           late |-> late, granted |-> 0, answer |-> answer] \in Shares!Visit
      BY <1>1 DEF Shares!Visit
    <3> QED
      BY <3>2, <3>3
  <2> QED
    BY <1>4, <2>2, <2>4, VisitMoves DEF Shares!Arrive, Shares!TypeOK
<1>5. ASSUME NEW l \in Links, NEW v \in Visits
      PROVE  Shares!Count(l, v) \in [Links -> Shares!Link]
  <2>1. links[l].accesses + 1 \in Nat /\ links[l].audited \cup {v} \in SUBSET Visits
    BY DEF Shares!TypeOK, Shares!Link
  <2>2. [links[l] EXCEPT !.accesses = links[l].accesses + 1,
                         !.audited = links[l].audited \cup {v}] \in Shares!Link
    BY ZenonT(60), <2>1 DEF Shares!TypeOK, Shares!Link
  <2> QED
    BY <2>2 DEF Shares!Count, Shares!TypeOK
<1>6. ASSUME NEW v \in Visits, Shares!NotResolved(v) \/ Shares!FindArtifact(v)
                               \/ Shares!ReadBytes(v) \/ Shares!ConfirmActive(v)
      PROVE  Shares!TypeOK'
  <2>1. Sent(v)
    BY <1>6 DEF Sent, Shares!NotResolved, Shares!FindArtifact, Shares!ReadBytes,
                Shares!ConfirmActive
  <2>2. \E pc \in Shares!PCs, a \in Shares!Answers :
            \/ visits' = [visits EXCEPT ![v].pc = pc]
            \/ visits' = [visits EXCEPT ![v].pc = pc, ![v].answer = a]
    BY <1>6 DEF Shares!NotResolved, Shares!FindArtifact, Shares!ReadBytes, Shares!ConfirmActive,
                Shares!Answered, Shares!Moved, Shares!PCs, Shares!Answers
  <2>3. PICK x \in Shares!Visit : visits' = [visits EXCEPT ![v] = x]
    BY <2>1, <2>2, VisitAnswered DEF Shares!TypeOK
  <2> QED
    BY <1>6, <2>3, VisitMoves DEF Shares!NotResolved, Shares!FindArtifact, Shares!ReadBytes,
                                  Shares!ConfirmActive, Shares!TypeOK
<1>7. ASSUME NEW v \in Visits, Shares!Throttled(v) \/ Shares!Grant(v)
      PROVE  Shares!TypeOK'
  <2> DEFINE l == visits[v].link
  <2>1. Sent(v) /\ l \in Links
    BY <1>7, SentVisit DEF Shares!Throttled, Shares!Grant, Sent, Shares!Visit
  <2>2. linkBucket' \in [Links -> [Shares!Minutes -> Nat]]
    <3>1. [linkBucket[l] EXCEPT ![minute] = @ + 1] \in [Shares!Minutes -> Nat]
      BY <1>1, <2>1 DEF Shares!TypeOK
    <3> QED
      BY <3>1, <2>1, <1>7 DEF Shares!Throttled, Shares!Grant, Shares!TypeOK
  <2>3. links' \in [Links -> Shares!Link]
    BY <1>7, <1>5, <2>1 DEF Shares!Throttled, Shares!Grant, Shares!TypeOK
  <2>4. \E pc \in Shares!PCs, a \in Shares!Answers, g \in Nat :
            \/ visits' = [visits EXCEPT ![v].pc = pc, ![v].answer = a]
            \/ visits' = [visits EXCEPT ![v].pc = pc, ![v].granted = g]
            \/ visits' = [visits EXCEPT ![v].pc = pc, ![v].granted = g, ![v].answer = a]
    <3>1. minute + 1 \in Nat
      BY <1>1
    <3> QED
      BY <1>7, <3>1 DEF Shares!Throttled, Shares!Grant, Shares!Answered, Shares!PCs,
                        Shares!Answers
  <2>5. PICK x \in Shares!Visit : visits' = [visits EXCEPT ![v] = x]
    BY <2>1, <2>4, VisitAnswered DEF Shares!TypeOK
  <2> QED
    BY <1>7, <2>2, <2>3, <2>5, VisitMoves DEF Shares!Throttled, Shares!Grant, Shares!TypeOK
<1>8. ASSUME NEW v \in Visits, Shares!CountDownload(v)
      PROVE  Shares!TypeOK'
  <2>1. Sent(v) /\ visits[v].link \in Links
    BY <1>8, SentVisit DEF Shares!CountDownload, Sent, Shares!Visit
  <2>2. links' \in [Links -> Shares!Link]
    BY <1>8, <1>5, <2>1 DEF Shares!CountDownload, Shares!TypeOK
  <2>3. PICK x \in Shares!Visit : visits' = [visits EXCEPT ![v] = x]
    <3>1. "none" \in Shares!Answers /\ "counted" \in Shares!PCs
      BY DEF Shares!Answers, Shares!PCs
    <3>2. [visits[v] EXCEPT !.pc = "counted"] \in Shares!Visit
      BY <2>1, <3>1, VisitAnswered
    <3>3. visits' = [visits EXCEPT ![v] = [visits[v] EXCEPT !.pc = "counted"]]
      BY <1>8 DEF Shares!CountDownload, Shares!Moved
    <3> QED
      BY <3>2, <3>3
  <2> QED
    BY <1>8, <2>2, <2>3, VisitMoves DEF Shares!CountDownload, Shares!TypeOK
<1>9. ASSUME NEW v \in Visits, NEW a \in Artifacts, Shares!OwnerFinds(v, a)
      PROVE  Shares!TypeOK'
  <2>1. Shares!NobodysLink \in Links
    BY DEF Shares!NobodysLink
  <2>2. PICK x \in Shares!Visit : visits' = [visits EXCEPT ![v] = x]
    <3>1. PICK pc \in Shares!PCs, answer \in Shares!Answers :
              visits' = [visits EXCEPT ![v] =
                  [pc |-> pc, route |-> "owner", link |-> Shares!NobodysLink, artifact |-> a,
                   sent |-> minute, late |-> FALSE, granted |-> 0, answer |-> answer]]
      BY <1>9 DEF Shares!OwnerFinds, Shares!PCs, Shares!Answers
    <3>2. [pc |-> pc, route |-> "owner", link |-> Shares!NobodysLink, artifact |-> a,
           sent |-> minute, late |-> FALSE, granted |-> 0, answer |-> answer] \in Shares!Visit
      BY <1>1, <2>1 DEF Shares!Visit
    <3> QED
      BY <3>1, <3>2
  <2> QED
    BY <1>9, <2>2, VisitMoves DEF Shares!OwnerFinds, Shares!TypeOK
<1>10. ASSUME NEW v \in Visits, Shares!OwnerReads(v)
       PROVE  Shares!TypeOK'
  <2>1. Sent(v)
    BY <1>10 DEF Shares!OwnerReads, Sent
  <2>2. PICK x \in Shares!Visit : visits' = [visits EXCEPT ![v] = x]
    BY <1>10, <2>1, VisitAnswered
    DEF Shares!OwnerReads, Shares!Answered, Shares!PCs, Shares!Answers, Shares!TypeOK
  <2> QED
    BY <1>10, <2>2, VisitMoves DEF Shares!OwnerReads, Shares!TypeOK
<1>11. ASSUME Shares!PurgeShares
       PROVE  Shares!TypeOK'
  <2>1. \A l \in Links : [links[l] EXCEPT !.state = "purged"] \in Shares!Link
    BY ZenonT(60) DEF Shares!TypeOK, Shares!Link
  <2>2. \A b \in [Shares!Minutes -> Nat] : Shares!OldBuckets(b, 2) \in [Shares!Minutes -> Nat]
    BY DEF Shares!OldBuckets
  <2>3. links' \in [Links -> Shares!Link]
    BY <1>11, <2>1 DEF Shares!PurgeShares, Shares!TypeOK
  <2>4. linkBucket' \in [Links -> [Shares!Minutes -> Nat]]
    BY <1>11, <2>2 DEF Shares!PurgeShares, Shares!TypeOK
  <2>5. routeBucket' \in [Shares!Routes -> [Shares!Minutes -> Nat]]
    BY <1>11, <2>2 DEF Shares!PurgeShares, Shares!TypeOK
  <2> QED
    BY <1>11, <2>3, <2>4, <2>5 DEF Shares!PurgeShares, Shares!TypeOK
<1>12. ASSUME Shares!FinishRun \/ Shares!Tick
              \/ \E a \in Artifacts : Shares!Damage(a) \/ Shares!SweepBytes(a)
       PROVE  Shares!TypeOK'
  <2>1. CASE Shares!FinishRun
    BY <2>1 DEF Shares!FinishRun, Shares!TypeOK
  <2>2. CASE Shares!Tick
    BY <2>2, <1>1 DEF Shares!Tick, Shares!TypeOK
  <2>3. CASE \E a \in Artifacts : Shares!Damage(a) \/ Shares!SweepBytes(a)
    BY <2>3 DEF Shares!Damage, Shares!SweepBytes, Shares!TypeOK
  <2> QED
    BY <1>12, <2>1, <2>2, <2>3
<1> QED
  BY <1>2, <1>3, <1>4, <1>6, <1>7, <1>8, <1>9, <1>10, <1>11, <1>12
  DEF Shares!Next, Shares!Visiting

-----------------------------------------------------------------------------
(* No step takes anything from a link, nor turns the clock back. *)
LEMMA LinksGoOn ==
  ASSUME Shares!TypeOK, LinkInv, Shares!Next
  PROVE  minute <= minute' /\ \A l \in Links : LinkGoesOn(l)
<1> USE DEF LinkGoesOn, IsOver
<1>1. minute \in Nat /\ \A l \in Links : links[l] \in Shares!Link
  BY SharesAssumption DEF Shares!TypeOK, Shares!Minutes
<1>2. CASE UNCHANGED <<minute, links>>
  BY <1>1, <1>2
<1>3. CASE Shares!Tick
  BY <1>1, <1>3 DEF Shares!Tick
<1>4. ASSUME NEW k \in Links, NEW scope \in SUBSET Artifacts, NEW t \in Lifetimes,
             Shares!CreateLink(k, scope, t)
      PROVE  minute <= minute' /\ \A l \in Links : LinkGoesOn(l)
  <2>1. links[k] = Shares!NoLink
    BY <1>4 DEF LinkInv, LinkFits, Shares!CreateLink
  <2>2. \A l \in Links : l # k => links'[l] = links[l]
    BY <1>4 DEF Shares!CreateLink, Shares!TypeOK
  <2>3. links[k].state = "absent" /\ links[k].audited = {}
    BY <2>1 DEF Shares!NoLink
  <2> QED
    BY <1>1, <1>4, <2>2, <2>3 DEF Shares!CreateLink
<1>5. ASSUME NEW k \in Links, Shares!Revoke(k)
      PROVE  minute <= minute' /\ \A l \in Links : LinkGoesOn(l)
  BY <1>1, <1>5 DEF Shares!Revoke, Shares!TypeOK, Shares!Link
<1>6. ASSUME NEW k \in Links, NEW v, minute' = minute, links' = Shares!Count(k, v)
      PROVE  minute <= minute' /\ \A l \in Links : LinkGoesOn(l)
  BY <1>1, <1>6 DEF Shares!Count, Shares!TypeOK, Shares!Link
<1>7. ASSUME Shares!PurgeShares
      PROVE  minute <= minute' /\ \A l \in Links : LinkGoesOn(l)
  BY <1>1, <1>7 DEF Shares!PurgeShares, Shares!TypeOK, Shares!Link
<1>8. ASSUME NEW v \in Visits, Shares!Visiting(v)
      PROVE  minute <= minute' /\ \A l \in Links : LinkGoesOn(l)
  <2>1. CASE Shares!Grant(v) \/ Shares!CountDownload(v)
    <3>1. visits[v].link \in Links
      BY <2>1, SentVisit DEF Shares!Grant, Shares!CountDownload, Sent, Shares!Visit
    <3> QED
      BY <2>1, <3>1, <1>2, <1>6 DEF Shares!Grant, Shares!CountDownload
  <2> QED
    BY <1>8, <2>1, <1>2
    DEF Shares!Visiting, Shares!NotResolved, Shares!Throttled, Shares!FindArtifact,
        Shares!ReadBytes, Shares!ConfirmActive
<1>9. ASSUME NEW v \in Visits,
             \/ Shares!OwnerReads(v)
             \/ \E l \in Links, a \in Artifacts, r \in Shares!Routes : Shares!Arrive(v, r, l, a)
             \/ \E a \in Artifacts : Shares!OwnerFinds(v, a)
      PROVE  minute <= minute' /\ \A l \in Links : LinkGoesOn(l)
  BY <1>9, <1>2 DEF Shares!OwnerReads, Shares!Arrive, Shares!OwnerFinds
<1>10. ASSUME Shares!FinishRun \/ \E a \in Artifacts : Shares!Damage(a) \/ Shares!SweepBytes(a)
       PROVE  minute <= minute' /\ \A l \in Links : LinkGoesOn(l)
  BY <1>10, <1>2 DEF Shares!FinishRun, Shares!Damage, Shares!SweepBytes
<1> QED
  BY <1>3, <1>4, <1>5, <1>7, <1>8, <1>9, <1>10 DEF Shares!Next

(* A request that does not move stays as good as it is. *)
LEMMA VisitStays ==
  ASSUME Shares!TypeOK, Shares!TypeOK', minute <= minute', \A l \in Links : LinkGoesOn(l),
         NEW v \in Visits, visits'[v] = visits[v],
         \A l \in Links : visits[v].pc \in Uncounted /\ v \in links'[l].audited =>
                              v \in links[l].audited,
         VisitFits(v), LateIsOver(v), GrantedInScope(v), CountedOnce(v), ServedWell(v),
         LinkInv
  PROVE  VisitFits(v)' /\ LateIsOver(v)' /\ GrantedInScope(v)' /\ CountedOnce(v)'
         /\ ServedWell(v)'
<1> DEFINE l == visits[v].link
<1>1. minute \in Nat /\ minute' \in Nat
  BY SharesAssumption DEF Shares!TypeOK, Shares!Minutes
<1>2. CASE visits[v].pc = "unsent"
  BY <1>2 DEF VisitFits, LateIsOver, GrantedInScope, CountedOnce, ServedWell, Sent, Granted,
              Uncounted
<1>3. CASE Sent(v)
  <2>1. visits[v] \in Shares!Visit /\ l \in Links
    BY <1>3, SentVisit DEF Shares!Visit
  <2>2. /\ visits[v].sent \in Nat
        /\ links[l].expires \in Nat /\ links'[l].expires \in Nat
    BY <2>1 DEF Shares!Visit, Shares!TypeOK, Shares!Link
  <2>3. LinkGoesOn(l)
    BY <2>1
  <2>4. VisitFits(v)'
    BY <1>1, <2>2 DEF VisitFits, Sent, Granted
  <2>5. IsOver(links[l]) => links[l].state # "absent"
    BY <2>1 DEF LinkInv, LinkFits, Shares!NoLink, IsOver
  <2>6. LateIsOver(v)'
    BY <2>3, <2>5, <1>3 DEF LateIsOver, LinkGoesOn, Sent, LinkOf
  <2>7. GrantedInScope(v)'
    BY <2>3 DEF GrantedInScope, LinkGoesOn, Granted, LinkOf
  <2>8. CountedOnce(v)'
    <3>1. visits[v].pc = "counted" => links[l].state # "absent"
      BY DEF GrantedInScope, Granted, LinkOf
    <3> QED
      BY <1>1, <2>2, <2>3, <3>1 DEF CountedOnce, LinkGoesOn, LinkOf
  <2>9. ServedWell(v)'
    BY <2>3, <2>2 DEF ServedWell, LinkGoesOn, LinkOf
  <2> QED
    BY <2>4, <2>6, <2>7, <2>8, <2>9
<1> QED
  BY <1>2, <1>3 DEF Sent

(* Every step of the share links keeps what is known of the links: the log *)
(* and its counter grow together.                                          *)
LEMMA LinkNext ==
  ASSUME Shares!TypeOK, LinkInv, VisitInv, Shares!Next
  PROVE  LinkInv'
<1> USE DEF LinkInv
<1>1. /\ minute \in Nat
      /\ \A l \in Links : links[l] \in Shares!Link /\ IsFiniteSet(links[l].audited)
  <2>1. \A l \in Links : links[l] \in Shares!Link /\ links[l].audited \subseteq Visits
    BY DEF Shares!TypeOK, Shares!Link
  <2> QED
    BY <2>1, SharesAssumption, FS_Subset DEF Shares!TypeOK, Shares!Minutes
<1>2. CASE UNCHANGED links
  BY <1>2 DEF LinkFits
<1>3. ASSUME NEW k \in Links, NEW scope \in SUBSET Artifacts, NEW t \in Lifetimes,
             Shares!CreateLink(k, scope, t)
      PROVE  LinkInv'
  <2>1. /\ links'[k].state = "present" /\ links'[k].expires = Shares!LinkEnd(minute, t)
        /\ links'[k].audited = {} /\ links'[k].accesses = 0
    BY <1>3 DEF Shares!CreateLink, Shares!TypeOK, Shares!NoLink
  <2>2. Shares!LinkEnd(minute, t) <= RunExpiry
    BY <1>1, SharesAssumption DEF Shares!LinkEnd
  <2>3. LinkFits(k)'
    BY <2>1, <2>2, FS_EmptySet DEF LinkFits
  <2>4. \A l \in Links \ {k} : links'[l] = links[l]
    BY <1>3 DEF Shares!CreateLink, Shares!TypeOK
  <2> QED
    BY <2>3, <2>4 DEF LinkFits
<1>4. ASSUME NEW k \in Links, Shares!Revoke(k)
      PROVE  LinkInv'
  BY <1>1, <1>4 DEF Shares!Revoke, Shares!TypeOK, Shares!Link, LinkFits
<1>5. ASSUME NEW k \in Links, NEW v \in Visits, links' = Shares!Count(k, v),
             links[k].state = "present", v \notin links[k].audited
      PROVE  LinkInv'
  <2>1. Cardinality(links[k].audited \cup {v}) = Cardinality(links[k].audited) + 1
    BY <1>1, <1>5, FS_AddElement
  <2>2. /\ links'[k].state = "present" /\ links'[k].expires = links[k].expires
        /\ links'[k].accesses = links[k].accesses + 1
        /\ links'[k].audited = links[k].audited \cup {v}
    BY <1>1, <1>5 DEF Shares!Count, Shares!TypeOK, Shares!Link
  <2>3. LinkFits(k)'
    BY <2>1, <2>2, <1>5 DEF LinkFits
  <2>4. \A l \in Links \ {k} : links'[l] = links[l]
    BY <1>5 DEF Shares!Count, Shares!TypeOK
  <2> QED
    BY <2>3, <2>4 DEF LinkFits
<1>6. ASSUME NEW v \in Visits, Shares!Grant(v) \/ Shares!CountDownload(v)
      PROVE  LinkInv'
  <2> DEFINE k == visits[v].link
  <2>1. k \in Links
    BY <1>6, SentVisit DEF Shares!Grant, Shares!CountDownload, Sent, Shares!Visit
  <2>2. v \notin links[k].audited
    BY <1>6, <2>1 DEF Shares!Grant, Shares!CountDownload, VisitInv, CountedOnce, Uncounted
  <2>3. CASE UNCHANGED links
    BY <2>3, <1>2
  <2>4. CASE links' = Shares!Count(k, v) /\ links[k].state = "present"
    BY <2>1, <2>2, <2>4, <1>5
  <2> QED
    BY <1>6, <2>3, <2>4
    DEF Shares!Grant, Shares!CountDownload, Shares!Resolves, Shares!Active
<1>7. ASSUME Shares!PurgeShares
      PROVE  LinkInv'
  <2>1. \A l \in Links : \/ links'[l] = links[l]
                         \/ /\ links'[l].state = "purged"
                            /\ links'[l].accesses = links[l].accesses
                            /\ links'[l].audited = links[l].audited
    BY <1>1, <1>7 DEF Shares!PurgeShares, Shares!Link
  <2> QED
    BY <2>1 DEF LinkFits
<1>8. ASSUME NEW v \in Visits,
             \/ Shares!NotResolved(v) \/ Shares!Throttled(v) \/ Shares!FindArtifact(v)
             \/ Shares!ReadBytes(v) \/ Shares!ConfirmActive(v) \/ Shares!OwnerReads(v)
             \/ \E l \in Links, a \in Artifacts, r \in Shares!Routes : Shares!Arrive(v, r, l, a)
             \/ \E a \in Artifacts : Shares!OwnerFinds(v, a)
      PROVE  LinkInv'
  BY <1>8, <1>2
  DEF Shares!NotResolved, Shares!Throttled, Shares!FindArtifact, Shares!ReadBytes,
      Shares!ConfirmActive, Shares!OwnerReads, Shares!Arrive, Shares!OwnerFinds
<1>9. ASSUME \/ Shares!FinishRun \/ Shares!Tick
             \/ \E a \in Artifacts : Shares!Damage(a) \/ Shares!SweepBytes(a)
      PROVE  LinkInv'
  BY <1>9, <1>2 DEF Shares!FinishRun, Shares!Tick, Shares!Damage, Shares!SweepBytes
<1> QED
  BY <1>3, <1>4, <1>6, <1>7, <1>8, <1>9 DEF Shares!Next, Shares!Visiting

(* A request with a token that makes a step keeps its link, its artifact   *)
(* and what it is, and has an answer when it ends.                         *)
LEMMA VisitingKeeps ==
  ASSUME Shares!TypeOK, Shares!TypeOK', VisitInv, NEW v \in Visits, Shares!Visiting(v)
  PROVE  /\ Sent(v) /\ visits[v] \in Shares!Visit /\ visits'[v] \in Shares!Visit /\ Sent(v)'
         /\ visits'[v].route = visits[v].route /\ visits'[v].link = visits[v].link
         /\ visits'[v].artifact = visits[v].artifact
         /\ visits'[v].sent = visits[v].sent /\ visits'[v].late = visits[v].late
         /\ visits'[v].granted = visits[v].granted \/ Shares!Grant(v)
         /\ \A u \in Visits \ {v} : visits'[u] = visits[u]
         /\ minute' = minute /\ visits[v].answer = "none"
         /\ visits'[v].pc # "done" => visits'[v].answer = "none"
         /\ visits[v].route \in Shares!Routes
<1>1. Sent(v) /\ visits[v].pc # "done"
  BY DEF Shares!Visiting, Shares!NotResolved, Shares!Throttled, Shares!Grant,
               Shares!FindArtifact, Shares!ReadBytes, Shares!CountDownload,
               Shares!ConfirmActive, Sent
<1>2. visits[v] \in Shares!Visit
  BY <1>1, SentVisit
<1>3. visits[v].answer = "none" /\ visits[v].route \in Shares!Routes
  BY <1>1
  DEF VisitInv, VisitFits, Granted, Shares!Routes, Shares!Visiting, Shares!NotResolved,
      Shares!Throttled, Shares!Grant, Shares!FindArtifact, Shares!ReadBytes,
      Shares!CountDownload, Shares!ConfirmActive
<1>4. \E pc \in Shares!PCs, a \in Shares!Answers, g \in Nat :
          /\ pc # "done" => a = "none"
          /\ pc # "unsent"
          /\ minute' = minute
          /\ \/ visits' = [visits EXCEPT ![v].pc = pc] /\ pc # "done"
             \/ visits' = [visits EXCEPT ![v].pc = pc, ![v].answer = a]
             \/ /\ visits' = [visits EXCEPT ![v].pc = pc, ![v].granted = g]
                /\ pc # "done" /\ Shares!Grant(v)
             \/ /\ visits' = [visits EXCEPT ![v].pc = pc, ![v].granted = g, ![v].answer = a]
                /\ Shares!Grant(v)
  <2>1. minute + 1 \in Nat
    BY SharesAssumption DEF Shares!TypeOK, Shares!Minutes
  <2>2. CASE Shares!NotResolved(v) \/ Shares!FindArtifact(v) \/ Shares!ReadBytes(v)
             \/ Shares!ConfirmActive(v)
    BY <2>2 DEF Shares!NotResolved, Shares!FindArtifact, Shares!ReadBytes,
                Shares!ConfirmActive, Shares!Answered, Shares!Moved, Shares!PCs, Shares!Answers
  <2>3. CASE Shares!Throttled(v) \/ Shares!Grant(v) \/ Shares!CountDownload(v)
    BY <2>3, <2>1 DEF Shares!Throttled, Shares!Grant, Shares!CountDownload, Shares!Answered,
                      Shares!Moved, Shares!PCs, Shares!Answers
  <2> QED
    BY <2>2, <2>3 DEF Shares!Visiting
<1>5. PICK pc \in Shares!PCs, a \in Shares!Answers, g \in Nat :
          /\ pc # "done" => a = "none"
          /\ pc # "unsent"
          /\ minute' = minute
          /\ \/ visits' = [visits EXCEPT ![v].pc = pc] /\ pc # "done"
             \/ visits' = [visits EXCEPT ![v].pc = pc, ![v].answer = a]
             \/ /\ visits' = [visits EXCEPT ![v].pc = pc, ![v].granted = g]
                /\ pc # "done" /\ Shares!Grant(v)
             \/ /\ visits' = [visits EXCEPT ![v].pc = pc, ![v].granted = g, ![v].answer = a]
                /\ Shares!Grant(v)
  BY <1>4
<1>6. /\ visits'[v].route = visits[v].route /\ visits'[v].link = visits[v].link
      /\ visits'[v].artifact = visits[v].artifact
      /\ visits'[v].sent = visits[v].sent /\ visits'[v].late = visits[v].late
      /\ \A u \in Visits \ {v} : visits'[u] = visits[u]
      /\ visits'[v].pc # "done" => visits'[v].answer = "none"
      /\ visits'[v].pc # "unsent"
      /\ visits'[v].granted = visits[v].granted \/ Shares!Grant(v)
  BY <1>2, <1>3, <1>5 DEF Shares!TypeOK, Shares!Visit
<1>7. visits'[v] \in Shares!Visit
  <2>1. Sent(v)'
    BY <1>6 DEF Sent
  <2> QED
    BY <2>1 DEF Shares!TypeOK, Sent
<1> QED
  BY <1>1, <1>2, <1>3, <1>5, <1>6, <1>7 DEF Sent

(* Every step of the share links keeps what is known of the requests.      *)
LEMMA VisitNext ==
  ASSUME Shares!TypeOK, LinkInv, VisitInv, Shares!Next
  PROVE  VisitInv'
<1> DEFINE Good(v) == VisitFits(v) /\ LateIsOver(v) /\ GrantedInScope(v) /\ CountedOnce(v)
                      /\ ServedWell(v)
<1>1. Shares!TypeOK' /\ minute <= minute' /\ \A l \in Links : LinkGoesOn(l)
  BY ShareTypes, LinksGoOn
<1>2. minute \in Nat
  BY SharesAssumption DEF Shares!TypeOK, Shares!Minutes
<1>3. ASSUME NEW v \in Visits, visits'[v] = visits[v],
             \A l \in Links : visits[v].pc \in Uncounted /\ v \in links'[l].audited =>
                                  v \in links[l].audited
      PROVE  Good(v)'
  BY <1>1, <1>3, VisitStays DEF VisitInv
<1>4. ASSUME NEW v \in Visits, \A u \in Visits \ {v} : visits'[u] = visits[u],
             \A l \in Links : links'[l].audited \subseteq links[l].audited \cup {v},
             Good(v)'
      PROVE  VisitInv'
  BY <1>3, <1>4 DEF VisitInv
<1>5. ASSUME UNCHANGED visits, \A l \in Links : links'[l].audited \subseteq links[l].audited
      PROVE  VisitInv'
  BY <1>3, <1>5 DEF VisitInv
<1> HIDE DEF Good
<1>6. CASE \E l \in Links : \E scope \in SUBSET Artifacts, t \in Lifetimes :
               Shares!CreateLink(l, scope, t)
  BY <1>6, <1>5 DEF Shares!CreateLink, Shares!NoLink, Shares!TypeOK
<1>7. CASE \E l \in Links : Shares!Revoke(l)
  BY <1>7, <1>5 DEF Shares!Revoke, Shares!TypeOK, Shares!Link
<1>8. CASE Shares!PurgeShares
  BY <1>8, <1>5 DEF Shares!PurgeShares, Shares!TypeOK, Shares!Link
<1>9. CASE Shares!FinishRun \/ Shares!Tick
           \/ \E a \in Artifacts : Shares!Damage(a) \/ Shares!SweepBytes(a)
  BY <1>9, <1>5 DEF Shares!FinishRun, Shares!Tick, Shares!Damage, Shares!SweepBytes
<1>10. ASSUME NEW v \in Visits, NEW l \in Links, NEW a \in Artifacts, NEW r \in Shares!Routes,
              Shares!Arrive(v, r, l, a)
       PROVE  VisitInv'
  <2>1. /\ visits'[v].pc \in {"admitted", "done"} /\ visits'[v].route = r
        /\ visits'[v].link = l /\ visits'[v].sent = minute /\ visits'[v].granted = 0
        /\ visits'[v].late => IsOver(links[l])
        /\ visits'[v].pc # "done" => visits'[v].answer = "none"
        /\ visits'[v].answer # "served"
        /\ visits[v].pc = "unsent" /\ UNCHANGED <<minute, links>>
    BY <1>10 DEF Shares!Arrive, Shares!TypeOK, IsOver
  <2>2. Good(v)'
    <3>1. \A k \in Links : v \notin links[k].audited
      BY <2>1 DEF VisitInv, CountedOnce, Uncounted
    <3> QED
      BY <2>1, <3>1, <1>2
      DEF Good, VisitFits, LateIsOver, GrantedInScope, CountedOnce, ServedWell, Sent, Granted,
          LinkOf, IsOver
  <2> QED
    BY <1>10, <2>2, <1>4 DEF Shares!Arrive, Shares!TypeOK
<1>11. ASSUME NEW v \in Visits, NEW a \in Artifacts, Shares!OwnerFinds(v, a)
       PROVE  VisitInv'
  <2>1. /\ visits'[v].pc \in {"owned", "done"} /\ visits'[v].route = "owner"
        /\ visits'[v].sent = minute
        /\ visits'[v].pc # "done" => visits'[v].answer = "none"
        /\ UNCHANGED <<minute, links>>
    BY <1>11 DEF Shares!OwnerFinds, Shares!TypeOK
  <2>2. Good(v)'
    BY <2>1, <1>2
    DEF Good, VisitFits, LateIsOver, GrantedInScope, CountedOnce, ServedWell, Sent, Granted,
        Uncounted
  <2> QED
    BY <1>11, <2>2, <1>4 DEF Shares!OwnerFinds, Shares!TypeOK
<1>12. ASSUME NEW v \in Visits, Shares!OwnerReads(v)
       PROVE  VisitInv'
  <2>1. /\ visits'[v].pc = "done" /\ visits'[v].route = "owner"
        /\ visits'[v].sent = visits[v].sent /\ visits[v].sent <= minute
        /\ UNCHANGED <<minute, links>>
    <3>1. visits[v] \in Shares!Visit /\ Sent(v)
      BY <1>12, SentVisit DEF Shares!OwnerReads, Sent
    <3> QED
      BY <3>1, <1>12 DEF Shares!OwnerReads, Shares!Answered, Shares!TypeOK, Shares!Visit,
                         VisitInv, VisitFits
  <2>2. Good(v)'
    BY <2>1 DEF Good, VisitFits, LateIsOver, GrantedInScope, CountedOnce, ServedWell, Sent,
                Granted, Uncounted
  <2> QED
    BY <1>12, <2>2, <1>4 DEF Shares!OwnerReads, Shares!Answered, Shares!TypeOK
<1>13. ASSUME NEW v \in Visits, Shares!Visiting(v)
       PROVE  /\ Sent(v) /\ visits[v] \in Shares!Visit /\ visits'[v] \in Shares!Visit
              /\ visits'[v].route = visits[v].route /\ visits'[v].link = visits[v].link
              /\ visits'[v].artifact = visits[v].artifact
              /\ visits'[v].sent = visits[v].sent /\ visits'[v].late = visits[v].late
              /\ \A u \in Visits \ {v} : visits'[u] = visits[u]
              /\ minute' = minute /\ visits[v].answer = "none"
              /\ visits'[v].pc # "done" => visits'[v].answer = "none"
              /\ visits[v].route \in Shares!Routes
  BY <1>1, <1>13, VisitingKeeps
(* What no later step of a request disturbs, when links are only counted.  *)
<1>14. ASSUME NEW v \in Visits, Shares!Visiting(v)
       PROVE  /\ visits'[v].pc \in {"granted", "found", "read", "counted", "done"}
              /\ Granted(v)' => visits[v].route = "artifact"
              => VisitFits(v)'
  <2>1. visits[v].route # "owner" /\ visits[v].sent <= minute
    BY <1>13, <1>14 DEF Shares!Routes, VisitInv, VisitFits
  <2> QED
    BY <2>1, <1>13, <1>14 DEF VisitFits, Sent, Granted
<1>15. ASSUME NEW v \in Visits, Shares!Visiting(v)
       PROVE  LateIsOver(v)'
  <2>1. LinkGoesOn(visits[v].link) /\ visits[v].link \in Links
    BY <1>1, <1>13, <1>15 DEF Shares!Visit
  <2>2. IsOver(LinkOf(v)) => LinkOf(v).state # "absent"
    BY <2>1 DEF LinkInv, LinkFits, Shares!NoLink, IsOver, LinkOf
  <2>3. visits[v].late => IsOver(LinkOf(v))
    BY <1>13, <1>15 DEF VisitInv, LateIsOver, Shares!Routes
  <2> QED
    BY <1>13, <1>15, <2>1, <2>2, <2>3 DEF LateIsOver, LinkGoesOn, LinkOf
<1>16. ASSUME NEW v \in Visits, Shares!NotResolved(v) \/ Shares!Throttled(v)
       PROVE  VisitInv'
  <2>1. Shares!Visiting(v)
    BY <1>16 DEF Shares!Visiting
  <2>2. visits'[v].pc = "done" /\ visits'[v].answer # "served" /\ UNCHANGED links
    BY <1>16, <1>13, <2>1 DEF Shares!NotResolved, Shares!Throttled, Shares!Answered,
                              Shares!TypeOK, Shares!Visit
  <2>3. Good(v)'
    BY <2>1, <2>2, <1>14, <1>15
    DEF Good, GrantedInScope, CountedOnce, ServedWell, Granted, Uncounted
  <2> QED
    BY <2>1, <2>2, <2>3, <1>13, <1>4
<1>17. ASSUME NEW v \in Visits, Shares!Grant(v)
       PROVE  VisitInv'
  <2> DEFINE l == visits[v].link
  <2>1. Shares!Visiting(v)
    BY <1>17 DEF Shares!Visiting
  <2>2. l \in Links /\ links[l] \in Shares!Link /\ visits[v].sent \in Nat
    BY <1>13, <2>1 DEF Shares!Visit, Shares!TypeOK
  <2>3. PICK now \in visits[v].sent..minute : Shares!Resolves(v, now)
    BY <1>17 DEF Shares!Grant
  <2>4. /\ links[l].state = "present" /\ ~links[l].revoked /\ links[l].expires > now
        /\ visits[v].route = "artifact" => visits[v].artifact \in links[l].scope
    BY <2>3 DEF Shares!Resolves, Shares!Active
  <2>5. visits[v].sent < links[l].expires
    BY <2>2, <2>3, <2>4, <1>2 DEF Shares!Link
  <2>6. ~visits[v].late
    BY <2>1, <2>4, <1>13 DEF VisitInv, LateIsOver, Shares!Routes, LinkOf, IsOver
  <2>7. visits[v].pc = "admitted" /\ \A k \in Links : v \notin links[k].audited
    BY <1>17 DEF Shares!Grant, VisitInv, CountedOnce, Uncounted
  <2>8. CASE visits[v].route = "open"
    <3>1. visits'[v].pc = "done" /\ links' = Shares!Count(l, v)
      BY <1>17, <1>13, <2>1, <2>8 DEF Shares!Grant, Shares!TypeOK, Shares!Visit
    <3>2. /\ links'[l].state = "present" /\ links'[l].expires = links[l].expires
          /\ links'[l].audited = links[l].audited \cup {v}
          /\ \A k \in Links \ {l} : links'[k] = links[k]
      BY <3>1, <2>2, <2>4 DEF Shares!Count, Shares!TypeOK, Shares!Link
    <3>3. Good(v)'
      BY <3>1, <3>2, <2>1, <2>5, <2>6, <2>8, <1>13, <1>14, <1>15
      DEF Good, GrantedInScope, CountedOnce, ServedWell, Granted, Uncounted, LinkOf
    <3> QED
      BY <3>2, <3>3, <2>1, <1>13, <1>4
  <2>9. CASE visits[v].route = "artifact"
    <3>1. visits'[v].pc = "granted" /\ links' = links
      BY <1>17, <1>13, <2>1, <2>9 DEF Shares!Grant, Shares!TypeOK, Shares!Visit
    <3>2. Good(v)'
      BY <3>1, <2>1, <2>4, <2>7, <2>9, <1>13, <1>14, <1>15
      DEF Good, GrantedInScope, CountedOnce, ServedWell, Granted, Uncounted, LinkOf
    <3> QED
      BY <3>1, <3>2, <2>1, <1>13, <1>4
  <2> QED
    BY <2>1, <2>8, <2>9, <1>13 DEF Shares!Routes
<1>18. ASSUME NEW v \in Visits, Shares!FindArtifact(v) \/ Shares!ReadBytes(v)
       PROVE  VisitInv'
  <2>1. Shares!Visiting(v)
    BY <1>18 DEF Shares!Visiting
  <2>2. /\ visits[v].pc \in {"granted", "found"} /\ UNCHANGED links
        /\ \/ visits'[v].pc \in {"found", "read"}
           \/ visits'[v].pc = "done" /\ visits'[v].answer # "served"
    BY <1>18, <1>13, <2>1 DEF Shares!FindArtifact, Shares!ReadBytes, Shares!Answered,
                              Shares!Moved, Shares!TypeOK, Shares!Visit
  <2>3. Granted(v) /\ visits[v].route = "artifact"
    BY <2>2 DEF Granted, VisitInv, VisitFits
  <2>4. /\ LinkOf(v).state # "absent" /\ visits[v].artifact \in LinkOf(v).scope
        /\ \A k \in Links : v \notin links[k].audited
    BY <2>2, <2>3 DEF VisitInv, GrantedInScope, CountedOnce, Uncounted
  <2>5. Good(v)'
    BY <2>1, <2>2, <2>3, <2>4, <1>13, <1>14, <1>15
    DEF Good, GrantedInScope, CountedOnce, ServedWell, LinkOf
  <2> QED
    BY <2>1, <2>2, <2>5, <1>13, <1>4
<1>19. ASSUME NEW v \in Visits, Shares!CountDownload(v)
       PROVE  VisitInv'
  <2> DEFINE l == visits[v].link
  <2>1. Shares!Visiting(v)
    BY <1>19 DEF Shares!Visiting
  <2>2. l \in Links /\ links[l] \in Shares!Link
    BY <1>13, <2>1 DEF Shares!Visit, Shares!TypeOK
  <2>3. visits[v].pc = "read" /\ visits'[v].pc = "counted"
    BY <1>19, <1>13, <2>1 DEF Shares!CountDownload, Shares!Moved, Shares!TypeOK, Shares!Visit
  <2>4. /\ visits[v].route = "artifact" /\ LinkOf(v).state # "absent"
        /\ visits[v].artifact \in LinkOf(v).scope
    BY <2>3 DEF Granted, VisitInv, VisitFits, GrantedInScope
  <2>5. /\ \A k \in Links : links'[k].audited \subseteq links[k].audited \cup {v}
        /\ links'[l].state = links[l].state /\ links'[l].expires = links[l].expires
        /\ links'[l].scope = links[l].scope
        /\ links'[l].revoked = links[l].revoked
        /\ v \in links'[l].audited \/ ~Shares!Active(l, minute)
    BY <1>19, <2>2 DEF Shares!CountDownload, Shares!Count, Shares!TypeOK, Shares!Link
  <2>6. v \in links'[l].audited \/ IsOver(links[l]) \/ links[l].expires <= minute
    BY <1>2, <2>2, <2>4, <2>5 DEF Shares!Active, IsOver, LinkOf, Shares!Link
  <2>7. Good(v)'
    BY <2>1, <2>3, <2>4, <2>5, <2>6, <1>13, <1>14, <1>15
    DEF Good, GrantedInScope, CountedOnce, ServedWell, Granted, Uncounted, LinkOf, IsOver
  <2> QED
    BY <2>1, <2>5, <2>7, <1>13, <1>4
<1>20. ASSUME NEW v \in Visits, Shares!ConfirmActive(v)
       PROVE  VisitInv'
  <2> DEFINE l == visits[v].link
  <2>1. Shares!Visiting(v)
    BY <1>20 DEF Shares!Visiting
  <2>2. l \in Links /\ links[l] \in Shares!Link /\ visits[v].sent \in Nat
    BY <1>13, <2>1 DEF Shares!Visit, Shares!TypeOK
  <2>3. /\ visits[v].pc = "counted" /\ visits'[v].pc = "done" /\ UNCHANGED links
        /\ visits'[v].answer = "served" => Shares!Active(l, minute)
    BY <1>20, <1>13, <2>1 DEF Shares!ConfirmActive, Shares!Answered, Shares!TypeOK, Shares!Visit
  <2>4. CASE visits'[v].answer # "served"
    <3>1. Good(v)'
      BY <2>1, <2>3, <2>4, <1>14, <1>15
      DEF Good, GrantedInScope, CountedOnce, ServedWell, Granted, Uncounted
    <3> QED
      BY <2>1, <2>3, <3>1, <1>13, <1>4
  <2>5. CASE Shares!Active(l, minute)
    <3>1. ~IsOver(links[l]) /\ links[l].expires > minute /\ links[l].state = "present"
      BY <2>5 DEF Shares!Active, IsOver
    <3>2. v \in links[l].audited /\ visits[v].artifact \in links[l].scope
      BY <2>2, <2>3, <3>1, <1>2
      DEF VisitInv, CountedOnce, GrantedInScope, Granted, LinkOf, Shares!Link
    <3>3. ~visits[v].late /\ visits[v].sent < links[l].expires
      <4>1. visits[v].sent <= minute
        BY <2>1, <1>13 DEF VisitInv, VisitFits
      <4>2. ~visits[v].late
        BY <2>1, <3>1, <1>13 DEF VisitInv, LateIsOver, LinkOf, Shares!Routes
      <4> QED
        BY <4>1, <4>2, <3>1, <2>2, <1>2 DEF Shares!Link
    <3>4. Good(v)'
      BY <2>1, <2>3, <3>1, <3>2, <3>3, <1>13, <1>14, <1>15
      DEF Good, GrantedInScope, CountedOnce, ServedWell, Granted, Uncounted, LinkOf
    <3> QED
      BY <2>1, <2>3, <3>4, <1>13, <1>4
  <2> QED
    BY <2>3, <2>4, <2>5
<1> QED
  BY <1>6, <1>7, <1>8, <1>9, <1>10, <1>11, <1>12, <1>16, <1>17, <1>18, <1>19, <1>20
  DEF Shares!Next, Shares!Visiting

(* A bucket that may still be asked is not emptied while anybody it let in *)
(* is counted, and nobody is let in but by a grant or an arrival.          *)
LEMMA BucketsKept ==
  ASSUME Shares!TypeOK, Shares!TypeOK', BucketsCount, minute <= minute',
         NEW m \in Shares!Minutes
  PROVE  /\ \A l \in Links :
               /\ GrantedBy(l, m)' \subseteq GrantedBy(l, m)
               /\ links'[l].state # "purged" /\ minute' <= m + 2 =>
                      links[l].state # "purged" /\ linkBucket[l][m] <= linkBucket'[l][m]
               => LinkWithin(l, m)'
         /\ \A r \in Shares!Routes :
               /\ LetIn(r, m)' \subseteq LetIn(r, m)
               /\ minute' <= m + 2 => routeBucket[r][m] <= routeBucket'[r][m]
               => RouteWithin(r, m)'
<1>1. minute \in Nat /\ minute' \in Nat /\ m \in Nat
  BY SharesAssumption DEF Shares!TypeOK, Shares!Minutes
<1>2. ASSUME NEW S, NEW T, S \subseteq Visits, T \subseteq S
      PROVE  Cardinality(T) \in Nat /\ Cardinality(S) \in Nat /\ Cardinality(T) <= Cardinality(S)
  BY <1>2, SharesAssumption, FS_Subset, FS_CardinalityType
<1>3. ASSUME NEW l \in Links, GrantedBy(l, m)' \subseteq GrantedBy(l, m),
             links'[l].state # "purged" /\ minute' <= m + 2 =>
                 links[l].state # "purged" /\ linkBucket[l][m] <= linkBucket'[l][m]
      PROVE  LinkWithin(l, m)'
  <2>1. GrantedBy(l, m) \subseteq Visits
    BY DEF GrantedBy
  <2>2. linkBucket[l][m] \in Nat /\ linkBucket'[l][m] \in Nat
    BY DEF Shares!TypeOK
  <2>3. /\ Cardinality(GrantedBy(l, m)) <= LinkLimit
        /\ links[l].state # "purged" /\ minute <= m + 2 =>
               Cardinality(GrantedBy(l, m)) <= linkBucket[l][m]
    BY DEF BucketsCount, LinkWithin
  <2>4. /\ Cardinality(GrantedBy(l, m)') \in Nat /\ Cardinality(GrantedBy(l, m)) \in Nat
        /\ Cardinality(GrantedBy(l, m)') <= Cardinality(GrantedBy(l, m))
    BY <1>2, <1>3, <2>1
  <2> QED
    BY <1>1, <1>3, <2>2, <2>3, <2>4, SharesAssumption DEF LinkWithin
<1>4. ASSUME NEW r \in Shares!Routes, LetIn(r, m)' \subseteq LetIn(r, m),
             minute' <= m + 2 => routeBucket[r][m] <= routeBucket'[r][m]
      PROVE  RouteWithin(r, m)'
  <2>1. LetIn(r, m) \subseteq Visits
    BY DEF LetIn
  <2>2. routeBucket[r][m] \in Nat /\ routeBucket'[r][m] \in Nat
    BY DEF Shares!TypeOK
  <2>3. /\ Cardinality(LetIn(r, m)) <= RouteLimit
        /\ minute <= m + 2 => Cardinality(LetIn(r, m)) <= routeBucket[r][m]
    BY DEF BucketsCount, RouteWithin
  <2>4. /\ Cardinality(LetIn(r, m)') \in Nat /\ Cardinality(LetIn(r, m)) \in Nat
        /\ Cardinality(LetIn(r, m)') <= Cardinality(LetIn(r, m))
    BY <1>2, <1>4, <2>1
  <2> QED
    BY <1>1, <1>4, <2>2, <2>3, <2>4, SharesAssumption DEF RouteWithin
<1> QED
  BY <1>3, <1>4

(* Every step of the share links keeps the buckets' count of who was let   *)
(* in: a grant adds one to both, whatever the purge did to older minutes.  *)
LEMMA BucketsNext ==
  ASSUME Shares!TypeOK, LinkInv, VisitInv, BucketsCount, Shares!Next
  PROVE  BucketsCount'
<1>1. Shares!TypeOK' /\ minute <= minute'
  BY ShareTypes, LinksGoOn
<1>2. minute \in Nat /\ minute \in Shares!Minutes /\ Shares!Minutes \subseteq Nat
  BY SharesAssumption DEF Shares!TypeOK, Shares!Minutes
<1>3. /\ \A l \in Links : linkBucket[l] \in [Shares!Minutes -> Nat]
      /\ \A r \in Shares!Routes : routeBucket[r] \in [Shares!Minutes -> Nat]
  BY DEF Shares!TypeOK
<1>4. ASSUME \A l \in Links, m \in Shares!Minutes :
                 /\ GrantedBy(l, m)' \subseteq GrantedBy(l, m)
                 /\ links'[l].state # "purged" /\ minute' <= m + 2 =>
                        links[l].state # "purged" /\ linkBucket[l][m] <= linkBucket'[l][m]
      PROVE  \A l \in Links, m \in Shares!Minutes : LinkWithin(l, m)'
  BY <1>1, <1>4, BucketsKept
<1>5. ASSUME \A r \in Shares!Routes, m \in Shares!Minutes :
                 /\ LetIn(r, m)' \subseteq LetIn(r, m)
                 /\ minute' <= m + 2 => routeBucket[r][m] <= routeBucket'[r][m]
      PROVE  \A r \in Shares!Routes, m \in Shares!Minutes : RouteWithin(r, m)'
  BY <1>1, <1>5, BucketsKept
<1>6. ASSUME UNCHANGED visits
      PROVE  \A m : (\A l : GrantedBy(l, m)' = GrantedBy(l, m)) /\ (\A r : LetIn(r, m)' = LetIn(r, m))
  BY <1>6 DEF GrantedBy, LetIn, Sent
<1>7. ASSUME UNCHANGED linkBucket,
             \A l \in Links : links'[l].state # "purged" => links[l].state # "purged",
             \A l \in Links, m \in Shares!Minutes : GrantedBy(l, m)' \subseteq GrantedBy(l, m)
      PROVE  \A l \in Links, m \in Shares!Minutes : LinkWithin(l, m)'
  BY <1>2, <1>3, <1>4, <1>7
<1>8. ASSUME UNCHANGED routeBucket,
             \A r \in Shares!Routes, m \in Shares!Minutes : LetIn(r, m)' \subseteq LetIn(r, m)
      PROVE  \A r \in Shares!Routes, m \in Shares!Minutes : RouteWithin(r, m)'
  BY <1>2, <1>3, <1>5, <1>8
<1>9. ASSUME UNCHANGED <<visits, linkBucket, routeBucket>>,
             \A l \in Links : links'[l].state # "purged" => links[l].state # "purged"
      PROVE  BucketsCount'
  BY <1>6, <1>7, <1>8, <1>9 DEF BucketsCount, Shares!Minutes, Shares!Routes
<1>10. CASE \E l \in Links : \/ \E scope \in SUBSET Artifacts, t \in Lifetimes :
                                    Shares!CreateLink(l, scope, t)
                             \/ Shares!Revoke(l)
  BY <1>9, <1>10 DEF Shares!CreateLink, Shares!Revoke, Shares!NoLink, Shares!TypeOK, Shares!Link
<1>11. CASE Shares!FinishRun \/ Shares!Tick
            \/ \E a \in Artifacts : Shares!Damage(a) \/ Shares!SweepBytes(a)
  BY <1>9, <1>11 DEF Shares!FinishRun, Shares!Tick, Shares!Damage, Shares!SweepBytes
<1>12. CASE Shares!PurgeShares
  <2>1. minute' = minute /\ UNCHANGED visits
    BY <1>12 DEF Shares!PurgeShares
  <2>2. \A b : \A m \in Shares!Minutes :
            minute <= m + 2 => Shares!OldBuckets(b, 2)[m] = b[m]
    BY <1>2 DEF Shares!OldBuckets
  <2>3. \A l \in Links : links'[l].state # "purged" =>
            links[l].state # "purged" /\ linkBucket'[l] = Shares!OldBuckets(linkBucket[l], 2)
    <3> DEFINE ended == {l \in Links : /\ links[l].state = "present"
                                       /\ \/ links[l].expires <= minute
                                          \/ links[l].revoked
                                          \/ sharedRun = "finished" /\ RunExpiry <= minute}
    <3>1. /\ links' = [l \in Links |-> IF l \in ended THEN [links[l] EXCEPT !.state = "purged"]
                                                      ELSE links[l]]
          /\ linkBucket' = [l \in Links |-> IF l \in ended THEN [m \in Shares!Minutes |-> 0]
                                            ELSE Shares!OldBuckets(linkBucket[l], 2)]
      BY <1>12 DEF Shares!PurgeShares
    <3>2. \A l \in Links : links[l] \in Shares!Link
      BY DEF Shares!TypeOK
    <3> HIDE DEF ended
    <3> QED
      BY <3>1, <3>2 DEF Shares!Link
  <2>4. \A r \in Shares!Routes : routeBucket'[r] = Shares!OldBuckets(routeBucket[r], 2)
    BY <1>12 DEF Shares!PurgeShares
  <2>5. \A l \in Links, m \in Shares!Minutes : LinkWithin(l, m)'
    <3>1. \A l \in Links, m \in Shares!Minutes : linkBucket[l][m] \in Nat
      BY <1>3
    <3> QED
      BY <2>1, <2>2, <2>3, <3>1, <1>4, <1>6
  <2>6. \A r \in Shares!Routes, m \in Shares!Minutes : RouteWithin(r, m)'
    <3>1. \A r \in Shares!Routes, m \in Shares!Minutes : routeBucket[r][m] \in Nat
      BY <1>3
    <3> QED
      BY <2>1, <2>2, <2>4, <3>1, <1>5, <1>6
  <2> QED
    BY <2>5, <2>6 DEF BucketsCount, Shares!Minutes, Shares!Routes
(* What a request with a token may change of the counts.                   *)
<1>13. ASSUME NEW v \in Visits, Shares!Visiting(v)
       PROVE  /\ \A r \in Shares!Routes, m \in Shares!Minutes : LetIn(r, m)' \subseteq LetIn(r, m)
              /\ \A l \in Links, m \in Shares!Minutes :
                    ~Shares!Grant(v) => GrantedBy(l, m)' \subseteq GrantedBy(l, m)
              /\ visits[v].link \in Links
  <2>1. /\ Sent(v) /\ visits[v] \in Shares!Visit
        /\ visits'[v].route = visits[v].route /\ visits'[v].link = visits[v].link
        /\ visits'[v].sent = visits[v].sent /\ visits[v].answer = "none"
        /\ visits'[v].granted = visits[v].granted \/ Shares!Grant(v)
        /\ \A u \in Visits \ {v} : visits'[u] = visits[u]
    BY <1>1, <1>13, VisitingKeeps
  <2> QED
    BY <2>1 DEF LetIn, GrantedBy, Sent, Shares!Visit
<1>14. ASSUME NEW v \in Visits,
              \/ Shares!NotResolved(v) \/ Shares!FindArtifact(v) \/ Shares!ReadBytes(v)
              \/ Shares!CountDownload(v) \/ Shares!ConfirmActive(v)
       PROVE  BucketsCount'
  <2>1. Shares!Visiting(v) /\ UNCHANGED <<linkBucket, routeBucket>>
    BY <1>14 DEF Shares!Visiting, Shares!NotResolved, Shares!FindArtifact, Shares!ReadBytes,
                 Shares!CountDownload, Shares!ConfirmActive
  <2>2. ~Shares!Grant(v)
    <3>1. linkBucket[visits[v].link][minute] \in Nat
      BY <2>1, <1>2, <1>3, <1>13
    <3>2. ASSUME Shares!Grant(v)
          PROVE  linkBucket'[visits[v].link][minute] = linkBucket[visits[v].link][minute] + 1
      <4>1. linkBucket' = [linkBucket EXCEPT ![visits[v].link][minute] = @ + 1]
        BY <3>2 DEF Shares!Grant
      <4> QED
        BY <4>1, <2>1, <1>2, <1>3, <1>13 DEF Shares!TypeOK
    <3> QED
      BY <3>1, <3>2, <2>1
  <2>3. \A l \in Links : links'[l].state # "purged" => links[l].state # "purged"
    <3>1. CASE UNCHANGED links
      BY <3>1
    <3>2. CASE links' = Shares!Count(visits[v].link, v)
      BY <3>2, <1>13, <2>1 DEF Shares!Count, Shares!TypeOK, Shares!Link
    <3> QED
      BY <3>1, <3>2, <1>14
      DEF Shares!NotResolved, Shares!FindArtifact, Shares!ReadBytes, Shares!CountDownload,
          Shares!ConfirmActive
  <2> QED
    BY <2>1, <2>2, <2>3, <1>7, <1>8, <1>13 DEF BucketsCount, Shares!Minutes, Shares!Routes
<1>15. ASSUME NEW v \in Visits, Shares!Throttled(v)
       PROVE  BucketsCount'
  <2>1. /\ Shares!Visiting(v) /\ UNCHANGED <<minute, links, routeBucket>>
        /\ linkBucket' = [linkBucket EXCEPT ![visits[v].link][minute] = @ + 1]
    BY <1>15 DEF Shares!Visiting, Shares!Throttled
  <2>2. ~Shares!Grant(v)
    BY <1>15 DEF Shares!Throttled, Shares!Grant
  <2>3. \A l \in Links, m \in Shares!Minutes : linkBucket[l][m] <= linkBucket'[l][m]
    <3>1. \A l \in Links, m \in Shares!Minutes :
              /\ linkBucket[l][m] \in Nat
              /\ linkBucket'[l][m] = linkBucket[l][m] \/ linkBucket'[l][m] = linkBucket[l][m] + 1
      BY <2>1, <1>2, <1>3, <1>13 DEF Shares!TypeOK
    <3> QED
      BY <3>1
  <2>4. \A l \in Links, m \in Shares!Minutes : LinkWithin(l, m)'
    BY <2>1, <2>2, <2>3, <1>4, <1>13
  <2> QED
    BY <2>1, <2>4, <1>8, <1>13 DEF BucketsCount, Shares!Minutes, Shares!Routes
<1>16. ASSUME NEW v \in Visits, Shares!Grant(v)
       PROVE  BucketsCount'
  <2> DEFINE k == visits[v].link
  <2>1. /\ Shares!Visiting(v) /\ UNCHANGED <<minute, routeBucket>>
        /\ linkBucket' = [linkBucket EXCEPT ![k][minute] = @ + 1]
        /\ linkBucket'[k][minute] <= LinkLimit /\ visits[v].pc = "admitted"
    BY <1>16 DEF Shares!Visiting, Shares!Grant, Shares!LinkAllows
  <2>2. k \in Links
    BY <2>1, <1>13
  <2>3. visits'[v].granted = minute + 1 /\ visits[v].granted = 0 /\ visits'[v].link = k
        /\ Sent(v)' /\ \A u \in Visits \ {v} : visits'[u] = visits[u]
    <3>1. visits[v].granted = 0
      BY <2>1 DEF VisitInv, VisitFits
    <3>2. visits[v] \in Shares!Visit
      BY <2>1, <1>1, VisitingKeeps
    <3>3. visits'[v].granted = minute + 1
      BY <1>16, <3>2 DEF Shares!Grant, Shares!TypeOK, Shares!Visit
    <3> QED
      BY <2>1, <3>1, <3>3, <1>1, VisitingKeeps
  <2>4. \A l \in Links : links'[l].state # "purged" => links[l].state # "purged"
    <3>1. CASE UNCHANGED links
      BY <3>1
    <3>2. CASE links' = Shares!Count(k, v)
      BY <3>2, <2>2 DEF Shares!Count, Shares!TypeOK, Shares!Link
    <3> QED
      BY <3>1, <3>2, <1>16 DEF Shares!Grant
  <2>5. \A l \in Links, m \in Shares!Minutes :
            l # k \/ m # minute => /\ GrantedBy(l, m)' \subseteq GrantedBy(l, m)
                                   /\ linkBucket'[l][m] = linkBucket[l][m]
    <3>1. ASSUME NEW l \in Links, NEW m \in Shares!Minutes, l # k \/ m # minute
          PROVE  GrantedBy(l, m)' \subseteq GrantedBy(l, m)
      <4>1. m + 1 = minute + 1 => m = minute
        BY <1>2
      <4> QED
        BY <2>3, <3>1, <4>1 DEF GrantedBy, Sent
    <3>2. ASSUME NEW l \in Links, NEW m \in Shares!Minutes, l # k \/ m # minute
          PROVE  linkBucket'[l][m] = linkBucket[l][m]
      BY <2>1, <2>2, <3>2, <1>3, <1>2 DEF Shares!TypeOK
    <3> QED
      BY <3>1, <3>2
  <2>6. ASSUME NEW l \in Links, NEW m \in Shares!Minutes, l # k \/ m # minute
        PROVE  LinkWithin(l, m)'
    <3>1. linkBucket[l][m] \in Nat /\ linkBucket'[l][m] = linkBucket[l][m]
      BY <1>3, <2>5, <2>6
    <3> QED
      BY <3>1, <2>1, <2>4, <2>5, <2>6, <1>1, BucketsKept
  <2>7. ASSUME NEW l \in Links, NEW m \in Shares!Minutes, l = k, m = minute
        PROVE  LinkWithin(l, m)'
    <3>1. GrantedBy(l, m)' \subseteq GrantedBy(l, m) \cup {v}
          /\ v \notin GrantedBy(l, m)
      BY <2>1, <2>3, <2>7, <1>2 DEF GrantedBy, Sent
    <3>2. /\ IsFiniteSet(GrantedBy(l, m)) /\ IsFiniteSet(GrantedBy(l, m) \cup {v})
          /\ IsFiniteSet(GrantedBy(l, m)')
      BY SharesAssumption, FS_Subset DEF GrantedBy
    <3>3. /\ Cardinality(GrantedBy(l, m)') <= Cardinality(GrantedBy(l, m) \cup {v})
          /\ Cardinality(GrantedBy(l, m) \cup {v}) = Cardinality(GrantedBy(l, m)) + 1
      BY <3>1, <3>2, FS_Subset, FS_AddElement
    <3>4. /\ Cardinality(GrantedBy(l, m)) \in Nat /\ Cardinality(GrantedBy(l, m)') \in Nat
      BY <3>2, FS_CardinalityType
    <3>5. links[l].state # "purged"
      <4>1. links[l].state = "present"
        BY <1>16, <2>7 DEF Shares!Grant, Shares!Resolves, Shares!Active
      <4> QED
        BY <4>1
    <3>6. Cardinality(GrantedBy(l, m)) <= linkBucket[l][m]
      <4>1. minute <= minute + 2
        BY <1>2
      <4> QED
        BY <4>1, <3>5, <2>7, <1>2 DEF BucketsCount, LinkWithin
    <3>7. linkBucket[l][m] \in Nat /\ linkBucket'[l][m] = linkBucket[l][m] + 1
      BY <2>1, <2>7, <1>2, <1>3 DEF Shares!TypeOK
    <3>8. Cardinality(GrantedBy(l, m)') <= linkBucket'[l][m]
      BY <3>3, <3>4, <3>6, <3>7
    <3> QED
      BY <3>4, <3>7, <3>8, <2>1, <2>7, SharesAssumption DEF LinkWithin
  <2>8. \A l \in Links, m \in Shares!Minutes : LinkWithin(l, m)'
    BY <2>1, <2>6, <2>7
  <2> QED
    BY <2>1, <2>8, <1>8, <1>13 DEF BucketsCount, Shares!Minutes, Shares!Routes
<1>17. ASSUME NEW v \in Visits,
              Shares!OwnerReads(v) \/ \E a \in Artifacts : Shares!OwnerFinds(v, a)
       PROVE  BucketsCount'
  <2>1. UNCHANGED <<links, linkBucket, routeBucket>>
    BY <1>17 DEF Shares!OwnerReads, Shares!OwnerFinds
  <2>2. visits'[v].route = "owner" /\ \A u \in Visits \ {v} : visits'[u] = visits[u]
    <3>1. CASE Shares!OwnerReads(v)
      <4>1. visits[v].route = "owner" /\ visits[v] \in Shares!Visit
        BY <3>1, SentVisit DEF Shares!OwnerReads, VisitInv, VisitFits, Sent
      <4> QED
        BY <3>1, <4>1 DEF Shares!OwnerReads, Shares!Answered, Shares!TypeOK, Shares!Visit
    <3>2. CASE \E a \in Artifacts : Shares!OwnerFinds(v, a)
      BY <3>2 DEF Shares!OwnerFinds, Shares!TypeOK
    <3> QED
      BY <1>17, <3>1, <3>2
  <2>3. \A m \in Shares!Minutes, l \in Links : v \in GrantedBy(l, m)' => v \in GrantedBy(l, m)
    <3>1. CASE Shares!OwnerReads(v)
      <4>1. Sent(v) /\ visits[v] \in Shares!Visit
        BY <3>1, SentVisit DEF Shares!OwnerReads, Sent
      <4> QED
        BY <3>1, <4>1 DEF Shares!OwnerReads, Shares!Answered, Shares!TypeOK, Shares!Visit,
                          GrantedBy, Sent
    <3>2. CASE \E a \in Artifacts : Shares!OwnerFinds(v, a)
      <4>1. visits'[v].granted = 0 /\ \A m \in Nat : m + 1 # 0
        BY <3>2 DEF Shares!OwnerFinds, Shares!TypeOK
      <4> QED
        BY <4>1, <1>2 DEF GrantedBy
    <3> QED
      BY <1>17, <3>1, <3>2
  <2>4. \A m \in Shares!Minutes, l \in Links : GrantedBy(l, m)' \subseteq GrantedBy(l, m)
    BY <2>2, <2>3 DEF GrantedBy, Sent
  <2>5. \A m \in Shares!Minutes, r \in Shares!Routes : LetIn(r, m)' \subseteq LetIn(r, m)
    BY <2>2 DEF LetIn, Sent, Shares!Routes
  <2> QED
    BY <2>1, <2>4, <2>5, <1>7, <1>8 DEF BucketsCount, Shares!Minutes, Shares!Routes
<1>18. ASSUME NEW v \in Visits, NEW k \in Links, NEW a \in Artifacts, NEW r \in Shares!Routes,
              Shares!Arrive(v, r, k, a)
       PROVE  BucketsCount'
  <2>1. /\ visits[v].pc = "unsent" /\ UNCHANGED <<minute, links, linkBucket>>
        /\ routeBucket' = [routeBucket EXCEPT ![r][minute] = @ + 1]
        /\ visits'[v].route = r /\ visits'[v].sent = minute /\ visits'[v].granted = 0
        /\ visits'[v].answer # "429" => routeBucket'[r][minute] <= RouteLimit
        /\ \A u \in Visits \ {v} : visits'[u] = visits[u]
    BY <1>18 DEF Shares!Arrive, Shares!RouteAllows, Shares!TypeOK
  <2>2. \A l \in Links, m \in Shares!Minutes : GrantedBy(l, m)' \subseteq GrantedBy(l, m)
    <3>1. \A m \in Shares!Minutes : m + 1 # 0
      BY <1>2
    <3> QED
      BY <2>1, <3>1 DEF GrantedBy, Sent
  <2>3. \A q \in Shares!Routes, m \in Shares!Minutes :
            q # r \/ m # minute => /\ LetIn(q, m)' \subseteq LetIn(q, m)
                                   /\ routeBucket'[q][m] = routeBucket[q][m]
    <3>1. ASSUME NEW q \in Shares!Routes, NEW m \in Shares!Minutes, q # r \/ m # minute
          PROVE  LetIn(q, m)' \subseteq LetIn(q, m)
      BY <2>1, <3>1 DEF LetIn, Sent
    <3>2. ASSUME NEW q \in Shares!Routes, NEW m \in Shares!Minutes, q # r \/ m # minute
          PROVE  routeBucket'[q][m] = routeBucket[q][m]
      BY <2>1, <3>2, <1>3, <1>2 DEF Shares!TypeOK
    <3> QED
      BY <3>1, <3>2
  <2>4. ASSUME NEW q \in Shares!Routes, NEW m \in Shares!Minutes, q # r \/ m # minute
        PROVE  RouteWithin(q, m)'
    <3>1. routeBucket[q][m] \in Nat /\ routeBucket'[q][m] = routeBucket[q][m]
      BY <1>3, <2>3, <2>4
    <3> QED
      BY <3>1, <2>3, <2>4, <1>1, BucketsKept
  <2>5. ASSUME NEW m \in Shares!Minutes, m = minute
        PROVE  RouteWithin(r, m)'
    <3>1. LetIn(r, m)' \subseteq LetIn(r, m) \cup {v} /\ v \notin LetIn(r, m)
      BY <2>1 DEF LetIn, Sent
    <3>2. /\ IsFiniteSet(LetIn(r, m)) /\ IsFiniteSet(LetIn(r, m) \cup {v})
          /\ IsFiniteSet(LetIn(r, m)')
      BY SharesAssumption, FS_Subset DEF LetIn
    <3>3. /\ Cardinality(LetIn(r, m)') <= Cardinality(LetIn(r, m) \cup {v})
          /\ Cardinality(LetIn(r, m) \cup {v}) = Cardinality(LetIn(r, m)) + 1
      BY <3>1, <3>2, FS_Subset, FS_AddElement
    <3>4. Cardinality(LetIn(r, m)) \in Nat /\ Cardinality(LetIn(r, m)') \in Nat
      BY <3>2, FS_CardinalityType
    <3>5. /\ Cardinality(LetIn(r, m)) <= routeBucket[r][m]
          /\ Cardinality(LetIn(r, m)) <= RouteLimit
      <4>1. minute <= m + 2
        BY <1>2, <2>5
      <4> QED
        BY <4>1 DEF BucketsCount, RouteWithin
    <3>6. routeBucket[r][m] \in Nat /\ routeBucket'[r][m] = routeBucket[r][m] + 1
      BY <2>1, <2>5, <1>2, <1>3 DEF Shares!TypeOK
    <3>7. Cardinality(LetIn(r, m)') <= routeBucket'[r][m]
      BY <3>3, <3>4, <3>5, <3>6
    <3>8. CASE visits'[v].answer = "429"
      <4>1. LetIn(r, m)' \subseteq LetIn(r, m)
        BY <3>1, <3>8 DEF LetIn
      <4> QED
        BY <4>1, <3>2, <3>4, <3>5, <3>7, FS_Subset, SharesAssumption DEF RouteWithin
    <3>9. CASE routeBucket'[r][m] <= RouteLimit
      BY <3>4, <3>6, <3>7, <3>9, SharesAssumption DEF RouteWithin
    <3> QED
      BY <2>1, <2>5, <3>8, <3>9
  <2>6. \A l \in Links, m \in Shares!Minutes : LinkWithin(l, m)'
    BY <2>1, <2>2, <1>7
  <2>7. \A q \in Shares!Routes, m \in Shares!Minutes : RouteWithin(q, m)'
    BY <2>4, <2>5
  <2> QED
    BY <2>6, <2>7 DEF BucketsCount, Shares!Minutes, Shares!Routes
<1> QED
  BY <1>10, <1>11, <1>12, <1>14, <1>15, <1>16, <1>17, <1>18 DEF Shares!Next, Shares!Visiting

(* What the share links start from. *)
LEMMA SharesStart == Shares!Init => SharesInv
<1> SUFFICES ASSUME Shares!Init
             PROVE  SharesInv
  OBVIOUS
<1> USE SharesAssumption DEF Shares!Init
<1>1. Shares!TypeOK
  <2>1. Shares!NoLink \in Shares!Link
    BY DEF Shares!NoLink, Shares!Link
  <2> QED
    BY <2>1 DEF Shares!TypeOK, Shares!Minutes
<1>2. LinkInv
  BY FS_EmptySet DEF LinkInv, LinkFits, Shares!NoLink
<1>3. VisitInv
  BY DEF VisitInv, VisitFits, LateIsOver, GrantedInScope, CountedOnce, ServedWell, Sent, Granted,
         Uncounted, Shares!NoLink
<1>4. BucketsCount
  <2>1. /\ \A l, m : GrantedBy(l, m) = {}
        /\ \A r, m : LetIn(r, m) = {}
    BY DEF GrantedBy, LetIn, Sent
  <2>2. Cardinality({}) = 0
    BY FS_EmptySet
  <2>3. \A m \in Shares!Minutes : /\ \A l \in Links : linkBucket[l][m] = 0
                                  /\ \A r \in Shares!Routes : routeBucket[r][m] = 0
    OBVIOUS
  <2>4. ASSUME NEW m \in Shares!Minutes, NEW l \in Links
        PROVE  LinkWithin(l, m)
    <3>1. Cardinality(GrantedBy(l, m)) = 0 /\ linkBucket[l][m] = 0
      BY <2>1, <2>2, <2>3
    <3> QED
      BY <3>1 DEF LinkWithin
  <2>5. ASSUME NEW m \in Shares!Minutes, NEW r \in Shares!Routes
        PROVE  RouteWithin(r, m)
    <3>1. Cardinality(LetIn(r, m)) = 0 /\ routeBucket[r][m] = 0
      BY <2>1, <2>2, <2>3
    <3> QED
      BY <3>1 DEF RouteWithin
  <2> QED
    BY <2>4, <2>5 DEF BucketsCount
<1> QED
  BY <1>1, <1>2, <1>3, <1>4 DEF SharesInv

(* Every step of the share links keeps the invariant. *)
LEMMA SharesStep == SharesInv /\ [Shares!Next]_shareVars => SharesInv'
<1>1. SharesInv /\ Shares!Next => SharesInv'
  BY ShareTypes, LinkNext, VisitNext, BucketsNext DEF SharesInv
<1>2. SharesInv /\ UNCHANGED shareVars => SharesInv'
  <2> SUFFICES ASSUME SharesInv, UNCHANGED shareVars
               PROVE  SharesInv'
    OBVIOUS
  <2> USE DEF shareVars
  <2>1. Shares!TypeOK'
    BY DEF SharesInv, Shares!TypeOK
  <2>2. LinkInv'
    BY DEF SharesInv, LinkInv, LinkFits
  <2>3. VisitInv'
    <3>1. VisitInv
      BY DEF SharesInv
    <3> QED
      BY <3>1 DEF VisitInv, VisitFits, LateIsOver, GrantedInScope, CountedOnce, ServedWell, Sent,
                  Granted, LinkOf, IsOver
  <2>4. BucketsCount'
    <3>1. \A m : (\A l : GrantedBy(l, m)' = GrantedBy(l, m)) /\ (\A r : LetIn(r, m)' = LetIn(r, m))
      BY DEF GrantedBy, LetIn, Sent
    <3>2. BucketsCount
      BY DEF SharesInv
    <3> QED
      BY <3>1, <3>2 DEF BucketsCount, LinkWithin, RouteWithin
  <2> QED
    BY <2>1, <2>2, <2>3, <2>4 DEF SharesInv
<1> QED
  BY <1>1, <1>2

(* The cardinality that ShareLinks means is the one that is meant here.    *)
LEMMA SharesCardinality == \A S : Shares!Cardinality(S) = Cardinality(S)
BY DEF Shares!Cardinality, Cardinality, Shares!IsFiniteSet, IsFiniteSet

(* The invariant says what the links promise. *)
LEMMA SharesPromise == SharesInv => Shares!ServedWhileShared /\ Shares!GrantsWithinLimit
<1> SUFFICES ASSUME SharesInv
             PROVE  Shares!ServedWhileShared /\ Shares!GrantsWithinLimit
  OBVIOUS
<1>1. Shares!ServedWhileShared
  <2>1. \A v \in Visits : ServedWell(v)
    BY DEF SharesInv, VisitInv
  <2>2. \A l \in Links : LinkFits(l)
    BY DEF SharesInv, LinkInv
  <2> QED
    BY <2>1, <2>2, SharesCardinality, Zenon
    DEF ServedWell, LinkFits, LinkOf, Shares!ServedWhileShared
<1>2. Shares!GrantsWithinLimit
  <2>1. ASSUME NEW m \in Shares!Minutes, NEW l \in Links
        PROVE  Cardinality({v \in Visits : /\ visits[v].pc # "unsent"
                                           /\ visits[v].link = l
                                           /\ visits[v].granted = m + 1}) <= LinkLimit
    <3>1. Cardinality(GrantedBy(l, m)) <= LinkLimit
      BY DEF SharesInv, BucketsCount, LinkWithin
    <3> QED
      BY <3>1 DEF GrantedBy, Sent
  <2>2. ASSUME NEW m \in Shares!Minutes, NEW r \in Shares!Routes
        PROVE  Cardinality({v \in {v \in Visits : /\ visits[v].pc # "unsent"
                                                  /\ visits[v].route = r
                                                  /\ visits[v].sent = m} :
                                ~(visits[v].answer = "429")}) <= RouteLimit
    <3>1. Cardinality(LetIn(r, m)) <= RouteLimit
      BY DEF SharesInv, BucketsCount, RouteWithin
    <3>2. LetIn(r, m) = {v \in {v \in Visits : /\ visits[v].pc # "unsent"
                                               /\ visits[v].route = r
                                               /\ visits[v].sent = m} :
                             ~(visits[v].answer = "429")}
      BY DEF LetIn, Sent
    <3> QED
      BY <3>1, <3>2
  <2> QED
    BY <2>1, <2>2, SharesCardinality, Zenon DEF Shares!GrantsWithinLimit
<1> QED
  BY <1>1, <1>2

(* In every behaviour of the services what a link serves, it serves while  *)
(* it is shared, and a link and a route let no more in than their limits   *)
(* (the share-link and artifact routes of server.js).                      *)
THEOREM SharesTheorem == ServicesSpec => []SharesHonoured
<1> DEFINE Inv == subject = "shares" => SharesInv
<1>1. ServicesInit => Inv
  BY SharesStart DEF ServicesInit
<1>2. Inv /\ [ServicesNext /\ UNCHANGED subject]_<<subject, serviceVars>> => Inv'
  <2> SUFFICES ASSUME Inv, [ServicesNext /\ UNCHANGED subject]_<<subject, serviceVars>>,
                      subject' = "shares"
               PROVE  SharesInv'
    OBVIOUS
  <2>1. subject = "shares" /\ [Shares!Next]_shareVars
    BY DEF ServicesNext, serviceVars
  <2> QED
    BY <2>1, SharesStep
<1>3. Inv => SharesHonoured
  BY SharesPromise DEF SharesHonoured
<1> QED
  BY <1>1, <1>2, <1>3, PTL DEF ServicesSpec

-----------------------------------------------------------------------------
(* Reviews and proposals: the paid calls.                                  *)

(* Where the session lock is held, or was until the session dropped.       *)
InCallback == Reviews!CallbackPCs \cup {"leaving"}

CallersTyped == caller \in [Callers -> Reviews!Caller \cup {Reviews!Idle}]

TablesTyped ==
    /\ promises \in [Processes -> [Reviews!Kinds -> [Keys -> Callers \cup {NoOne}]]]
    /\ sessionLock \in [Keys -> Callers \cup {NoOne}]
    /\ records \in [Reviews!Kinds -> [Keys -> Reviews!Record \cup {Reviews!NoRecord}]]
    /\ usage \in [Reviews!Kinds -> 0..ReviewLimit]
    /\ parent \in {"kept", "expired", "purged"}
    /\ ownPool \in BOOLEAN

(* A caller has locked, called and answered as far as it has come.         *)
CallFits(r) ==
    /\ r.pc \in {"waiting", "connecting", "locking"} => ~r.locked
    /\ r.called => r.pc \in {"calling", "recording", "leaving", "done", "lost"}
    /\ r.pc \notin {"leaving", "done", "lost"} => r.answer = "none"
    /\ r.called /\ r.pc \in {"leaving", "done"} => r.answer \in {"201", "500"}

Called(c)       == caller[c].pc # "idle" /\ caller[c].called
LockIsHeld(c)   == caller[c].pc \in InCallback /\ caller[c].locked => sessionLock[caller[c].key] = c
SameCall(c, d)  == caller[c].kind = caller[d].kind /\ caller[c].key = caller[d].key

(* Why the provider may be called again after a caller's call.             *)
Excused(c) ==
    \/ caller[c].pc = "lost"
    \/ ~caller[c].locked
    \/ caller[c].answer = "500"
    \/ caller[c].answer = "201" /\ records[caller[c].kind][caller[c].key].by # c

(* Who is about to call with the lock, comes after calls that are excused, *)
(* and so does who has called.                                             *)
QuotaIsClear(d) ==
    caller[d].pc = "quota" /\ caller[d].locked =>
        \A c \in Callers : Called(c) /\ SameCall(c, d) => Excused(c)
AfterExcused(d) ==
    Called(d) => \A c \in caller[d].after :
        /\ Called(c) /\ caller[c].kind = caller[d].kind
        /\ ~caller[d].locked \/ Excused(c)

CallsCharged == \A k \in Reviews!Kinds : Cardinality(Reviews!Calls(k)) <= usage[k]

ReviewInv ==
    /\ CallersTyped /\ TablesTyped
    /\ \A c \in Callers : /\ caller[c].pc # "idle" => CallFits(caller[c])
                          /\ LockIsHeld(c) /\ QuotaIsClear(c) /\ AfterExcused(c)
    /\ CallsCharged

(* A caller that has arrived is the record of one. *)
LEMMA ArrivedIsCaller ==
  ASSUME CallersTyped, NEW c \in Callers
  PROVE  caller[c].pc # "idle" => caller[c] \in Reviews!Caller
BY DEF CallersTyped, Reviews!Idle

(* A caller moves on, and neither calls the provider for the first time    *)
(* nor forgets that it did: the tables change under no one who is excused. *)
LEMMA CallerMoves ==
  ASSUME ReviewInv, NEW c \in Callers, NEW s \in Reviews!Caller,
         caller' = [caller EXCEPT ![c] = s], TablesTyped', usage' = usage,
         s.pc # "idle", CallFits(s), s.called <=> Called(c),
         Called(c) => /\ s.kind = caller[c].kind /\ s.key = caller[c].key /\ s.after = caller[c].after
                      /\ s.locked => caller[c].locked
                      /\ caller[c].answer # "none" => s.answer = caller[c].answer,
         caller[c].pc # "lost",
         s.pc \in InCallback /\ s.locked => sessionLock'[s.key] = c,
         \A d \in Callers \ {c} : LockIsHeld(d) => LockIsHeld(d)',
         s.pc = "quota" /\ s.locked =>
             \A e \in Callers : Called(e) /\ caller[e].kind = s.kind /\ caller[e].key = s.key => Excused(e),
         \A e \in Callers, k \in Reviews!Kinds, y \in Keys :
             records'[k][y].by = e => records[k][y].by = e \/ (e = c /\ caller[c].answer = "none")
  PROVE  ReviewInv'
<1>1. /\ \A d \in Callers : caller[d].pc # "idle" => caller[d] \in Reviews!Caller
      /\ caller'[c] = s /\ \A d \in Callers \ {c} : caller'[d] = caller[d]
  BY ArrivedIsCaller DEF ReviewInv, CallersTyped
<1>2. CallersTyped'
  BY DEF ReviewInv, CallersTyped, Reviews!Caller, Reviews!Idle
<1>3. \A r \in Reviews!Caller : r.kind \in Reviews!Kinds /\ r.key \in Keys /\ r.after \subseteq Callers
  BY DEF Reviews!Caller
<1>4. \A d \in Callers : (caller'[d].pc # "idle" => CallFits(caller'[d])) /\ LockIsHeld(d)'
  BY <1>1 DEF ReviewInv, LockIsHeld
<1>5. \A e \in Callers : Called(e)' <=> Called(e)
  BY <1>1 DEF Called
<1>6. \A e \in Callers : Called(e) =>
          caller'[e].kind = caller[e].kind /\ caller'[e].key = caller[e].key /\ caller'[e].after = caller[e].after
  BY <1>1
<1>7. ASSUME NEW e \in Callers, Called(e), Excused(e)
      PROVE  Excused(e)'
  <2>1. caller[e].kind \in Reviews!Kinds /\ caller[e].key \in Keys
    BY <1>1, <1>3, <1>7 DEF Called
  <2>2. CASE e = c
    BY <1>1, <1>7, <2>1, <2>2 DEF Excused
  <2>3. CASE e # c
    BY <1>1, <1>7, <2>1, <2>3 DEF Excused
  <2> QED
    BY <2>2, <2>3
<1>8. ASSUME NEW d \in Callers
      PROVE  QuotaIsClear(d)'
  <2> SUFFICES ASSUME caller'[d].pc = "quota" /\ caller'[d].locked, NEW e \in Callers,
                      Called(e)', SameCall(e, d)'
               PROVE  Excused(e)'
    BY DEF QuotaIsClear
  <2>1. Called(e) /\ caller[e].kind = caller'[d].kind /\ caller[e].key = caller'[d].key
    BY <1>5, <1>6 DEF SameCall
  <2>2. Excused(e)
    <3>1. CASE d = c
      BY <1>1, <2>1, <3>1
    <3>2. CASE d # c
      BY <1>1, <2>1, <3>2 DEF ReviewInv, QuotaIsClear, SameCall
    <3> QED
      BY <3>1, <3>2
  <2> QED
    BY <1>7, <2>1, <2>2
<1>9. ASSUME NEW d \in Callers
      PROVE  AfterExcused(d)'
  <2> SUFFICES ASSUME Called(d)', NEW e \in caller'[d].after
               PROVE  /\ Called(e)' /\ caller'[e].kind = caller'[d].kind
                      /\ ~caller'[d].locked \/ Excused(e)'
    BY DEF AfterExcused
  <2>1. Called(d) /\ e \in caller[d].after
    BY <1>5, <1>6
  <2>2. e \in Callers
    BY <1>1, <1>3, <2>1 DEF Called
  <2>3. Called(e) /\ caller[e].kind = caller[d].kind /\ (~caller[d].locked \/ Excused(e))
    BY <2>1 DEF ReviewInv, AfterExcused
  <2>4. caller'[d].locked => caller[d].locked
    BY <1>1, <2>1
  <2> QED
    BY <1>5, <1>6, <1>7, <2>1, <2>2, <2>3, <2>4
<1>10. CallsCharged'
  <2>1. \A k \in Reviews!Kinds : Reviews!Calls(k)' = Reviews!Calls(k)
    BY <1>5, <1>6, <1>1 DEF Reviews!Calls, Called
  <2> QED
    BY <2>1 DEF ReviewInv, CallsCharged, Reviews!Kinds
<1> QED
  BY <1>2, <1>4, <1>8, <1>9, <1>10 DEF ReviewInv

(* What a caller that moves on takes with it. *)
SameRequest(s, r) ==
    /\ s.kind = r.kind /\ s.key = r.key /\ s.process = r.process
    /\ s.called = r.called /\ s.after = r.after

LEMMA RecordMoves ==
  ASSUME NEW r \in Reviews!Caller, NEW pc \in Reviews!PCs
  PROVE  LET s == [r EXCEPT !.pc = pc]
         IN  /\ s \in Reviews!Caller /\ SameRequest(s, r)
             /\ s.pc = pc /\ s.answer = r.answer /\ s.locked = r.locked
BY DEF Reviews!Caller, SameRequest

LEMMA RecordLocks ==
  ASSUME NEW r \in Reviews!Caller, NEW pc \in Reviews!PCs, NEW locked \in BOOLEAN
  PROVE  LET s == [r EXCEPT !.pc = pc, !.locked = locked]
         IN  /\ s \in Reviews!Caller /\ SameRequest(s, r)
             /\ s.pc = pc /\ s.answer = r.answer /\ s.locked = locked
BY DEF Reviews!Caller, SameRequest

LEMMA RecordDrops ==
  ASSUME NEW r \in Reviews!Caller
  PROVE  LET s == [r EXCEPT !.locked = FALSE]
         IN  /\ s \in Reviews!Caller /\ SameRequest(s, r)
             /\ s.pc = r.pc /\ s.answer = r.answer /\ s.locked = FALSE
BY DEF Reviews!Caller, SameRequest

(* The map of promises stays one whoever is put in it. *)
LEMMA PromisePut ==
  ASSUME TablesTyped, NEW p \in Processes, NEW k \in Reviews!Kinds, NEW y \in Keys,
         NEW c \in Callers \cup {NoOne}
  PROVE  [promises EXCEPT ![p][k][y] = c] \in
             [Processes -> [Reviews!Kinds -> [Keys -> Callers \cup {NoOne}]]]
<1>1. promises[p] \in [Reviews!Kinds -> [Keys -> Callers \cup {NoOne}]]
  BY DEF TablesTyped
<1>2. [promises[p][k] EXCEPT ![y] = c] \in [Keys -> Callers \cup {NoOne}]
  BY <1>1
<1>3. [promises[p] EXCEPT ![k] = [promises[p][k] EXCEPT ![y] = c]] \in
          [Reviews!Kinds -> [Keys -> Callers \cup {NoOne}]]
  BY <1>1, <1>2
<1> QED
  BY <1>3 DEF TablesTyped

(* A caller moves on under the lock it has, and the tables stay.           *)
LEMMA QuietMove ==
  ASSUME ReviewInv, NEW c \in Callers, caller[c] \in Reviews!Caller, NEW s \in Reviews!Caller,
         caller' = [caller EXCEPT ![c] = s], TablesTyped',
         UNCHANGED <<sessionLock, records, usage>>,
         s.pc # "idle", CallFits(s), caller[c].pc \notin {"idle", "lost"},
         SameRequest(s, caller[c]), s.locked = caller[c].locked,
         caller[c].answer # "none" => s.answer = caller[c].answer,
         s.pc \in InCallback /\ s.locked => caller[c].pc \in InCallback,
         s.pc = "quota" /\ s.locked =>
             \A e \in Callers : Called(e) /\ caller[e].kind = s.kind /\ caller[e].key = s.key => Excused(e)
  PROVE  ReviewInv'
<1>1. (s.called <=> Called(c)) /\ s.kind = caller[c].kind /\ s.key = caller[c].key
      /\ s.after = caller[c].after
  BY DEF Called, SameRequest
<1>2. s.pc \in InCallback /\ s.locked => sessionLock'[s.key] = c
  BY <1>1 DEF ReviewInv, LockIsHeld
<1>3. \A d \in Callers \ {c} : LockIsHeld(d) => LockIsHeld(d)'
  BY DEF ReviewInv, CallersTyped, LockIsHeld
<1> QED
  BY <1>1, <1>2, <1>3, CallerMoves

(* Until it has a lock, a caller changes the map of promises alone. *)
LEMMA WayToLockKeeps ==
  ASSUME ReviewInv, NEW c \in Callers,
         Reviews!Resume(c) \/ Reviews!Connect(c) \/ Reviews!ConnectTimesOut(c)
  PROVE  ReviewInv'
<1>1. caller[c] \in Reviews!Caller /\ caller[c].pc \in {"waiting", "connecting"} /\ CallFits(caller[c])
  BY ArrivedIsCaller DEF ReviewInv, Reviews!Resume, Reviews!Connect, Reviews!ConnectTimesOut
<1>2. /\ UNCHANGED <<sessionLock, records, usage, parent, ownPool>> /\ TablesTyped
  BY DEF ReviewInv, Reviews!Resume, Reviews!Connect, Reviews!ConnectTimesOut,
         Reviews!NoLocksMoved,
         Reviews!NoTablesMoved
<1>3. ~caller[c].locked /\ ~caller[c].called /\ caller[c].answer = "none"
  BY <1>1 DEF CallFits
<1>4. /\ {"connecting", "locking", "leaving"} \subseteq Reviews!PCs
      /\ {"none", "500"} \subseteq Reviews!Answers
  BY DEF Reviews!PCs, Reviews!HoldingPCs, Reviews!CallbackPCs, Reviews!Answers
<1>5. TablesTyped'
  <2>1. caller[c].process \in Processes /\ caller[c].kind \in Reviews!Kinds /\ caller[c].key \in Keys
    BY <1>1 DEF Reviews!Caller
  <2>2. promises' = promises \/
        promises' = [promises EXCEPT ![caller[c].process][caller[c].kind][caller[c].key] = c]
    BY DEF Reviews!Resume, Reviews!Connect, Reviews!ConnectTimesOut, Reviews!NoLocksMoved
  <2>3. promises' \in [Processes -> [Reviews!Kinds -> [Keys -> Callers \cup {NoOne}]]]
    <3>1. promises \in [Processes -> [Reviews!Kinds -> [Keys -> Callers \cup {NoOne}]]]
      BY <1>2 DEF TablesTyped
    <3>2. [promises EXCEPT ![caller[c].process][caller[c].kind][caller[c].key] = c] \in
              [Processes -> [Reviews!Kinds -> [Keys -> Callers \cup {NoOne}]]]
      BY <1>2, <2>1, PromisePut
    <3> QED
      BY <2>2, <3>1, <3>2
  <2> QED
    BY <1>2, <2>3 DEF TablesTyped
<1>6. ASSUME NEW pc \in {"connecting", "locking"}, Reviews!Moved(c, pc)
      PROVE  ReviewInv'
  <2> DEFINE s == [caller[c] EXCEPT !.pc = pc]
  <2>1. caller' = [caller EXCEPT ![c] = s]
    BY <1>6 DEF Reviews!Moved
  <2>2. /\ s \in Reviews!Caller /\ SameRequest(s, caller[c])
        /\ s.pc = pc /\ s.answer = caller[c].answer /\ s.locked = caller[c].locked
    BY <1>1, <1>4, RecordMoves
  <2> HIDE DEF s
  <2>3. CallFits(s) /\ s.pc \notin InCallback \cup {"idle", "quota"}
    BY <1>3, <2>2 DEF CallFits, SameRequest, InCallback, Reviews!CallbackPCs
  <2> QED
    BY <1>1, <1>2, <1>5, <2>1, <2>2, <2>3, QuietMove
<1>7. ASSUME Reviews!Leaves(c, "500")
      PROVE  ReviewInv'
  <2> DEFINE s == [caller[c] EXCEPT !.pc = "leaving", !.answer = "500"]
  <2>1. caller' = [caller EXCEPT ![c] = s]
    BY <1>7 DEF Reviews!Leaves
  <2>2. /\ s \in Reviews!Caller /\ SameRequest(s, caller[c])
        /\ s.pc = "leaving" /\ s.answer = "500" /\ s.locked = caller[c].locked
    <3>1. "leaving" \in Reviews!PCs /\ "500" \in Reviews!Answers
      BY <1>4
    <3> QED
      BY <1>1, <3>1 DEF Reviews!Caller, SameRequest
  <2> HIDE DEF s
  <2>3. CallFits(s)
    BY <1>3, <2>2 DEF CallFits, SameRequest
  <2> QED
    BY <1>1, <1>2, <1>3, <1>5, <2>1, <2>2, <2>3, QuietMove
<1> QED
  BY <1>6, <1>7 DEF Reviews!Resume, Reviews!Connect, Reviews!ConnectTimesOut

(* Who has the lock and finds no record comes after calls that are excused.*)
LEMMA LockExcuses ==
  ASSUME ReviewInv, NEW d \in Callers, caller[d].pc = "duplicate", caller[d].locked,
         Reviews!Stored(d) = Reviews!NoRecord,
         NEW c \in Callers, Called(c), SameCall(c, d)
  PROVE  Excused(c)
<1>1. CallFits(caller[c]) /\ CallFits(caller[d]) /\ c # d
  BY DEF ReviewInv, Called, CallFits
<1>2. sessionLock[caller[d].key] = d
  BY DEF ReviewInv, LockIsHeld, InCallback, Reviews!CallbackPCs
<1>3. caller[c].locked => caller[c].pc \notin InCallback
  BY <1>1, <1>2 DEF ReviewInv, LockIsHeld, SameCall
<1>4. caller[c].locked => caller[c].pc \in {"done", "lost"}
  BY <1>1, <1>3 DEF CallFits, Called, InCallback, Reviews!CallbackPCs
<1>5. records[caller[c].kind][caller[c].key].by = NoOne /\ NoOne # c
  BY ReviewAssumption DEF SameCall, Reviews!Stored, Reviews!NoRecord
<1> QED
  BY <1>1, <1>4, <1>5 DEF Excused, CallFits, Called

(* Reading, failing and giving up in the callback. *)
LEMMA CallbackKeeps ==
  ASSUME ReviewInv, NEW c \in Callers,
         \/ Reviews!QueryTimesOut(c) \/ Reviews!FindDuplicate(c) \/ Reviews!ProviderReturns(c)
         \/ Reviews!StoreFails(c)
         \/ Reviews!TakeQuota(c) /\ Reviews!Leaves(c, "429") /\ UNCHANGED usage
  PROVE  ReviewInv'
<1>1. /\ UNCHANGED <<sessionLock, records, usage, parent, ownPool, promises>> /\ TablesTyped
      /\ caller[c].pc \in Reviews!CallbackPCs
  BY DEF ReviewInv, Reviews!QueryTimesOut, Reviews!FindDuplicate, Reviews!ProviderReturns,
         Reviews!StoreFails, Reviews!TakeQuota, Reviews!NoLocksMoved, Reviews!NoTablesMoved,
         Reviews!CallbackPCs
<1>2. TablesTyped'
  BY <1>1 DEF TablesTyped
<1>3. caller[c] \in Reviews!Caller /\ CallFits(caller[c]) /\ caller[c].answer = "none"
      /\ caller[c].pc \in InCallback /\ caller[c].pc \notin {"idle", "lost", "done", "leaving"}
  BY <1>1, ArrivedIsCaller DEF ReviewInv, Reviews!CallbackPCs, CallFits, InCallback
<1>4. {"quota", "recording", "leaving"} \subseteq Reviews!PCs
      /\ {"200", "409", "410", "429", "500"} \subseteq Reviews!Answers
  BY DEF Reviews!PCs, Reviews!HoldingPCs, Reviews!CallbackPCs, Reviews!Answers
<1>5. ASSUME NEW a \in {"409", "410", "429", "500"}, Reviews!Leaves(c, a),
             a # "500" => ~caller[c].called
      PROVE  ReviewInv'
  <2> DEFINE s == [caller[c] EXCEPT !.pc = "leaving", !.answer = a]
  <2>1. caller' = [caller EXCEPT ![c] = s]
    BY <1>5 DEF Reviews!Leaves
  <2>2. /\ s \in Reviews!Caller /\ SameRequest(s, caller[c])
        /\ s.pc = "leaving" /\ s.answer = a /\ s.locked = caller[c].locked
    <3>1. "leaving" \in Reviews!PCs /\ a \in Reviews!Answers
      BY <1>4
    <3> QED
      BY <1>3, <3>1 DEF Reviews!Caller, SameRequest
  <2> HIDE DEF s
  <2>3. CallFits(s)
    BY <1>5, <2>2 DEF CallFits, SameRequest
  <2> QED
    BY <1>1, <1>2, <1>3, <2>1, <2>2, <2>3, QuietMove
<1>6. ASSUME NEW by \in Callers \cup {NoOne}, ~caller[c].called,
             caller' = [caller EXCEPT ![c].pc = "leaving", ![c].answer = "200", ![c].record = by]
      PROVE  ReviewInv'
  <2> DEFINE s == [caller[c] EXCEPT !.pc = "leaving", !.answer = "200", !.record = by]
  <2>1. caller' = [caller EXCEPT ![c] = s]
    BY <1>6
  <2>2. /\ s \in Reviews!Caller /\ SameRequest(s, caller[c])
        /\ s.pc = "leaving" /\ s.answer = "200" /\ s.locked = caller[c].locked
    <3>1. "leaving" \in Reviews!PCs /\ "200" \in Reviews!Answers
      BY <1>4
    <3> QED
      BY <1>3, <3>1 DEF Reviews!Caller, SameRequest
  <2> HIDE DEF s
  <2>3. CallFits(s)
    BY <1>6, <2>2 DEF CallFits, SameRequest
  <2> QED
    BY <1>1, <1>2, <1>3, <2>1, <2>2, <2>3, QuietMove
<1>7. ASSUME NEW pc \in {"quota", "recording"}, Reviews!Moved(c, pc),
             pc = "quota" => /\ caller[c].pc = "duplicate" /\ ~caller[c].called
                             /\ Reviews!Stored(c) = Reviews!NoRecord
      PROVE  ReviewInv'
  <2> DEFINE s == [caller[c] EXCEPT !.pc = pc]
  <2>1. caller' = [caller EXCEPT ![c] = s]
    BY <1>7 DEF Reviews!Moved
  <2>2. /\ s \in Reviews!Caller /\ SameRequest(s, caller[c])
        /\ s.pc = pc /\ s.answer = caller[c].answer /\ s.locked = caller[c].locked
    BY <1>3, <1>4, RecordMoves
  <2> HIDE DEF s
  <2>3. CallFits(s) /\ s.pc # "idle"
    BY <1>3, <1>7, <2>2 DEF CallFits, SameRequest
  <2>4. s.pc = "quota" /\ s.locked =>
            \A e \in Callers : Called(e) /\ caller[e].kind = s.kind /\ caller[e].key = s.key => Excused(e)
    BY <1>7, <2>2, LockExcuses DEF SameCall, SameRequest
  <2> QED
    BY <1>1, <1>2, <1>3, <2>1, <2>2, <2>3, <2>4, QuietMove
<1>8. CASE Reviews!FindDuplicate(c)
  <2>1. ~caller[c].called /\ caller[c].pc = "duplicate"
    BY <1>3, <1>8 DEF CallFits, Reviews!FindDuplicate
  <2>2. Reviews!Stored(c) # Reviews!NoRecord => Reviews!Stored(c).by \in Callers \cup {NoOne}
    BY <1>1, <1>3 DEF TablesTyped, Reviews!Stored, Reviews!Record, Reviews!Caller
  <2> QED
    BY <1>5, <1>6, <1>7, <1>8, <2>1, <2>2 DEF Reviews!FindDuplicate
<1>9. CASE \/ Reviews!QueryTimesOut(c) \/ Reviews!ProviderReturns(c) \/ Reviews!StoreFails(c)
  BY <1>5, <1>7, <1>9 DEF Reviews!QueryTimesOut, Reviews!ProviderReturns, Reviews!StoreFails
<1>10. CASE Reviews!TakeQuota(c) /\ Reviews!Leaves(c, "429") /\ UNCHANGED usage
  BY <1>3, <1>5, <1>10 DEF Reviews!TakeQuota, CallFits
<1> QED
  BY <1>8, <1>9, <1>10

(* Two callers that hold a key's lock are one. *)
LEMMA LockIsOnes ==
  ASSUME ReviewInv, NEW c \in Callers, NEW d \in Callers, caller[c].key = caller[d].key,
         caller[c].pc \in InCallback, caller[d].pc \in InCallback,
         caller[c].locked, caller[d].locked
  PROVE  c = d
BY DEF ReviewInv, LockIsHeld

(* Taking, losing and giving back the session lock. *)
LEMMA LockKeeps ==
  ASSUME ReviewInv, NEW c \in Callers,
         Reviews!Lock(c) \/ Reviews!SessionDrops(c) \/ Reviews!Unlock(c)
  PROVE  ReviewInv'
<1>1. /\ caller[c].pc \in {"locking"} \cup InCallback /\ TablesTyped
      /\ UNCHANGED <<records, usage, parent, ownPool>>
  BY DEF ReviewInv, InCallback, Reviews!Lock, Reviews!SessionDrops, Reviews!Unlock,
         Reviews!NoTablesMoved
<1>2. caller[c] \in Reviews!Caller /\ CallFits(caller[c])
      /\ caller[c].pc \notin {"idle", "lost", "done"}
  BY <1>1, ArrivedIsCaller DEF ReviewInv, InCallback, Reviews!CallbackPCs
<1>3. caller[c].process \in Processes /\ caller[c].kind \in Reviews!Kinds /\ caller[c].key \in Keys
  BY <1>2 DEF Reviews!Caller
<1>4. {"duplicate", "done"} \subseteq Reviews!PCs
  BY DEF Reviews!PCs, Reviews!HoldingPCs, Reviews!CallbackPCs
<1>5. ASSUME promises' \in [Processes -> [Reviews!Kinds -> [Keys -> Callers \cup {NoOne}]]],
             NEW o \in Callers \cup {NoOne},
             sessionLock' = sessionLock \/ sessionLock' = [sessionLock EXCEPT ![caller[c].key] = o]
      PROVE  TablesTyped'
  BY <1>1, <1>3, <1>5 DEF TablesTyped
<1>6. ASSUME NEW d \in Callers \ {c}, LockIsHeld(d), caller'[d] = caller[d],
             \/ sessionLock' = sessionLock
             \/ sessionLock[caller[c].key] = NoOne /\ sessionLock' = [sessionLock EXCEPT ![caller[c].key] = c]
             \/ /\ caller[c].locked /\ caller[c].pc \in InCallback
                /\ sessionLock' = [sessionLock EXCEPT ![caller[c].key] = NoOne]
      PROVE  LockIsHeld(d)'
  <2> SUFFICES ASSUME caller[d].pc \in InCallback, caller[d].locked
               PROVE  sessionLock'[caller[d].key] = d
    BY <1>6 DEF LockIsHeld
  <2>1. sessionLock[caller[d].key] = d /\ d # NoOne
    BY <1>6, ReviewAssumption DEF LockIsHeld
  <2>2. caller[d].key = caller[c].key => sessionLock' = sessionLock
    BY <1>6, <2>1, LockIsOnes
  <2>3. sessionLock \in [Keys -> Callers \cup {NoOne}]
    BY <1>1 DEF TablesTyped
  <2>4. CASE caller[d].key = caller[c].key
    BY <2>1, <2>2, <2>4
  <2>5. CASE caller[d].key # caller[c].key
    <3>1. caller[d].key \in Keys
      BY ArrivedIsCaller DEF ReviewInv, InCallback, Reviews!CallbackPCs, Reviews!Caller
    <3> QED
      BY <1>3, <1>6, <2>1, <2>3, <2>5, <3>1
  <2> QED
    BY <2>4, <2>5
<1>7. caller \in [Callers -> Reviews!Caller \cup {Reviews!Idle}]
      /\ sessionLock \in [Keys -> Callers \cup {NoOne}]
  BY <1>1 DEF ReviewInv, CallersTyped, TablesTyped
<1>8. \A d \in Callers : LockIsHeld(d)
  BY DEF ReviewInv
<1>9. CASE Reviews!Lock(c)
  <2> DEFINE s == [caller[c] EXCEPT !.pc = "duplicate", !.locked = TRUE]
  <2>1. /\ caller' = [caller EXCEPT ![c] = s] /\ sessionLock[caller[c].key] = NoOne
        /\ sessionLock' = [sessionLock EXCEPT ![caller[c].key] = c] /\ UNCHANGED promises
        /\ caller[c].pc = "locking"
    BY <1>9 DEF Reviews!Lock
  <2>2. /\ s \in Reviews!Caller /\ SameRequest(s, caller[c])
        /\ s.pc = "duplicate" /\ s.answer = caller[c].answer /\ s.locked = TRUE
    BY <1>2, <1>4, RecordLocks
  <2> HIDE DEF s
  <2>3. ~caller[c].called /\ caller[c].answer = "none"
    BY <1>2, <2>1 DEF CallFits
  <2>4. CallFits(s) /\ (s.called <=> Called(c)) /\ ~Called(c)
    BY <2>2, <2>3 DEF CallFits, SameRequest, Called
  <2>5. sessionLock'[s.key] = c
    BY <1>3, <1>7, <2>1, <2>2 DEF SameRequest
  <2>6. TablesTyped'
    BY <1>1, <1>5, <2>1 DEF TablesTyped
  <2>7. \A d \in Callers \ {c} : LockIsHeld(d) => LockIsHeld(d)'
    BY <1>6, <1>7, <2>1
  <2> QED
    BY <1>1, <1>2, <2>1, <2>2, <2>3, <2>4, <2>5, <2>6, <2>7, CallerMoves
<1>10. CASE Reviews!SessionDrops(c)
  <2> DEFINE s == [caller[c] EXCEPT !.locked = FALSE]
  <2>1. /\ caller' = [caller EXCEPT ![c] = s] /\ UNCHANGED promises
        /\ sessionLock' = [sessionLock EXCEPT ![caller[c].key] = NoOne]
        /\ caller[c].locked /\ caller[c].pc \in InCallback /\ caller[c].pc # "leaving"
    BY <1>10 DEF Reviews!SessionDrops, InCallback, Reviews!CallbackPCs
  <2>2. /\ s \in Reviews!Caller /\ SameRequest(s, caller[c])
        /\ s.pc = caller[c].pc /\ s.answer = caller[c].answer /\ s.locked = FALSE
    BY <1>2, RecordDrops
  <2> HIDE DEF s
  <2>4. CallFits(s) /\ (s.called <=> Called(c))
    BY <1>2, <2>2 DEF CallFits, SameRequest, Called
  <2>6. TablesTyped'
    BY <1>1, <1>5, <2>1 DEF TablesTyped
  <2>7. \A d \in Callers \ {c} : LockIsHeld(d) => LockIsHeld(d)'
    BY <1>6, <1>7, <2>1
  <2> QED
    BY <1>1, <1>2, <2>1, <2>2, <2>4, <2>6, <2>7, CallerMoves DEF SameRequest
<1>11. CASE Reviews!Unlock(c)
  <2> DEFINE s == [caller[c] EXCEPT !.pc = "done"]
  <2>1. /\ caller' = [caller EXCEPT ![c] = s] /\ promises' = Reviews!WithoutPromise(c)
        /\ sessionLock' = IF caller[c].locked
                          THEN [sessionLock EXCEPT ![caller[c].key] = NoOne] ELSE sessionLock
        /\ caller[c].pc = "leaving" /\ caller[c].pc \in InCallback
    BY <1>11 DEF Reviews!Unlock, Reviews!Moved, InCallback
  <2>2. /\ s \in Reviews!Caller /\ SameRequest(s, caller[c])
        /\ s.pc = "done" /\ s.answer = caller[c].answer /\ s.locked = caller[c].locked
    BY <1>2, <1>4, RecordMoves
  <2> HIDE DEF s
  <2>4. CallFits(s) /\ (s.called <=> Called(c)) /\ s.pc \notin InCallback
    BY <1>2, <2>1, <2>2 DEF CallFits, SameRequest, Called, InCallback, Reviews!CallbackPCs
  <2>5. promises' \in [Processes -> [Reviews!Kinds -> [Keys -> Callers \cup {NoOne}]]]
    <3>1. promises \in [Processes -> [Reviews!Kinds -> [Keys -> Callers \cup {NoOne}]]]
      BY <1>1 DEF TablesTyped
    <3>2. [promises EXCEPT ![caller[c].process][caller[c].kind][caller[c].key] = NoOne] \in
              [Processes -> [Reviews!Kinds -> [Keys -> Callers \cup {NoOne}]]]
      BY <1>1, <1>3, PromisePut
    <3> QED
      BY <2>1, <3>1, <3>2 DEF Reviews!WithoutPromise
  <2>6. TablesTyped'
    BY <1>5, <2>1, <2>5
  <2>7. \A d \in Callers \ {c} : LockIsHeld(d) => LockIsHeld(d)'
    BY <1>6, <1>7, <2>1
  <2> QED
    BY <1>1, <1>2, <2>1, <2>2, <2>4, <2>6, <2>7, CallerMoves DEF SameRequest
<1> QED
  BY <1>9, <1>10, <1>11

(* A request arrives: it has asked for nothing yet. *)
LEMMA ArriveKeeps ==
  ASSUME ReviewInv, NEW c \in Callers, NEW k \in Asked, NEW p \in Processes, NEW y \in Keys,
         NEW b \in Bodies, Reviews!Arrive(c, k, p, y, b)
  PROVE  ReviewInv'
<1>1. /\ caller[c].pc = "idle" /\ TablesTyped /\ k \in Reviews!Kinds
      /\ UNCHANGED <<sessionLock, records, usage, parent, ownPool>>
  BY ReviewAssumption
  DEF ReviewInv, Reviews!Arrive, Reviews!NoTablesMoved, Reviews!NoLocksMoved, Reviews!Kinds
<1>2. promises[p][k][y] \in Callers \cup {NoOne}
  BY <1>1 DEF TablesTyped
<1>3. PICK s : /\ caller' = [caller EXCEPT ![c] = s]
               /\ s \in Reviews!Caller /\ s.pc \in {"done", "connecting", "waiting"}
               /\ ~s.called /\ ~s.locked /\ (s.pc # "done" => s.answer = "none")
  <2> DEFINE new == [pc |-> "connecting", kind |-> k, process |-> p, key |-> y, body |-> b,
                     await |-> NoOne, locked |-> FALSE, called |-> FALSE, after |-> {},
                     record |-> NoOne, answer |-> "none"]
             Fresh(r) == /\ r \in Reviews!Caller /\ r.pc \in {"done", "connecting", "waiting"}
                         /\ ~r.called /\ ~r.locked /\ (r.pc # "done" => r.answer = "none")
  <2>1. \A a \in {"400", "404"} : Fresh([new EXCEPT !.pc = "done", !.answer = a])
    BY <1>1 DEF Reviews!Caller, Reviews!PCs, Reviews!HoldingPCs, Reviews!Answers
  <2>2. Fresh(new)
    BY <1>1 DEF Reviews!Caller, Reviews!PCs, Reviews!HoldingPCs, Reviews!Answers
  <2>3. \A f \in Callers \cup {NoOne} : Fresh([new EXCEPT !.pc = "waiting", !.await = f])
    BY <1>1 DEF Reviews!Caller, Reviews!PCs, Reviews!HoldingPCs, Reviews!Answers
  <2>4. \/ \E a \in {"400", "404"} : caller' = [caller EXCEPT ![c] = [new EXCEPT !.pc = "done", !.answer = a]]
        \/ caller' = [caller EXCEPT ![c] = new]
        \/ caller' = [caller EXCEPT ![c] = [new EXCEPT !.pc = "waiting", !.await = promises[p][k][y]]]
    BY Zenon DEF Reviews!Arrive, Reviews!Promise
  <2> HIDE DEF new
  <2> QED
    BY <1>2, <2>1, <2>2, <2>3, <2>4
<1>4. TablesTyped'
  <2>1. promises' = promises \/ promises' = [promises EXCEPT ![p][k][y] = c]
    BY DEF Reviews!Arrive, Reviews!NoLocksMoved
  <2>2. promises' \in [Processes -> [Reviews!Kinds -> [Keys -> Callers \cup {NoOne}]]]
    <3>1. promises \in [Processes -> [Reviews!Kinds -> [Keys -> Callers \cup {NoOne}]]]
      BY <1>1 DEF TablesTyped
    <3>2. [promises EXCEPT ![p][k][y] = c] \in
              [Processes -> [Reviews!Kinds -> [Keys -> Callers \cup {NoOne}]]]
      BY <1>1, PromisePut
    <3> QED
      BY <2>1, <3>1, <3>2
  <2> QED
    BY <1>1, <2>2 DEF TablesTyped
<1>5. CallFits(s) /\ ~Called(c) /\ s.pc \notin InCallback \cup {"idle", "quota"}
  BY <1>1, <1>3 DEF CallFits, Called, InCallback, Reviews!CallbackPCs
<1>6. \A d \in Callers \ {c} : LockIsHeld(d) => LockIsHeld(d)'
  BY <1>1, <1>3 DEF ReviewInv, CallersTyped, LockIsHeld
<1> QED
  BY <1>1, <1>3, <1>4, <1>5, <1>6, CallerMoves

(* A record is stored once its call has answered. *)
LEMMA StoreKeeps ==
  ASSUME ReviewInv, NEW c \in Callers, Reviews!StoreRecord(c)
  PROVE  ReviewInv'
<1> DEFINE s   == [caller[c] EXCEPT !.pc = "leaving", !.answer = "201", !.record = c]
           new == [by |-> c, body |-> caller[c].body, active |-> TRUE]
<1>1. /\ caller[c].pc = "recording" /\ TablesTyped /\ caller' = [caller EXCEPT ![c] = s]
      /\ records' = [records EXCEPT ![caller[c].kind][caller[c].key] = new]
      /\ UNCHANGED <<promises, sessionLock, usage, parent, ownPool>>
  BY DEF ReviewInv, Reviews!StoreRecord, Reviews!NoLocksMoved
<1>2. caller[c] \in Reviews!Caller /\ CallFits(caller[c]) /\ caller[c].answer = "none"
  BY <1>1, ArrivedIsCaller DEF ReviewInv, CallFits
<1>3. caller[c].kind \in Reviews!Kinds /\ caller[c].key \in Keys /\ caller[c].body \in Bodies
  BY <1>2 DEF Reviews!Caller
<1>4. /\ s \in Reviews!Caller /\ SameRequest(s, caller[c])
      /\ s.pc = "leaving" /\ s.answer = "201" /\ s.locked = caller[c].locked
  <2>1. "leaving" \in Reviews!PCs /\ "201" \in Reviews!Answers
    BY DEF Reviews!PCs, Reviews!HoldingPCs, Reviews!Answers
  <2> QED
    BY <1>2, <2>1 DEF Reviews!Caller, SameRequest
<1>5. new \in Reviews!Record /\ new.by = c
  BY <1>3 DEF Reviews!Record
<1> HIDE DEF s, new
<1>6. records \in [Reviews!Kinds -> [Keys -> Reviews!Record \cup {Reviews!NoRecord}]]
  BY <1>1 DEF TablesTyped
<1>7. /\ records' \in [Reviews!Kinds -> [Keys -> Reviews!Record \cup {Reviews!NoRecord}]]
      /\ \A k \in Reviews!Kinds, y \in Keys : records'[k][y] = records[k][y] \/ records'[k][y] = new
  BY <1>1, <1>3, <1>5, <1>6
<1>8. TablesTyped'
  BY <1>1, <1>7 DEF TablesTyped
<1>9. CallFits(s) /\ (s.called <=> Called(c))
  BY <1>1, <1>4 DEF CallFits, SameRequest, Called
<1>10. s.locked => sessionLock'[s.key] = c
  BY <1>1, <1>4 DEF ReviewInv, LockIsHeld, InCallback, Reviews!CallbackPCs, SameRequest
<1>11. \A d \in Callers \ {c} : LockIsHeld(d) => LockIsHeld(d)'
  BY <1>1 DEF ReviewInv, CallersTyped, LockIsHeld
<1>12. \A e \in Callers, k \in Reviews!Kinds, y \in Keys :
           records'[k][y].by = e => records[k][y].by = e \/ (e = c /\ caller[c].answer = "none")
  BY <1>2, <1>5, <1>7
<1> QED
  BY <1>1, <1>2, <1>4, <1>8, <1>9, <1>10, <1>11, <1>12, CallerMoves DEF SameRequest

(* The provider is called after calls that are excused, and it is charged. *)
LEMMA CallKeeps ==
  ASSUME ReviewInv, NEW c \in Callers, Reviews!TakeQuota(c), Reviews!CallsProvider(c),
         usage[caller[c].kind] < ReviewLimit,
         usage' = [usage EXCEPT ![caller[c].kind] = @ + 1]
  PROVE  ReviewInv'
<1> DEFINE earlier == {d \in Reviews!Calls(caller[c].kind) : caller[d].key = caller[c].key}
           s == [caller[c] EXCEPT !.pc = "calling", !.called = TRUE, !.after = earlier]
<1>1. /\ caller[c].pc = "quota" /\ TablesTyped /\ caller' = [caller EXCEPT ![c] = s]
      /\ UNCHANGED <<promises, sessionLock, records, parent, ownPool>>
  BY DEF ReviewInv, Reviews!TakeQuota, Reviews!CallsProvider, Reviews!NoLocksMoved
<1>2. caller[c] \in Reviews!Caller /\ CallFits(caller[c])
  BY <1>1, ArrivedIsCaller DEF ReviewInv
<1>3. caller[c].kind \in Reviews!Kinds /\ caller[c].key \in Keys /\ ~Called(c) /\ caller[c].answer = "none"
  BY <1>1, <1>2 DEF Reviews!Caller, CallFits, Called
<1>4. earlier \subseteq Callers
  BY DEF Reviews!Calls
<1>5. \A d : d \in earlier <=> d \in Callers /\ Called(d) /\ SameCall(d, c)
  BY DEF Reviews!Calls, Called, SameCall
<1> HIDE DEF earlier
<1>6. /\ s \in Reviews!Caller /\ s.pc = "calling" /\ s.called /\ s.after = earlier
      /\ s.kind = caller[c].kind /\ s.key = caller[c].key /\ s.locked = caller[c].locked
      /\ s.answer = caller[c].answer
  <2>1. "calling" \in Reviews!PCs
    BY DEF Reviews!PCs, Reviews!HoldingPCs, Reviews!CallbackPCs
  <2> QED
    BY <1>2, <1>4, <2>1 DEF Reviews!Caller
<1> HIDE DEF s
<1>7. /\ caller'[c] = s /\ \A d \in Callers \ {c} : caller'[d] = caller[d]
      /\ CallersTyped'
  BY <1>1, <1>6 DEF ReviewInv, CallersTyped, Reviews!Caller, Reviews!Idle
<1>8. \A d \in Callers : caller[d].pc # "idle" => caller[d] \in Reviews!Caller
  BY ArrivedIsCaller DEF ReviewInv
<1>9. TablesTyped'
  <2>1. usage' \in [Reviews!Kinds -> 0..ReviewLimit]
    BY <1>1, <1>3, ReviewAssumption DEF TablesTyped
  <2> QED
    BY <1>1, <2>1 DEF TablesTyped
<1>10. \A d \in Callers : (caller'[d].pc # "idle" => CallFits(caller'[d])) /\ LockIsHeld(d)'
  <2>1. CallFits(s)
    BY <1>3, <1>6 DEF CallFits
  <2>2. s.locked => sessionLock'[s.key] = c
    BY <1>1, <1>6 DEF ReviewInv, LockIsHeld, InCallback, Reviews!CallbackPCs
  <2> QED
    BY <1>1, <1>7, <2>1, <2>2 DEF ReviewInv, LockIsHeld
<1>11. Called(c)' /\ \A d \in Callers \ {c} : Called(d)' <=> Called(d)
  BY <1>6, <1>7 DEF Called
<1>12. \A e \in Callers \ {c} : Excused(e) => Excused(e)'
  BY <1>1, <1>7 DEF Excused
<1>13. ASSUME NEW d \in Callers
       PROVE  QuotaIsClear(d)'
  <2> SUFFICES ASSUME caller'[d].pc = "quota" /\ caller'[d].locked, NEW e \in Callers,
                      Called(e)', SameCall(e, d)'
               PROVE  Excused(e)'
    BY DEF QuotaIsClear
  <2>1. d # c /\ caller'[d] = caller[d]
    BY <1>6, <1>7
  <2>2. CASE e = c
    <3>1. s.key = caller[d].key
      BY <1>7, <2>1, <2>2 DEF SameCall
    <3>2. ~caller[c].locked
      BY <1>1, <1>6, <2>1, <3>1, LockIsOnes DEF InCallback, Reviews!CallbackPCs
    <3> QED
      BY <1>6, <1>7, <2>2, <3>2 DEF Excused
  <2>3. CASE e # c
    BY <1>7, <1>11, <1>12, <2>1, <2>3 DEF ReviewInv, QuotaIsClear, SameCall
  <2> QED
    BY <2>2, <2>3
<1>14. ASSUME NEW d \in Callers
       PROVE  AfterExcused(d)'
  <2> SUFFICES ASSUME Called(d)', NEW e \in caller'[d].after
               PROVE  /\ Called(e)' /\ caller'[e].kind = caller'[d].kind
                      /\ ~caller'[d].locked \/ Excused(e)'
    BY DEF AfterExcused
  <2>1. CASE d = c
    <3>1. e \in Callers /\ Called(e) /\ SameCall(e, c) /\ e # c
      BY <1>3, <1>5, <1>6, <1>7, <2>1
    <3>2. caller[c].locked => Excused(e)
      BY <1>1, <3>1 DEF ReviewInv, QuotaIsClear
    <3> QED
      BY <1>6, <1>7, <1>11, <1>12, <2>1, <3>1, <3>2 DEF SameCall
  <2>2. CASE d # c
    <3>1. e \in caller[d].after /\ Called(d)
      BY <1>7, <1>11, <2>2
    <3>2. e \in Callers
      BY <1>8, <3>1 DEF Called, Reviews!Caller
    <3>3. Called(e) /\ caller[e].kind = caller[d].kind /\ (~caller[d].locked \/ Excused(e))
      BY <3>1 DEF ReviewInv, AfterExcused
    <3> QED
      BY <1>3, <1>7, <1>11, <1>12, <2>2, <3>2, <3>3
  <2> QED
    BY <2>1, <2>2
<1>15. CallsCharged'
  <2> SUFFICES ASSUME NEW k \in Reviews!Kinds
               PROVE  Cardinality(Reviews!Calls(k)') <= usage'[k]
    BY DEF CallsCharged, Reviews!Kinds
  <2>1. IsFiniteSet(Reviews!Calls(k)) /\ Cardinality(Reviews!Calls(k)) <= usage[k]
    BY ReviewAssumption, FS_Subset DEF Reviews!Calls, ReviewInv, CallsCharged
  <2>2. usage[k] \in Nat /\ usage \in [Reviews!Kinds -> 0..ReviewLimit]
    BY <1>1, ReviewAssumption DEF TablesTyped
  <2>3. CASE k = caller[c].kind
    <3>1. Reviews!Calls(k)' = Reviews!Calls(k) \cup {c} /\ c \notin Reviews!Calls(k)
      BY <1>3, <1>6, <1>7, <1>11, <2>3 DEF Reviews!Calls, Called
    <3>2. Cardinality(Reviews!Calls(k) \cup {c}) = Cardinality(Reviews!Calls(k)) + 1
      BY <2>1, <3>1, FS_AddElement
    <3>3. usage'[k] = usage[k] + 1
      BY <2>2, <2>3
    <3> QED
      BY <2>1, <2>2, <3>1, <3>2, <3>3, FS_CardinalityType
  <2>4. CASE k # caller[c].kind
    <3>1. Reviews!Calls(k)' = Reviews!Calls(k)
      BY <1>3, <1>6, <1>7, <1>11, <2>4 DEF Reviews!Calls, Called
    <3> QED
      BY <2>1, <2>2, <2>4, <3>1
  <2> QED
    BY <2>3, <2>4
<1> QED
  BY <1>7, <1>9, <1>10, <1>13, <1>14, <1>15 DEF ReviewInv

(* A process dies, and its callers with it. *)
LEMMA CrashKeeps ==
  ASSUME ReviewInv, NEW p \in Processes, Reviews!Crash(p)
  PROVE  ReviewInv'
<1> DEFINE dying == {c \in Callers : /\ caller[c].pc \notin {"idle", "done", "lost"}
                                     /\ caller[c].process = p}
           lost(c) == [caller[c] EXCEPT !.pc = "lost", !.locked = FALSE]
<1>1. /\ caller' = [c \in Callers |-> IF c \in dying THEN lost(c) ELSE caller[c]]
      /\ promises' = [promises EXCEPT ![p] = [k \in Reviews!Kinds |-> [y \in Keys |-> NoOne]]]
      /\ sessionLock' = [y \in Keys |-> IF sessionLock[y] \in dying THEN NoOne ELSE sessionLock[y]]
      /\ UNCHANGED <<records, usage, parent, ownPool>> /\ TablesTyped
  BY DEF ReviewInv, Reviews!Crash, Reviews!NoTablesMoved
<1>2. \A c \in dying : c \in Callers /\ caller[c].pc \notin {"idle", "done", "lost"}
  OBVIOUS
<1> HIDE DEF dying
<1>3. \A c \in Callers : caller[c].pc # "idle" => caller[c] \in Reviews!Caller
  BY ArrivedIsCaller DEF ReviewInv
<1>4. ASSUME NEW c \in dying
      PROVE  /\ lost(c) \in Reviews!Caller /\ SameRequest(lost(c), caller[c])
             /\ lost(c).pc = "lost" /\ lost(c).answer = caller[c].answer /\ ~lost(c).locked
  <2>1. "lost" \in Reviews!PCs
    BY DEF Reviews!PCs
  <2>2. caller[c] \in Reviews!Caller
    BY <1>2, <1>3
  <2> QED
    BY <2>1, <2>2, RecordLocks
<1> HIDE DEF lost
<1>5. \A c \in Callers : \/ c \in dying /\ caller'[c] = lost(c)
                         \/ c \notin dying /\ caller'[c] = caller[c]
  BY <1>1
<1>6. CallersTyped'
  <2>1. caller \in [Callers -> Reviews!Caller \cup {Reviews!Idle}]
    BY DEF ReviewInv, CallersTyped
  <2>2. caller' \in [Callers -> Reviews!Caller \cup {Reviews!Idle}]
    BY <1>1, <1>4, <2>1
  <2> QED
    BY <2>2 DEF CallersTyped, Reviews!Caller, Reviews!Idle
<1>7. TablesTyped'
  BY <1>1 DEF TablesTyped
<1>8. ASSUME NEW c \in Callers
      PROVE  /\ Called(c)' <=> Called(c)
             /\ Called(c) => /\ caller'[c].kind = caller[c].kind /\ caller'[c].key = caller[c].key
                             /\ caller'[c].after = caller[c].after
             /\ caller'[c].locked => caller'[c] = caller[c]
             /\ caller'[c].pc # "lost" => caller'[c] = caller[c]
  BY <1>2, <1>4, <1>5 DEF Called, SameRequest
<1>9. \A c \in Callers : caller'[c].pc # "idle" => CallFits(caller'[c])
  BY <1>2, <1>4, <1>5 DEF ReviewInv, CallFits, SameRequest
<1>10. ASSUME NEW c \in Callers
       PROVE  LockIsHeld(c)'
  <2> SUFFICES ASSUME caller'[c].pc \in InCallback, caller'[c].locked
               PROVE  sessionLock'[caller'[c].key] = c
    BY DEF LockIsHeld
  <2>1. c \notin dying /\ caller'[c] = caller[c]
    BY <1>4, <1>5
  <2>2. sessionLock[caller[c].key] = c
    BY <2>1 DEF ReviewInv, LockIsHeld
  <2>3. caller[c].key \in Keys
    BY <1>3, <2>1 DEF InCallback, Reviews!CallbackPCs, Reviews!Caller
  <2> QED
    BY <1>1, <2>1, <2>2, <2>3
<1>11. \A e \in Callers : Excused(e) => Excused(e)'
  BY <1>1, <1>4, <1>5 DEF Excused
<1>12. ASSUME NEW d \in Callers
       PROVE  QuotaIsClear(d)'
  <2> SUFFICES ASSUME caller'[d].pc = "quota" /\ caller'[d].locked, NEW e \in Callers,
                      Called(e)', SameCall(e, d)'
               PROVE  Excused(e)'
    BY DEF QuotaIsClear
  <2>1. Called(e) /\ SameCall(e, d) /\ caller[d].pc = "quota" /\ caller[d].locked
    BY <1>8 DEF SameCall
  <2> QED
    BY <1>11, <2>1 DEF ReviewInv, QuotaIsClear
<1>13. ASSUME NEW d \in Callers
       PROVE  AfterExcused(d)'
  <2> SUFFICES ASSUME Called(d)', NEW e \in caller'[d].after
               PROVE  /\ Called(e)' /\ caller'[e].kind = caller'[d].kind
                      /\ ~caller'[d].locked \/ Excused(e)'
    BY DEF AfterExcused
  <2>1. e \in caller[d].after /\ Called(d)
    BY <1>8
  <2>2. e \in Callers
    BY <1>3, <2>1 DEF Called, Reviews!Caller
  <2>3. Called(e) /\ caller[e].kind = caller[d].kind /\ (~caller[d].locked \/ Excused(e))
    BY <2>1 DEF ReviewInv, AfterExcused
  <2> QED
    BY <1>8, <1>11, <2>1, <2>2, <2>3
<1>14. CallsCharged'
  <2>1. \A k \in Reviews!Kinds : Reviews!Calls(k)' = Reviews!Calls(k)
    BY <1>8 DEF Reviews!Calls, Called
  <2> QED
    BY <1>1, <2>1 DEF ReviewInv, CallsCharged, Reviews!Kinds
<1> QED
  BY <1>6, <1>7, <1>9, <1>10, <1>12, <1>13, <1>14 DEF ReviewInv

(* Records end, and no other takes their place. *)
LEMMA TablesKeep ==
  ASSUME ReviewInv, UNCHANGED <<caller, sessionLock, usage>>, TablesTyped',
         \A e \in Callers, k \in Reviews!Kinds, y \in Keys :
             records'[k][y].by = e => records[k][y].by = e
  PROVE  ReviewInv'
<1>1. CallersTyped'
  BY DEF ReviewInv, CallersTyped, Reviews!Caller, Reviews!Idle
<1>2. ASSUME NEW e \in Callers, Called(e), Excused(e)
      PROVE  Excused(e)'
  <2>1. caller[e].kind \in Reviews!Kinds /\ caller[e].key \in Keys
    BY <1>2, ArrivedIsCaller DEF ReviewInv, Called, Reviews!Caller
  <2> QED
    BY <1>2, <2>1 DEF Excused
<1>3. \A d \in Callers : \A e \in caller[d].after : Called(d) => e \in Callers
  BY ArrivedIsCaller DEF ReviewInv, Called, Reviews!Caller
<1>4. \A d \in Callers : /\ caller'[d].pc # "idle" => CallFits(caller'[d])
                         /\ LockIsHeld(d)' /\ QuotaIsClear(d)'
  BY <1>2 DEF ReviewInv, LockIsHeld, QuotaIsClear, Called, SameCall
<1>5. \A d \in Callers : AfterExcused(d)'
  BY <1>2, <1>3 DEF ReviewInv, AfterExcused, Called
<1>6. CallsCharged'
  BY DEF ReviewInv, CallsCharged, Reviews!Calls, Reviews!Kinds
<1> QED
  BY <1>1, <1>4, <1>5, <1>6 DEF ReviewInv

(* Every step of the routes keeps the invariant. *)
LEMMA ReviewStep == ReviewInv /\ [Reviews!Next]_reviewVars => ReviewInv'
<1> SUFFICES ASSUME ReviewInv, [Reviews!Next]_reviewVars
             PROVE  ReviewInv'
  OBVIOUS
<1>1. TablesTyped
  BY DEF ReviewInv
<1>2. records \in [Reviews!Kinds -> [Keys -> Reviews!Record \cup {Reviews!NoRecord}]]
  BY <1>1 DEF TablesTyped
<1>3. Reviews!NoRecord.by = NoOne /\ NoOne \notin Callers
  BY ReviewAssumption DEF Reviews!NoRecord
<1>4. ASSUME NEW c \in Callers, Reviews!Progress(c)
      PROVE  ReviewInv'
  BY <1>4, WayToLockKeeps, LockKeeps, CallbackKeeps, CallKeeps, StoreKeeps
  DEF Reviews!Progress, Reviews!TakeQuota
<1>5. ASSUME NEW k \in Reviews!Kinds, NEW y \in Keys, Reviews!Expire(k, y)
      PROVE  ReviewInv'
  <2> DEFINE r == [records[k][y] EXCEPT !.active = FALSE]
  <2>1. /\ records' = [records EXCEPT ![k][y] = r] /\ records[k][y] \in Reviews!Record
        /\ UNCHANGED <<caller, promises, sessionLock, usage, parent, ownPool>>
    BY <1>2, <1>5 DEF Reviews!Expire, Reviews!NoLocksMoved
  <2>2. r \in Reviews!Record /\ r.by = records[k][y].by
    BY <2>1 DEF Reviews!Record
  <2> HIDE DEF r
  <2>3. /\ records' \in [Reviews!Kinds -> [Keys -> Reviews!Record \cup {Reviews!NoRecord}]]
        /\ \A l \in Reviews!Kinds, z \in Keys : records'[l][z].by = records[l][z].by
    BY <1>2, <2>1, <2>2
  <2> QED
    BY <1>1, <2>1, <2>3, TablesKeep DEF TablesTyped
<1>6. ASSUME NEW k \in Reviews!Kinds, NEW y \in Keys, Reviews!PurgeRecord(k, y)
      PROVE  ReviewInv'
  <2>1. /\ records' = [records EXCEPT ![k][y] = Reviews!NoRecord]
        /\ UNCHANGED <<caller, promises, sessionLock, usage, parent, ownPool>>
    BY <1>6 DEF Reviews!PurgeRecord, Reviews!NoLocksMoved
  <2>3. /\ records' \in [Reviews!Kinds -> [Keys -> Reviews!Record \cup {Reviews!NoRecord}]]
        /\ \A l \in Reviews!Kinds, z \in Keys :
               records'[l][z] = records[l][z] \/ records'[l][z] = Reviews!NoRecord
    BY <1>2, <2>1
  <2> QED
    BY <1>1, <1>3, <2>1, <2>3, TablesKeep DEF TablesTyped
<1>7. CASE Reviews!ExpireParent
  <2>1. UNCHANGED <<caller, promises, sessionLock, usage, ownPool, records>> /\ parent' = "expired"
    BY <1>7 DEF Reviews!ExpireParent, Reviews!NoLocksMoved
  <2> QED
    BY <1>1, <2>1, TablesKeep DEF TablesTyped
<1>8. CASE Reviews!PurgeParent
  <2>1. /\ UNCHANGED <<caller, promises, sessionLock, usage, ownPool>> /\ parent' = "purged"
        /\ records' = [records EXCEPT !["proposal"] = [y \in Keys |-> Reviews!NoRecord]]
    BY <1>8 DEF Reviews!PurgeParent, Reviews!NoLocksMoved
  <2>3. /\ records' \in [Reviews!Kinds -> [Keys -> Reviews!Record \cup {Reviews!NoRecord}]]
        /\ \A l \in Reviews!Kinds, z \in Keys :
               records'[l][z] = records[l][z] \/ records'[l][z] = Reviews!NoRecord
    BY <1>2, <2>1
  <2> QED
    BY <1>1, <1>3, <2>1, <2>3, TablesKeep DEF TablesTyped
<1>9. CASE UNCHANGED reviewVars
  BY <1>1, <1>9, TablesKeep DEF reviewVars, TablesTyped
<1> QED
  BY <1>4, <1>5, <1>6, <1>7, <1>8, <1>9, ArriveKeeps, LockKeeps, CrashKeeps DEF Reviews!Next

(* What the routes start from. *)
LEMMA ReviewStart == Reviews!Init => ReviewInv
<1> SUFFICES ASSUME Reviews!Init
             PROVE  ReviewInv
  OBVIOUS
<1>1. CallersTyped /\ TablesTyped
  BY ReviewAssumption DEF Reviews!Init, CallersTyped, TablesTyped
<1>2. \A c \in Callers : caller[c].pc = "idle"
  BY DEF Reviews!Init, Reviews!Idle
<1>3. \A k \in Reviews!Kinds : Reviews!Calls(k) = {} /\ usage[k] = 0
  BY <1>2 DEF Reviews!Calls, Reviews!Init
<1>4. CallsCharged
  BY <1>3, FS_EmptySet DEF CallsCharged
<1> QED
  BY <1>1, <1>2, <1>4
  DEF ReviewInv, LockIsHeld, QuotaIsClear, AfterExcused, Called, InCallback, Reviews!CallbackPCs

(* The calls are charged, and each again for a reason. *)
LEMMA ReviewPromise == ReviewInv => Reviews!PaidCallsJustified
<1> SUFFICES ASSUME ReviewInv, NEW k \in Reviews!Kinds
             PROVE  /\ Reviews!Cardinality(Reviews!Calls(k)) <= usage[k]
                    /\ \A d \in Reviews!Calls(k) : \A c \in caller[d].after :
                          \/ caller[c].pc = "lost"
                          \/ ~caller[c].locked \/ ~caller[d].locked
                          \/ caller[c].answer = "500"
                          \/ caller[c].answer = "201" /\ records[k][caller[c].key].by # c
  BY DEF Reviews!PaidCallsJustified
<1>1. Reviews!Cardinality(Reviews!Calls(k)) = Cardinality(Reviews!Calls(k))
  BY DEF Reviews!Cardinality, Cardinality, Reviews!IsFiniteSet, IsFiniteSet
<1>2. Cardinality(Reviews!Calls(k)) <= usage[k]
  BY DEF ReviewInv, CallsCharged
<1>3. ASSUME NEW d \in Reviews!Calls(k), NEW c \in caller[d].after
      PROVE  caller[c].kind = k /\ (~caller[d].locked \/ Excused(c))
  BY DEF ReviewInv, AfterExcused, Called, Reviews!Calls
<1> QED
  BY <1>1, <1>2, <1>3 DEF Excused

(* In every behaviour of the services a call to a paid provider is charged *)
(* to the day's quota, and a key's provider is called again only when the  *)
(* record of the call before is missing for a reason (server.js and        *)
(* withIdempotencyLock).                                                   *)
THEOREM PaidCallsTheorem == ServicesSpec => []PaidCallsJustified
<1> DEFINE Inv == subject = "reviews" => ReviewInv
<1>1. ServicesInit => Inv
  BY ReviewStart DEF ServicesInit
<1>2. Inv /\ [ServicesNext /\ UNCHANGED subject]_<<subject, serviceVars>> => Inv'
  <2> SUFFICES ASSUME Inv, [ServicesNext /\ UNCHANGED subject]_<<subject, serviceVars>>,
                      subject' = "reviews"
               PROVE  ReviewInv'
    OBVIOUS
  <2>1. subject = "reviews" /\ [Reviews!Next]_reviewVars
    BY DEF ServicesNext, serviceVars
  <2> QED
    BY <2>1, ReviewStep
<1>3. Inv => PaidCallsJustified
  BY ReviewPromise DEF PaidCallsJustified
<1> QED
  BY <1>1, <1>2, <1>3, PTL DEF ServicesSpec

-----------------------------------------------------------------------------
(* Accounts and the provisioning of first workspaces.                      *)

ClientRecord == [pc : {"idle", "waiting", "reading", "writing", "ok", "400", "401", "409", "500"},
                 email : Emails, subject : SupabaseUsers, user : Emails \cup {NoOne},
                 first : BOOLEAN]

AccountTypes ==
    /\ provider \in {"supabase", "local"}
    /\ users \subseteq Emails
    /\ identities \in [SupabaseUsers -> Emails \cup {NoOne}]
    /\ workspaces \in [Emails -> {0, 1}]
    /\ provisionLock \in [SupabaseUsers -> Clients \cup {NoOne}]
    /\ clients \in [Clients -> ClientRecord]

(* Who reads and writes the account of a subject holds the subject's lock. *)
SubjectLocked ==
    \A c \in Clients :
        /\ clients[c].pc \in {"waiting", "reading", "writing"} => provider = "supabase"
        /\ clients[c].pc \in {"reading", "writing"} => provisionLock[clients[c].subject] = c

(* A workspace and an identity have their user, a user of the provider an  *)
(* identity, and no other subject has it.                                  *)
AccountsMatch ==
    /\ \A u \in Emails : workspaces[u] = 1 => u \in users
    /\ \A s \in SupabaseUsers : identities[s] # NoOne => identities[s] \in users
    /\ \A s, z \in SupabaseUsers : s # z /\ identities[s] # NoOne => identities[s] # identities[z]
    /\ provider = "supabase" => \A u \in users : \E s \in SupabaseUsers : identities[s] = u

(* What a request has read of its subject still holds when it writes.      *)
ReadStands(c) ==
    LET known == identities[clients[c].subject]
    IN  clients[c].pc = "writing" =>
            /\ known # NoOne => /\ clients[c].user = known
                                /\ clients[c].first => workspaces[known] = 0
            /\ known = NoOne /\ clients[c].user # NoOne =>
                   clients[c].user = clients[c].email /\ clients[c].email \in users

AccountsInv ==
    AccountTypes /\ SubjectLocked /\ AccountsMatch /\ \A c \in Clients : ReadStands(c)

(* The answer of a request is all that changes in it. *)
LEMMA EndsFields ==
  ASSUME AccountTypes, NEW c \in Clients,
         NEW a \in {"idle", "waiting", "reading", "writing", "ok", "400", "401", "409", "500"},
         Accounts!Ends(c, a)
  PROVE  /\ clients' \in [Clients -> ClientRecord]
         /\ clients'[c].pc = a /\ clients'[c].subject = clients[c].subject
         /\ clients'[c].user = clients[c].user /\ clients'[c].email = clients[c].email
         /\ clients'[c].first = clients[c].first
         /\ \A d \in Clients \ {c} : clients'[d] = clients[d]
<1>1. clients[c] \in ClientRecord /\ clients' = [clients EXCEPT ![c] = [clients[c] EXCEPT !.pc = a]]
  BY DEF AccountTypes, Accounts!Ends
<1>2. [clients[c] EXCEPT !.pc = a] \in ClientRecord
  BY <1>1 DEF ClientRecord
<1> QED
  BY <1>1, <1>2 DEF AccountTypes, ClientRecord

(* A request that ends without writing, and waiting for the lock, keeps    *)
(* the invariant.                                                          *)
LEMMA EndKeeps ==
  ASSUME AccountsInv, NEW c \in Clients,
         NEW a \in {"waiting", "ok", "400", "401", "409", "500"}, Accounts!Ends(c, a),
         a = "waiting" => provider = "supabase",
         UNCHANGED <<provider, users, identities, workspaces>>,
         provisionLock' \in [SupabaseUsers -> Clients \cup {NoOne}],
         \A s \in SupabaseUsers : provisionLock[s] # c => provisionLock'[s] = provisionLock[s]
  PROVE  AccountsInv'
<1> USE EndsFields DEF AccountsInv
<1>1. AccountTypes'
  BY DEF AccountTypes
<1>2. SubjectLocked'
  <2> SUFFICES ASSUME NEW d \in Clients
               PROVE  /\ clients'[d].pc \in {"waiting", "reading", "writing"} => provider = "supabase"
                      /\ clients'[d].pc \in {"reading", "writing"} =>
                             provisionLock'[clients'[d].subject] = d
    BY DEF SubjectLocked
  <2>1. CASE d = c
    BY <2>1
  <2>2. CASE d # c
    <3>1. clients[d].subject \in SupabaseUsers
      BY DEF AccountTypes, ClientRecord
    <3> QED
      BY <2>2, <3>1 DEF SubjectLocked
  <2> QED
    BY <2>1, <2>2
<1>3. AccountsMatch'
  BY DEF AccountsMatch
<1>4. \A d \in Clients : ReadStands(d)'
  BY DEF ReadStands
<1> QED
  BY <1>1, <1>2, <1>3, <1>4

(* Taking the lock and reading under it keep the invariant.                *)
LEMMA ReadKeeps ==
  ASSUME AccountsInv, NEW c \in Clients, Accounts!LockSubject(c) \/ Accounts!ReadAccount(c)
  PROVE  AccountsInv'
<1> USE AccountsAssumption DEF AccountsInv, Accounts!TablesKept, Accounts!TargetsKept
<1>1. clients[c] \in ClientRecord /\ clients[c].subject \in SupabaseUsers
  BY DEF AccountTypes, ClientRecord
<1>2. ASSUME Accounts!LockSubject(c)
      PROVE  AccountsInv'
  <2> USE <1>1, <1>2 DEF Accounts!LockSubject
  <2>1. /\ clients[c].pc = "waiting" /\ provisionLock[clients[c].subject] = NoOne
        /\ provisionLock' = [provisionLock EXCEPT ![clients[c].subject] = c]
        /\ Accounts!Ends(c, "reading") /\ UNCHANGED <<provider, users, identities, workspaces>>
    OBVIOUS
  <2> HIDE <1>2
  <2> USE <2>1, EndsFields
  <2>2. AccountTypes'
    BY DEF AccountTypes
  <2>3. SubjectLocked'
    <3> SUFFICES ASSUME NEW d \in Clients
                 PROVE  /\ clients'[d].pc \in {"waiting", "reading", "writing"} => provider = "supabase"
                        /\ clients'[d].pc \in {"reading", "writing"} =>
                               provisionLock'[clients'[d].subject] = d
      BY DEF SubjectLocked
    <3>1. CASE d = c
      BY <3>1 DEF SubjectLocked, AccountTypes
    <3>2. CASE d # c
      <4>1. clients[d].subject \in SupabaseUsers
        BY DEF AccountTypes, ClientRecord
      <4> QED
        BY <3>2, <4>1 DEF SubjectLocked, AccountTypes
    <3> QED
      BY <3>1, <3>2
  <2>4. AccountsMatch'
    BY DEF AccountsMatch
  <2>5. \A d \in Clients : ReadStands(d)'
    BY DEF ReadStands
  <2> QED
    BY <2>2, <2>3, <2>4, <2>5
<1>3. ASSUME Accounts!ReadAccount(c)
      PROVE  AccountsInv'
  <2> DEFINE known == identities[clients[c].subject]
             user == IF known # NoOne THEN known ELSE clients[c].email
             found == IF user \in users THEN user ELSE NoOne
             first == user \notin users \/ workspaces[user] = 0
  <2>1. /\ clients[c].pc = "reading" /\ UNCHANGED <<provider, users, identities, workspaces, provisionLock>>
        /\ clients' = [clients EXCEPT ![c].pc = "writing", ![c].user = found, ![c].first = first]
    BY <1>3, Zenon DEF Accounts!ReadAccount
  <2>2. found \in Emails \cup {NoOne} /\ first \in BOOLEAN /\ known \in Emails \cup {NoOne}
    BY <1>1 DEF AccountTypes, ClientRecord
  <2>3. /\ known # NoOne => found = known /\ (first => workspaces[known] = 0)
        /\ known = NoOne /\ found # NoOne => found = clients[c].email /\ clients[c].email \in users
    BY <1>1 DEF AccountsMatch
  <2> HIDE DEF found, first
  <2>4. clients' = [clients EXCEPT ![c] = [clients[c] EXCEPT !.pc = "writing", !.user = found,
                                                             !.first = first]]
    BY <2>1 DEF AccountTypes
  <2>5. [clients[c] EXCEPT !.pc = "writing", !.user = found, !.first = first] \in ClientRecord
    BY <1>1, <2>2 DEF ClientRecord
  <2>6. /\ clients' \in [Clients -> ClientRecord]
        /\ clients'[c].pc = "writing" /\ clients'[c].user = found /\ clients'[c].first = first
        /\ clients'[c].subject = clients[c].subject /\ clients'[c].email = clients[c].email
        /\ \A d \in Clients \ {c} : clients'[d] = clients[d]
    BY <1>1, <2>4, <2>5 DEF AccountTypes, ClientRecord
  <2>7. AccountTypes'
    BY <2>1, <2>6 DEF AccountTypes
  <2>8. SubjectLocked'
    BY <2>1, <2>6 DEF SubjectLocked
  <2>9. AccountsMatch'
    BY <2>1 DEF AccountsMatch
  <2>10. ASSUME NEW d \in Clients
         PROVE  ReadStands(d)'
    <3>1. CASE d = c
      BY <2>1, <2>3, <2>6, <3>1 DEF ReadStands
    <3>2. CASE d # c
      BY <2>1, <2>6, <3>2 DEF ReadStands
    <3> QED
      BY <3>1, <3>2
  <2> QED
    BY <2>7, <2>8, <2>9, <2>10
<1> QED
  BY <1>2, <1>3

(* Writing under the lock keeps the invariant: what was read stands.       *)
LEMMA ProvisionKeeps ==
  ASSUME AccountsInv, NEW c \in Clients, Accounts!Provision(c)
  PROVE  AccountsInv'
<1> DEFINE s == clients[c].subject
           user == IF clients[c].user = NoOne THEN clients[c].email ELSE clients[c].user
<1> USE AccountsAssumption DEF AccountsInv
<1>1. /\ provider = "supabase" /\ clients[c].pc = "writing" /\ UNCHANGED provider
      /\ provisionLock' = [z \in SupabaseUsers |->
                               IF provisionLock[z] = c THEN NoOne ELSE provisionLock[z]]
  BY DEF Accounts!Provision, Accounts!UnlockSubject, Accounts!TargetsKept
<1>2. /\ s \in SupabaseUsers /\ clients[c].email \in Emails /\ clients[c].user \in Emails \cup {NoOne}
      /\ user \in Emails
  BY DEF AccountTypes, ClientRecord
<1>3. provisionLock' \in [SupabaseUsers -> Clients \cup {NoOne}]
  BY <1>1 DEF AccountTypes
<1>4. CASE Accounts!Ends(c, "500") /\ Accounts!TablesKept
  BY <1>1, <1>3, <1>4, EndKeeps DEF Accounts!TablesKept
<1>5. CASE /\ ~Accounts!ProvisionConflicts(c)
           /\ users' = users \cup {user}
           /\ identities' = [identities EXCEPT ![s] = IF @ = NoOne THEN user ELSE @]
           /\ \/ /\ clients[c].first
                 /\ workspaces' = [workspaces EXCEPT ![user] = @ + 1]
                 /\ Accounts!Ends(c, "ok")
              \/ clients[c].first /\ Accounts!Ends(c, "400") /\ UNCHANGED workspaces
              \/ ~clients[c].first /\ Accounts!Ends(c, "ok") /\ UNCHANGED workspaces
  <2>1. PICK a \in {"ok", "400"} : Accounts!Ends(c, a)
    BY <1>5
  <2> USE <2>1, EndsFields
  <2>2. ReadStands(c)
    OBVIOUS
  <2>3. identities[s] # NoOne => clients[c].user = identities[s] /\ user = identities[s] /\ user \in users
    BY <1>1, <1>2, <2>2 DEF ReadStands, AccountsMatch
  <2>4. identities[s] = NoOne => user = clients[c].email /\ user \notin users
    <3> SUFFICES ASSUME identities[s] = NoOne
                 PROVE  user = clients[c].email /\ user \notin users
      OBVIOUS
    <3>1. ~\E z \in SupabaseUsers : identities[z] = user
      BY <1>5 DEF Accounts!ProvisionConflicts
    <3> QED
      BY <1>1, <1>2, <2>2, <3>1 DEF ReadStands, AccountsMatch
  <2>5. identities'[s] = user /\ \A z \in SupabaseUsers \ {s} : identities'[z] = identities[z]
    BY <1>2, <1>5, <2>3 DEF AccountTypes
  <2>6. clients[c].first => workspaces[user] = 0
    BY <1>1, <1>2, <2>2, <2>3, <2>4 DEF ReadStands, AccountsMatch, AccountTypes
  <2>7. workspaces' \in [Emails -> {0, 1}] /\ \A u \in Emails \ {user} : workspaces'[u] = workspaces[u]
    BY <1>2, <1>5, <2>6 DEF AccountTypes
  <2>8. identities' \in [SupabaseUsers -> Emails \cup {NoOne}]
    BY <1>2, <1>5 DEF AccountTypes
  <2>9. users' = users \cup {user}
    BY <1>5
  <2> HIDE <1>5
  <2>10. \A z \in SupabaseUsers \ {s} : identities[z] # user
    BY <1>2, <2>3, <2>4 DEF AccountsMatch
  <2> HIDE DEF user
  <2>11. AccountTypes'
    BY <1>1, <1>2, <1>3, <2>7, <2>8, <2>9 DEF AccountTypes
  <2>12. SubjectLocked'
    <3> SUFFICES ASSUME NEW d \in Clients, d # c
                 PROVE  /\ clients'[d].pc \in {"waiting", "reading", "writing"} => provider = "supabase"
                        /\ clients'[d].pc \in {"reading", "writing"} =>
                               provisionLock'[clients'[d].subject] = d
      BY <1>1 DEF SubjectLocked
    <3>1. clients[d].subject \in SupabaseUsers
      BY DEF AccountTypes, ClientRecord
    <3> QED
      BY <1>1, <3>1 DEF SubjectLocked
  <2>13. AccountsMatch'
    <3>1. \A u \in Emails : workspaces'[u] = 1 => u \in users'
      BY <2>7, <2>9 DEF AccountsMatch
    <3>2. \A z \in SupabaseUsers : identities'[z] # NoOne => identities'[z] \in users'
      BY <2>5, <2>9 DEF AccountsMatch
    <3>3. \A y, z \in SupabaseUsers : y # z /\ identities'[y] # NoOne => identities'[y] # identities'[z]
      BY <2>5, <2>10 DEF AccountsMatch
    <3>4. \A u \in users' : \E z \in SupabaseUsers : identities'[z] = u
      <4>1. identities[s] # NoOne => identities[s] = user
        BY <2>3
      <4>2. ASSUME NEW u \in users, u # user
            PROVE  \E z \in SupabaseUsers : identities'[z] = u
        <5>1. PICK z \in SupabaseUsers : identities[z] = u
          BY <1>1 DEF AccountsMatch
        <5>2. z # s
          BY <1>2, <4>1, <4>2, <5>1 DEF AccountTypes
        <5> QED
          BY <2>5, <5>1, <5>2
      <4> QED
        BY <1>2, <2>5, <2>9, <4>2
    <3> QED
      BY <3>1, <3>2, <3>3, <3>4 DEF AccountsMatch
  <2>14. ASSUME NEW d \in Clients
         PROVE  ReadStands(d)'
    <3>1. CASE clients'[d].pc # "writing"
      BY <3>1 DEF ReadStands
    <3>2. CASE clients'[d].pc = "writing"
      <4>1. d # c /\ clients'[d] = clients[d]
        BY <3>2
      <4>2. clients[d].subject \in SupabaseUsers \ {s}
        <5>1. clients[d].subject \in SupabaseUsers
          BY DEF AccountTypes, ClientRecord
        <5> QED
          BY <1>1, <3>2, <4>1, <5>1 DEF SubjectLocked
      <4>3. /\ identities'[clients[d].subject] = identities[clients[d].subject]
            /\ identities[clients[d].subject] # user
        BY <2>5, <2>10, <4>2
      <4>4. identities[clients[d].subject] \in Emails \cup {NoOne}
        BY <4>2 DEF AccountTypes
      <4>5. identities[clients[d].subject] # NoOne =>
                workspaces'[identities[clients[d].subject]] = workspaces[identities[clients[d].subject]]
        BY <2>7, <4>3, <4>4
      <4>6. ReadStands(d)
        OBVIOUS
      <4> QED
        BY <2>9, <4>1, <4>3, <4>5, <4>6 DEF ReadStands
    <3> QED
      BY <3>1, <3>2
  <2> QED
    BY <2>11, <2>12, <2>13, <2>14
<1> QED
  BY <1>4, <1>5, Zenon DEF Accounts!Provision

(* Registering and logging in keep the invariant. *)
LEMMA LocalKeeps ==
  ASSUME AccountsInv, NEW c \in Clients, NEW t \in Tokens,
         Accounts!Register(c, t) \/ Accounts!Login(c, t)
  PROVE  AccountsInv'
<1> DEFINE u == clients[c].email
<1> USE DEF Accounts!TablesKept, Accounts!TargetsKept
<1>1. provider = "local" /\ UNCHANGED provider /\ UNCHANGED <<identities, provisionLock>>
  BY DEF Accounts!Register, Accounts!Login
<1>2. CASE UNCHANGED <<users, workspaces>> /\ \E a \in {"ok", "401", "409"} : Accounts!Ends(c, a)
  <2>1. PICK a \in {"ok", "401", "409"} : Accounts!Ends(c, a)
    BY <1>2
  <2>2. provisionLock' \in [SupabaseUsers -> Clients \cup {NoOne}]
    BY <1>1 DEF AccountsInv, AccountTypes
  <2> QED
    BY <1>1, <1>2, <2>1, <2>2, EndKeeps
<1>3. CASE /\ u \notin users /\ users' = users \cup {u}
           /\ workspaces' = [workspaces EXCEPT ![u] = @ + 1] /\ Accounts!Ends(c, "ok")
  <2> USE <1>1, <1>3, EndsFields DEF AccountsInv
  <2>1. u \in Emails
    BY DEF AccountTypes, ClientRecord
  <2>2. workspaces[u] = 0
    BY <2>1 DEF AccountTypes, AccountsMatch
  <2>3. workspaces' \in [Emails -> {0, 1}] /\ \A e \in Emails \ {u} : workspaces'[e] = workspaces[e]
    BY <2>1, <2>2 DEF AccountTypes
  <2>4. AccountTypes'
    BY <2>1, <2>3 DEF AccountTypes
  <2>5. \A d \in Clients : clients'[d].pc \notin {"waiting", "reading", "writing"}
    BY DEF SubjectLocked
  <2>6. SubjectLocked' /\ \A d \in Clients : ReadStands(d)'
    BY <2>5 DEF SubjectLocked, ReadStands
  <2>7. AccountsMatch'
    BY <2>1, <2>3 DEF AccountsMatch
  <2> QED
    BY <2>4, <2>6, <2>7
<1> QED
  BY <1>2, <1>3 DEF Accounts!Register, Accounts!Login

(* Every step of the accounts keeps the invariant. *)
LEMMA AccountsStep == AccountsInv /\ [Accounts!Next]_accountVars => AccountsInv'
<1> SUFFICES ASSUME AccountsInv, [Accounts!Next]_accountVars
             PROVE  AccountsInv'
  OBVIOUS
<1>1. ASSUME NEW c \in Clients, Accounts!SignIn(c)
      PROVE  AccountsInv'
  <2>1. PICK a \in {"waiting", "401"} : Accounts!Ends(c, a)
    BY <1>1 DEF Accounts!SignIn
  <2>2. UNCHANGED <<provider, users, identities, workspaces, provisionLock>> /\ provider = "supabase"
    BY <1>1 DEF Accounts!SignIn, Accounts!TablesKept, Accounts!TargetsKept
  <2>3. provisionLock' \in [SupabaseUsers -> Clients \cup {NoOne}]
    BY <2>2 DEF AccountsInv, AccountTypes
  <2> QED
    BY <2>1, <2>2, <2>3, EndKeeps
<1>2. ASSUME UNCHANGED <<provider, users, identities, workspaces, provisionLock, clients>>
      PROVE  AccountsInv'
  <2>1. AccountTypes' /\ SubjectLocked'
    BY <1>2 DEF AccountsInv, AccountTypes, SubjectLocked
  <2>2. AccountsMatch'
    BY <1>2 DEF AccountsInv, AccountsMatch
  <2>3. \A c \in Clients : ReadStands(c)'
    BY <1>2 DEF AccountsInv, ReadStands
  <2> QED
    BY <2>1, <2>2, <2>3 DEF AccountsInv
<1>3. ASSUME \/ \E t \in Tokens : Accounts!Logout(t) \/ Accounts!SessionEnds(t)
             \/ Accounts!RegisterTarget \/ Accounts!PublishChallenge
             \/ Accounts!ResolveChallenge \/ Accounts!VerifyTarget
             \/ UNCHANGED accountVars
      PROVE  AccountsInv'
  BY <1>2, <1>3
  DEF Accounts!Logout, Accounts!SessionEnds, Accounts!RegisterTarget, Accounts!PublishChallenge,
      Accounts!ResolveChallenge, Accounts!VerifyTarget, Accounts!AccountsKept,
      Accounts!TablesKept, Accounts!TargetsKept, accountVars
<1> QED
  BY <1>1, <1>3, ReadKeeps, ProvisionKeeps, LocalKeeps DEF Accounts!Next

(* What the accounts start from. *)
LEMMA AccountsStart == Accounts!Init => AccountsInv
<1> SUFFICES ASSUME Accounts!Init
             PROVE  AccountsInv
  OBVIOUS
<1> USE DEF Accounts!Init
<1>1. AccountTypes
  BY DEF AccountTypes, ClientRecord
<1>2. \A c \in Clients : clients[c].pc = "idle"
  OBVIOUS
<1> QED
  BY <1>1, <1>2 DEF AccountsInv, SubjectLocked, AccountsMatch, ReadStands

(* The invariant says what is promised of the workspaces. *)
LEMMA AccountsPromise == AccountsInv => Accounts!OneFirstWorkspace
BY DEF AccountsInv, AccountTypes, AccountsMatch, Accounts!OneFirstWorkspace

(* In every behaviour of the services a user has one first workspace,      *)
(* however many requests sign the user in at once                          *)
(* (ensureIdentityWorkspace and its lock).                                 *)
THEOREM AccountsTheorem == ServicesSpec => []OneFirstWorkspace
<1> DEFINE Inv == subject = "accounts" => AccountsInv
<1>1. ServicesInit => Inv
  BY AccountsStart DEF ServicesInit
<1>2. Inv /\ [ServicesNext /\ UNCHANGED subject]_<<subject, serviceVars>> => Inv'
  <2> SUFFICES ASSUME Inv, [ServicesNext /\ UNCHANGED subject]_<<subject, serviceVars>>,
                      subject' = "accounts"
               PROVE  AccountsInv'
    OBVIOUS
  <2>1. subject = "accounts" /\ [Accounts!Next]_accountVars
    BY DEF ServicesNext, serviceVars
  <2> QED
    BY <2>1, AccountsStep
<1>3. Inv => OneFirstWorkspace
  BY AccountsPromise DEF OneFirstWorkspace
<1> QED
  BY <1>1, <1>2, <1>3, PTL DEF ServicesSpec

-----------------------------------------------------------------------------
(* The studio: the form of reviews.                                        *)

NamedOrNot == Screenshots \cup {NoOne}
Picker     == [chosen : NamedOrNot, fetching : NamedOrNot, fetched : Images!Images \cup {NoOne},
               source : NamedOrNot, upload : Images!Images \cup {NoOne}]
Payload    == [image : Images!Images \cup {NoOne}, source : NamedOrNot,
               reference : Images!Images \cup {NoOne}, referenceSource : NamedOrNot]
Submission == [at : {"idle", "encoding", "encoding reference", "hashing", "sent"},
               image : Images!Images \cup {NoOne}, reference : Images!Images \cup {NoOne},
               source : NamedOrNot, left : [Images!Pickers -> NamedOrNot] \cup {NoOne},
               payload : Payload \cup {NoOne}, to : ReviewProjects \cup {NoOne}]

(* What is sent has the image that the handler fixed. *)
FormTypes ==
    /\ project \in ReviewProjects
    /\ form \in [Images!Pickers -> Picker]
    /\ submission \in Submission
    /\ submission.at \in {"hashing", "sent"} =>
           submission.payload \in Payload /\ submission.payload.image = submission.image

ImagesInv == FormTypes /\ Images!ReviewsNameTheirImages

(* A picker of the form stays one when it is emptied. *)
LEMMA PickerEmptied ==
  /\ \A a \in NamedOrNot : [Images!EmptyPicker EXCEPT !.chosen = a, !.fetching = a] \in Picker
  /\ \A p \in Picker : Images!Cleared(p) \in Picker
  /\ \A p \in Picker, i \in Images!Images \cup {NoOne} :
         [Images!Cleared(p) EXCEPT !.upload = i] \in Picker
  /\ Images!EmptyPicker \in Picker
BY DEF NamedOrNot, Picker, Images!EmptyPicker, Images!Cleared

(* Choosing, fetching and uploading change the form alone. *)
LEMMA PickKeeps ==
  ASSUME ImagesInv,
         \/ \E a \in Screenshots \cup {NoOne} : Images!ChooseCurrent(a) \/ Images!ChooseReference(a)
         \/ \E k \in Images!Pickers : \/ Images!FetchArrives(k) \/ Images!FetchFails(k)
                                      \/ \E i \in Uploads : Images!Upload(k, i)
  PROVE  ImagesInv'
<1>1. UNCHANGED <<project, submission, preview, reviews>>
  BY DEF Images!ChooseCurrent, Images!ChooseReference, Images!FetchArrives, Images!FetchFails,
         Images!Upload
<1>2. ASSUME form' \in [Images!Pickers -> Picker]
      PROVE  ImagesInv'
  BY <1>1, <1>2 DEF ImagesInv, FormTypes, Images!ReviewsNameTheirImages
<1>3. form \in [Images!Pickers -> Picker] /\ Images!Pickers = {"current", "reference"}
  BY DEF ImagesInv, FormTypes, Images!Pickers
<1>4. form.current \in Picker /\ form.reference \in Picker
  BY <1>3
<1>5. ASSUME NEW a \in Screenshots \cup {NoOne}, Images!ChooseCurrent(a)
      PROVE  form' \in [Images!Pickers -> Picker]
  <2>1. form' = [current   |-> [Images!EmptyPicker EXCEPT !.chosen = a, !.fetching = a],
                 reference |-> Images!Cleared(form.reference)]
    BY <1>5 DEF Images!ChooseCurrent
  <2>2. [Images!EmptyPicker EXCEPT !.chosen = a, !.fetching = a] \in Picker
    BY PickerEmptied DEF NamedOrNot
  <2>3. Images!Cleared(form.reference) \in Picker
    BY <1>4, PickerEmptied
  <2> QED
    BY <1>3, <2>1, <2>2, <2>3
<1>6. ASSUME NEW a \in Screenshots \cup {NoOne}, Images!ChooseReference(a)
      PROVE  form' \in [Images!Pickers -> Picker]
  <2>1. [Images!EmptyPicker EXCEPT !.chosen = a, !.fetching = a] \in Picker
    BY PickerEmptied DEF NamedOrNot
  <2> QED
    BY <1>3, <1>6, <2>1 DEF Images!ChooseReference
<1>7. ASSUME NEW k \in Images!Pickers, Images!FetchArrives(k) \/ Images!FetchFails(k)
      PROVE  form' \in [Images!Pickers -> Picker]
  <2>1. form[k] \in Picker
    BY <1>3
  <2>2. ASSUME NEW a \in NamedOrNot, a # NoOne
        PROVE  Images!Image(a) \in Images!Images
    BY <2>2 DEF NamedOrNot, Images!Images
  <2>3. CASE Images!FetchArrives(k)
    <3>1. [form[k] EXCEPT !.fetching = NoOne] \in Picker
      BY <2>1 DEF Picker, NamedOrNot
    <3>2. form[k].fetching \in NamedOrNot /\ form[k].fetching # NoOne
      BY <2>1, <2>3 DEF Picker, Images!FetchArrives
    <3>3. [form[k] EXCEPT !.fetching = NoOne, !.fetched = Images!Image(form[k].fetching),
                          !.source = form[k].fetching] \in Picker
      BY <2>1, <2>2, <3>2 DEF Picker, NamedOrNot
    <3> QED
      BY <1>3, <2>3, <3>1, <3>3 DEF Images!FetchArrives
  <2>4. CASE Images!FetchFails(k)
    <3>1. [form[k] EXCEPT !.fetching = NoOne] \in Picker
      BY <2>1 DEF Picker, NamedOrNot
    <3> QED
      BY <1>3, <2>4, <3>1 DEF Images!FetchFails
  <2> QED
    BY <1>7, <2>3, <2>4
<1>8. ASSUME NEW k \in Images!Pickers, NEW i \in Uploads, Images!Upload(k, i)
      PROVE  form' \in [Images!Pickers -> Picker]
  <2>1. i \in Images!Images
    BY DEF Images!Images
  <2>2. form[k] \in Picker /\ form.reference.upload \in Images!Images \cup {NoOne}
    BY <1>3, <1>4 DEF Picker
  <2> DEFINE kept == IF k = "current" THEN form.reference.upload ELSE i
             c    == [Images!Cleared(form[k]) EXCEPT !.upload = i]
             r    == [Images!Cleared(form.reference) EXCEPT !.upload = kept]
  <2>3. c \in Picker /\ r \in Picker
    BY <1>4, <2>1, <2>2, PickerEmptied
  <2>4. form' = [form EXCEPT ![k] = c, !.reference = r]
    BY <1>8 DEF Images!Upload
  <2> HIDE DEF c, r
  <2> QED
    BY <1>3, <2>3, <2>4
<1> QED
  BY <1>2, <1>5, <1>6, <1>7, <1>8

(* Where the images come from is of the form that was sent. *)
LEMMA NamedTyped == FormTypes => Images!Named \in [Images!Pickers -> NamedOrNot]
BY DEF FormTypes, Images!Named, Images!SourceOf, Submission, Picker, NamedOrNot, Images!Pickers

(* The handler of a submit keeps the invariant up to the answer. *)
LEMMA SubmitKeeps ==
  ASSUME ImagesInv, Images!Submit \/ Images!Encoded \/ Images!EncodedReference \/ Images!Post
  PROVE  ImagesInv'
<1>1. UNCHANGED <<project, form, preview, reviews>> /\ FormTypes
  BY DEF Images!Submit, Images!Encoded, Images!EncodedReference, Images!Post, ImagesInv
<1>2. ASSUME submission' \in Submission,
             submission'.at \in {"hashing", "sent"} =>
                 submission'.payload \in Payload /\ submission'.payload.image = submission'.image
      PROVE  ImagesInv'
  BY <1>1, <1>2 DEF ImagesInv, FormTypes, Images!ReviewsNameTheirImages
<1>3. submission \in Submission
  BY <1>1 DEF FormTypes
<1>4. /\ Images!Named["current"] \in NamedOrNot /\ Images!Named["reference"] \in NamedOrNot
  BY <1>1, NamedTyped DEF Images!Pickers
<1>5. ASSUME Images!Submit
      PROVE  ImagesInv'
  <2>1. /\ Images!Selected(form.current) \in Images!Images \cup {NoOne}
        /\ Images!Selected(form.reference) \in Images!Images \cup {NoOne}
    BY <1>1 DEF FormTypes, Images!Pickers, Picker, Images!Selected
  <2>2. submission' = [Images!NotSent EXCEPT !.at = "encoding",
                          !.image = Images!Selected(form.current),
                          !.reference = Images!Selected(form.reference)]
    BY <1>5 DEF Images!Submit
  <2> QED
    BY <1>2, <2>1, <2>2 DEF Submission, Images!NotSent, NamedOrNot
<1>6. ASSUME NEW source \in NamedOrNot, Images!Hashing(source)
      PROVE  ImagesInv'
  <2> DEFINE p == [image           |-> submission.image,
                   source          |-> source,
                   reference       |-> submission.reference,
                   referenceSource |-> Images!Named.reference]
  <2>1. p \in Payload /\ p.image = submission.image
    BY <1>3, <1>4 DEF Payload, Submission
  <2>2. submission' = [submission EXCEPT !.at = "hashing", !.source = NoOne, !.left = NoOne, !.payload = p]
    BY <1>6 DEF Images!Hashing
  <2> HIDE DEF p
  <2>3. submission' \in Submission
    BY <1>3, <2>1, <2>2 DEF Submission, NamedOrNot
  <2>4. submission'.payload = p /\ submission'.image = submission.image
    BY <1>3, <2>2 DEF Submission
  <2> QED
    BY <1>2, <2>1, <2>3, <2>4
<1>7. ASSUME Images!Encoded \/ Images!EncodedReference
      PROVE  ImagesInv'
  <2>1. submission.source \in NamedOrNot
    BY <1>3 DEF Submission
  <2>2. CASE submission' = [submission EXCEPT !.at = "encoding reference", !.source = Images!Named.current]
    <3>1. submission' \in Submission /\ submission'.at = "encoding reference"
      BY <1>3, <1>4, <2>2 DEF Submission
    <3> QED
      BY <1>2, <3>1
  <2> QED
    BY <1>4, <1>6, <1>7, <2>1, <2>2 DEF Images!Encoded, Images!EncodedReference
<1>8. ASSUME Images!Post
      PROVE  ImagesInv'
  <2>1. submission.at = "hashing" /\ submission' = [submission EXCEPT !.at = "sent", !.to = project]
    BY <1>8 DEF Images!Post
  <2>2. submission' \in Submission
    BY <1>1, <1>3, <2>1 DEF Submission, FormTypes
  <2>3. submission'.payload = submission.payload /\ submission'.image = submission.image
    BY <1>3, <2>1 DEF Submission
  <2> QED
    BY <1>1, <1>2, <2>1, <2>2, <2>3 DEF FormTypes
<1> QED
  BY <1>5, <1>7, <1>8

(* What the route accepts names its images.                                *)
LEMMA AcceptedNames ==
  ASSUME NEW p \in Payload, NEW to, Images!Accepted(p, to)
  PROVE  /\ p.source # NoOne =>
                Images!Image(p.source) = p.image /\ StoredAs[p.source].project = to
         /\ p.referenceSource # NoOne =>
                /\ Images!Image(p.referenceSource) = p.reference
                /\ p.referenceSource \in Images!Baselines(p.source)
BY DEF Images!Accepted, Images!CheckSource, Images!PairHolds, Images!Baselines, Payload, NamedOrNot

(* The answer to a submit keeps the invariant. *)
LEMMA FormAnswerKeeps ==
  ASSUME ImagesInv, Images!Answer \/ Images!Refused
  PROVE  ImagesInv'
<1> DEFINE p == submission.payload
           to == submission.to
<1>1. /\ FormTypes /\ Images!ReviewsNameTheirImages /\ submission.at = "sent"
      /\ p \in Payload /\ p.image = submission.image
  BY DEF ImagesInv, FormTypes, Images!Answer, Images!Refused
<1>2. Images!NotSent \in Submission /\ Images!NotSent.at = "idle"
  BY DEF Images!NotSent, Submission, NamedOrNot
<1>3. ASSUME Images!Refused
      PROVE  ImagesInv'
  <2>1. UNCHANGED <<project, form, preview>> /\ submission' = Images!NotSent /\ reviews \subseteq reviews'
    BY <1>3 DEF Images!Refused
  <2>2. ASSUME NEW r \in reviews', r \notin reviews
        PROVE  r = [project |-> to, payload |-> p] /\ Images!Accepted(p, to)
    BY <1>3, <2>2 DEF Images!Refused
  <2>3. FormTypes'
    BY <1>1, <1>2, <2>1 DEF FormTypes
  <2>4. Images!ReviewsNameTheirImages'
    <3>1. ASSUME NEW r \in reviews'
          PROVE  /\ r.payload.source # NoOne =>
                        /\ Images!Image(r.payload.source) = r.payload.image
                        /\ StoredAs[r.payload.source].project = r.project
                 /\ r.payload.referenceSource # NoOne =>
                        /\ Images!Image(r.payload.referenceSource) = r.payload.reference
                        /\ r.payload.referenceSource \in Images!Baselines(r.payload.source)
      <4>1. CASE r \in reviews
        BY <1>1, <4>1 DEF Images!ReviewsNameTheirImages
      <4>2. CASE r \notin reviews
        BY <1>1, <2>2, <4>2, AcceptedNames
      <4> QED
        BY <4>1, <4>2
    <3> QED
      BY <1>1, <2>1, <3>1 DEF Images!ReviewsNameTheirImages
  <2> QED
    BY <2>3, <2>4 DEF ImagesInv
<1>4. ASSUME Images!Answer
      PROVE  ImagesInv'
  <2>1. /\ Images!Accepted(p, to) /\ UNCHANGED project
        /\ \E r : /\ r = [project |-> to, payload |-> p] \/ (r \in reviews /\ r.payload = p)
                  /\ Images!Recorded(r)
    BY <1>4 DEF Images!Answer, Images!SameKey
  <2>2. PICK r : /\ r = [project |-> to, payload |-> p] \/ (r \in reviews /\ r.payload = p)
                 /\ Images!Recorded(r)
    BY <2>1
  <2>3. /\ reviews' = reviews \cup {r} /\ preview' = [review |-> r, image |-> submission.image]
        /\ form' = [k \in Images!Pickers |-> Images!Cleared(form[k])]
        /\ submission' = Images!NotSent
    BY <2>2 DEF Images!Recorded, Images!OverlayImage, Images!ShownImage
  <2>4. form' \in [Images!Pickers -> Picker]
    BY <1>1, <2>3, PickerEmptied DEF FormTypes
  <2>5. FormTypes'
    BY <1>1, <1>2, <2>1, <2>3, <2>4 DEF FormTypes
  <2>6. r.payload = p
    BY <2>2
  <2>7. preview'.review \in reviews' /\ preview'.review.payload.image = preview'.image
    BY <1>1, <2>3, <2>6
  <2>8. ASSUME NEW q \in reviews'
        PROVE  /\ q.payload.source # NoOne =>
                      /\ Images!Image(q.payload.source) = q.payload.image
                      /\ StoredAs[q.payload.source].project = q.project
               /\ q.payload.referenceSource # NoOne =>
                      /\ Images!Image(q.payload.referenceSource) = q.payload.reference
                      /\ q.payload.referenceSource \in Images!Baselines(q.payload.source)
    <3>1. CASE q \in reviews
      BY <1>1, <3>1 DEF Images!ReviewsNameTheirImages
    <3>2. CASE q = [project |-> to, payload |-> p]
      BY <1>1, <2>1, <3>2, AcceptedNames
    <3> QED
      BY <2>2, <2>3, <3>1, <3>2
  <2> QED
    BY <2>5, <2>7, <2>8 DEF ImagesInv, Images!ReviewsNameTheirImages
<1> QED
  BY <1>3, <1>4

(* Every step of the form keeps the invariant. *)
LEMMA ImagesStep == ImagesInv /\ [Images!Next]_imageVars => ImagesInv'
<1> SUFFICES ASSUME ImagesInv, [Images!Next]_imageVars
             PROVE  ImagesInv'
  OBVIOUS
<1>1. ASSUME NEW p \in ReviewProjects, Images!DrawProject(p)
      PROVE  ImagesInv'
  <2> USE <1>1 DEF ImagesInv, Images!DrawProject
  <2>1. submission' \in Submission /\ submission'.at = submission.at
        /\ submission'.payload = submission.payload /\ submission'.image = submission.image
    <3>1. Images!Named \in [Images!Pickers -> NamedOrNot]
      BY NamedTyped
    <3> QED
      BY <3>1 DEF FormTypes, Submission
  <2>2. form' \in [Images!Pickers -> Picker]
    BY PickerEmptied
  <2>3. FormTypes'
    BY <2>1, <2>2 DEF FormTypes
  <2> QED
    BY <2>3 DEF Images!ReviewsNameTheirImages
<1>2. ASSUME Images!ClearPreview
      PROVE  ImagesInv'
  BY <1>2 DEF ImagesInv, Images!ClearPreview, FormTypes, Images!ReviewsNameTheirImages
<1>3. ASSUME UNCHANGED imageVars
      PROVE  ImagesInv'
  BY <1>3 DEF ImagesInv, imageVars, FormTypes, Images!ReviewsNameTheirImages
<1> QED
  BY <1>1, <1>2, <1>3, PickKeeps, SubmitKeeps, FormAnswerKeeps DEF Images!Next

(* What the form starts from. *)
LEMMA ImagesStart == Images!Init => ImagesInv
<1> SUFFICES ASSUME Images!Init
             PROVE  ImagesInv
  OBVIOUS
<1>1. Images!NotSent \in Submission /\ Images!NotSent.at = "idle"
  BY DEF Images!NotSent, Submission, NamedOrNot
<1>2. FormTypes
  BY <1>1, PickerEmptied DEF Images!Init, FormTypes
<1>3. Images!ReviewsNameTheirImages
  BY DEF Images!Init, Images!ReviewsNameTheirImages
<1> QED
  BY <1>2, <1>3 DEF ImagesInv

-----------------------------------------------------------------------------
(* The studio: the page.                                                   *)

(* Whatever opens a project on the page opens the one the user wished. *)
LEMMA PageStep == Page!NothingReopens /\ [Page!Next]_studioVars => Page!NothingReopens'
<1> SUFFICES ASSUME Page!NothingReopens, [Page!Next]_studioVars
             PROVE  selected' = wished'
  BY DEF Page!NothingReopens
<1> USE DEF Page!NothingReopens
<1>1. ASSUME NEW p \in StudioProjects, Page!Open(p) \/ Page!ProjectCreated(p)
      PROVE  selected' = wished'
  BY <1>1 DEF Page!Open, Page!ProjectCreated, Page!StartLoad
<1>2. ASSUME NEW o \in Organizations, Page!ChangeOrganization(o) \/ Page!Login(o)
      PROVE  selected' = wished'
  BY <1>2 DEF Page!ChangeOrganization, Page!Login
<1>3. ASSUME NEW l \in Loads, Page!DataArrives(l) \/ Page!ListArrives(l) \/ Page!LoadFails(l)
      PROVE  selected' = wished'
  BY <1>3 DEF Page!DataArrives, Page!ListArrives, Page!LoadFails
<1>4. CASE \/ Page!Reload \/ Page!SwitchEnds \/ Page!Logout \/ Page!SubmitProject
           \/ Page!ProjectRefused
  BY <1>4 DEF Page!Reload, Page!SwitchEnds, Page!Logout, Page!SubmitProject,
              Page!ProjectRefused, Page!StartLoad
<1>5. CASE Page!TimerFires
  BY <1>5 DEF Page!TimerFires, Page!StartLoad
<1>6. CASE UNCHANGED studioVars
  BY <1>6 DEF studioVars
<1> QED
  BY <1>1, <1>2, <1>3, <1>4, <1>5, <1>6 DEF Page!Next

-----------------------------------------------------------------------------
(* The studio: the card of a target.                                       *)

PressOrNot == [key : 1..MaxKeys \cup {NoOne}, here : BOOLEAN]

(* A key is drawn when there is none, and goes with an answer; so there is *)
(* never more than one that no answer went with.                           *)
KeysAnswered ==
    /\ drawnKeys \in 0..MaxKeys /\ runsAnswered \in 0..MaxKeys
    /\ storedKey \in 1..drawnKeys \cup {NoOne}
    /\ presses \in [Handlers -> PressOrNot]
    /\ \A h \in Handlers : presses[h] # Card!Idle => presses[h].key \in 1..drawnKeys
    /\ queued \subseteq 1..drawnKeys
    /\ drawnKeys <= IF storedKey = NoOne THEN runsAnswered ELSE runsAnswered + 1

(* What the form shows as validated has passed. *)
SnapshotPassed ==
    /\ snapshot # NoOne => snapshot \in passed
    /\ registered \subseteq passed

CardInv == KeysAnswered /\ SnapshotPassed

(* The button keeps the count of its keys. *)
LEMMA ButtonKeeps ==
  ASSUME KeysAnswered, NEW h \in Handlers, Card!Press(h) \/ Card!RunAnswered(h) \/ Card!RunFails(h)
  PROVE  KeysAnswered'
<1>1. /\ drawnKeys \in 0..MaxKeys /\ runsAnswered \in 0..MaxKeys /\ MaxKeys \in Nat
      /\ storedKey \in 1..drawnKeys \cup {NoOne} /\ NoOne \notin Nat
      /\ presses \in [Handlers -> PressOrNot] /\ queued \subseteq 1..drawnKeys
      /\ drawnKeys <= IF storedKey = NoOne THEN runsAnswered ELSE runsAnswered + 1
  BY CardAssumption DEF KeysAnswered
<1>2. Card!Idle \in PressOrNot
  BY DEF Card!Idle, PressOrNot
<1>3. CASE Card!Press(h)
  <2> DEFINE key == IF storedKey = NoOne THEN drawnKeys + 1 ELSE storedKey
  <2>1. /\ key <= MaxKeys /\ storedKey' = key
        /\ drawnKeys' = IF storedKey = NoOne THEN key ELSE drawnKeys
        /\ presses' = [presses EXCEPT ![h] = [key |-> key, here |-> TRUE]]
        /\ UNCHANGED <<queued, runsAnswered>>
    BY <1>3 DEF Card!Press
  <2>2. /\ key \in 1..MaxKeys /\ key \in 1..drawnKeys'
        /\ drawnKeys' \in 0..MaxKeys /\ 1..drawnKeys \subseteq 1..drawnKeys'
        /\ drawnKeys' <= runsAnswered + 1 /\ key # NoOne
    BY <1>1, <2>1
  <2> HIDE DEF key
  <2>3. [key |-> key, here |-> TRUE] \in PressOrNot
    BY <2>2 DEF PressOrNot
  <2>4. presses' \in [Handlers -> PressOrNot]
    BY <1>1, <2>1, <2>3
  <2>5. \A g \in Handlers : presses'[g] # Card!Idle => presses'[g].key \in 1..drawnKeys'
    BY <1>1, <2>1, <2>2 DEF KeysAnswered
  <2>6. /\ drawnKeys' \in 0..MaxKeys /\ runsAnswered' \in 0..MaxKeys
        /\ storedKey' \in 1..drawnKeys' \cup {NoOne} /\ queued' \subseteq 1..drawnKeys'
        /\ drawnKeys' <= IF storedKey' = NoOne THEN runsAnswered' ELSE runsAnswered' + 1
    BY <1>1, <2>1, <2>2
  <2>7. Card!Idle' = Card!Idle
    BY DEF Card!Idle
  <2> QED
    BY <2>4, <2>5, <2>6, <2>7 DEF KeysAnswered
<1>4. CASE Card!RunAnswered(h) \/ Card!RunFails(h)
  <2>1. presses[h].key \in 1..drawnKeys
    BY <1>4 DEF KeysAnswered, Card!RunAnswered, Card!RunFails
  <2>2. /\ presses' = [presses EXCEPT ![h] = Card!Idle] /\ drawnKeys' = drawnKeys
        /\ queued' = queued \/ queued' = queued \cup {presses[h].key}
    BY <1>4 DEF Card!RunAnswered, Card!RunFails
  <2>3. /\ presses' \in [Handlers -> PressOrNot] /\ queued' \subseteq 1..drawnKeys'
        /\ \A g \in Handlers : presses'[g] # Card!Idle => presses'[g].key \in 1..drawnKeys'
    BY <1>1, <1>2, <2>1, <2>2 DEF KeysAnswered
  <2>4. \/ storedKey' = storedKey /\ runsAnswered' = runsAnswered
        \/ /\ storedKey' = NoOne
           /\ runsAnswered' = IF runsAnswered < MaxKeys THEN runsAnswered + 1 ELSE runsAnswered
    BY <1>4 DEF Card!RunAnswered, Card!RunFails
  <2>5. /\ drawnKeys' \in 0..MaxKeys /\ runsAnswered' \in 0..MaxKeys
        /\ storedKey' \in 1..drawnKeys' \cup {NoOne}
        /\ drawnKeys' <= IF storedKey' = NoOne THEN runsAnswered' ELSE runsAnswered' + 1
    BY <1>1, <2>2, <2>4
  <2>6. Card!Idle' = Card!Idle
    BY DEF Card!Idle
  <2> QED
    BY <2>3, <2>5, <2>6 DEF KeysAnswered
<1> QED
  BY <1>3, <1>4

(* Every step of the card keeps the invariant. *)
LEMMA CardStep == CardInv /\ [Card!Next]_cardVars => CardInv'
<1> SUFFICES ASSUME CardInv, [Card!Next]_cardVars
             PROVE  CardInv'
  OBVIOUS
<1>1. KeysAnswered /\ SnapshotPassed
  BY DEF CardInv
<1>2. ASSUME NEW h \in Handlers, Card!Press(h) \/ Card!RunAnswered(h) \/ Card!RunFails(h)
      PROVE  CardInv'
  <2>1. UNCHANGED <<snapshot, passed, registered>>
    BY <1>2 DEF Card!Press, Card!RunAnswered, Card!RunFails, Card!formVars
  <2> QED
    BY <1>1, <1>2, <2>1, ButtonKeeps DEF CardInv, SnapshotPassed
<1>3. ASSUME UNCHANGED <<drawnKeys, storedKey, presses, queued, runsAnswered>>
      PROVE  KeysAnswered'
  BY <1>1, <1>3 DEF KeysAnswered, Card!Idle
<1>4. ASSUME NEW c \in Contracts, Card!Edit(c)
      PROVE  CardInv'
  BY <1>1, <1>3, <1>4 DEF CardInv, SnapshotPassed, Card!Edit, Card!runVars
<1>5. CASE Card!Validate \/ Card!ValidationFails \/ Card!Register
  BY <1>1, <1>3, <1>5 DEF CardInv, SnapshotPassed, Card!Validate, Card!ValidationFails,
                          Card!Register, Card!runVars
<1>6. CASE Card!Validated
  BY <1>1, <1>3, <1>6 DEF CardInv, SnapshotPassed, Card!Validated, Card!runVars
<1>7. ASSUME NEW c \in Contracts, Card!Redraw(c)
      PROVE  CardInv'
  <2>1. /\ presses' = [h \in Handlers |-> [presses[h] EXCEPT !.here = FALSE]]
        /\ UNCHANGED <<drawnKeys, storedKey, queued, runsAnswered, passed, registered>>
        /\ snapshot' = NoOne
    BY <1>7 DEF Card!Redraw
  <2>2. \A p \in PressOrNot : /\ [p EXCEPT !.here = FALSE] \in PressOrNot
                              /\ [p EXCEPT !.here = FALSE].key = p.key
                              /\ p = Card!Idle => [p EXCEPT !.here = FALSE] = Card!Idle
    <3>1. ASSUME NEW p \in PressOrNot
          PROVE  /\ [p EXCEPT !.here = FALSE] \in PressOrNot
                 /\ [p EXCEPT !.here = FALSE].key = p.key
      BY DEF PressOrNot
    <3>2. ASSUME NEW p \in PressOrNot
          PROVE  [p EXCEPT !.here = FALSE].here = FALSE
      BY DEF PressOrNot
    <3>3. ASSUME NEW p \in PressOrNot, p.key = NoOne, p.here = FALSE
          PROVE  p = Card!Idle
      BY <3>3 DEF PressOrNot, Card!Idle
    <3>4. Card!Idle.key = NoOne
      BY DEF Card!Idle
    <3> HIDE DEF PressOrNot
    <3>5. ASSUME NEW p \in PressOrNot, p = Card!Idle
          PROVE  [p EXCEPT !.here = FALSE] = Card!Idle
      <4> DEFINE q == [p EXCEPT !.here = FALSE]
      <4>1. q \in PressOrNot /\ q.key = NoOne /\ q.here = FALSE
        BY <3>1, <3>2, <3>4, <3>5
      <4> HIDE DEF q
      <4> QED
        BY <3>3, <4>1 DEF q
    <3> QED
      BY <3>1, <3>5
  <2>3. /\ presses' \in [Handlers -> PressOrNot]
        /\ \A h \in Handlers : presses'[h] # Card!Idle => presses'[h].key \in 1..drawnKeys
    BY <1>1, <2>1, <2>2 DEF KeysAnswered
  <2>4. Card!Idle' = Card!Idle
    BY DEF Card!Idle
  <2>5. KeysAnswered'
    BY <1>1, <2>1, <2>3, <2>4 DEF KeysAnswered
  <2> QED
    BY <1>1, <2>1, <2>5 DEF CardInv, SnapshotPassed
<1>8. CASE UNCHANGED cardVars
  BY <1>1, <1>3, <1>8 DEF CardInv, SnapshotPassed, cardVars
<1> QED
  BY <1>2, <1>4, <1>5, <1>6, <1>7, <1>8 DEF Card!Next

(* What the card starts from. *)
LEMMA CardStart == Card!Init => CardInv
BY CardAssumption
DEF Card!Init, CardInv, KeysAnswered, SnapshotPassed, Card!Idle, PressOrNot

(* The runs that were queued are at most one more than the answers. *)
LEMMA CardPromise == CardInv => Card!RunsAnswered /\ Card!RegisteredAsValidated
<1> SUFFICES ASSUME CardInv
             PROVE  Card!RunsAnswered /\ Card!RegisteredAsValidated
  OBVIOUS
<1>1. /\ drawnKeys \in Nat /\ runsAnswered \in Nat /\ queued \subseteq 1..drawnKeys
      /\ drawnKeys <= runsAnswered + 1
  BY CardAssumption DEF CardInv, KeysAnswered
<1>2. IsFiniteSet(1..drawnKeys) /\ Cardinality(1..drawnKeys) = drawnKeys
  <2>1. 1 \in Int /\ drawnKeys \in Int
    BY <1>1
  <2> QED
    BY <1>1, <2>1, FS_Interval
<1>3. /\ IsFiniteSet(queued) /\ Cardinality(queued) <= Cardinality(1..drawnKeys)
      /\ Cardinality(queued) \in Nat
  BY <1>1, <1>2, FS_Subset, FS_CardinalityType
<1>4. Card!Cardinality(queued) = Cardinality(queued)
  BY DEF Card!Cardinality, Cardinality, Card!IsFiniteSet, IsFiniteSet
<1>5. Card!RunsAnswered
  BY <1>1, <1>2, <1>3, <1>4 DEF Card!RunsAnswered
<1> QED
  BY <1>5 DEF CardInv, SnapshotPassed, Card!RegisteredAsValidated

(* In every behaviour of the services the studio (app.js) sends and shows  *)
(* what the user chose: a review has the bytes of the screenshot it names, *)
(* no late answer or timer opens a project again, and no press that was    *)
(* answered is queued twice.                                               *)
THEOREM StudioTheorem == ServicesSpec => []StudioSendsWhatWasChosen
<1> DEFINE Inv == /\ subject = "images" => ImagesInv
                  /\ subject = "page"   => Page!NothingReopens
                  /\ subject = "card"   => CardInv
<1>1. ServicesInit => Inv
  <2>1. Page!Init => Page!NothingReopens
    BY DEF Page!Init, Page!NothingReopens
  <2> QED
    BY <2>1, ImagesStart, CardStart DEF ServicesInit
<1>2. Inv /\ [ServicesNext /\ UNCHANGED subject]_<<subject, serviceVars>> => Inv'
  <2> SUFFICES ASSUME Inv, [ServicesNext /\ UNCHANGED subject]_<<subject, serviceVars>>
               PROVE  Inv'
    OBVIOUS
  <2>1. /\ UNCHANGED subject
        /\ subject = "images" => [Images!Next]_imageVars
        /\ subject = "page"   => [Page!Next]_studioVars
        /\ subject = "card"   => [Card!Next]_cardVars
    BY DEF ServicesNext, serviceVars
  <2> QED
    BY <2>1, ImagesStep, PageStep, CardStep
<1>3. Inv => StudioSendsWhatWasChosen
  BY CardPromise DEF StudioSendsWhatWasChosen, ImagesInv
<1> QED
  BY <1>1, <1>2, <1>3, PTL DEF ServicesSpec

-----------------------------------------------------------------------------
(* The types.  The invariants of links and reviews have them.              *)

(* The links keep their types in their invariant. *)
LEMMA SharesTyped == SharesInv => Shares!TypeOK
BY DEF SharesInv

(* The callers, promises and records of reviews have their types. *)
LEMMA ReviewsTyped == ReviewInv => Reviews!TypeOK
BY DEF ReviewInv, CallersTyped, TablesTyped, Reviews!TypeOK

-----------------------------------------------------------------------------
(* Accounts: the sessions and the target.                                  *)

SessionRecord == [user : Emails \cup {NoOne}, over : BOOLEAN]

TokensTyped ==
    /\ sessions \in [Tokens -> SessionRecord]
    /\ target \in [state : {"absent", "registered", "verified"}, published : BOOLEAN,
                   shown : BOOLEAN, verifying : BOOLEAN]

(* The invariant has the types of the rest. *)
LEMMA AccountsTyped == AccountsInv /\ TokensTyped => Accounts!TypeOK
BY DEF AccountsInv, AccountTypes, ClientRecord, SessionRecord, TokensTyped, Accounts!TypeOK

(* No session and no target at first. *)
LEMMA TokensStart == Accounts!Init => TokensTyped
BY DEF Accounts!Init, Accounts!NoSession, TokensTyped, SessionRecord

(* A session is made of a user, and ends; a target only moves on. *)
LEMMA TokensStep == AccountsInv /\ TokensTyped /\ [Accounts!Next]_accountVars => TokensTyped'
<1> SUFFICES ASSUME AccountsInv, TokensTyped, [Accounts!Next]_accountVars
             PROVE  TokensTyped'
  OBVIOUS
<1>1. /\ Accounts!NoSession \in SessionRecord
      /\ \A s \in SessionRecord : [s EXCEPT !.over = TRUE] \in SessionRecord
      /\ \A s \in SessionRecord, u \in Emails : [s EXCEPT !.user = u] \in SessionRecord
  BY DEF Accounts!NoSession, SessionRecord
<1>2. \A c \in Clients : clients[c].email \in Emails
  BY DEF AccountsInv, AccountTypes, ClientRecord
<1>3. ASSUME NEW c \in Clients, NEW t \in Tokens, Accounts!Register(c, t)
      PROVE  TokensTyped'
  <2>1. UNCHANGED target
    BY <1>3 DEF Accounts!Register, Accounts!TargetsKept
  <2>2. \/ UNCHANGED sessions
        \/ sessions' = [sessions EXCEPT ![t] = [sessions[t] EXCEPT !.user = clients[c].email]]
    BY <1>3 DEF Accounts!Register
  <2>3. [sessions[t] EXCEPT !.user = clients[c].email] \in SessionRecord
    BY <1>1, <1>2 DEF TokensTyped
  <2> QED
    BY <2>1, <2>2, <2>3 DEF TokensTyped
<1>4. ASSUME NEW c \in Clients, NEW t \in Tokens, Accounts!Login(c, t)
      PROVE  TokensTyped'
  <2> DEFINE kept == [x \in Tokens |-> IF sessions[x].over THEN Accounts!NoSession ELSE sessions[x]]
  <2>1. kept \in [Tokens -> SessionRecord]
    BY <1>1 DEF TokensTyped
  <2>2. UNCHANGED target
    BY <1>4 DEF Accounts!Login, Accounts!TargetsKept
  <2>3. \/ UNCHANGED sessions
        \/ sessions' = [kept EXCEPT ![t] = [kept[t] EXCEPT !.user = clients[c].email]]
    BY <1>4 DEF Accounts!Login
  <2> HIDE DEF kept
  <2>4. [kept[t] EXCEPT !.user = clients[c].email] \in SessionRecord
    BY <1>1, <1>2, <2>1
  <2> QED
    BY <2>1, <2>2, <2>3, <2>4 DEF TokensTyped
<1>5. ASSUME NEW t \in Tokens, Accounts!Logout(t) \/ Accounts!SessionEnds(t)
      PROVE  TokensTyped'
  <2>1. UNCHANGED target
    BY <1>5 DEF Accounts!Logout, Accounts!SessionEnds, Accounts!TargetsKept
  <2>2. \/ sessions' = [sessions EXCEPT ![t] = Accounts!NoSession]
        \/ sessions' = [sessions EXCEPT ![t] = [sessions[t] EXCEPT !.over = TRUE]]
    BY <1>5 DEF Accounts!Logout, Accounts!SessionEnds
  <2>3. [sessions[t] EXCEPT !.over = TRUE] \in SessionRecord
    BY <1>1 DEF TokensTyped
  <2> QED
    BY <1>1, <2>1, <2>2, <2>3 DEF TokensTyped
<1>6. ASSUME NEW c \in Clients,
             \/ Accounts!SignIn(c) \/ Accounts!LockSubject(c)
             \/ Accounts!ReadAccount(c) \/ Accounts!Provision(c)
      PROVE  TokensTyped'
  <2>1. UNCHANGED <<sessions, target>>
    BY <1>6 DEF Accounts!SignIn, Accounts!LockSubject, Accounts!ReadAccount, Accounts!Provision,
                Accounts!TargetsKept
  <2> QED
    BY <2>1 DEF TokensTyped
<1>7. ASSUME \/ Accounts!RegisterTarget \/ Accounts!PublishChallenge
             \/ Accounts!ResolveChallenge \/ Accounts!VerifyTarget
      PROVE  TokensTyped'
  BY <1>7 DEF Accounts!RegisterTarget, Accounts!PublishChallenge, Accounts!ResolveChallenge,
              Accounts!VerifyTarget, Accounts!AccountsKept, TokensTyped
<1>8. CASE UNCHANGED accountVars
  BY <1>8 DEF accountVars, TokensTyped
<1> QED
  BY <1>3, <1>4, <1>5, <1>6, <1>7, <1>8 DEF Accounts!Next

-----------------------------------------------------------------------------
(* The form of reviews: the bound of what is recorded.                     *)

ReviewsCounted == IsFiniteSet(reviews) /\ Cardinality(reviews) <= MaxReviews

(* The invariant has the types of the rest. *)
LEMMA ImagesTyped == ImagesInv /\ ReviewsCounted => Images!TypeOK
<1> SUFFICES ASSUME ImagesInv, ReviewsCounted
             PROVE  Images!TypeOK
  OBVIOUS
<1>1. \A k \in Images!Pickers : form[k] \in Picker
  BY DEF ImagesInv, FormTypes
<1>2. \A p \in Picker : /\ {p.chosen, p.fetching, p.source} \subseteq NamedOrNot
                        /\ {p.fetched, p.upload} \subseteq Images!Images \cup {NoOne}
  BY DEF Picker
<1>3. submission.at \in {"idle", "encoding", "encoding reference", "hashing", "sent"}
  BY DEF ImagesInv, FormTypes, Submission
<1>4. Images!Cardinality(reviews) = Cardinality(reviews)
  BY DEF Images!Cardinality, Cardinality, Images!IsFiniteSet, IsFiniteSet
<1> QED
  BY <1>1, <1>2, <1>3, <1>4 DEF ImagesInv, FormTypes, ReviewsCounted, NamedOrNot, Images!TypeOK

(* Nothing is recorded at first. *)
LEMMA ReviewsStart == Images!Init => ReviewsCounted
BY FormAssumption, FS_EmptySet DEF Images!Init, ReviewsCounted

(* A review is recorded where there is room for it. *)
LEMMA ReviewsStep == ReviewsCounted /\ [Images!Next]_imageVars => ReviewsCounted'
<1> SUFFICES ASSUME ReviewsCounted, [Images!Next]_imageVars
             PROVE  ReviewsCounted'
  OBVIOUS
<1>1. Images!Cardinality(reviews) = Cardinality(reviews)
  BY DEF Images!Cardinality, Cardinality, Images!IsFiniteSet, IsFiniteSet
<1>2. ASSUME NEW r, Cardinality(reviews) < MaxReviews, reviews' = reviews \cup {r}
      PROVE  ReviewsCounted'
  <2>1. IsFiniteSet(reviews)
    BY DEF ReviewsCounted
  <2>2. /\ IsFiniteSet(reviews \cup {r})
        /\ Cardinality(reviews \cup {r}) = IF r \in reviews THEN Cardinality(reviews)
                                           ELSE Cardinality(reviews) + 1
    BY <2>1, FS_AddElement
  <2>3. Cardinality(reviews) \in Nat
    BY <2>1, FS_CardinalityType
  <2>4. Cardinality(reviews \cup {r}) <= MaxReviews
    BY <1>2, <2>2, <2>3, FormAssumption
  <2> QED
    BY <1>2, <2>2, <2>4 DEF ReviewsCounted
<1>3. CASE UNCHANGED reviews
  BY <1>3 DEF ReviewsCounted
<1>4. CASE Images!Answer
  <2>1. \E r : /\ reviews' = reviews \cup {r}
               /\ Cardinality(reviews) < MaxReviews \/ r \in reviews
    BY <1>1, <1>4 DEF Images!Answer, Images!Recorded, Images!SameKey
  <2> QED
    BY <1>2, <1>3, <2>1
<1>5. CASE Images!Refused
  <2>1. UNCHANGED reviews \/ \E r : Cardinality(reviews) < MaxReviews /\ reviews' = reviews \cup {r}
    BY <1>1, <1>5 DEF Images!Refused
  <2> QED
    BY <1>2, <1>3, <2>1
<1>6. ASSUME NEW a, Images!ChooseCurrent(a) \/ Images!ChooseReference(a)
      PROVE  UNCHANGED reviews
  BY <1>6 DEF Images!ChooseCurrent, Images!ChooseReference
<1>7. ASSUME NEW k, NEW i, Images!FetchArrives(k) \/ Images!FetchFails(k) \/ Images!Upload(k, i)
      PROVE  UNCHANGED reviews
  BY <1>7 DEF Images!FetchArrives, Images!FetchFails, Images!Upload
<1>8. ASSUME NEW p, Images!DrawProject(p)
      PROVE  UNCHANGED reviews
  BY <1>8 DEF Images!DrawProject
<1>9. ASSUME \/ Images!Submit \/ Images!Encoded \/ Images!EncodedReference \/ Images!Post
             \/ Images!ClearPreview \/ UNCHANGED imageVars
      PROVE  UNCHANGED reviews
  BY <1>9 DEF Images!Submit, Images!Encoded, Images!EncodedReference, Images!Post,
              Images!ClearPreview, imageVars
<1> QED
  BY <1>3, <1>4, <1>5, <1>6, <1>7, <1>8, <1>9 DEF Images!Next

-----------------------------------------------------------------------------
(* The page: what its handlers wait for.                                   *)

LoadRecord == [at : {"idle", "data", "list"}, project : StudioProjects \cup {NoOne},
               org : Organizations \cup {NoOne}]

PageInv == Page!TypeOK /\ loads \in [Loads -> LoadRecord]

(* No handler waits at first. *)
LEMMA PageStart == Page!Init => PageInv
<1> SUFFICES ASSUME Page!Init
             PROVE  PageInv
  OBVIOUS
<1>1. Page!NoLoad \in LoadRecord /\ Page!NoLoad.at = "idle"
  BY DEF Page!NoLoad, LoadRecord
<1> QED
  BY <1>1 DEF Page!Init, Page!TypeOK, PageInv

(* Opening a project leaves the page with handlers of its kind. *)
LEMMA OpensTyped ==
  ASSUME PageInv, NEW p \in StudioProjects \cup {NoOne}, Page!StartLoad(p)
  PROVE  selected' = p /\ loads' \in [Loads -> LoadRecord]
<1>1. [at |-> "data", project |-> p, org |-> org] \in LoadRecord
  BY DEF PageInv, Page!TypeOK, LoadRecord
<1> QED
  BY <1>1 DEF PageInv, Page!StartLoad, Page!Loading

(* Every handler of the page keeps the types. *)
LEMMA PageTyped == PageInv /\ [Page!Next]_studioVars => PageInv'
<1> SUFFICES ASSUME PageInv, [Page!Next]_studioVars
             PROVE  PageInv'
  OBVIOUS
<1> DEFINE Anywhere == StudioProjects \cup {NoOne}
<1>1. /\ org \in Organizations \cup {NoOne} /\ switch \in BOOLEAN /\ creating \in BOOLEAN
      /\ selected \in Anywhere /\ wished \in Anywhere /\ shown \in Anywhere /\ timer \in Anywhere
      /\ loads \in [Loads -> LoadRecord]
  BY DEF PageInv, Page!TypeOK
<1>2. \A l \in Loads : loads[l].project \in Anywhere
  BY <1>1 DEF LoadRecord
<1>3. ASSUME /\ org' \in Organizations \cup {NoOne} /\ switch' \in BOOLEAN /\ creating' \in BOOLEAN
             /\ selected' \in Anywhere /\ wished' \in Anywhere /\ shown' \in Anywhere
             /\ timer' \in Anywhere /\ loads' \in [Loads -> LoadRecord]
      PROVE  PageInv'
  <2>1. \A l \in Loads : loads'[l].at \in {"idle", "data", "list"}
    BY <1>3 DEF LoadRecord
  <2> QED
    BY <1>3, <2>1 DEF PageInv, Page!TypeOK
<1>4. ASSUME NEW p \in StudioProjects, Page!Open(p) \/ Page!ProjectCreated(p)
      PROVE  PageInv'
  <2>1. Page!StartLoad(p) /\ wished' = p /\ creating' \in BOOLEAN
        /\ UNCHANGED <<org, shown, switch, timer>>
    BY <1>1, <1>4 DEF Page!Open, Page!ProjectCreated
  <2>2. selected' = p /\ loads' \in [Loads -> LoadRecord]
    BY <2>1, OpensTyped
  <2> QED
    BY <1>1, <1>3, <2>1, <2>2
<1>5. ASSUME NEW o \in Organizations, Page!ChangeOrganization(o) \/ Page!Login(o)
      PROVE  PageInv'
  BY <1>1, <1>3, <1>5 DEF Page!ChangeOrganization, Page!Login
<1>6. ASSUME NEW l \in Loads, Page!DataArrives(l) \/ Page!ListArrives(l) \/ Page!LoadFails(l)
      PROVE  PageInv'
  <2>1. Page!NoLoad \in LoadRecord /\ [loads[l] EXCEPT !.at = "list", !.org = NoOne] \in LoadRecord
    BY <1>1 DEF Page!NoLoad, LoadRecord
  <2>2. loads' \in [Loads -> LoadRecord]
    BY <1>1, <1>6, <2>1 DEF Page!DataArrives, Page!ListArrives, Page!LoadFails
  <2> QED
    BY <1>1, <1>2, <1>3, <1>6, <2>2 DEF Page!DataArrives, Page!ListArrives, Page!LoadFails
<1>7. CASE Page!Reload
  BY <1>1, <1>3, <1>7, OpensTyped DEF Page!Reload
<1>8. CASE Page!SwitchEnds \/ Page!Logout \/ Page!SubmitProject \/ Page!ProjectRefused
  BY <1>1, <1>3, <1>8 DEF Page!SwitchEnds, Page!Logout, Page!SubmitProject, Page!ProjectRefused
<1>9. CASE Page!TimerFires
  BY <1>1, <1>3, <1>9, OpensTyped DEF Page!TimerFires
<1>10. CASE UNCHANGED studioVars
  BY <1>1, <1>3, <1>10 DEF studioVars
<1> QED
  BY <1>4, <1>5, <1>6, <1>7, <1>8, <1>9, <1>10 DEF Page!Next

-----------------------------------------------------------------------------
(* The card: what its form says and checks.                                *)

ContractsTyped ==
    /\ contract \in Contracts /\ snapshot \in Contracts \cup {NoOne}
    /\ checking = NoOne \/ checking \in [contract : Contracts, here : BOOLEAN]
    /\ registered \subseteq Contracts

(* The invariant has the types of the rest. *)
LEMMA CardTyped == CardInv /\ ContractsTyped => Card!TypeOK
BY CardAssumption DEF CardInv, KeysAnswered, ContractsTyped, Card!TypeOK

(* The form shows a contract at first. *)
LEMMA ContractsStart == Card!Init => ContractsTyped
BY DEF Card!Init, ContractsTyped

(* What is snapshot, checked and registered is what the form said. *)
LEMMA ContractsStep == ContractsTyped /\ [Card!Next]_cardVars => ContractsTyped'
<1> SUFFICES ASSUME ContractsTyped, [Card!Next]_cardVars
             PROVE  ContractsTyped'
  OBVIOUS
<1> USE DEF ContractsTyped
<1>1. ASSUME NEW h \in Handlers, Card!Press(h) \/ Card!RunAnswered(h) \/ Card!RunFails(h)
      PROVE  ContractsTyped'
  BY <1>1 DEF Card!Press, Card!RunAnswered, Card!RunFails, Card!formVars
<1>2. ASSUME NEW c \in Contracts, Card!Edit(c) \/ Card!Redraw(c)
      PROVE  ContractsTyped'
  <2>1. checking # NoOne => [checking EXCEPT !.here = FALSE] \in [contract : Contracts, here : BOOLEAN]
    OBVIOUS
  <2> QED
    BY <1>2, <2>1 DEF Card!Edit, Card!Redraw
<1>3. CASE Card!Validate \/ Card!Validated \/ Card!ValidationFails
  <2>1. checking # NoOne => checking.contract \in Contracts
    OBVIOUS
  <2>2. [contract |-> contract, here |-> TRUE] \in [contract : Contracts, here : BOOLEAN]
    OBVIOUS
  <2> QED
    BY <1>3, <2>1, <2>2 DEF Card!Validate, Card!Validated, Card!ValidationFails
<1>4. CASE Card!Register
  BY <1>4 DEF Card!Register
<1>5. CASE UNCHANGED cardVars
  BY <1>5 DEF cardVars
<1> QED
  BY <1>1, <1>2, <1>3, <1>4, <1>5 DEF Card!Next
=============================================================================
