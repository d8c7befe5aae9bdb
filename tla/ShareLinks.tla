----------------------------- MODULE ShareLinks -----------------------------
(***************************************************************************)
(* Client links to the evidence of a finished run, and what is served      *)
(* through them: the share-link, shared-report and artifact routes of      *)
(* server.js over the tables share_links, artifacts and the two tables of  *)
(* request buckets, together with the part of the purge (maintenance.js)   *)
(* that takes links, buckets, the run and its objects away.                *)
(*                                                                         *)
(* A download is six steps, between any two of which an editor may revoke  *)
(* the link, the link or the run may expire, or the purge may delete the   *)
(* rows and the bytes.  Time is the minute the request buckets count in.   *)
(* The links all belong to one run.  A token that names no link is the     *)
(* token of a link that is not there.                                      *)
(***************************************************************************)
EXTENDS Naturals, FiniteSets

CONSTANTS
    Links,         \* ids of the links that may be created
    Artifacts,     \* the artifacts of the run
    Visits,        \* requests: opens and downloads with a token, owner downloads
    Lifetimes,     \* what expiresInHours may ask for (24, 168, 720 hours)
    RunExpiry,     \* retention_expires_at of the run
    LinkLimit,     \* sharedReportRateLimitPerMinute
    RouteLimit,    \* anonymousShareRateLimitPerMinute
    LastMinute     \* bound: the clock stops here

VARIABLES
    minute,        \* the clock
    sharedRun,     \* the row of the run: pending, finished or purged
    links,         \* table share_links
    linkBucket,    \* table shared_report_request_buckets
    routeBucket,   \* table anonymous_share_request_buckets
    bytes,         \* the stored bytes of each artifact
    visits         \* the requests and what they know so far

shareVars == <<minute, sharedRun, links, linkBucket, routeBucket, bytes, visits>>

Minutes == 0..LastMinute
Routes  == {"open", "artifact"}

Link == [state    : {"absent", "present", "purged"},
         expires  : Nat,
         revoked  : BOOLEAN,
         scope    : SUBSET Artifacts,
         accesses : Nat,              \* access_count
         audited  : SUBSET Visits]    \* opened and downloaded events, by request

(* The link field of a request that has none.                              *)
NobodysLink == CHOOSE l \in Links : TRUE

NoLink == [state |-> "absent", expires |-> 0, revoked |-> FALSE, scope |-> {},
           accesses |-> 0, audited |-> {}]

PCs == {"unsent", "admitted", "granted", "found", "read", "counted", "owned", "ownedRead", "done"}
Answers == {"none", "served", "404", "410", "429"}

(* What a request is, what it was granted and how it ended.                *)
Visit == [pc       : PCs,
          route    : Routes \cup {"owner"},
          link     : Links,
          artifact : Artifacts,
          sent     : Nat,             \* the minute it arrived
          late     : BOOLEAN,         \* its link was revoked before it arrived
          granted  : Nat,             \* the minute after the one whose bucket let it in, or 0
          answer   : Answers]

TypeOK ==
    /\ minute \in Minutes
    /\ sharedRun \in {"pending", "finished", "purged"}
    /\ links \in [Links -> Link]
    /\ linkBucket \in [Links -> [Minutes -> Nat]]
    /\ routeBucket \in [Routes -> [Minutes -> Nat]]
    /\ bytes \in [Artifacts -> {"intact", "damaged", "gone"}]
    /\ visits \in [Visits -> Visit \cup {[pc |-> "unsent", answer |-> "none"]}]

Init ==
    /\ minute = 0
    /\ sharedRun = "pending"
    /\ links = [l \in Links |-> NoLink]
    /\ linkBucket = [l \in Links |-> [m \in Minutes |-> 0]]
    /\ routeBucket = [r \in Routes |-> [m \in Minutes |-> 0]]
    /\ bytes = [a \in Artifacts |-> "intact"]
    /\ visits = [v \in Visits |-> [pc |-> "unsent", answer |-> "none"]]

-----------------------------------------------------------------------------
(* The conditions of the statements.  now is now() of their transaction:   *)
(* the time it began, which a wait for a row lock leaves behind.           *)

RunKept(now)   == sharedRun = "finished" /\ RunExpiry > now
Active(l, now) == links[l].state = "present" /\ ~links[l].revoked /\ links[l].expires > now

(* The end of a link that is asked for l hours: never after the run's.     *)
LinkEnd(now, l) == IF now + l < RunExpiry THEN now + l ELSE RunExpiry

Answered(v, a) == visits' = [visits EXCEPT ![v].pc = "done", ![v].answer = a]
Moved(v, pc)   == visits' = [visits EXCEPT ![v].pc = pc]

-----------------------------------------------------------------------------
(* Editors.                                                                *)

FinishRun ==
    /\ sharedRun = "pending"
    /\ sharedRun' = "finished"
    /\ UNCHANGED <<minute, links, linkBucket, routeBucket, bytes, visits>>

CreateLink(l, scope, lifetime) ==
    /\ links[l].state = "absent"
    /\ RunKept(minute)
    /\ links' = [links EXCEPT ![l] =
                    [NoLink EXCEPT !.state = "present", !.scope = scope,
                                   !.expires = LinkEnd(minute, lifetime)]]
    /\ UNCHANGED <<minute, sharedRun, linkBucket, routeBucket, bytes, visits>>

Revoke(l) ==
    /\ links[l].state = "present"
    /\ links' = [links EXCEPT ![l].revoked = TRUE]
    /\ UNCHANGED <<minute, sharedRun, linkBucket, routeBucket, bytes, visits>>

-----------------------------------------------------------------------------
(* Requests with a token.  The route's bucket counts every one of them,    *)
(* those it turns away included.                                           *)

RouteAllows(r) == routeBucket'[r][minute] <= RouteLimit

Arrive(v, r, l, a) ==
    /\ visits[v].pc = "unsent"
    /\ routeBucket' = [routeBucket EXCEPT ![r][minute] = @ + 1]
    /\ visits' = [visits EXCEPT ![v] =
                     [pc |-> IF RouteAllows(r) THEN "admitted" ELSE "done",
                      route |-> r, link |-> l, artifact |-> a, sent |-> minute,
                      late |-> links[l].revoked \/ links[l].state = "purged", granted |-> 0,
                      answer |-> IF RouteAllows(r) THEN "none" ELSE "429"]]
    /\ UNCHANGED <<minute, sharedRun, links, linkBucket, bytes>>

(* What a token finds; for a download the artifact must be in scope.       *)
Resolves(v, now) ==
    LET l == visits[v].link
    IN  /\ Active(l, now)
        /\ RunKept(now)
        /\ visits[v].route = "artifact" => visits[v].artifact \in links[l].scope

Count(l, v) == [links EXCEPT ![l].accesses = @ + 1, ![l].audited = @ \cup {v}]

(* consumeSharedReportRequest: counted first and compared afterwards.      *)
LinkAllows(l) == linkBucket'[l][minute] <= LinkLimit

NotResolved(v) ==
    /\ visits[v].pc = "admitted"
    /\ \E now \in visits[v].sent..minute : ~Resolves(v, now)
    /\ Answered(v, "404")
    /\ UNCHANGED <<minute, sharedRun, links, linkBucket, routeBucket, bytes>>

Throttled(v) ==
    LET l == visits[v].link
    IN  /\ visits[v].pc = "admitted"
        /\ \E now \in visits[v].sent..minute : Resolves(v, now)
        /\ linkBucket' = [linkBucket EXCEPT ![l][minute] = @ + 1]
        /\ ~LinkAllows(l)
        /\ Answered(v, "429")
        /\ UNCHANGED <<minute, sharedRun, links, routeBucket, bytes>>

(* An open ends with this transaction, a download has only begun.          *)
Grant(v) ==
    LET l == visits[v].link
    IN  /\ visits[v].pc = "admitted"
        /\ \E now \in visits[v].sent..minute : Resolves(v, now)
        /\ linkBucket' = [linkBucket EXCEPT ![l][minute] = @ + 1]
        /\ LinkAllows(l)
        /\ \/ /\ visits[v].route = "open"
              /\ links' = Count(l, v)
              /\ visits' = [visits EXCEPT ![v].pc = "done", ![v].granted = minute + 1,
                                          ![v].answer = "served"]
           \/ /\ visits[v].route = "artifact"
              /\ visits' = [visits EXCEPT ![v].pc = "granted", ![v].granted = minute + 1]
              /\ UNCHANGED links
        /\ UNCHANGED <<minute, sharedRun, routeBucket, bytes>>

(* The row of the artifact goes with the run's.                            *)
FindArtifact(v) ==
    /\ visits[v].pc = "granted"
    /\ IF RunKept(minute) THEN Moved(v, "found") ELSE Answered(v, "404")
    /\ UNCHANGED <<minute, sharedRun, links, linkBucket, routeBucket, bytes>>

(* getObject or readFile, then the length and the hash.                    *)
ReadBytes(v) ==
    /\ visits[v].pc = "found"
    /\ IF bytes[visits[v].artifact] = "intact" THEN Moved(v, "read") ELSE Answered(v, "410")
    /\ UNCHANGED <<minute, sharedRun, links, linkBucket, routeBucket, bytes>>

(* The transaction that counts the download: it does nothing when the link *)
(* is no longer active, and the request goes on all the same.              *)
CountDownload(v) ==
    LET l == visits[v].link
    IN  /\ visits[v].pc = "read"
        /\ links' = IF Active(l, minute) THEN Count(l, v) ELSE links
        /\ Moved(v, "counted")
        /\ UNCHANGED <<minute, sharedRun, linkBucket, routeBucket, bytes>>

(* A download that is sent without a last look at the link.                *)
ConfirmNothing(v) ==
    /\ visits[v].pc = "counted"
    /\ Answered(v, "served")
    /\ UNCHANGED <<minute, sharedRun, links, linkBucket, routeBucket, bytes>>

(* SELECT ... AS active, and the answer.                                   *)
ConfirmActive(v) ==
    /\ visits[v].pc = "counted"
    /\ Answered(v, IF Active(visits[v].link, minute) THEN "served" ELSE "404")
    /\ UNCHANGED <<minute, sharedRun, links, linkBucket, routeBucket, bytes>>

Visiting(v) ==
    \/ NotResolved(v) \/ Throttled(v) \/ Grant(v) \/ FindArtifact(v)
    \/ ReadBytes(v) \/ CountDownload(v) \/ ConfirmActive(v)

-----------------------------------------------------------------------------
(* A download by a member of the organization: no link, no bucket.         *)

OwnerFinds(v, a) ==
    /\ visits[v].pc = "unsent"
    /\ visits' = [visits EXCEPT ![v] =
                     [pc |-> IF RunKept(minute) THEN "owned" ELSE "done", route |-> "owner",
                      link |-> NobodysLink, artifact |-> a, sent |-> minute, late |-> FALSE, granted |-> 0,
                      answer |-> IF RunKept(minute) THEN "none" ELSE "404"]]
    /\ UNCHANGED <<minute, sharedRun, links, linkBucket, routeBucket, bytes>>

OwnerReads(v) ==
    /\ visits[v].pc = "owned"
    /\ Answered(v, IF bytes[visits[v].artifact] = "intact" THEN "served" ELSE "410")
    /\ UNCHANGED <<minute, sharedRun, links, linkBucket, routeBucket, bytes>>

-----------------------------------------------------------------------------
(* The storage and the purge.                                              *)

Damage(a) ==
    /\ bytes[a] = "intact"
    /\ bytes' = [bytes EXCEPT ![a] = "damaged"]
    /\ UNCHANGED <<minute, sharedRun, links, linkBucket, routeBucket, visits>>

(* Buckets older than age minutes are deleted.                             *)
OldBuckets(b, age) == [m \in Minutes |-> IF m + age < minute THEN 0 ELSE b[m]]

(* One transaction: links that ended, old buckets, the run with its links. *)
PurgeShares ==
    LET runEnds == sharedRun = "finished" /\ RunExpiry <= minute
        ended   == {l \in Links : /\ links[l].state = "present"
                                  /\ \/ links[l].expires <= minute
                                     \/ links[l].revoked
                                     \/ runEnds}
    IN  /\ sharedRun' = IF runEnds THEN "purged" ELSE sharedRun
        /\ links' = [l \in Links |-> IF l \in ended THEN [links[l] EXCEPT !.state = "purged"]
                                                    ELSE links[l]]
        /\ linkBucket' = [l \in Links |-> IF l \in ended THEN [m \in Minutes |-> 0]
                                          ELSE OldBuckets(linkBucket[l], 2)]
        /\ routeBucket' = [r \in Routes |-> OldBuckets(routeBucket[r], 2)]
        /\ UNCHANGED <<minute, bytes, visits>>

(* The sweep of the purge queue deletes the objects of a purged run.       *)
SweepBytes(a) ==
    /\ sharedRun = "purged"
    /\ bytes[a] # "gone"
    /\ bytes' = [bytes EXCEPT ![a] = "gone"]
    /\ UNCHANGED <<minute, sharedRun, links, linkBucket, routeBucket, visits>>

Tick ==
    /\ minute < LastMinute
    /\ minute' = minute + 1
    /\ UNCHANGED <<sharedRun, links, linkBucket, routeBucket, bytes, visits>>

Next ==
    \/ FinishRun \/ PurgeShares \/ Tick
    \/ \E l \in Links :
          \/ \E scope \in SUBSET Artifacts, t \in Lifetimes : CreateLink(l, scope, t)
          \/ Revoke(l)
    \/ \E v \in Visits :
          \/ Visiting(v)
          \/ OwnerReads(v)
          \/ \E l \in Links, a \in Artifacts, r \in Routes : Arrive(v, r, l, a)
          \/ \E a \in Artifacts : OwnerFinds(v, a)
    \/ \E a \in Artifacts : Damage(a) \/ SweepBytes(a)

Spec == Init /\ [][Next]_shareVars

-----------------------------------------------------------------------------
(* What was served through a link was asked for while the link was neither *)
(* revoked nor over, is in its scope, and is in its access log: between    *)
(* the look-up and the answer of a download the link may be revoked and    *)
(* its count may have been refused.  The counter and the log agree.        *)
ServedWhileShared ==
    /\ \A v \in Visits :
          visits[v].answer = "served" /\ visits[v].route # "owner" =>
              LET l == visits[v].link
              IN  /\ ~visits[v].late
                  /\ visits[v].sent < links[l].expires
                  /\ visits[v].route = "artifact" => visits[v].artifact \in links[l].scope
                  /\ v \in links[l].audited
    /\ \A l \in Links :
          /\ links[l].accesses = Cardinality(links[l].audited)
          /\ links[l].state = "present" => links[l].expires <= RunExpiry

(* In no minute a link lets more requests in than its limit, nor a route   *)
(* more than its own, whatever the purge does to the buckets meanwhile.    *)
GrantsWithinLimit ==
    LET Sent(r, m) == {v \in Visits : /\ visits[v].pc # "unsent"
                                      /\ visits[v].route = r
                                      /\ visits[v].sent = m}
        Granted(l, m) == {v \in Visits : /\ visits[v].pc # "unsent"
                                         /\ visits[v].link = l
                                         /\ visits[v].granted = m + 1}
        TurnedAway(v) == visits[v].answer = "429"
    IN  \A m \in Minutes :
          /\ \A l \in Links : Cardinality(Granted(l, m)) <= LinkLimit
          /\ \A r \in Routes :
                Cardinality({v \in Sent(r, m) : ~TurnedAway(v)}) <= RouteLimit
=============================================================================
