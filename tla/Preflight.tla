------------------------------ MODULE Preflight ------------------------------
(***************************************************************************)
(* The static pre-launch measurement of a page, src/preflight/             *)
(* run-preflight.js: the page is fetched, its links are harvested, and     *)
(* every asset is sized with a HEAD or one ranged byte.  Names and servers *)
(* answer as they like at each question.  What types the assets have, and  *)
(* which are the largest, is left out.                                     *)
(***************************************************************************)
EXTENDS Integers, Sequences, FiniteSets, SequencesExt

CONSTANTS
    Links,         \* the page's link attributes in order: URLs, some repeated
    HostOf,        \* the host of each URL, "none" for what is no http(s) URL
    Pages,         \* the page's URL and the URLs it may redirect to
    Sizes,         \* the lengths a server may state
    MaxAssets,     \* ATLAS_PREFLIGHT_MAX_ASSETS
    NominalMass,   \* what an unsized asset counts
    AllowPrivate   \* ATLAS_PREFLIGHT_ALLOW_PRIVATE

VARIABLES
    stage,         \* where runPreflight is
    visited,       \* the page's URL, then the one it redirected to
    asset,         \* the number of the asset at hand and the question open for it
    sized,         \* the sizes of the assets so far
    asked,         \* URLs that were sent a request, with what their lookup said
    stated,        \* the lengths servers stated for each URL
    report

preflightVars == <<stage, visited, asset, sized, asked, stated, report>>

Unknown == -1
Answers == {"public", "private", "failed"}
NoReport == [count |-> 0, totalBytes |-> 0, unknownBytes |-> 0, truncated |-> FALSE]

(* A URL is harvested at its first mention; fragments make URLs differ. *)
extractAssetUrls ==
    LET found[n \in 0..Len(Links)] ==
            IF n = 0 THEN <<>>
            ELSE LET seen == found[n - 1]
                 IN  IF HostOf[Links[n]] = "none" \/ Links[n] \in ToSet(seen)
                     THEN seen ELSE Append(seen, Links[n])
    IN  found[Len(Links)]

urls == SubSeq(extractAssetUrls, 1, IF Len(extractAssetUrls) < MaxAssets THEN Len(extractAssetUrls) ELSE MaxAssets)

Sized(bytes) == [url |-> urls[asset.n], bytes |-> bytes]

TypeOK ==
    /\ stage \in {"check", "fetch", "recheck", "measure", "reported", "failed"}
    /\ visited \in Seq(Pages)
    /\ asset \in [n : 1..(Len(urls) + 1), step : {"lookup", "head", "get"}]
    /\ sized \in Seq([url : ToSet(urls), bytes : Sizes \cup {Unknown, 0}])
    /\ asked \subseteq [url : ToSet(urls) \cup Pages, answer : {"public", "private", "unasked"}]
    /\ stated \in [ToSet(urls) -> SUBSET Sizes]
    /\ report \in [count : Nat, totalBytes : Nat, unknownBytes : Nat, truncated : BOOLEAN]

Init ==
    /\ stage = "check"
    /\ \E p \in Pages : visited = <<p>>
    /\ asset = [n |-> 1, step |-> "lookup"]
    /\ sized = <<>>
    /\ asked = {}
    /\ stated = [u \in ToSet(urls) |-> {}]
    /\ report = NoReport

Fail ==
    /\ stage' = "failed"
    /\ UNCHANGED <<visited, asset, sized, asked, stated, report>>

(* A name that is not looked up, or was found public, passes. *)
Passes(answer) == answer = (IF AllowPrivate THEN "unasked" ELSE "public")

(* checkTarget of the given URL: not http(s), or not public, is refused. *)
CheckTarget ==
    /\ stage = "check"
    /\ \/ Fail
       \/ /\ HostOf[visited[1]] # "none"
          /\ stage' = "fetch"
          /\ asked' = {[url |-> visited[1], answer |-> IF AllowPrivate THEN "unasked" ELSE "public"]}
          /\ UNCHANGED <<visited, asset, sized, stated, report>>

(* fetchPage: an HTML answer within the cap and the time, wherever the     *)
(* redirects ended.                                                        *)
FetchPage ==
    /\ stage = "fetch"
    /\ \/ Fail
       \/ /\ stage' = "recheck"
          /\ \E p \in Pages : visited' = Append(visited, p)
          /\ UNCHANGED <<asset, sized, asked, stated, report>>

(* The page that was reached is judged before its links are followed. *)
RecheckTarget ==
    /\ stage = "recheck"
    /\ \/ Fail
       \/ /\ HostOf[visited[2]] # "none"
          /\ stage' = "measure"
          /\ asked' = asked \cup {[url |-> visited[2], answer |-> IF AllowPrivate THEN "unasked" ELSE "public"]}
          /\ UNCHANGED <<visited, asset, sized, stated, report>>

-----------------------------------------------------------------------------
(* measureAssets: one asset after the other.                               *)

Measuring(step) == stage = "measure" /\ asset.n <= Len(urls) /\ asset.step = step

Records(bytes) ==
    /\ sized' = Append(sized, Sized(bytes))
    /\ asset' = [n |-> asset.n + 1, step |-> "lookup"]

(* The plausible slip: what cannot be looked up is passed over. *)
LookupPassesOver ==
    /\ Measuring("lookup")
    /\ \E answer \in Answers :
          IF Passes(answer) THEN asset' = [asset EXCEPT !.step = "head"]
          ELSE asset' = [n |-> asset.n + 1, step |-> "lookup"]
    /\ UNCHANGED <<stage, visited, sized, asked, stated, report>>

(* A name that fails or is private is not asked, and counts as unknown. *)
LookupAsset ==
    /\ Measuring("lookup")
    /\ \E answer \in IF AllowPrivate THEN {"unasked"} ELSE Answers :
          \/ /\ Passes(answer)
             /\ asset' = [asset EXCEPT !.step = "head"]
             /\ asked' = asked \cup {[url |-> urls[asset.n], answer |-> answer]}
             /\ UNCHANGED sized
          \/ /\ ~Passes(answer)
             /\ Records(Unknown)
             /\ UNCHANGED asked
    /\ UNCHANGED <<stage, visited, stated, report>>

(* headSize, the HEAD: an answer that is ok has its length read as a       *)
(* number, and the number of a header that is not there is 0.              *)
HeadAsset ==
    /\ Measuring("head")
    /\ \/ \E n \in Sizes :
             /\ stated' = [stated EXCEPT ![urls[asset.n]] = @ \cup {n}]
             /\ Records(n)
       \/ Records(0) /\ UNCHANGED stated
       \/ Records(Unknown) /\ UNCHANGED stated
       \/ asset' = [asset EXCEPT !.step = "get"] /\ UNCHANGED <<sized, stated>>
    /\ UNCHANGED <<stage, visited, asked, report>>

(* headSize, the ranged byte: the total of a Content-Range, else the       *)
(* length of a plain 200 (again 0 when it is not there), else unknown.     *)
RangedByte ==
    /\ Measuring("get")
    /\ \/ \E n \in Sizes :
             /\ stated' = [stated EXCEPT ![urls[asset.n]] = @ \cup {n}]
             /\ Records(n)
       \/ Records(0) /\ UNCHANGED stated
       \/ Records(Unknown) /\ UNCHANGED stated
    /\ UNCHANGED <<stage, visited, asked, report>>

estimateUnknown == Cardinality({i \in 1..Len(sized) : sized[i].bytes = Unknown}) * NominalMass

knownBytes ==
    LET sum[n \in 0..Len(sized)] ==
            IF n = 0 THEN 0 ELSE sum[n - 1] + (IF sized[n].bytes = Unknown THEN 0 ELSE sized[n].bytes)
    IN  sum[Len(sized)]

Report ==
    /\ stage = "measure"
    /\ asset.n > Len(urls)
    /\ stage' = "reported"
    /\ report' = [count        |-> Len(sized),
                  totalBytes   |-> knownBytes,
                  unknownBytes |-> estimateUnknown,
                  truncated    |-> Len(extractAssetUrls) > MaxAssets]
    /\ UNCHANGED <<visited, asset, sized, asked, stated>>

Next ==
    \/ CheckTarget \/ FetchPage \/ RecheckTarget
    \/ LookupAsset \/ HeadAsset \/ RangedByte \/ Report

Spec == Init /\ [][Next]_preflightVars

-----------------------------------------------------------------------------
(* Every asset of a report that does not own to being truncated is in its  *)
(* count exactly once, known or as the nominal mass, and no request went   *)
(* to an asset whose own lookup was not public: one that could not be      *)
(* asked is neither skipped nor counted as nothing.                        *)
PreflightAccountsForPage ==
    stage = "reported" =>
        /\ ~report.truncated => {a.url : a \in ToSet(sized)} = {u \in ToSet(Links) : HostOf[u] # "none"}
        /\ report.count = Len(urls)
        /\ \A i \in 1..Len(sized) : sized[i].url = urls[i]
        /\ \A a \in ToSet(sized) :
              ~(\E q \in asked : q.url = a.url /\ Passes(q.answer)) => a.bytes = Unknown
        /\ report.unknownBytes > 0 <=> \E a \in ToSet(sized) : a.bytes = Unknown

(* "Unknowns are stated, not zeroed" (run-preflight.js:326): a known size  *)
(* is one that the asset's server stated.                                  *)
UnknownsAreNotZeroed ==
    \A a \in ToSet(sized) : a.bytes # Unknown => a.bytes \in stated[a.url]
=============================================================================
