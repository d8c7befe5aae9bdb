------------------------------ MODULE MCParts -------------------------------
(* The safety of the smaller parts, each on an instance of its own: they   *)
(* interact through rows and files that each of them models itself.        *)
EXTENDS MCServices, MCLab

Init ==
    /\ subject \in Services \cup LabParts
    /\ ServicesInit
    /\ LabInit

Next == ServicesNext /\ LabNext /\ UNCHANGED subject

partsVars == <<subject, serviceVars, labVars>>

Spec == Init /\ [][Next]_partsVars

RunsEnd    == [current |-> 3, older |-> 2]
Stored     == [a \in Two |-> [project |-> "A", run |-> a, group |-> "capture", image |-> a]]
ProjectOrg == [A |-> "o1", B |-> "o1", C |-> "o2"]
AddressForms == [public |-> [family |-> "v4", block |-> "public",    inner |-> "none"],
                 mapped |-> [family |-> "v6", block |-> "v4-mapped", inner |-> "loopback"]]
Device(w, c, s, m) == [webgl |-> w, camera |-> c, strained |-> s, motion |-> m]
Devices    == {Device(2, TRUE, FALSE, TRUE), Device(1, TRUE, TRUE, TRUE),
               Device(0, TRUE, FALSE, TRUE), Device(2, FALSE, FALSE, FALSE)}
KindsAsked == [d1 |-> {"route", "preflight", "judge"}, d2 |-> {"route"}]
FourWeights == {<<0, 0, 0, 0>>, <<1, 1, 1, 1>>, <<0, 0, 1, 9>>}
FourScripts == {<<"product", "cart", "checkout">>, <<"product", "cart">>, <<>>, <<"product", "back">>}
FiveLinks  == <<"js", "css", "js", "data", "img">>
Servers    == [u \in {"js", "css", "data", "img", "page", "moved"} |->
    CASE u = "data" -> "none" [] u = "img" -> "cdn" [] OTHER -> "site"]
Content(shape, outcome, score, rules, model, near) ==
    [shape |-> shape, outcome |-> outcome, score |-> score, rules |-> rules, model |-> model,
     near |-> near]
Measurement(steps, painted, covered, legal, p95, refused) ==
    [reachedEnd |-> steps # NoOne, steps |-> steps, firstFrame |-> painted, coverages |-> covered,
     drifts |-> {20}, legal |-> legal, p95 |-> p95, dropped |-> 10, refused |-> refused,
     enteredError |-> FALSE]
ManySessions ==
    {Measurement(st, "painted", {9}, TRUE, p, x) : st \in {NoOne, 5, 12}, p \in {NoOne, 80, 250}, x \in BOOLEAN}
    \cup {Measurement(5, "blank", {}, l, 80, FALSE) : l \in BOOLEAN}
    \cup {Measurement(5, "painted", {3, 9}, TRUE, 80, FALSE)}
AllBudgets == [steps |-> 8, coverage |-> 4, drift |-> 35, p95 |-> 120, tap |-> 100, dropped |-> 20,
               comfort |-> 100, xr |-> TRUE]
FourFiles  == [f1 |-> Content("trace", "fail", 40, {"i1"}, {"i1", "i2"}, {"i3"}),
               f2 |-> Content("trace", "pass", 45, {}, {}, {"i2"}),
               f3 |-> Content("other", "pass", 90, {}, {}, {}),
               f4 |-> Content("hollow", "pass", 90, {}, {}, {})]
Row(error, traced, profile, outcome, journey, replay) ==
    [error |-> error, traced |-> traced, profile |-> profile, outcome |-> outcome,
     journey |-> journey, replay |-> replay]
TwoReports ==
    {[a |-> Row(TRUE, FALSE, "xr-denied", "none", "none", "none"),
      b |-> Row(FALSE, TRUE, "xr-denied", "fail", "fail", "same"),
      c |-> Row(FALSE, FALSE, "high", "fail", "pass", "none")],
     [a |-> Row(TRUE, TRUE, "low", "fail", "fail", "none"),
      b |-> Row(FALSE, TRUE, "high", "pass", "pass", "differs"),
      c |-> Row(FALSE, TRUE, "high", "pass", "pass", "same")]}

PartsSymmetry == Permutations(Three) \cup Permutations(Two)

(* Every part keeps to its types. *)
TypeOK == ServicesTypeOK /\ LabTypeOK
=============================================================================
