---------------------------- MODULE SessionProofs ----------------------------
(***************************************************************************)
(* The two kinds of emulated session, for all values of the parameters:    *)
(* what the session with the Orbital experience photographs and records,   *)
(* and what one with any other page does.  Each has an inductive invariant *)
(* that every action keeps; SessionTheorem joins the two.  Then the        *)
(* connection to the browser they share: no cut of the byte stream loses   *)
(* an answer.                                                              *)
(***************************************************************************)
EXTENDS LabProofs

-----------------------------------------------------------------------------
(* The session with the Orbital experience.                                *)

PageStates == {"boot", "probing", "routing", "loading", "first-frame", "interactive", "degraded",
               "product-detail", "cart", "checkout-complete", "error"}
Targets == {"product", "back", "cart", "checkout"}
Waits == [id : Orbital!Checkpoints, step : {"painting", "announced"}]
Shots == [Orbital!Checkpoints -> [state : PageStates, still : BOOLEAN]]

(* What was tapped, recorded or not yet. *)
Taken == trace.taps \o unpainted

LastState(states) == states[Len(states)]
Declared(c) == \E i \in 1..Len(trace.checkpoints) : trace.checkpoints[i] = c

OrbitalTyped ==
    /\ page \in [state : PageStates, path : Orbital!Paths, tier : 1..4, forced : BOOLEAN,
                 motion : BOOLEAN, animating : BOOLEAN, done : BOOLEAN,
                 pc : {"boot", "load", "paint", "first", "sampling", "live", "over"}]
    /\ trace \in [states : Seq(PageStates), taps : Seq(Targets), checkpoints : Seq(Orbital!Checkpoints)]
    /\ waiting \subseteq Waits
    /\ unpainted \in Seq(Targets)
    /\ runner \in [chain : Seq(Orbital!Checkpoints), taken : BOOLEAN,
                   ack : Orbital!Checkpoints \cup {"none"}, shots : Shots]
    /\ driver \in [script : Scripts, step : Nat,
                   pc : {"settling", "tapping", "checking", "done", "stopped", "over"}]

(* Where the page is, and how far the driver can be then. *)
PageFits ==
    /\ page.pc = "boot" => page.state = "boot"
    /\ page.pc \in {"load", "paint"} => page.state = "loading"
    /\ page.pc \in {"first", "sampling"} => page.state = "first-frame"
    /\ page.pc = "live" => page.state \in {"interactive", "product-detail", "cart", "checkout-complete"}
    /\ page.pc \in {"boot", "load", "paint"} => page.animating = FALSE
    /\ page.pc = "over" /\ driver.pc # "over" => page.state \in {"error", "checkout-complete"}
    /\ driver.pc \in {"tapping", "checking", "done"} => page.pc \in {"live", "over"}
    /\ driver.pc = "tapping" => waiting = {}
    /\ driver.pc = "over" => page.pc = "over" /\ waiting = {} /\ unpainted = <<>> /\ runner.chain = <<>>

(* One checkpoint is waited for at a time: the page stands still in its    *)
(* state, and it is announced once.                                        *)
WaitFits(w) ==
    /\ waiting = {w}
    /\ page.state = Orbital!StateOf[w.id] /\ page.animating = FALSE
    /\ page.pc = IF w.id = "cp-first-frame" THEN "first" ELSE "live"
    /\ w.step = "painting" => runner.chain = <<>> /\ runner.ack # w.id
    /\ w.step = "announced" => unpainted = <<>> /\ Declared(w.id)

RunnerFits ==
    /\ \/ runner.chain = <<>>
       \/ \E c \in Orbital!Checkpoints :
             /\ runner.chain = <<c>> /\ waiting = {[id |-> c, step |-> "announced"]}
             /\ runner.ack # c
    /\ runner.taken => runner.chain # <<>>
    /\ \A c \in Orbital!Checkpoints : runner.shots[c] # Orbital!NoShot =>
          runner.shots[c] = [state |-> Orbital!StateOf[c], still |-> TRUE] /\ Declared(c)

(* A checkpoint that was acknowledged is never begun again: the page is    *)
(* past it.                                                                *)
AckFits ==
    driver.pc # "over" =>
        /\ runner.ack = "cp-first-frame" => page.pc \notin {"boot", "load", "paint"}
        /\ runner.ack = "cp-interactive" => page.pc \in {"live", "over"}
        /\ runner.ack = "cp-product-detail" => \E i \in 1..Len(Taken) : Taken[i] = "product"
        /\ runner.ack = "cp-checkout" => page.state = "checkout-complete"

(* What was tapped is how far the script is, and the page shows it. *)
TapsFit ==
    /\ Len(Taken) <= Len(driver.script)
    /\ \A i \in 1..Len(Taken) : Taken[i] = driver.script[i]
    /\ driver.pc = "settling" => Len(Taken) = 0 /\ driver.step = 1
    /\ driver.pc = "tapping" => Len(Taken) = driver.step - 1 /\ driver.step <= Len(driver.script)
    /\ driver.pc = "checking" => Len(Taken) = driver.step
    /\ driver.pc # "over" =>
          /\ page.state = "product-detail" => \E i \in 1..Len(Taken) : Taken[i] = "product"
          /\ page.state = "checkout-complete" => Len(Taken) = Len(driver.script)

StatesFit ==
    /\ trace.states # <<>> /\ LastState(trace.states) = page.state
    /\ page.state # "error" \/ Orbital!Probed => Orbital!InOrder(trace.states)
    /\ page.pc = "boot" => trace.states = <<"boot">>

PostedFits ==
    /\ posted.by # "none" => Orbital!InOrder(posted.states)
    /\ posted.by = "runner" => driver.pc = "over" /\ posted.checkpoints = trace.checkpoints
    /\ posted.by = "page" /\ LastState(posted.states) = "checkout-complete" =>
          posted.taps = driver.script

OrbitalInv ==
    /\ OrbitalTyped /\ PageFits /\ (\A w \in waiting : WaitFits(w)) /\ RunnerFits
    /\ AckFits /\ TapsFit /\ StatesFit /\ PostedFits

(* The invariant says what is promised of the screenshots and the trace.   *)
LEMMA OrbitalPromise ==
  OrbitalInv => Orbital!ScreenshotOfItsState /\ Orbital!TraceTellsTheSession
<1> SUFFICES ASSUME OrbitalInv
             PROVE  Orbital!ScreenshotOfItsState /\ Orbital!TraceTellsTheSession
  OBVIOUS
<1>1. Orbital!ScreenshotOfItsState
  BY DEF OrbitalInv, RunnerFits, Orbital!ScreenshotOfItsState
<1>2. Orbital!TraceTellsTheSession
  BY DEF OrbitalInv, RunnerFits, PostedFits, Declared, LastState, Orbital!TraceTellsTheSession
<1> QED
  BY <1>1, <1>2

(* The states that two stretches of the journey pass through.              *)
LEMMA JoinedStates ==
  ASSUME NEW s \in Seq(PageStates), NEW t \in Seq(PageStates), s # <<>>, t # <<>>
  PROVE  /\ s \o t \in Seq(PageStates) /\ s \o t # <<>>
         /\ LastState(s \o t) = LastState(t)
         /\ Orbital!InOrder(s) /\ Orbital!InOrder(t)
              /\ (LastState(s) = t[1] \/ <<LastState(s), t[1]>> \in Orbital!allowedTransitions)
            => Orbital!InOrder(s \o t)
<1> DEFINE u == s \o t
<1>1. /\ u \in Seq(PageStates) /\ Len(u) = Len(s) + Len(t)
      /\ Len(s) \in Nat \ {0} /\ Len(t) \in Nat \ {0}
      /\ \A i \in 1..Len(s) : u[i] = s[i]
      /\ \A i \in 1..Len(t) : u[Len(s) + i] = t[i]
  OBVIOUS
<1> HIDE DEF u
<1>2. u # <<>> /\ LastState(u) = LastState(t)
  BY <1>1 DEF LastState
<1>3. ASSUME Orbital!InOrder(s), Orbital!InOrder(t),
             LastState(s) = t[1] \/ <<LastState(s), t[1]>> \in Orbital!allowedTransitions,
             NEW i \in 2..Len(u)
      PROVE  u[i - 1] = u[i] \/ <<u[i - 1], u[i]>> \in Orbital!allowedTransitions
  <2>1. CASE i <= Len(s)
    <3>1. i \in 2..Len(s) /\ u[i - 1] = s[i - 1] /\ u[i] = s[i]
      BY <1>1, <2>1
    <3> QED
      BY <3>1, <1>3 DEF Orbital!InOrder
  <2>2. CASE i = Len(s) + 1
    <3>1. u[i - 1] = s[Len(s)] /\ u[i] = t[1]
      BY <1>1, <2>2
    <3> QED
      BY <3>1, <1>3 DEF LastState
  <2>3. CASE i > Len(s) + 1
    <3>1. \A k \in (Len(s) + 1)..Len(u) : u[k] = t[k - Len(s)]
      <4> TAKE k \in (Len(s) + 1)..Len(u)
      <4>1. k - Len(s) \in 1..Len(t)
        BY <1>1
      <4>2. u[Len(s) + (k - Len(s))] = t[k - Len(s)]
        BY ONLY <1>1, <4>1
      <4>3. Len(s) + (k - Len(s)) = k
        BY <1>1
      <4> QED
        BY <4>2, <4>3
    <3>2. u[i - 1] = t[(i - Len(s)) - 1] /\ u[i] = t[i - Len(s)]
      <4>1. i - 1 \in (Len(s) + 1)..Len(u) /\ i \in (Len(s) + 1)..Len(u)
            /\ (i - 1) - Len(s) = (i - Len(s)) - 1
        BY <1>1, <2>3
      <4> QED
        BY <3>1, <4>1
    <3>3. i - Len(s) \in 2..Len(t)
      BY <1>1, <2>3
    <3> QED
      BY <3>2, <3>3, <1>3 DEF Orbital!InOrder
  <2>4. i <= Len(s) \/ i = Len(s) + 1 \/ i > Len(s) + 1
    BY <1>1
  <2> QED
    BY <2>1, <2>2, <2>3, <2>4
<1> QED
  BY <1>1, <1>2, <1>3 DEF u, Orbital!InOrder

(* The stretches there are.                                                *)
LEMMA Stretches ==
  /\ \A x \in PageStates : /\ <<x>> \in Seq(PageStates) /\ <<x>> # <<>> /\ LastState(<<x>>) = x
                           /\ Orbital!InOrder(<<x>>)
  /\ \A x, y \in PageStates :
        /\ <<x, y>> \in Seq(PageStates) /\ <<x, y>> # <<>> /\ LastState(<<x, y>>) = y
        /\ x = y \/ <<x, y>> \in Orbital!allowedTransitions => Orbital!InOrder(<<x, y>>)
  /\ LET r == <<"probing", "routing", "loading">>
     IN  r \in Seq(PageStates) /\ r # <<>> /\ LastState(r) = "loading" /\ Orbital!InOrder(r)
<1>1. ASSUME NEW x \in PageStates
      PROVE  /\ <<x>> \in Seq(PageStates) /\ <<x>> # <<>> /\ LastState(<<x>>) = x
             /\ Orbital!InOrder(<<x>>)
  BY DEF LastState, Orbital!InOrder
<1>2. ASSUME NEW x \in PageStates, NEW y \in PageStates
      PROVE  /\ <<x, y>> \in Seq(PageStates) /\ <<x, y>> # <<>> /\ LastState(<<x, y>>) = y
             /\ x = y \/ <<x, y>> \in Orbital!allowedTransitions => Orbital!InOrder(<<x, y>>)
  <2>1. \A i \in 2..2 : i = 2
    OBVIOUS
  <2> QED
    BY <2>1 DEF LastState, Orbital!InOrder
<1>3. LET r == <<"probing", "routing", "loading">>
      IN  r \in Seq(PageStates) /\ r # <<>> /\ LastState(r) = "loading" /\ Orbital!InOrder(r)
  <2> DEFINE r == <<"probing", "routing", "loading">>
  <2>1. r \in Seq(PageStates) /\ r # <<>> /\ LastState(r) = "loading"
    BY DEF PageStates, LastState
  <2>2. \A i \in 2..3 : i = 2 \/ i = 3
    OBVIOUS
  <2>3. Orbital!InOrder(r)
    BY <2>2 DEF Orbital!InOrder, Orbital!allowedTransitions
  <2> QED
    BY <2>1, <2>3
<1> QED
  BY <1>1, <1>2, <1>3

(* A session before the page boots. *)
LEMMA OrbitalStart == Orbital!Init => OrbitalInv
<1> SUFFICES ASSUME Orbital!Init
             PROVE  OrbitalInv
  OBVIOUS
<1> USE DEF Orbital!Init
<1>1. Taken = <<>> /\ Len(Taken) = 0
  BY DEF Taken
<1>2. OrbitalTyped
  <2>1. page \in [state : PageStates, path : Orbital!Paths, tier : 1..4, forced : BOOLEAN,
                 motion : BOOLEAN, animating : BOOLEAN, done : BOOLEAN,
                 pc : {"boot", "load", "paint", "first", "sampling", "live", "over"}]
    <3>1. /\ page.state = "boot" /\ page.path = "static-safe" /\ page.tier = 4 /\ page.pc = "boot"
          /\ page.forced \in BOOLEAN /\ page.motion \in BOOLEAN
          /\ page.animating = FALSE /\ page.done = FALSE
          /\ page = [state |-> page.state, path |-> page.path, tier |-> page.tier, forced |-> page.forced,
                     motion |-> page.motion, pc |-> page.pc, animating |-> page.animating,
                     done |-> page.done]
      OBVIOUS
    <3>2. "boot" \in PageStates /\ "static-safe" \in Orbital!Paths /\ 4 \in 1..4
      BY DEF PageStates, Orbital!Paths
    <3> QED
      BY ONLY <3>1, <3>2
  <2>2. trace \in [states : Seq(PageStates), taps : Seq(Targets), checkpoints : Seq(Orbital!Checkpoints)]
    <3>1. <<"boot">> \in Seq(PageStates)
      BY DEF PageStates
    <3> QED
      BY <3>1
  <2>3. runner \in [chain : Seq(Orbital!Checkpoints), taken : BOOLEAN,
                   ack : Orbital!Checkpoints \cup {"none"}, shots : Shots]
    BY DEF Shots, PageStates, Orbital!NoShot
  <2>4. driver \in [script : Scripts, step : Nat,
                   pc : {"settling", "tapping", "checking", "done", "stopped", "over"}]
    OBVIOUS
  <2> QED
    BY <2>1, <2>2, <2>3, <2>4 DEF OrbitalTyped
<1>3. PageFits
  BY DEF PageFits
<1>4. RunnerFits /\ AckFits
  BY DEF RunnerFits, AckFits
<1>5. TapsFit
  BY <1>1, ScriptAssumption DEF TapsFit
<1>6. StatesFit
  BY Stretches DEF StatesFit, PageStates
<1>7. PostedFits
  BY DEF PostedFits, Orbital!NoTrace
<1> QED
  BY <1>2, <1>3, <1>4, <1>5, <1>6, <1>7 DEF OrbitalInv

(* Nobody waits while the page boots, and nothing was photographed.        *)
LEMMA BootQuiet ==
  ASSUME OrbitalInv, page.pc \in {"boot", "load", "paint", "sampling"}
  PROVE  /\ waiting = {} /\ runner.chain = <<>>
         /\ driver.pc \in {"settling", "stopped"}
BY DEF OrbitalInv, OrbitalTyped, PageFits, WaitFits, RunnerFits

(* A step of the page that passes through some states.                     *)
LEMMA ThroughFits ==
  ASSUME OrbitalInv, NEW t \in Seq(PageStates), t # <<>>,
         trace' = Orbital!Through(t), LastState(t) = page'.state, page'.pc # "boot",
         Orbital!InOrder(t), page.state # "error",
         page.state = t[1] \/ <<page.state, t[1]>> \in Orbital!allowedTransitions
  PROVE  /\ StatesFit' /\ trace'.states \in Seq(PageStates) /\ Orbital!InOrder(trace'.states)
         /\ LastState(trace'.states) = LastState(t)
         /\ trace' = [states |-> trace'.states, taps |-> trace.taps, checkpoints |-> trace.checkpoints]
<1> DEFINE s == trace.states
<1>1. s \in Seq(PageStates) /\ s # <<>> /\ LastState(s) = page.state /\ Orbital!InOrder(s)
  BY DEF OrbitalInv, OrbitalTyped, StatesFit
<1>2. /\ s \o t \in Seq(PageStates) /\ s \o t # <<>> /\ LastState(s \o t) = LastState(t)
      /\ Orbital!InOrder(s \o t)
  BY <1>1, JoinedStates
<1>3. trace' = [trace EXCEPT !.states = s \o t]
  BY DEF Orbital!Through
<1>4. trace'.states = s \o t /\ trace' = [states |-> trace'.states, taps |-> trace.taps, checkpoints |-> trace.checkpoints]
  BY <1>3 DEF OrbitalInv, OrbitalTyped
<1> QED
  BY <1>2, <1>4 DEF StatesFit

(* What the runner has done and what was tapped do not change when the     *)
(* page alone takes a step; the rest has to fit again.                     *)
LEMMA PageAlone ==
  ASSUME OrbitalInv, UNCHANGED <<unpainted, runner, driver>>,
         trace'.taps = trace.taps, trace'.checkpoints = trace.checkpoints,
         driver.pc # "over"
  PROVE  /\ Taken' = Taken /\ \A c : Declared(c)' = Declared(c)
         /\ waiting' = waiting => RunnerFits'
         /\ runner.chain = <<>> => RunnerFits'
         /\ page'.state \notin {"product-detail", "checkout-complete"} \/ page'.state = page.state => TapsFit'
<1>1. Taken' = Taken /\ \A c : Declared(c)' = Declared(c)
  BY DEF Taken, Declared
<1>2. waiting' = waiting => RunnerFits'
  BY <1>1 DEF OrbitalInv, RunnerFits
<1>3. runner.chain = <<>> => RunnerFits'
  BY <1>1 DEF OrbitalInv, RunnerFits
<1>4. page'.state \notin {"product-detail", "checkout-complete"} \/ page'.state = page.state => TapsFit'
  BY <1>1 DEF OrbitalInv, TapsFit
<1> QED
  BY <1>1, <1>2, <1>3, <1>4

(* A page that fails says so, and posts what it has or nothing.            *)
LEMMA FailKeeps ==
  ASSUME OrbitalInv, NEW p, NEW begun, Orbital!Fail(p, begun),
         p \in [state : PageStates, path : Orbital!Paths, tier : 1..4, forced : BOOLEAN,
                motion : BOOLEAN, animating : BOOLEAN, done : BOOLEAN, pc : {"load", "paint", "sampling"}],
         page.pc \in {"load", "paint", "sampling"},
         LET t == Append(begun, "error")
         IN  /\ t \in Seq(PageStates) /\ t # <<>> /\ LastState(t) = "error" /\ Orbital!InOrder(t)
             /\ <<page.state, t[1]>> \in Orbital!allowedTransitions
  PROVE  OrbitalInv'
<1> DEFINE t == Append(begun, "error")
           told == Orbital!Through(t)
<1> USE DEF OrbitalInv
<1>1. /\ page' = [[p EXCEPT !.state = "error"] EXCEPT !.pc = "over", !.animating = FALSE, !.done = TRUE]
      /\ trace' = told
      /\ \/ posted' = [by |-> "page", states |-> told.states, taps |-> told.taps,
                        checkpoints |-> told.checkpoints, tier |-> p.tier]
         \/ posted' = posted
      /\ UNCHANGED <<waiting, unpainted, runner, driver>>
  BY DEF Orbital!Fail, Orbital!Finish
<1>2. /\ page' \in [state : PageStates, path : Orbital!Paths, tier : 1..4, forced : BOOLEAN,
                    motion : BOOLEAN, animating : BOOLEAN, done : BOOLEAN, pc : {"over"}]
      /\ page'.state = "error" /\ page'.pc = "over" /\ page'.animating = FALSE
  BY <1>1 DEF PageStates
<1>3. /\ waiting = {} /\ runner.chain = <<>> /\ driver.pc \in {"settling", "stopped"}
  BY BootQuiet
<1>4. /\ t \in Seq(PageStates) /\ t # <<>> /\ LastState(t) = "error" /\ Orbital!InOrder(t)
      /\ <<page.state, t[1]>> \in Orbital!allowedTransitions /\ page.state # "error"
  BY DEF PageFits
<1> HIDE DEF t
<1>5. /\ StatesFit' /\ trace'.states \in Seq(PageStates) /\ Orbital!InOrder(trace'.states)
      /\ LastState(trace'.states) = "error"
      /\ trace' = [states |-> trace'.states, taps |-> trace.taps, checkpoints |-> trace.checkpoints]
  BY <1>1, <1>2, <1>4, ThroughFits
<1>6. OrbitalTyped'
  BY <1>1, <1>2, <1>5 DEF OrbitalTyped
<1>7. PageFits' /\ (\A w \in waiting : WaitFits(w))' /\ AckFits'
  <2>1. Taken' = Taken
    BY <1>1, <1>3, <1>5, PageAlone
  <2>2. runner.ack # "cp-checkout"
    BY <1>3 DEF PageFits, AckFits
  <2> QED
    BY <1>1, <1>2, <1>3, <2>1, <2>2 DEF PageFits, AckFits
<1>8. RunnerFits' /\ TapsFit'
  BY <1>1, <1>2, <1>3, <1>5, PageAlone
<1>9. PostedFits'
  <2>1. CASE posted' = posted
    BY <2>1, <1>1, <1>3, <1>5 DEF PostedFits
  <2>2. CASE posted' # posted
    BY <2>2, <1>1, <1>5 DEF PostedFits
  <2> QED
    BY <2>1, <2>2
<1> QED
  BY <1>5, <1>6, <1>7, <1>8, <1>9

(* The two ways to an error.                                               *)
LEMMA ToError ==
  /\ LET t == Append(<<>>, "error")
     IN  /\ t \in Seq(PageStates) /\ t # <<>> /\ LastState(t) = "error" /\ Orbital!InOrder(t)
         /\ <<"loading", t[1]>> \in Orbital!allowedTransitions
  /\ LET t == Append(<<"degraded">>, "error")
     IN  /\ t \in Seq(PageStates) /\ t # <<>> /\ LastState(t) = "error" /\ Orbital!InOrder(t)
         /\ <<"first-frame", t[1]>> \in Orbital!allowedTransitions
<1>1. /\ "degraded" \in PageStates /\ "error" \in PageStates
      /\ <<"degraded", "error">> \in Orbital!allowedTransitions
      /\ <<"first-frame", "degraded">> \in Orbital!allowedTransitions
      /\ <<"loading", "error">> \in Orbital!allowedTransitions
  BY DEF PageStates, Orbital!allowedTransitions
<1>2. ASSUME NEW b \in Seq(PageStates), Len(b) = 0
      PROVE  LET t == Append(b, "error")
             IN  t \in Seq(PageStates) /\ Len(t) = 1 /\ t[1] = "error"
  BY <1>1, <1>2
<1>3. ASSUME NEW b \in Seq(PageStates), Len(b) = 1, b[1] = "degraded"
      PROVE  LET t == Append(b, "error")
             IN  t \in Seq(PageStates) /\ Len(t) = 2 /\ t[1] = "degraded" /\ t[2] = "error"
  <2> DEFINE t == Append(b, "error")
  <2>1. /\ t \in Seq(PageStates) /\ Len(t) = Len(b) + 1 /\ t[Len(b) + 1] = "error"
        /\ \A i \in 1..Len(b) : t[i] = b[i]
    BY <1>1
  <2>2. 1 \in 1..Len(b)
    BY <1>3
  <2> QED
    BY <1>3, <2>1, <2>2
<1>4. <<"degraded">> \in Seq(PageStates) /\ <<>> \in Seq(PageStates)
  BY <1>1
<1> DEFINE t == Append(<<>>, "error")
           u == Append(<<"degraded">>, "error")
<1>5. t \in Seq(PageStates) /\ Len(t) = 1 /\ t[1] = "error"
  BY <1>2, <1>4
<1>6. u \in Seq(PageStates) /\ Len(u) = 2 /\ u[1] = "degraded" /\ u[2] = "error"
  BY <1>3, <1>4
<1> HIDE DEF t, u
<1>7. t # <<>> /\ LastState(t) = "error" /\ Orbital!InOrder(t)
  BY <1>5 DEF LastState, Orbital!InOrder
<1>8. \A i \in 2..Len(u) : i = 2
  BY <1>6
<1>9. u # <<>> /\ LastState(u) = "error" /\ Orbital!InOrder(u)
  BY <1>1, <1>6, <1>8 DEF LastState, Orbital!InOrder
<1>10. /\ t \in Seq(PageStates) /\ <<"loading", t[1]>> \in Orbital!allowedTransitions
       /\ u \in Seq(PageStates) /\ <<"first-frame", u[1]>> \in Orbital!allowedTransitions
  BY <1>1, <1>5, <1>6
<1> QED
  BY <1>7, <1>9, <1>10 DEF t, u

(* The checkpoints are declared on states.                                 *)
LEMMA CheckpointsOfOrbital ==
  /\ Orbital!Checkpoints = {"cp-first-frame", "cp-interactive", "cp-product-detail", "cp-checkout"}
  /\ Orbital!StateOf["cp-first-frame"] = "first-frame" /\ Orbital!StateOf["cp-interactive"] = "interactive"
  /\ Orbital!StateOf["cp-product-detail"] = "product-detail"
  /\ Orbital!StateOf["cp-checkout"] = "checkout-complete"
BY DEF Orbital!Checkpoints, Orbital!StateOf

(* A step of the boot that does not fail goes on, or begins a checkpoint.  *)
LEMMA BootStep ==
  ASSUME OrbitalInv, page.pc \in {"boot", "load", "paint", "sampling"},
         page' \in [state : PageStates, path : Orbital!Paths, tier : 1..4, forced : BOOLEAN,
                    motion : BOOLEAN, animating : {FALSE}, done : BOOLEAN,
                    pc : {"load", "paint", "first", "live"}],
         \/ /\ page'.pc \in {"load", "paint"} /\ page'.state = "loading" /\ waiting' = waiting
            /\ page.pc # "sampling"
         \/ /\ page'.pc = "first" /\ page'.state = "first-frame" /\ page.pc = "paint"
            /\ waiting' = waiting \cup {[id |-> "cp-first-frame", step |-> "painting"]}
         \/ /\ page'.pc = "live" /\ page'.state = "interactive" /\ page.pc = "sampling"
            /\ waiting' = waiting \cup {[id |-> "cp-interactive", step |-> "painting"]},
         UNCHANGED <<unpainted, runner, driver, posted>>,
         StatesFit', trace'.states \in Seq(PageStates),
         trace' = [states |-> trace'.states, taps |-> trace.taps, checkpoints |-> trace.checkpoints]
  PROVE  OrbitalInv'
<1> USE DEF OrbitalInv
<1>1. waiting = {} /\ runner.chain = <<>> /\ driver.pc \in {"settling", "stopped"}
  BY BootQuiet
<1>2. trace'.taps = trace.taps /\ trace'.checkpoints = trace.checkpoints
  OBVIOUS
<1>3. Taken' = Taken /\ RunnerFits' /\ TapsFit'
  BY <1>1, <1>2, PageAlone
<1>4. /\ page.pc \in {"boot", "load", "paint"} => runner.ack # "cp-first-frame"
      /\ runner.ack # "cp-interactive" /\ runner.ack # "cp-checkout"
  BY <1>1 DEF PageFits, AckFits
<1>5. waiting' \subseteq Waits
  BY <1>1, CheckpointsOfOrbital DEF Waits
<1>6. OrbitalTyped'
  <2>1. page' \in [state : PageStates, path : Orbital!Paths, tier : 1..4, forced : BOOLEAN,
                 motion : BOOLEAN, animating : BOOLEAN, done : BOOLEAN,
                 pc : {"boot", "load", "paint", "first", "sampling", "live", "over"}]
    OBVIOUS
  <2>2. trace.taps \in Seq(Targets) /\ trace.checkpoints \in Seq(Orbital!Checkpoints)
    BY DEF OrbitalTyped
  <2>3. trace' \in [states : Seq(PageStates), taps : Seq(Targets), checkpoints : Seq(Orbital!Checkpoints)]
    BY <2>2
  <2> QED
    BY <2>1, <2>3, <1>5 DEF OrbitalTyped
<1>7. PageFits'
  BY <1>1 DEF PageFits
<1>8. (\A w \in waiting : WaitFits(w))'
  <2>1. ASSUME NEW c \in {"cp-first-frame", "cp-interactive"},
               waiting' = waiting \cup {[id |-> c, step |-> "painting"]},
               page'.state = Orbital!StateOf[c], runner.ack # c,
               page'.pc = IF c = "cp-first-frame" THEN "first" ELSE "live"
        PROVE  (\A w \in waiting : WaitFits(w))'
    <3> DEFINE w == [id |-> c, step |-> "painting"]
    <3>1. waiting' = {w} /\ w.id = c /\ w.step = "painting"
      BY <1>1, <2>1
    <3> HIDE DEF w
    <3>2. WaitFits(w)'
      BY <1>1, <2>1, <3>1 DEF WaitFits
    <3> QED
      BY <3>1, <3>2
  <2>2. CASE waiting' = {}
    BY <2>2
  <2> QED
    BY <2>1, <2>2, <1>1, <1>4, CheckpointsOfOrbital
<1>9. AckFits'
  BY <1>1, <1>3, <1>4 DEF AckFits
<1>10. PostedFits'
  BY <1>1, <1>2 DEF PostedFits
<1> QED
  BY <1>3, <1>6, <1>7, <1>8, <1>9, <1>10

(* A boot without a manifest or a snapshot ends before it was routed.      *)
LEMMA BootFailsKeeps ==
  ASSUME OrbitalInv, Orbital!BootFails
  PROVE  OrbitalInv'
<1> USE DEF OrbitalInv
<1>1. PICK begun \in {<<>>, <<"probing">>} : trace' = Orbital!Through(Append(begun, "error"))
  BY DEF Orbital!BootFails
<1>2. /\ page.pc = "boot" /\ page' = [page EXCEPT !.state = "error", !.pc = "over"]
      /\ UNCHANGED <<waiting, unpainted, runner, driver, posted>>
  BY DEF Orbital!BootFails
<1> DEFINE t == Append(begun, "error")
           u == trace.states \o t
<1>3. /\ t \in Seq(PageStates) /\ t # <<>> /\ LastState(t) = "error"
      /\ \A i \in 1..Len(t) : t[i] # "routing"
  <2>1. begun \in Seq(PageStates) /\ \A i \in 1..Len(begun) : begun[i] # "routing"
    <3>1. LET b == <<"probing">>
          IN  b \in Seq(PageStates) /\ \A i \in 1..Len(b) : b[i] # "routing"
      BY DEF PageStates
    <3>2. LET b == <<>>
          IN  b \in Seq(PageStates) /\ \A i \in 1..Len(b) : b[i] # "routing"
      OBVIOUS
    <3> QED
      BY ONLY <3>1, <3>2, begun \in {<<>>, <<"probing">>}
  <2>2. "error" \in PageStates
    BY DEF PageStates
  <2> HIDE <1>1, <1>2
  <2>3. /\ t \in Seq(PageStates) /\ Len(t) = Len(begun) + 1 /\ t[Len(begun) + 1] = "error"
        /\ \A i \in 1..Len(begun) : t[i] = begun[i] /\ Len(begun) \in Nat
    BY <2>1, <2>2
  <2> HIDE DEF t
  <2>4. \A i \in 1..Len(t) : t[i] # "routing"
    <3> TAKE i \in 1..Len(t)
    <3>1. CASE i = Len(begun) + 1
      BY <3>1, <2>3
    <3>2. CASE i # Len(begun) + 1
      BY <3>2, <2>1, <2>3
    <3> QED
      BY <3>1, <3>2
  <2> QED
    BY <2>3, <2>4 DEF LastState
<1> HIDE DEF t
<1>4. trace.states = <<"boot">> /\ trace.states \in Seq(PageStates) /\ trace.states # <<>>
  BY <1>2 DEF StatesFit, OrbitalTyped
<1>5. u \in Seq(PageStates) /\ u # <<>> /\ LastState(u) = "error"
  BY <1>3, <1>4, JoinedStates
<1>6. \A i \in 1..Len(u) : u[i] # "routing"
  <2>1. /\ Len(u) = 1 + Len(t) /\ u[1] = "boot" /\ Len(t) \in Nat
        /\ \A i \in 1..Len(t) : u[1 + i] = t[i]
    BY <1>3, <1>4
  <2> HIDE DEF u
  <2> TAKE i \in 1..Len(u)
  <2>2. CASE i = 1
    BY <2>1, <2>2
  <2>3. CASE i # 1
    <3>1. i - 1 \in 1..Len(t) /\ 1 + (i - 1) = i
      BY <2>1, <2>3
    <3> QED
      BY <3>1, <2>1, <1>3
  <2> QED
    BY <2>2, <2>3
<1>7. trace' = [states |-> u, taps |-> trace.taps, checkpoints |-> trace.checkpoints]
  BY <1>1 DEF t, Orbital!Through, OrbitalTyped
<1> HIDE DEF u
<1>8. /\ page'.state = "error" /\ page'.pc = "over"
      /\ page' \in [state : PageStates, path : Orbital!Paths, tier : 1..4, forced : BOOLEAN,
                    motion : BOOLEAN, animating : BOOLEAN, done : BOOLEAN, pc : {"over"}]
  BY <1>2 DEF OrbitalTyped, PageStates
<1>9. waiting = {} /\ runner.chain = <<>> /\ driver.pc \in {"settling", "stopped"}
  BY <1>2, BootQuiet
<1>10. trace'.states = u /\ trace'.taps = trace.taps /\ trace'.checkpoints = trace.checkpoints
  BY <1>7
<1>11. Taken' = Taken /\ RunnerFits' /\ TapsFit'
  BY <1>2, <1>8, <1>9, <1>10, PageAlone
<1>12. OrbitalTyped'
  BY <1>2, <1>5, <1>7, <1>8 DEF OrbitalTyped
<1>13. PageFits' /\ (\A w \in waiting : WaitFits(w))'
  BY <1>2, <1>8, <1>9 DEF PageFits
<1>14. AckFits'
  <2>1. runner.ack # "cp-checkout"
    BY <1>2, <1>9 DEF PageFits, AckFits
  <2> QED
    BY <2>1, <1>2, <1>8, <1>9, <1>11 DEF AckFits
<1>15. StatesFit'
  BY <1>5, <1>6, <1>8, <1>10 DEF StatesFit, Orbital!Probed
<1>16. PostedFits'
  BY <1>2, <1>9, <1>10 DEF PostedFits
<1> QED
  BY <1>11, <1>12, <1>13, <1>14, <1>15, <1>16

(* The page is routed, loads and shows its first frame, or fails to.       *)
LEMMA BootKeeps ==
  ASSUME OrbitalInv, Orbital!Route \/ Orbital!Load \/ Orbital!FirstFrame
  PROVE  OrbitalInv'
<1>1. /\ OrbitalTyped
      /\ page.pc \in {"boot", "load", "paint"} => page.animating = FALSE
      /\ page.pc = "boot" => page.state = "boot"
      /\ page.pc \in {"load", "paint"} => page.state = "loading"
  BY DEF OrbitalInv, PageFits
<1>2. CASE Orbital!Route
  <2>1. PICK d \in Orbital!Decisions(page.forced) :
          page' = [page EXCEPT !.state = "loading", !.pc = "load", !.tier = d.tier, !.path = d.path]
    BY <1>2 DEF Orbital!Route
  <2>2. d.tier \in 1..4 /\ d.path \in Orbital!Paths
    BY DEF Orbital!Decisions, Orbital!Paths
  <2>3. /\ page.pc = "boot" /\ trace' = Orbital!Through(<<"probing", "routing", "loading">>)
        /\ UNCHANGED <<waiting, unpainted, runner, driver, posted>>
    BY <1>2 DEF Orbital!Route
  <2>4. /\ page' \in [state : PageStates, path : Orbital!Paths, tier : 1..4, forced : BOOLEAN,
                      motion : BOOLEAN, animating : {FALSE}, done : BOOLEAN, pc : {"load"}]
        /\ page'.state = "loading" /\ page'.pc = "load"
    BY <1>1, <2>1, <2>2, <2>3 DEF OrbitalTyped, PageStates
  <2>5. /\ StatesFit' /\ trace'.states \in Seq(PageStates)
        /\ trace' = [states |-> trace'.states, taps |-> trace.taps, checkpoints |-> trace.checkpoints]
    <3> DEFINE r == <<"probing", "routing", "loading">>
    <3>1. /\ r \in Seq(PageStates) /\ r # <<>> /\ LastState(r) = "loading" /\ Orbital!InOrder(r)
      BY Stretches
    <3>2. r[1] = "probing" /\ <<"boot", "probing">> \in Orbital!allowedTransitions
      BY DEF Orbital!allowedTransitions
    <3> HIDE DEF r
    <3>3. trace' = Orbital!Through(r)
      BY <2>3 DEF r
    <3> QED
      BY <3>1, <3>2, <3>3, <1>1, <2>3, <2>4, ThroughFits
  <2> QED
    BY <2>3, <2>4, <2>5, BootStep
<1>3. ASSUME UNCHANGED <<trace, waiting, unpainted, runner, driver, posted>>, page.pc = "load",
             page'.state = page.state, page'.pc = "paint",
             page' \in [state : PageStates, path : Orbital!Paths, tier : 1..4, forced : BOOLEAN,
                        motion : BOOLEAN, animating : {FALSE}, done : BOOLEAN, pc : {"paint"}]
      PROVE  OrbitalInv'
  <2>1. /\ StatesFit' /\ trace'.states \in Seq(PageStates)
        /\ trace' = [states |-> trace'.states, taps |-> trace.taps, checkpoints |-> trace.checkpoints]
    BY <1>1, <1>3 DEF OrbitalInv, StatesFit, OrbitalTyped, Orbital!Probed
  <2> QED
    BY <1>1, <1>3, <2>1, BootStep
<1>4. CASE Orbital!Load
  <2>1. page.pc = "load" /\ page.state = "loading" /\ page.animating = FALSE
    BY <1>1, <1>4 DEF Orbital!Load
  <2>2. CASE /\ \E t \in page.tier..3 : page' = [page EXCEPT !.tier = t, !.pc = "paint"]
             /\ UNCHANGED <<trace, waiting, unpainted, runner, driver, posted>>
    <3>0. page.tier \in 1..4
      BY <1>1 DEF OrbitalTyped
    <3>1. PICK t \in 1..4 : page' = [page EXCEPT !.tier = t, !.pc = "paint"]
      <4>1. PICK t \in page.tier..3 : page' = [page EXCEPT !.tier = t, !.pc = "paint"]
        BY <2>2
      <4>2. t \in 1..4
        BY <3>0
      <4> QED
        BY <4>1, <4>2
    <3>2. /\ page' \in [state : PageStates, path : Orbital!Paths, tier : 1..4, forced : BOOLEAN,
                        motion : BOOLEAN, animating : {FALSE}, done : BOOLEAN, pc : {"paint"}]
          /\ page'.state = page.state /\ page'.pc = "paint"
      BY ONLY <3>1, <2>1, <1>1 DEF OrbitalTyped
    <3> QED
      BY <2>2, <3>2, <2>1, <1>3
  <2>3. CASE /\ page' = [page EXCEPT !.tier = 3, !.path = "static-safe", !.pc = "paint"]
             /\ UNCHANGED <<trace, waiting, unpainted, runner, driver, posted>>
    <3>1. page' = [page EXCEPT !.tier = 3, !.path = "static-safe", !.pc = "paint"]
      BY <2>3
    <3>2. 3 \in 1..4 /\ "static-safe" \in Orbital!Paths
      BY DEF Orbital!Paths
    <3>3. /\ page' \in [state : PageStates, path : Orbital!Paths, tier : 1..4, forced : BOOLEAN,
                        motion : BOOLEAN, animating : {FALSE}, done : BOOLEAN, pc : {"paint"}]
          /\ page'.state = page.state /\ page'.pc = "paint"
      BY ONLY <3>1, <3>2, <2>1, <1>1 DEF OrbitalTyped
    <3> QED
      BY <2>3, <3>3, <2>1, <1>3
  <2>4. CASE Orbital!Fail([page EXCEPT !.path = "static-safe"], <<>>)
    <3>1. [page EXCEPT !.path = "static-safe"]
            \in [state : PageStates, path : Orbital!Paths, tier : 1..4, forced : BOOLEAN,
                motion : BOOLEAN, animating : BOOLEAN, done : BOOLEAN, pc : {"load", "paint", "sampling"}]
      BY <2>1, <1>1 DEF OrbitalTyped, Orbital!Paths
    <3> QED
      BY <2>1, <2>4, <3>1, ToError, FailKeeps
  <2> QED
    BY <1>4, <2>2, <2>3, <2>4 DEF Orbital!Load
<1>5. CASE Orbital!FirstFrame
  <2>1. page.pc = "paint" /\ page.state = "loading" /\ page.animating = FALSE
    BY <1>1, <1>5 DEF Orbital!FirstFrame
  <2>2. CASE Orbital!Fail(page, <<>>)
    <3>1. page \in [state : PageStates, path : Orbital!Paths, tier : 1..4, forced : BOOLEAN,
                motion : BOOLEAN, animating : BOOLEAN, done : BOOLEAN, pc : {"load", "paint", "sampling"}]
      BY <2>1, <1>1 DEF OrbitalTyped
    <3> QED
      BY <2>1, <2>2, <3>1, ToError, FailKeeps
  <2>3. CASE ~Orbital!Fail(page, <<>>)
    <3>1. PICK path \in Orbital!Paths :
            page' = [page EXCEPT !.state = "first-frame", !.path = path, !.pc = "first"]
      BY <1>1, <1>5, <2>3 DEF Orbital!FirstFrame, OrbitalTyped, Orbital!Paths
    <3>2. /\ trace' = Orbital!Through(<<"first-frame">>)
          /\ waiting' = waiting \cup {[id |-> "cp-first-frame", step |-> "painting"]}
          /\ UNCHANGED <<unpainted, runner, driver, posted>>
      BY <1>5, <2>3 DEF Orbital!FirstFrame, Orbital!Begins
    <3>3. /\ page' \in [state : PageStates, path : Orbital!Paths, tier : 1..4, forced : BOOLEAN,
                        motion : BOOLEAN, animating : {FALSE}, done : BOOLEAN, pc : {"first"}]
          /\ page'.state = "first-frame" /\ page'.pc = "first"
      BY <1>1, <2>1, <3>1 DEF OrbitalTyped, PageStates
    <3>4. /\ StatesFit' /\ trace'.states \in Seq(PageStates)
          /\ trace' = [states |-> trace'.states, taps |-> trace.taps, checkpoints |-> trace.checkpoints]
      <4>1. "first-frame" \in PageStates /\ <<"loading", "first-frame">> \in Orbital!allowedTransitions
        BY DEF PageStates, Orbital!allowedTransitions
      <4> DEFINE r == <<"first-frame">>
      <4>2. r \in Seq(PageStates) /\ r # <<>> /\ LastState(r) = "first-frame" /\ Orbital!InOrder(r)
            /\ r[1] = "first-frame"
        BY <4>1, Stretches
      <4> HIDE DEF r
      <4>3. trace' = Orbital!Through(r)
        BY <3>2 DEF r
      <4> QED
        BY <4>1, <4>2, <4>3, <2>1, <3>3, ThroughFits
    <3> QED
      BY <2>1, <3>2, <3>3, <3>4, BootStep
  <2> QED
    BY <2>2, <2>3
<1> QED
  BY <1>2, <1>4, <1>5

(* The frames measured keep the tier, give way to a lower one, or nothing  *)
(* lower loads.                                                            *)
LEMMA SettleKeeps ==
  ASSUME OrbitalInv, Orbital!Settle
  PROVE  OrbitalInv'
<1>1. OrbitalTyped /\ page.pc = "sampling" /\ page.state = "first-frame" /\ page.tier \in 1..4
  BY DEF OrbitalInv, PageFits, OrbitalTyped, Orbital!Settle
<1>2. ASSUME NEW r \in Seq(PageStates), r # <<>>, LastState(r) = "interactive", Orbital!InOrder(r),
             <<"first-frame", r[1]>> \in Orbital!allowedTransitions,
             trace' = Orbital!Through(r), Orbital!Begins("cp-interactive"), UNCHANGED <<unpainted, driver>>,
             page'.state = "interactive", page'.pc = "live",
             page' \in [state : PageStates, path : Orbital!Paths, tier : 1..4, forced : BOOLEAN,
                        motion : BOOLEAN, animating : {FALSE}, done : BOOLEAN, pc : {"live"}]
      PROVE  OrbitalInv'
  <2>1. /\ StatesFit' /\ trace'.states \in Seq(PageStates)
        /\ trace' = [states |-> trace'.states, taps |-> trace.taps, checkpoints |-> trace.checkpoints]
    BY <1>1, <1>2, ThroughFits
  <2>2. /\ waiting' = waiting \cup {[id |-> "cp-interactive", step |-> "painting"]}
        /\ UNCHANGED <<unpainted, runner, driver, posted>>
    BY <1>2 DEF Orbital!Begins
  <2> QED
    BY <1>1, <1>2, <2>1, <2>2, BootStep
<1>3. /\ "interactive" \in PageStates /\ "degraded" \in PageStates
      /\ <<"first-frame", "interactive">> \in Orbital!allowedTransitions
      /\ <<"first-frame", "degraded">> \in Orbital!allowedTransitions
      /\ <<"degraded", "interactive">> \in Orbital!allowedTransitions
  BY DEF PageStates, Orbital!allowedTransitions
<1>4. CASE /\ page' = [page EXCEPT !.state = "interactive", !.pc = "live", !.animating = FALSE]
           /\ trace' = Orbital!Through(<<"interactive">>)
           /\ Orbital!Begins("cp-interactive")
           /\ UNCHANGED <<unpainted, driver>>
  <2>1. page' = [page EXCEPT !.state = "interactive", !.pc = "live", !.animating = FALSE]
    BY <1>4
  <2>2. /\ page' \in [state : PageStates, path : Orbital!Paths, tier : 1..4, forced : BOOLEAN,
                      motion : BOOLEAN, animating : {FALSE}, done : BOOLEAN, pc : {"live"}]
        /\ page'.state = "interactive" /\ page'.pc = "live"
    BY ONLY <2>1, <1>1, <1>3 DEF OrbitalTyped
  <2> DEFINE r == <<"interactive">>
  <2>3. /\ r \in Seq(PageStates) /\ r # <<>> /\ LastState(r) = "interactive" /\ Orbital!InOrder(r)
        /\ r[1] = "interactive"
    BY <1>3, Stretches
  <2> HIDE DEF r
  <2>4. trace' = Orbital!Through(r)
    BY <1>4 DEF r
  <2> QED
    BY <1>2, <1>3, <1>4, <2>2, <2>3, <2>4
<1>5. ASSUME NEW t \in (page.tier + 1)..3,
             page' = [page EXCEPT !.state = "interactive", !.pc = "live",
                                  !.animating = FALSE, !.tier = t],
             trace' = Orbital!Through(<<"degraded", "interactive">>),
             Orbital!Begins("cp-interactive"), UNCHANGED <<unpainted, driver>>
      PROVE  OrbitalInv'
  <2>1. t \in 1..4
    BY <1>1
  <2>2. /\ page' \in [state : PageStates, path : Orbital!Paths, tier : 1..4, forced : BOOLEAN,
                      motion : BOOLEAN, animating : {FALSE}, done : BOOLEAN, pc : {"live"}]
        /\ page'.state = "interactive" /\ page'.pc = "live"
    BY ONLY <2>1, <1>5, <1>1, <1>3 DEF OrbitalTyped
  <2> DEFINE r == <<"degraded", "interactive">>
  <2>3. /\ r \in Seq(PageStates) /\ r # <<>> /\ LastState(r) = "interactive" /\ Orbital!InOrder(r)
        /\ r[1] = "degraded"
    BY <1>3, Stretches
  <2> HIDE DEF r
  <2>4. trace' = Orbital!Through(r)
    BY <1>5 DEF r
  <2> QED
    BY <1>2, <1>3, <1>5, <2>2, <2>3, <2>4
<1>6. CASE Orbital!Fail(page, <<"degraded">>)
  <2>1. page \in [state : PageStates, path : Orbital!Paths, tier : 1..4, forced : BOOLEAN,
              motion : BOOLEAN, animating : BOOLEAN, done : BOOLEAN, pc : {"load", "paint", "sampling"}]
    BY <1>1 DEF OrbitalTyped
  <2> QED
    BY <1>1, <1>6, <2>1, ToError, FailKeeps
<1> QED
  BY <1>4, <1>5, <1>6 DEF Orbital!Settle

(* One checkpoint at most is in flight, and the runner has no other.       *)
LEMMA OneAtATime ==
  ASSUME OrbitalInv
  PROVE  /\ \A w \in waiting : waiting = {w} /\ w \in Waits /\ driver.pc \notin {"tapping", "over"}
         /\ waiting = {} => runner.chain = <<>> /\ runner.taken = FALSE
         /\ \A w \in waiting : w.step = "painting" => runner.chain = <<>> /\ runner.taken = FALSE
         /\ \A w \in waiting : page.pc \in {"first", "live"} /\ w.id \in Orbital!Checkpoints
<1>1. /\ OrbitalTyped /\ PageFits /\ RunnerFits /\ \A w \in waiting : WaitFits(w)
  BY DEF OrbitalInv
<1>2. waiting \subseteq Waits /\ runner.taken \in BOOLEAN
  BY <1>1 DEF OrbitalTyped
<1>3. ASSUME NEW w \in waiting
      PROVE  waiting = {w} /\ w \in Waits /\ page.pc \in {"first", "live"}
  BY <1>1, <1>2 DEF WaitFits
<1>4. waiting # {} => driver.pc \notin {"tapping", "over"}
  BY <1>1 DEF PageFits
<1>5. \A w \in waiting : w.step = "painting" => runner.chain = <<>>
  BY <1>1 DEF WaitFits
<1>6. waiting = {} => runner.chain = <<>>
  BY <1>1 DEF RunnerFits
<1>7. runner.chain = <<>> => runner.taken = FALSE
  BY <1>1, <1>2 DEF RunnerFits
<1> QED
  BY <1>3, <1>4, <1>5, <1>6, <1>7 DEF Waits

(* Functions of no index and of one are sequences.                         *)
LEMMA OrderNone ==
  ASSUME NEW S, NEW s \in Seq(S), NEW o \in [1..0 -> {}]
  PROVE  s \o o = s
<1>1. o \in Seq(S) /\ Len(o) = 0
  OBVIOUS
<1>2. o = <<>>
  BY <1>1, EmptySeq
<1> QED
  BY <1>2, ConcatEmptySeq

(* The checkpoint that painted is the only one of its order.               *)
LEMMA OrderOne ==
  ASSUME NEW S, NEW c \in S, NEW o \in [1..1 -> {c}]
  PROVE  o = <<c>> /\ <<>> \o o = <<c>>
<1>0. o \in [1..1 -> S] /\ o[1] = c
  OBVIOUS
<1>1. o \in Seq(S) /\ Len(o) = 1 /\ o[1] = c
  <2>1. o \in Seq(S)
    BY <1>0, SeqDef
  <2>2. 1..1 = 1..Len(o) /\ Len(o) \in Nat
    BY <1>0, <2>1, LenProperties
  <2> QED
    BY <1>0, <2>1, <2>2
<1>2. <<c>> \in Seq(S) /\ Len(<<c>>) = 1 /\ <<c>>[1] = c
  OBVIOUS
<1>3. o = <<c>>
  BY <1>1, <1>2, SeqEqual
<1> QED
  BY <1>2, <1>3, ConcatEmptySeq

(* What was painted is declared, announced and recorded.                   *)
LEMMA PaintedKeeps ==
  ASSUME OrbitalInv, Orbital!Painted
  PROVE  OrbitalInv'
<1> DEFINE ids == {w.id : w \in {v \in waiting : v.step = "painting"}}
<1>1. PICK order \in [1..(IF ids = {} THEN 0 ELSE 1) -> ids] :
        /\ trace' = [trace EXCEPT !.checkpoints = @ \o order, !.taps = @ \o unpainted]
        /\ runner' = [runner EXCEPT !.chain = @ \o order]
  BY DEF Orbital!Painted
<1>2. /\ ids # {} \/ unpainted # <<>>
      /\ waiting' = {[w EXCEPT !.step = "announced"] : w \in waiting}
      /\ unpainted' = <<>>
      /\ UNCHANGED <<page, driver, posted>>
  BY DEF Orbital!Painted
<1>3. /\ OrbitalTyped /\ PageFits /\ RunnerFits /\ AckFits /\ TapsFit /\ StatesFit /\ PostedFits
      /\ \A w \in waiting : WaitFits(w)
  BY DEF OrbitalInv
<1>4. /\ trace = [states |-> trace.states, taps |-> trace.taps, checkpoints |-> trace.checkpoints]
      /\ trace.states \in Seq(PageStates) /\ trace.taps \in Seq(Targets)
      /\ trace.checkpoints \in Seq(Orbital!Checkpoints) /\ unpainted \in Seq(Targets)
      /\ runner.chain \in Seq(Orbital!Checkpoints)
      /\ runner = [chain |-> runner.chain, taken |-> runner.taken, ack |-> runner.ack, shots |-> runner.shots]
  BY <1>3 DEF OrbitalTyped
<1>5. /\ trace'.states = trace.states /\ trace'.taps = Taken
      /\ trace'.checkpoints = trace.checkpoints \o order
      /\ trace' = [states |-> trace'.states, taps |-> trace'.taps, checkpoints |-> trace'.checkpoints]
      /\ runner'.chain = runner.chain \o order /\ runner'.taken = runner.taken
      /\ runner'.ack = runner.ack /\ runner'.shots = runner.shots
      /\ runner' = [chain |-> runner'.chain, taken |-> runner'.taken, ack |-> runner'.ack, shots |-> runner'.shots]
  BY <1>1, <1>4 DEF Taken
<1>6. Taken \in Seq(Targets) /\ Taken' = Taken
  <2>1. Taken \in Seq(Targets)
    BY <1>4 DEF Taken
  <2> QED
    BY <2>1, <1>2, <1>5, ConcatEmptySeq DEF Taken
<1>7. driver.pc # "over"
  BY <1>2, <1>3 DEF PageFits
<1>8. AckFits' /\ TapsFit' /\ StatesFit'
  BY <1>2, <1>3, <1>5, <1>6, <1>7 DEF AckFits, TapsFit, StatesFit, Orbital!Probed
<1>9. PostedFits'
  BY <1>2, <1>3, <1>7 DEF PostedFits
<1>10. CASE ids = {}
  <2>1. waiting = {}
    <3>1. ASSUME NEW w \in waiting
          PROVE  FALSE
      <4>1. w.step # "painting"
        BY <1>10
      <4>2. w \in Waits /\ WaitFits(w)
        BY <1>3, OneAtATime
      <4> QED
        BY <1>2, <1>10, <4>1, <4>2 DEF Waits, WaitFits
    <3> QED
      BY <3>1
  <2>2. order \in [1..0 -> {}]
    BY <1>10
  <2>3. trace'.checkpoints = trace.checkpoints /\ runner'.chain = runner.chain
    BY <2>2, <1>4, <1>5, OrderNone
  <2>4. waiting' = {} /\ \A c : Declared(c)' = Declared(c)
    BY <1>2, <2>1, <2>3 DEF Declared
  <2>5. OrbitalTyped'
    <3>1. trace' \in [states : Seq(PageStates), taps : Seq(Targets), checkpoints : Seq(Orbital!Checkpoints)]
      BY <1>4, <1>5, <1>6, <2>3
    <3>2. runner' = runner
      BY <1>4, <1>5, <2>3
    <3>3. waiting' \subseteq Waits /\ unpainted' \in Seq(Targets)
      BY <1>2, <2>4
    <3> QED
      BY <1>2, <1>3, <3>1, <3>2, <3>3 DEF OrbitalTyped
  <2>6. PageFits' /\ RunnerFits'
    BY <1>2, <1>3, <1>5, <1>7, <2>1, <2>3, <2>4 DEF PageFits, RunnerFits
  <2> QED
    BY <1>8, <1>9, <2>4, <2>5, <2>6 DEF OrbitalInv
<1>11. CASE ids # {}
  <2>1. PICK w \in waiting : w.step = "painting"
    BY <1>11
  <2>2. /\ waiting = {w} /\ w \in Waits /\ w.id \in Orbital!Checkpoints /\ WaitFits(w)
        /\ runner.chain = <<>> /\ runner.taken = FALSE /\ driver.pc \notin {"tapping", "over"}
    BY <2>1, <1>3, OneAtATime
  <2> DEFINE c == w.id
             a == [id |-> c, step |-> "announced"]
  <2>3. ids = {c}
    BY <2>1, <2>2
  <2>4. order \in [1..1 -> {c}]
    BY <2>3
  <2>5. order = <<c>> /\ runner'.chain = <<c>> /\ order \in Seq(Orbital!Checkpoints) /\ Len(order) = 1 /\ order[1] = c
    <3>1. order = <<c>> /\ <<>> \o order = <<c>>
      BY <2>2, <2>4, OrderOne
    <3> QED
      BY <3>1, <1>5, <2>2
  <2>6. [w EXCEPT !.step = "announced"] = a /\ a \in Waits
    BY <2>2 DEF Waits
  <2>7. waiting' = {a}
    BY <1>2, <2>2, <2>6
  <2>8. /\ a.id = c /\ a.step = "announced" /\ c \in Orbital!Checkpoints
        /\ page.state = Orbital!StateOf[c] /\ page.animating = FALSE
        /\ page.pc = (IF c = "cp-first-frame" THEN "first" ELSE "live")
        /\ runner.ack # c
    BY <2>1, <2>2 DEF WaitFits
  <2> HIDE DEF c, a
  <2>9. /\ trace'.checkpoints \in Seq(Orbital!Checkpoints)
        /\ Declared(c)' /\ \A d \in Orbital!Checkpoints : Declared(d) => Declared(d)'
    <3> DEFINE s == trace.checkpoints
               u == s \o order
    <3>1. /\ u \in Seq(Orbital!Checkpoints) /\ Len(u) = Len(s) + 1 /\ u[Len(s) + 1] = c /\ Len(s) \in Nat
          /\ \A i \in 1..Len(s) : u[i] = s[i]
      BY <1>4, <2>5
    <3>2. trace'.checkpoints = u
      BY <1>5
    <3> HIDE DEF u
    <3> QED
      BY <3>1, <3>2 DEF Declared
  <2>10. OrbitalTyped'
    <3>1. trace' \in [states : Seq(PageStates), taps : Seq(Targets), checkpoints : Seq(Orbital!Checkpoints)]
      BY <1>4, <1>5, <1>6, <2>9
    <3>2. <<c>> \in Seq(Orbital!Checkpoints)
      BY <2>5
    <3>3. runner' \in [chain : Seq(Orbital!Checkpoints), taken : BOOLEAN,
                       ack : Orbital!Checkpoints \cup {"none"}, shots : Shots]
      BY <1>3, <1>5, <2>5, <3>2 DEF OrbitalTyped
    <3>4. waiting' \subseteq Waits /\ unpainted' \in Seq(Targets)
      BY <1>2, <2>6, <2>7
    <3> QED
      BY <1>2, <1>3, <3>1, <3>3, <3>4 DEF OrbitalTyped
  <2>11. PageFits'
    BY <1>2, <1>3, <1>7, <2>2 DEF PageFits
  <2>12. WaitFits(a)'
    BY <1>2, <2>7, <2>8, <2>9 DEF WaitFits
  <2>13. RunnerFits'
    <3>1. runner'.chain # <<>>
      BY <2>5
    <3>2. runner'.ack # c /\ waiting' = {[id |-> c, step |-> "announced"]}
      BY <1>5, <2>7, <2>8 DEF a
    <3> QED
      BY <1>3, <1>5, <2>5, <2>8, <2>9, <3>1, <3>2 DEF RunnerFits
  <2> QED
    BY <1>8, <1>9, <2>7, <2>10, <2>11, <2>12, <2>13 DEF OrbitalInv
<1> QED
  BY <1>10, <1>11

(* The page goes on once its checkpoint was acknowledged.                  *)
LEMMA CheckpointEndsKeeps ==
  ASSUME OrbitalInv, NEW c \in Orbital!Checkpoints, Orbital!CheckpointEnds(c)
  PROVE  OrbitalInv'
<1> DEFINE a == [id |-> c, step |-> "announced"]
<1>1. /\ a \in waiting /\ runner.ack = c /\ waiting' = waiting \ {a}
      /\ UNCHANGED <<unpainted, runner, driver>>
  BY DEF Orbital!CheckpointEnds, Orbital!Resumes
<1>2. /\ OrbitalTyped /\ PageFits /\ RunnerFits /\ AckFits /\ TapsFit /\ StatesFit /\ PostedFits
      /\ \A w \in waiting : WaitFits(w)
  BY DEF OrbitalInv
<1>3. /\ waiting = {a} /\ WaitFits(a) /\ waiting' = {} /\ driver.pc \notin {"tapping", "over"}
      /\ a.id = c /\ a.step = "announced"
  BY <1>1, <1>2, OneAtATime
<1> HIDE DEF a
<1>4. /\ page.state = Orbital!StateOf[c] /\ page.animating = FALSE
      /\ page.pc = (IF c = "cp-first-frame" THEN "first" ELSE "live")
      /\ unpainted = <<>>
  BY <1>3 DEF WaitFits
<1>5. runner.chain = <<>>
  <2>1. ASSUME NEW d \in Orbital!Checkpoints, waiting = {[id |-> d, step |-> "announced"]}, runner.ack # d
        PROVE  FALSE
    <3>1. a = [id |-> d, step |-> "announced"]
      BY <1>3, <2>1
    <3>2. a.id = d
      BY <3>1
    <3> QED
      BY <1>1, <1>3, <2>1, <3>2
  <2> QED
    BY <1>2, <2>1 DEF RunnerFits
<1>6. Taken \in Seq(Targets) /\ trace.taps \in Seq(Targets) /\ Taken = trace.taps
  <2>1. trace.taps \in Seq(Targets)
    BY <1>2 DEF OrbitalTyped
  <2> QED
    BY <2>1, <1>4, ConcatEmptySeq DEF Taken
<1>7. trace' = trace
  BY DEF Orbital!CheckpointEnds, Orbital!Finish
<1>8. Taken' = Taken /\ \A d : Declared(d)' = Declared(d)
  BY <1>1, <1>7 DEF Taken, Declared
<1>9. RunnerFits' /\ TapsFit'
  <2>1. page'.state = page.state
    BY <1>2 DEF Orbital!CheckpointEnds, Orbital!Finish, OrbitalTyped
  <2> QED
    BY <1>1, <1>2, <1>5, <1>8, <2>1 DEF RunnerFits, TapsFit
<1>10. CASE c = "cp-checkout" /\ page.pc = "live"
  <2>1. /\ page' = [page EXCEPT !.pc = "over", !.animating = FALSE, !.done = TRUE]
        /\ \/ posted' = [by |-> "page", states |-> trace.states, taps |-> trace.taps,
                          checkpoints |-> trace.checkpoints, tier |-> page.tier]
           \/ UNCHANGED posted
    BY <1>10 DEF Orbital!CheckpointEnds, Orbital!Finish
  <2>2. /\ page' \in [state : PageStates, path : Orbital!Paths, tier : 1..4, forced : BOOLEAN,
                      motion : BOOLEAN, animating : BOOLEAN, done : BOOLEAN, pc : {"over"}]
        /\ page'.state = page.state /\ page'.pc = "over" /\ page'.animating = FALSE
    BY <1>2, <2>1 DEF OrbitalTyped
  <2>3. page.state = "checkout-complete"
    BY <1>4, <1>10, CheckpointsOfOrbital
  <2>4. trace.taps = driver.script
    <3>1. /\ Len(Taken) = Len(driver.script) /\ \A i \in 1..Len(Taken) : Taken[i] = driver.script[i]
      BY <1>2, <1>3, <2>3 DEF TapsFit
    <3>2. driver.script \in Seq(Targets)
      BY <1>2, ScriptAssumption DEF OrbitalTyped, Targets
    <3> QED
      BY <1>6, <3>1, <3>2, SeqEqual
  <2>5. OrbitalTyped'
    BY <1>1, <1>2, <1>3, <1>7, <2>2 DEF OrbitalTyped
  <2>6. PageFits' /\ AckFits' /\ StatesFit'
    BY <1>1, <1>2, <1>3, <1>5, <1>7, <1>8, <2>2, <2>3 DEF PageFits, AckFits, StatesFit, Orbital!Probed
  <2>7. PostedFits'
    <3>1. CASE posted' = posted
      BY <3>1, <1>1, <1>2, <1>3 DEF PostedFits
    <3>2. CASE posted' # posted
      <4>1. /\ posted'.by = "page" /\ posted'.states = trace.states /\ posted'.taps = trace.taps
        BY <2>1, <3>2
      <4> QED
        BY <4>1, <1>1, <1>2, <2>3, <2>4 DEF PostedFits, StatesFit
    <3> QED
      BY <3>1, <3>2
  <2> QED
    BY <1>3, <1>9, <2>5, <2>6, <2>7 DEF OrbitalInv
<1>11. CASE ~(c = "cp-checkout" /\ page.pc = "live")
  <2>1. /\ page' = [page EXCEPT !.animating = page.pc # "over" /\ Orbital!Animates,
                                !.pc = IF page.pc = "first" THEN "sampling" ELSE page.pc]
        /\ posted' = posted
    BY <1>11 DEF Orbital!CheckpointEnds
  <2>2. page.path \in Orbital!Paths /\ page.motion \in BOOLEAN /\ Orbital!Animates \in BOOLEAN
    BY <1>2 DEF OrbitalTyped, Orbital!Animates
  <2>3. /\ page' \in [state : PageStates, path : Orbital!Paths, tier : 1..4, forced : BOOLEAN,
                      motion : BOOLEAN, animating : BOOLEAN, done : BOOLEAN, pc : {"sampling", "live"}]
        /\ page'.state = page.state /\ page'.pc = (IF page.pc = "first" THEN "sampling" ELSE "live")
    BY <1>2, <1>4, <2>1, <2>2 DEF OrbitalTyped
  <2>4. OrbitalTyped'
    BY <1>1, <1>2, <1>3, <1>7, <2>3 DEF OrbitalTyped
  <2>5. PageFits' /\ AckFits' /\ StatesFit'
    BY <1>1, <1>2, <1>3, <1>4, <1>5, <1>7, <1>8, <2>3, CheckpointsOfOrbital
       DEF PageFits, AckFits, StatesFit, Orbital!Probed
  <2>6. PostedFits'
    BY <1>1, <1>2, <1>7, <2>1 DEF PostedFits
  <2> QED
    BY <1>3, <1>9, <2>4, <2>5, <2>6 DEF OrbitalInv
<1> QED
  BY <1>10, <1>11

(* The runner photographs what was announced, and answers for it.          *)
LEMMA CapturesKeep ==
  ASSUME OrbitalInv, Orbital!Photograph \/ Orbital!Acknowledge
  PROVE  OrbitalInv'
<1>1. /\ OrbitalTyped /\ PageFits /\ RunnerFits /\ AckFits /\ TapsFit /\ StatesFit /\ PostedFits
      /\ \A w \in waiting : WaitFits(w)
  BY DEF OrbitalInv
<1>2. runner.chain # <<>> /\ UNCHANGED <<page, trace, waiting, unpainted, driver, posted>>
  BY <1>1 DEF RunnerFits, Orbital!Photograph, Orbital!Acknowledge
<1>3. PICK c \in Orbital!Checkpoints :
        /\ runner.chain = <<c>> /\ waiting = {[id |-> c, step |-> "announced"]}
        /\ runner.ack # c
  BY <1>1, <1>2 DEF RunnerFits
<1> DEFINE a == [id |-> c, step |-> "announced"]
<1>4. a \in waiting /\ a.id = c /\ a.step = "announced" /\ driver.pc # "over"
  BY <1>3, OneAtATime
<1>5. WaitFits(a)
  BY <1>1, <1>4
<1> HIDE DEF a
<1>6. /\ page.state = Orbital!StateOf[c] /\ page.animating = FALSE /\ Declared(c)
      /\ page.pc = (IF c = "cp-first-frame" THEN "first" ELSE "live")
  BY <1>4, <1>5 DEF WaitFits
<1>7. Taken' = Taken /\ (\A d : Declared(d)' = Declared(d)) /\ TapsFit' /\ StatesFit' /\ PostedFits'
  BY <1>1, <1>2 DEF Taken, Declared, TapsFit, StatesFit, PostedFits, Orbital!Probed
<1>8. PageFits'
  BY <1>1, <1>2, <1>4 DEF PageFits
<1>9. (\A w \in waiting : WaitFits(w))'
  <2>1. ASSUME NEW w \in waiting
        PROVE  WaitFits(w)'
    <3>1. w.step = "announced" /\ WaitFits(w)
      BY <1>1, <1>3
    <3> QED
      BY <3>1, <1>2, <1>7 DEF WaitFits
  <2> QED
    BY <2>1, <1>2
<1>10. /\ runner.shots \in Shots /\ runner.taken \in BOOLEAN /\ runner.ack \in Orbital!Checkpoints \cup {"none"}
       /\ runner.chain \in Seq(Orbital!Checkpoints)
       /\ runner = [chain |-> runner.chain, taken |-> runner.taken, ack |-> runner.ack, shots |-> runner.shots]
  BY <1>1 DEF OrbitalTyped
<1>11. CASE Orbital!Photograph
  <2>1. PICK s \in {runner.shots, [runner.shots EXCEPT ![c] = [state |-> page.state, still |-> ~page.animating]]} :
          runner' = [chain |-> runner.chain, taken |-> TRUE, ack |-> runner.ack, shots |-> s]
    <3>1. Head(runner.chain) = c
      BY <1>3
    <3> QED
      BY <1>10, <1>11, <3>1 DEF Orbital!Photograph
  <2>2. /\ runner'.chain = runner.chain /\ runner'.taken = TRUE /\ runner'.ack = runner.ack
        /\ runner'.shots = s
    BY <2>1
  <2> DEFINE seen == [state |-> page.state, still |-> ~page.animating]
  <2>3. seen \in [state : PageStates, still : BOOLEAN] /\ seen = [state |-> Orbital!StateOf[c], still |-> TRUE]
    BY <1>1, <1>6 DEF OrbitalTyped
  <2>4. s \in {runner.shots, [runner.shots EXCEPT ![c] = seen]}
    BY <2>1
  <2> HIDE DEF seen
  <2>5. s \in Shots /\ \A d \in Orbital!Checkpoints : s[d] = runner.shots[d] \/ (d = c /\ s[d] = seen)
    BY <2>3, <2>4, <1>10 DEF Shots
  <2>6. OrbitalTyped'
    BY <1>1, <1>2, <1>10, <2>1, <2>5 DEF OrbitalTyped
  <2>7. RunnerFits'
    BY <1>1, <1>2, <1>3, <1>6, <1>7, <2>2, <2>3, <2>5 DEF RunnerFits
  <2>8. AckFits'
    BY <1>1, <1>2, <1>7, <2>2 DEF AckFits
  <2> QED
    BY <1>7, <1>8, <1>9, <2>6, <2>7, <2>8 DEF OrbitalInv
<1>12. CASE Orbital!Acknowledge
  <2>1. Head(runner.chain) = c /\ Tail(runner.chain) = <<>>
    <3>1. /\ Tail(runner.chain) \in Seq(Orbital!Checkpoints) /\ Len(runner.chain) = 1
          /\ Len(Tail(runner.chain)) = Len(runner.chain) - 1 /\ Head(runner.chain) = c
      BY <1>2, <1>3, <1>10
    <3>2. \A t \in Seq(Orbital!Checkpoints) : t # <<>> => Len(t) # 0
      BY EmptySeq
    <3>3. Len(Tail(runner.chain)) = 0
      BY <3>1
    <3> QED
      BY <3>1, <3>2, <3>3
  <2>2. runner' = [chain |-> <<>>, taken |-> FALSE, ack |-> c, shots |-> runner.shots]
    BY <1>10, <1>12, <2>1 DEF Orbital!Acknowledge
  <2>3. /\ runner'.chain = <<>> /\ runner'.taken = FALSE /\ runner'.ack = c
        /\ runner'.shots = runner.shots
    BY <2>2
  <2>4. OrbitalTyped'
    BY <1>1, <1>2, <1>10, <2>2 DEF OrbitalTyped
  <2>5. RunnerFits'
    BY <1>1, <1>7, <2>3 DEF RunnerFits
  <2>6. AckFits'
    BY <1>1, <1>2, <1>4, <1>6, <1>7, <2>3, CheckpointsOfOrbital DEF AckFits, TapsFit
  <2> QED
    BY <1>7, <1>8, <1>9, <2>4, <2>5, <2>6 DEF OrbitalInv
<1> QED
  BY <1>11, <1>12

(* A tap recorded or not is the last of those taken.                       *)
LEMMA TakenGrows ==
  ASSUME NEW s \in Seq(Targets), NEW u \in Seq(Targets), NEW t \in Targets
  PROVE  LET old == s \o u
             new == s \o Append(u, t)
         IN  /\ new \in Seq(Targets) /\ Len(old) \in Nat /\ Len(new) = Len(old) + 1
             /\ new[Len(new)] = t /\ \A i \in 1..Len(old) : new[i] = old[i]
<1> DEFINE a == Append(u, t)
<1>1. /\ a \in Seq(Targets) /\ Len(a) = Len(u) + 1 /\ a[Len(u) + 1] = t
      /\ \A i \in 1..Len(u) : a[i] = u[i]
  OBVIOUS
<1>2. Len(s) \in Nat /\ Len(u) \in Nat
  OBVIOUS
<1> HIDE DEF a
<1>3. /\ s \o u \in Seq(Targets) /\ Len(s \o u) = Len(s) + Len(u)
      /\ \A i \in 1 .. Len(s) + Len(u) : (s \o u)[i] = IF i <= Len(s) THEN s[i] ELSE u[i - Len(s)]
  BY ConcatProperties
<1>4. /\ s \o a \in Seq(Targets) /\ Len(s \o a) = Len(s) + Len(a)
      /\ \A i \in 1 .. Len(s) + Len(a) : (s \o a)[i] = IF i <= Len(s) THEN s[i] ELSE a[i - Len(s)]
  BY <1>1, ConcatProperties
<1>5. (s \o a)[Len(s) + Len(a)] = t
  <2>1. /\ Len(s) + Len(a) \in 1 .. Len(s) + Len(a) /\ ~(Len(s) + Len(a) <= Len(s))
        /\ (Len(s) + Len(a)) - Len(s) = Len(u) + 1
    BY <1>1, <1>2
  <2> QED
    BY <1>1, <1>4, <2>1
<1>6. ASSUME NEW i \in 1..(Len(s) + Len(u))
      PROVE  (s \o a)[i] = (s \o u)[i]
  <2>1. i \in 1..(Len(s) + Len(a))
    BY <1>1, <1>2
  <2>2. ~(i <= Len(s)) => i - Len(s) \in 1..Len(u)
    BY <1>2
  <2> QED
    BY <1>1, <1>3, <1>4, <2>1, <2>2
<1> QED
  BY <1>1, <1>2, <1>3, <1>4, <1>5, <1>6 DEF a

(* The driver sees that the page is ready, taps, sees that the tap counted *)
(* or gives up.                                                            *)
LEMMA DriverWaits ==
  ASSUME OrbitalInv, Orbital!FindsInteractive \/ Orbital!SeesTap \/ Orbital!GivesUp
  PROVE  OrbitalInv'
<1>1. /\ OrbitalTyped /\ PageFits /\ RunnerFits /\ AckFits /\ TapsFit /\ StatesFit /\ PostedFits
      /\ \A w \in waiting : WaitFits(w)
  BY DEF OrbitalInv
<1>2. /\ UNCHANGED <<page, trace, waiting, unpainted, runner, posted>>
      /\ driver.pc \in {"settling", "tapping", "checking"}
  BY DEF Orbital!FindsInteractive, Orbital!SeesTap, Orbital!GivesUp
<1>3. /\ driver = [script |-> driver.script, step |-> driver.step, pc |-> driver.pc]
      /\ driver.script \in Scripts /\ driver.step \in Nat /\ driver.script \in Seq(Targets)
  BY <1>1, ScriptAssumption DEF OrbitalTyped, Targets
<1>4. /\ Taken' = Taken /\ Len(Taken) \in Nat
      /\ \A d : Declared(d)' = Declared(d)
  BY <1>1, <1>2 DEF Taken, Declared, OrbitalTyped
<1>5. RunnerFits' /\ StatesFit' /\ (\A w \in waiting : WaitFits(w))'
  BY <1>1, <1>2, <1>4 DEF RunnerFits, StatesFit, WaitFits, Orbital!Probed
<1>6. ASSUME NEW step \in Nat, NEW pc \in {"tapping", "done", "stopped"},
             driver' = [script |-> driver.script, step |-> step, pc |-> pc],
             pc \in {"tapping", "done"} => page.pc \in {"live", "over"},
             pc = "tapping" => waiting = {} /\ Len(Taken) = step - 1 /\ step <= Len(driver.script)
      PROVE  OrbitalInv'
  <2>1. driver'.script = driver.script /\ driver'.step = step /\ driver'.pc = pc
    BY <1>6
  <2>2. OrbitalTyped'
    BY <1>1, <1>2, <1>3, <1>6 DEF OrbitalTyped
  <2>3. PageFits'
    BY <1>1, <1>2, <1>6, <2>1 DEF PageFits
  <2>4. AckFits' /\ PostedFits' /\ TapsFit'
    BY <1>1, <1>2, <1>4, <1>6, <2>1 DEF AckFits, PostedFits, TapsFit
  <2> QED
    BY <1>5, <2>2, <2>3, <2>4 DEF OrbitalInv
<1>7. CASE Orbital!FindsInteractive
  <2>1. /\ driver.pc = "settling" /\ page.state = "interactive" /\ waiting = {}
        /\ driver' = [driver EXCEPT !.pc = IF driver.script = <<>> THEN "done" ELSE "tapping"]
    BY <1>7 DEF Orbital!FindsInteractive, Orbital!Settled
  <2>2. page.pc = "live"
    BY <1>1, <2>1 DEF PageFits, OrbitalTyped
  <2>3. Len(Taken) = 0 /\ driver.step = 1
    BY <1>1, <2>1 DEF TapsFit
  <2>4. driver.script # <<>> => 1 <= Len(driver.script)
    BY <1>3
  <2> DEFINE pc == IF driver.script = <<>> THEN "done" ELSE "tapping"
  <2>5. driver' = [script |-> driver.script, step |-> driver.step, pc |-> pc]
    BY <1>3, <2>1
  <2>6. pc \in {"tapping", "done"} /\ (pc = "tapping" => driver.script # <<>>)
    OBVIOUS
  <2> HIDE DEF pc
  <2>7. /\ pc \in {"tapping", "done"} => page.pc \in {"live", "over"}
        /\ pc = "tapping" => /\ waiting = {} /\ Len(Taken) = driver.step - 1
                             /\ driver.step <= Len(driver.script)
    BY <2>1, <2>2, <2>3, <2>4, <2>6
  <2> QED
    BY <1>3, <1>6, <2>5, <2>6, <2>7
<1>8. CASE Orbital!SeesTap
  <2>1. /\ driver.pc = "checking" /\ waiting = {}
        /\ driver' = [driver EXCEPT !.step = driver.step + 1,
                         !.pc = IF driver.step = Len(driver.script) THEN "done" ELSE "tapping"]
    BY <1>8 DEF Orbital!SeesTap, Orbital!Settled
  <2>2. page.pc \in {"live", "over"}
    BY <1>1, <2>1 DEF PageFits
  <2>3. Len(Taken) = driver.step /\ Len(Taken) <= Len(driver.script)
    BY <1>1, <2>1 DEF TapsFit
  <2> DEFINE pc == IF driver.step = Len(driver.script) THEN "done" ELSE "tapping"
             step == driver.step + 1
  <2>4. driver' = [script |-> driver.script, step |-> step, pc |-> pc]
    BY <1>3, <2>1
  <2>5. /\ step \in Nat /\ pc \in {"tapping", "done"}
        /\ pc = "tapping" => Len(Taken) = step - 1 /\ step <= Len(driver.script)
    BY <1>3, <1>4, <2>3
  <2> HIDE DEF step, pc
  <2> QED
    BY <1>6, <2>1, <2>2, <2>4, <2>5
<1>9. CASE Orbital!GivesUp
  <2>1. driver' = [script |-> driver.script, step |-> driver.step, pc |-> "stopped"]
    BY <1>3, <1>9 DEF Orbital!GivesUp
  <2> QED
    BY <1>3, <1>6, <2>1
<1> QED
  BY <1>7, <1>8, <1>9

(* A tap is the next of the script, and where it leads waits for its       *)
(* screenshot if that is a checkpoint.                                     *)
LEMMA TapKeeps ==
  ASSUME OrbitalInv, Orbital!Tap
  PROVE  OrbitalInv'
<1> DEFINE target == driver.script[driver.step]
           next == Orbital!Leads[target]
           r == IF next = "interactive" THEN <<next, next>> ELSE <<next>>
<1>1. /\ driver.pc = "tapping" /\ Orbital!Hittable(target)
      /\ driver' = [driver EXCEPT !.pc = "checking"]
      /\ trace' = Orbital!Through(r)
      /\ unpainted' = Append(unpainted, target)
      /\ \/ /\ next \in {"product-detail", "checkout-complete"}
            /\ page' = [page EXCEPT !.state = next, !.animating = FALSE]
            /\ Orbital!Begins(CHOOSE c \in Orbital!Checkpoints : Orbital!StateOf[c] = next)
         \/ /\ next \in {"interactive", "cart"}
            /\ page' = [page EXCEPT !.state = next]
            /\ UNCHANGED <<waiting, runner, posted>>
  BY DEF Orbital!Tap
<1>2. /\ OrbitalTyped /\ PageFits /\ RunnerFits /\ AckFits /\ TapsFit /\ StatesFit /\ PostedFits
      /\ \A w \in waiting : WaitFits(w)
  BY DEF OrbitalInv
<1>3. waiting = {} /\ runner.chain = <<>> /\ runner.taken = FALSE
  BY <1>1, <1>2, OneAtATime DEF PageFits
<1>4. /\ driver = [script |-> driver.script, step |-> driver.step, pc |-> driver.pc]
      /\ driver.script \in Scripts /\ driver.step \in Nat /\ driver.script \in Seq(Targets)
      /\ trace.taps \in Seq(Targets) /\ unpainted \in Seq(Targets)
  BY <1>2, ScriptAssumption DEF OrbitalTyped, Targets
<1>5. /\ Len(Taken) = driver.step - 1 /\ driver.step <= Len(driver.script)
      /\ \A i \in 1..Len(Taken) : Taken[i] = driver.script[i]
  BY <1>1, <1>2 DEF TapsFit
<1>6. Len(Taken) \in Nat /\ driver.step \in 1..Len(driver.script)
  BY <1>4, <1>5 DEF Taken
<1>7. target \in Targets
  BY <1>4, <1>6
<1>8. /\ \A i \in 1..Len(driver.script) : driver.script[i] = "product" /\ target = "product" => i = driver.step
      /\ target = "checkout" => driver.step = Len(driver.script)
  BY <1>4, <1>6, ScriptAssumption
<1>9. /\ next = (CASE target = "product" -> "product-detail" [] target = "back" -> "interactive"
                   [] target = "cart" -> "cart" [] target = "checkout" -> "checkout-complete")
      /\ next \in PageStates
  BY <1>7 DEF Orbital!Leads, Targets, PageStates
<1>10. /\ page.state \in {"interactive", "product-detail", "cart"}
       /\ <<page.state, next>> \in Orbital!allowedTransitions
       /\ page.state = "interactive" => target = "product"
       /\ page.state # "interactive" => target # "product"
  <2>1. CASE page.state = "interactive" /\ target = "product"
    BY <2>1, <1>9 DEF Orbital!allowedTransitions
  <2>2. CASE page.state = "product-detail" /\ target \in {"back", "cart"}
    BY <2>2, <1>9 DEF Orbital!allowedTransitions
  <2>3. CASE page.state = "cart" /\ target = "checkout"
    BY <2>3, <1>9 DEF Orbital!allowedTransitions
  <2> QED
    BY <1>1, <2>1, <2>2, <2>3 DEF Orbital!Hittable
<1>11. page.pc = "live"
  BY <1>1, <1>2, <1>10 DEF PageFits, OrbitalTyped
<1>12. r \in Seq(PageStates) /\ r # <<>> /\ LastState(r) = next /\ Orbital!InOrder(r) /\ r[1] = next
  BY <1>9, Stretches
<1> HIDE DEF r
<1>13. /\ page'.state = next /\ page'.pc = "live"
       /\ next \in {"product-detail", "checkout-complete"} => page'.animating = FALSE
       /\ page' \in [state : PageStates, path : Orbital!Paths, tier : 1..4, forced : BOOLEAN,
                     motion : BOOLEAN, animating : BOOLEAN, done : BOOLEAN, pc : {"live"}]
  <2> HIDE DEF next
  <2>1. page' = [page EXCEPT !.state = next] \/ page' = [page EXCEPT !.state = next, !.animating = FALSE]
    BY <1>1
  <2>2. page \in [state : PageStates, path : Orbital!Paths, tier : 1..4, forced : BOOLEAN,
                  motion : BOOLEAN, animating : BOOLEAN, done : BOOLEAN, pc : {"live"}]
    BY <1>2, <1>11 DEF OrbitalTyped
  <2>3. next \in {"product-detail", "checkout-complete"} => page' = [page EXCEPT !.state = next, !.animating = FALSE]
    BY <1>1
  <2>4. next \in {"product-detail", "checkout-complete"} => page'.animating = FALSE
    BY <2>2, <2>3
  <2> QED
    BY ONLY <1>9, <2>1, <2>2, <2>4
<1> HIDE DEF next
<1>14. /\ StatesFit' /\ trace'.states \in Seq(PageStates)
       /\ trace' = [states |-> trace'.states, taps |-> trace.taps, checkpoints |-> trace.checkpoints]
  BY <1>1, <1>10, <1>12, <1>13, ThroughFits
<1>15. UNCHANGED <<runner, posted>>
  BY <1>1 DEF Orbital!Begins
<1>16. /\ trace'.taps = trace.taps /\ trace'.checkpoints = trace.checkpoints
       /\ \A c : Declared(c)' = Declared(c)
  BY <1>14 DEF Declared
<1> HIDE DEF target
<1>17. /\ Taken' \in Seq(Targets) /\ Len(Taken') = Len(Taken) + 1 /\ Taken'[Len(Taken')] = target
       /\ \A i \in 1..Len(Taken) : Taken'[i] = Taken[i]
  <2>1. Taken' = trace.taps \o Append(unpainted, target)
    BY <1>1, <1>16 DEF Taken
  <2>2. LET old == trace.taps \o unpainted
            new == trace.taps \o Append(unpainted, target)
        IN  /\ new \in Seq(Targets) /\ Len(old) \in Nat /\ Len(new) = Len(old) + 1
            /\ new[Len(new)] = target /\ \A i \in 1..Len(old) : new[i] = old[i]
    BY <1>4, <1>7, TakenGrows
  <2> QED
    BY <2>1, <2>2 DEF Taken
<1>18. /\ driver' = [script |-> driver.script, step |-> driver.step, pc |-> "checking"]
       /\ driver'.script = driver.script /\ driver'.step = driver.step /\ driver'.pc = "checking"
  BY <1>1, <1>4
<1>19. TapsFit'
  <2>1. Len(Taken') = driver.step /\ Taken'[driver.step] = driver.script[driver.step]
    BY <1>5, <1>6, <1>17 DEF target
  <2>2. ASSUME NEW i \in 1..Len(Taken')
        PROVE  Taken'[i] = driver.script[i]
    <3>1. i = driver.step \/ i \in 1..Len(Taken)
      BY <1>5, <1>6, <2>1
    <3> QED
      BY <3>1, <2>1, <1>5, <1>17
  <2>3. page'.state = "product-detail" => \E i \in 1..Len(Taken') : Taken'[i] = "product"
    <3>1. next = "product-detail" => target = "product"
      BY <1>7, <1>9 DEF Targets
    <3> QED
      BY <3>1, <1>6, <1>13, <1>17, <2>1
  <2>4. page'.state = "checkout-complete" => Len(Taken') = Len(driver.script)
    <3>1. next = "checkout-complete" => target = "checkout"
      BY <1>7, <1>9 DEF Targets
    <3> QED
      BY <3>1, <1>8, <1>13, <2>1
  <2> QED
    BY <1>5, <1>18, <2>1, <2>2, <2>3, <2>4 DEF TapsFit
<1>20. AckFits'
  <2>1. driver.pc # "over" /\ runner.ack # "cp-checkout"
    BY <1>1, <1>2, <1>10 DEF AckFits
  <2>2. runner.ack = "cp-product-detail" => \E i \in 1..Len(Taken') : Taken'[i] = "product"
    <3>1. runner.ack = "cp-product-detail" => \E i \in 1..Len(Taken) : Taken[i] = "product"
      BY <1>2, <2>1 DEF AckFits
    <3>2. \A i \in 1..Len(Taken) : i \in 1..Len(Taken')
      BY <1>6, <1>17
    <3> QED
      BY <3>1, <3>2, <1>17
  <2> QED
    BY <1>13, <1>15, <2>1, <2>2 DEF AckFits
<1>21. PostedFits'
  BY <1>1, <1>2, <1>15, <1>18 DEF PostedFits
<1>22. PageFits'
  <2>1. page'.state \in {"interactive", "product-detail", "cart", "checkout-complete"}
    BY <1>7, <1>9, <1>13 DEF Targets
  <2> QED
    BY <2>1, <1>13, <1>18 DEF PageFits
<1>23. unpainted' \in Seq(Targets) /\ trace' \in [states : Seq(PageStates), taps : Seq(Targets), checkpoints : Seq(Orbital!Checkpoints)]
  <2>1. trace.checkpoints \in Seq(Orbital!Checkpoints)
    BY <1>2 DEF OrbitalTyped
  <2> QED
    BY <1>1, <1>4, <1>7, <1>14, <2>1
<1>24. driver' \in [script : Scripts, step : Nat,
                   pc : {"settling", "tapping", "checking", "done", "stopped", "over"}]
  BY <1>4, <1>18
<1>25. CASE next \in {"interactive", "cart"}
  <2>1. waiting' = waiting
    BY <1>1, <1>25
  <2>2. RunnerFits'
    BY <1>2, <1>3, <1>15, <1>16, <2>1 DEF RunnerFits
  <2>3. OrbitalTyped'
    BY <1>2, <1>13, <1>15, <1>23, <1>24, <2>1 DEF OrbitalTyped
  <2> QED
    BY <1>3, <1>14, <1>19, <1>20, <1>21, <1>22, <2>1, <2>2, <2>3 DEF OrbitalInv
<1>26. CASE next \in {"product-detail", "checkout-complete"}
  <2>1. PICK c \in Orbital!Checkpoints :
          Orbital!StateOf[c] = next /\ waiting' = waiting \cup {[id |-> c, step |-> "painting"]}
    <3> DEFINE k == CHOOSE d \in Orbital!Checkpoints : Orbital!StateOf[d] = next
    <3>1. k \in Orbital!Checkpoints /\ Orbital!StateOf[k] = next
      <4>1. \E d \in Orbital!Checkpoints : Orbital!StateOf[d] = next
        BY <1>26, CheckpointsOfOrbital
      <4> HIDE <1>1
      <4> QED
        BY ONLY <4>1
    <3>2. waiting' = waiting \cup {[id |-> k, step |-> "painting"]}
      BY <1>1, <1>26 DEF Orbital!Begins
    <3> HIDE DEF k
    <3> QED
      BY <3>1, <3>2
  <2> DEFINE w == [id |-> c, step |-> "painting"]
  <2>3. waiting' = {w} /\ w.id = c /\ w.step = "painting" /\ w \in Waits
    BY <1>3, <2>1 DEF Waits
  <2>4. runner.ack # c
    <3>1. CASE next = "product-detail"
      <4>1. c = "cp-product-detail"
        BY <2>1, <3>1, CheckpointsOfOrbital
      <4>2. target = "product"
        BY <3>1, <1>7, <1>9 DEF Targets
      <4>3. ASSUME NEW i \in 1..Len(Taken), Taken[i] = "product"
            PROVE  FALSE
        <5>1. i \in 1..Len(driver.script) /\ i # driver.step /\ driver.script[i] = "product"
          BY <4>3, <1>5, <1>6
        <5> QED
          BY <5>1, <4>2, <1>8
      <4> QED
        BY <4>1, <4>3, <1>1, <1>2 DEF AckFits
    <3>2. CASE next = "checkout-complete"
      <4>1. c = "cp-checkout"
        BY <2>1, <3>2, CheckpointsOfOrbital
      <4> QED
        BY <4>1, <1>1, <1>2, <1>10 DEF AckFits
    <3> QED
      BY <1>26, <3>1, <3>2
  <2>5. c # "cp-first-frame"
    BY <2>1, <1>26, CheckpointsOfOrbital
  <2> HIDE DEF w
  <2>6. WaitFits(w)'
    BY <1>3, <1>13, <1>15, <1>26, <2>1, <2>3, <2>4, <2>5 DEF WaitFits
  <2>7. RunnerFits'
    BY <1>2, <1>3, <1>15, <1>16 DEF RunnerFits
  <2>8. OrbitalTyped'
    BY <1>2, <1>13, <1>15, <1>23, <1>24, <2>3 DEF OrbitalTyped
  <2> QED
    BY <1>14, <1>19, <1>20, <1>21, <1>22, <2>3, <2>6, <2>7, <2>8 DEF OrbitalInv
<1>27. next \in {"interactive", "cart", "product-detail", "checkout-complete"}
  BY <1>7, <1>9 DEF Targets
<1> QED
  BY <1>25, <1>26, <1>27

(* The session ends with the trace that was posted, or one read off.       *)
LEMMA EndsKeeps ==
  ASSUME OrbitalInv, Orbital!SessionEnds
  PROVE  OrbitalInv'
<1>1. /\ runner.chain = <<>>
      /\ \/ driver.pc = "done" /\ posted' = posted
         \/ /\ driver.pc = "stopped"
            /\ \/ /\ Orbital!Probed
                  /\ posted' = [by |-> "runner", states |-> trace.states, taps |-> trace.taps,
                                checkpoints |-> trace.checkpoints, tier |-> page.tier]
               \/ posted' = posted
      /\ driver' = [driver EXCEPT !.pc = "over"]
      /\ page' = [page EXCEPT !.pc = "over", !.animating = FALSE]
      /\ waiting' = {} /\ unpainted' = <<>>
      /\ UNCHANGED <<trace, runner>>
  BY DEF Orbital!SessionEnds
<1>2. /\ OrbitalTyped /\ PageFits /\ RunnerFits /\ AckFits /\ TapsFit /\ StatesFit /\ PostedFits
  BY DEF OrbitalInv
<1>3. /\ page' \in [state : PageStates, path : Orbital!Paths, tier : 1..4, forced : BOOLEAN,
                    motion : BOOLEAN, animating : BOOLEAN, done : BOOLEAN, pc : {"over"}]
      /\ page'.state = page.state /\ page'.pc = "over"
  BY <1>1, <1>2 DEF OrbitalTyped
<1>4. /\ driver' = [script |-> driver.script, step |-> driver.step, pc |-> "over"]
      /\ driver'.script = driver.script /\ driver'.step = driver.step /\ driver'.pc = "over"
      /\ driver.script \in Scripts /\ driver.step \in Nat
  BY <1>1, <1>2 DEF OrbitalTyped
<1>5. trace.taps \in Seq(Targets) /\ unpainted \in Seq(Targets)
  BY <1>2 DEF OrbitalTyped
<1>6. Taken' = trace.taps
  BY <1>1, <1>5, ConcatEmptySeq DEF Taken
<1>7. /\ Len(trace.taps) \in Nat /\ Len(trace.taps) <= Len(Taken)
      /\ \A i \in 1..Len(trace.taps) : Taken[i] = trace.taps[i]
  <2>1. /\ Len(trace.taps \o unpainted) = Len(trace.taps) + Len(unpainted)
        /\ \A i \in 1 .. Len(trace.taps) + Len(unpainted) :
              (trace.taps \o unpainted)[i] = IF i <= Len(trace.taps) THEN trace.taps[i]
                                             ELSE unpainted[i - Len(trace.taps)]
    BY <1>5, ConcatProperties
  <2>2. Len(trace.taps) \in Nat /\ Len(unpainted) \in Nat
    BY <1>5
  <2> QED
    BY <2>1, <2>2 DEF Taken
<1>8. TapsFit'
  <2>1. /\ Len(trace.taps) <= Len(driver.script)
        /\ \A i \in 1..Len(trace.taps) : trace.taps[i] = driver.script[i]
    <3>1. Len(driver.script) \in Nat /\ Len(Taken) \in Nat
      BY <1>4, <1>5, ScriptAssumption DEF Taken
    <3>2. Len(Taken) <= Len(driver.script) /\ \A i \in 1..Len(Taken) : Taken[i] = driver.script[i]
      BY <1>2 DEF TapsFit
    <3> QED
      BY <1>7, <3>1, <3>2
  <2> QED
    BY <1>4, <1>6, <2>1 DEF TapsFit
<1>9. OrbitalTyped'
  <2>1. <<>> \in Seq(Targets)
    OBVIOUS
  <2> QED
    BY <1>1, <1>2, <1>3, <1>4, <2>1 DEF OrbitalTyped
<1>10. PageFits' /\ AckFits' /\ StatesFit'
  BY <1>1, <1>2, <1>3, <1>4 DEF PageFits, AckFits, StatesFit, Orbital!Probed
<1>11. RunnerFits'
  <2>1. \A d : Declared(d)' = Declared(d)
    BY <1>1 DEF Declared
  <2> QED
    BY <1>1, <1>2, <2>1 DEF RunnerFits
<1>12. PostedFits'
  <2>1. CASE posted' = posted
    <3>1. posted.by # "runner"
      BY <1>1, <1>2 DEF PostedFits
    <3> QED
      BY <2>1, <3>1, <1>1, <1>2, <1>4 DEF PostedFits
  <2>2. CASE posted' # posted
    <3>1. /\ posted'.by = "runner" /\ posted'.states = trace.states
          /\ posted'.checkpoints = trace.checkpoints /\ Orbital!Probed
      BY <1>1, <2>2
    <3> QED
      BY <3>1, <1>1, <1>2, <1>4 DEF PostedFits, StatesFit
  <2> QED
    BY <2>1, <2>2
<1> QED
  BY <1>1, <1>8, <1>9, <1>10, <1>11, <1>12 DEF OrbitalInv

(* Every step keeps the invariant. *)
LEMMA OrbitalNext == OrbitalInv /\ Orbital!Next => OrbitalInv'
BY BootFailsKeeps, BootKeeps, SettleKeeps, PaintedKeeps, CheckpointEndsKeeps, CapturesKeep,
   DriverWaits, TapKeeps, EndsKeeps DEF Orbital!Next

(* A step of another subject leaves the session alone. *)
LEMMA OrbitalStutters == OrbitalInv /\ UNCHANGED experienceVars => OrbitalInv'
<1> SUFFICES ASSUME OrbitalInv, UNCHANGED experienceVars
             PROVE  OrbitalInv'
  OBVIOUS
<1>1. UNCHANGED <<page, trace, waiting, unpainted, runner, driver, posted>>
  BY DEF experienceVars
<1>2. Taken' = Taken /\ \A c : Declared(c)' = Declared(c)
  BY <1>1 DEF Taken, Declared
<1>3. OrbitalTyped' /\ PageFits' /\ RunnerFits' /\ (\A w \in waiting : WaitFits(w))'
  BY <1>1, <1>2 DEF OrbitalInv, OrbitalTyped, PageFits, RunnerFits, WaitFits
<1>4. AckFits' /\ TapsFit' /\ StatesFit' /\ PostedFits'
  BY <1>1, <1>2 DEF OrbitalInv, AckFits, TapsFit, StatesFit, PostedFits, Orbital!Probed
<1> QED
  BY <1>3, <1>4 DEF OrbitalInv

-----------------------------------------------------------------------------
(* The session with any page.                                              *)

States == {"boot", "probing", "loading", "first-frame", "interactive", "looking", "xr-session",
           "session-complete"}
XrPhases == {"request", "session-start", "session-refused", "session-end", "unavailable"}

(* The states a page may be in at each step of the driver. *)
StatesAt == [settle |-> {"loading", "first-frame"}, interactive |-> {"first-frame"},
             look |-> {"interactive"}, xr |-> {"looking"}, poll |-> {"looking"},
             entered |-> {"looking"}, final |-> {"looking", "xr-session"},
             finished |-> {"looking", "session-complete"},
             harvested |-> {"looking", "session-complete"},
             over |-> {"looking", "session-complete"}]

GenericTyped ==
    /\ anyPage \in [painted : BOOLEAN, camera : BOOLEAN, asked : Nat, open : Nat]
    /\ recorder \in [states : Seq(States), checkpoints : Seq(Generic!Checkpoints), xr : Seq(XrPhases),
                     sampling : {"on", "stopped", "seen"}, sampledCamera : BOOLEAN]
    /\ anyDriver \in [pc : DOMAIN StatesAt,
                      outcome : {"unavailable", "no-trigger", "no-response", "started", "refused"},
                      before : Nat, tapped : BOOLEAN]
    /\ capture \in [id : Generic!Checkpoints, step : {"announced", "taken"}] \cup {Generic!NoCapture}
    /\ DOMAIN shots = Generic!Checkpoints

(* The page is where the driver thinks it is, and stays there while its    *)
(* checkpoint is photographed.                                             *)
OnTheSpine ==
    /\ recorder.states # <<>> /\ Generic!InOrder(recorder.states)
    /\ Generic!Last(recorder.states) \in StatesAt[anyDriver.pc]
    /\ anyDriver.pc = "settle" =>
          /\ capture = Generic!NoCapture
          /\ Generic!Last(recorder.states) = "loading" <=> ~anyPage.painted
    /\ anyDriver.pc # "settle" => anyPage.painted
    /\ capture # Generic!NoCapture => Generic!StateOf[capture.id] = Generic!Last(recorder.states)
    /\ \A c \in Generic!Checkpoints : shots[c] \in {Generic!NoShot, Generic!StateOf[c]}

(* A checkpoint that was passed is in the recorder's list. *)
CheckpointsPassed ==
    /\ anyDriver.pc \notin {"settle", "interactive"} =>
          Generic!Contains(recorder.checkpoints, "cp-interactive")
    /\ (\/ anyDriver.pc \in {"xr", "poll", "entered", "final"}
        \/ Generic!Last(recorder.states) = "session-complete")
          => Generic!Contains(recorder.checkpoints, "cp-after-look")

CameraUnread ==
    /\ recorder.sampling = "on" => ~anyPage.camera
    /\ recorder.sampledCamera = FALSE

StartSeen == anyDriver.outcome = "started" => Generic!Happened("session-start")

(* What is harvested is what the recorder holds, and the hash is of it. *)
TraceFits ==
    IF Generic!Alive THEN anyTrace = Generic!NoTrace
    ELSE /\ capture = Generic!NoCapture
         /\ anyTrace = [fields |-> anyTrace.fields, states |-> recorder.states,
                        checkpoints |-> recorder.checkpoints, xr |-> recorder.xr,
                        camera |-> anyPage.camera, firstFrame |-> anyTrace.firstFrame,
                        tier |-> anyTrace.tier, path |-> anyTrace.path,
                        hash |-> Generic!Hash(anyTrace)]
         /\ anyDriver.pc = "over" =>
               (anyTrace.path = "camera-xr" <=> (Generic!Happened("session-start") \/ anyPage.camera))

GenericInv == GenericTyped /\ OnTheSpine /\ CheckpointsPassed /\ CameraUnread /\ StartSeen /\ TraceFits

(* A state that may follow the last is recorded in order. *)
LEMMA MarkedFits ==
  ASSUME recorder.states \in Seq(States), recorder.states # <<>>, Generic!InOrder(recorder.states),
         NEW state \in States,
         <<Generic!Last(recorder.states), state>> \in Generic!allowedTransitions
  PROVE  LET marked == Generic!Marked(state)
         IN  /\ marked \in Seq(States) /\ marked # <<>> /\ Generic!InOrder(marked)
             /\ Generic!Last(marked) = state
<1> DEFINE states == recorder.states
           longer == Append(states, state)
<1>1. states \in Seq(States) /\ Len(states) \in Nat \ {0}
  OBVIOUS
<1>2. Generic!Last(states) = states[Len(states)] /\ Generic!Last(longer) = longer[Len(longer)]
  BY DEF Generic!Last
<1>3. CASE Generic!Last(states) = state
  BY <1>3 DEF Generic!Marked
<1>4. CASE Generic!Last(states) # state
  <2>1. Generic!Marked(state) = longer
    BY <1>4 DEF Generic!Marked
  <2>2. /\ longer \in Seq(States) /\ longer # <<>> /\ Len(longer) = Len(states) + 1
        /\ longer[Len(longer)] = state /\ \A i \in 1..Len(states) : longer[i] = states[i]
    BY <1>1
  <2>3. ASSUME NEW i \in 2..Len(longer)
        PROVE  <<longer[i - 1], longer[i]>> \in Generic!allowedTransitions
    <3>1. CASE i = Len(longer)
      BY <3>1, <1>1, <1>2, <2>2
    <3>2. CASE i # Len(longer)
      <4>1. i \in 2..Len(states) /\ longer[i - 1] = states[i - 1] /\ longer[i] = states[i]
        BY <3>2, <1>1, <2>2
      <4> QED
        BY <4>1 DEF Generic!InOrder
    <3> QED
      BY <3>1, <3>2
  <2>4. Generic!InOrder(longer)
    BY <2>3 DEF Generic!InOrder
  <2> QED
    BY <2>1, <2>2, <2>4, <1>2
<1> QED
  BY <1>3, <1>4

(* What is appended is there, and nothing that was is lost. *)
LEMMA AppendContains ==
  ASSUME NEW S, NEW s \in Seq(S), NEW x \in S
  PROVE  /\ Append(s, x) \in Seq(S) /\ Generic!Contains(Append(s, x), x)
         /\ \A y : Generic!Contains(s, y) => Generic!Contains(Append(s, x), y)
<1> DEFINE t == Append(s, x)
<1>1. /\ t \in Seq(S) /\ Len(t) = Len(s) + 1 /\ Len(s) \in Nat /\ t[Len(s) + 1] = x
      /\ \A i \in 1..Len(s) : t[i] = s[i]
  OBVIOUS
<1> HIDE DEF t
<1>2. \A i \in 1..Len(s) : i \in 1..Len(t)
  BY <1>1
<1>3. Len(s) + 1 \in 1..Len(t)
  BY <1>1
<1>4. Generic!Contains(t, x)
  BY <1>1, <1>3, Zenon DEF Generic!Contains
<1>5. \A y : Generic!Contains(s, y) => Generic!Contains(t, y)
  BY <1>1, <1>2, Zenon DEF Generic!Contains
<1> QED
  BY <1>1, <1>4, <1>5 DEF t

(* A session before its page paints. *)
LEMMA GenericStart == Generic!Init => GenericInv
<1> SUFFICES ASSUME Generic!Init
             PROVE  GenericInv
  OBVIOUS
<1> USE DEF Generic!Init
<1>1. GenericTyped
  <2>1. /\ recorder.states \in Seq(States) /\ recorder.checkpoints \in Seq(Generic!Checkpoints)
        /\ recorder.xr \in Seq(XrPhases)
    <3>1. recorder.states = <<"boot", "probing", "loading">> /\ recorder.checkpoints = <<>>
      OBVIOUS
    <3>2. recorder.xr = <<>> \/ recorder.xr = <<"unavailable">>
      OBVIOUS
    <3>3. recorder.states \in Seq(States)
      BY <3>1 DEF States
    <3>4. recorder.xr \in Seq(XrPhases)
      <4>1. <<"unavailable">> \in Seq(XrPhases) /\ <<>> \in Seq(XrPhases)
        BY DEF XrPhases
      <4> QED
        BY <3>2, <4>1
    <3> QED
      BY <3>1, <3>3, <3>4
  <2>2. recorder = [states |-> recorder.states, checkpoints |-> recorder.checkpoints,
                    xr |-> recorder.xr, sampling |-> "on", sampledCamera |-> FALSE]
    OBVIOUS
  <2>3. /\ anyPage \in [painted : BOOLEAN, camera : BOOLEAN, asked : Nat, open : Nat]
        /\ DOMAIN shots = Generic!Checkpoints /\ capture = Generic!NoCapture
    OBVIOUS
  <2>4. anyDriver \in [pc : DOMAIN StatesAt,
                      outcome : {"unavailable", "no-trigger", "no-response", "started", "refused"},
                      before : Nat, tapped : BOOLEAN]
    BY DEF StatesAt
  <2> QED
    BY <2>1, <2>2, <2>3, <2>4 DEF GenericTyped
<1>2. recorder.states = <<"boot", "probing", "loading">> /\ Generic!Last(recorder.states) = "loading"
  BY DEF Generic!Last
<1>3. Generic!InOrder(recorder.states)
  <2>1. \A i \in 2..3 : i = 2 \/ i = 3
    OBVIOUS
  <2> QED
    BY <1>2, <2>1 DEF Generic!InOrder, Generic!allowedTransitions
<1>4. OnTheSpine
  BY <1>2, <1>3 DEF OnTheSpine, StatesAt, Generic!NoShot
<1> QED
  BY <1>1, <1>2, <1>4
  DEF GenericInv, CheckpointsPassed, CameraUnread, StartSeen, TraceFits, Generic!Alive

(* While the page lives nothing was harvested. *)
LEMMA AliveTrace ==
  ASSUME GenericInv, Generic!Alive, Generic!Alive', UNCHANGED anyTrace
  PROVE  TraceFits'
BY DEF GenericInv, TraceFits

(* The phases only grow. *)
LEMMA PhasesGrow ==
  ASSUME GenericInv, NEW phase \in XrPhases, recorder'.xr = Append(recorder.xr, phase),
         anyDriver' = anyDriver
  PROVE  StartSeen' /\ recorder'.xr \in Seq(XrPhases)
<1>1. recorder.xr \in Seq(XrPhases)
  BY DEF GenericInv, GenericTyped
<1> QED
  BY <1>1, AppendContains DEF GenericInv, StartSeen, Generic!Happened

(* The page paints. *)
LEMMA PaintsKeeps ==
  ASSUME GenericInv, Generic!Paints
  PROVE  GenericInv'
<1> USE DEF GenericInv
<1>1. /\ anyPage' = [anyPage EXCEPT !.painted = TRUE] /\ anyPage.painted = FALSE
      /\ recorder' = [recorder EXCEPT !.states = Generic!Marked("first-frame")]
      /\ UNCHANGED <<anyDriver, capture, shots, anyTrace>> /\ Generic!Alive
  BY DEF Generic!Paints, Generic!PageOnly, GenericTyped
<1>2. anyDriver.pc = "settle" /\ Generic!Last(recorder.states) = "loading"
  BY <1>1 DEF OnTheSpine
<1>3. LET marked == Generic!Marked("first-frame")
      IN  /\ marked \in Seq(States) /\ marked # <<>> /\ Generic!InOrder(marked)
          /\ Generic!Last(marked) = "first-frame"
  BY <1>2, MarkedFits DEF GenericTyped, OnTheSpine, States, Generic!allowedTransitions
<1>4. /\ recorder'.states = Generic!Marked("first-frame") /\ recorder'.checkpoints = recorder.checkpoints
      /\ recorder'.xr = recorder.xr /\ recorder'.sampling = recorder.sampling
      /\ recorder'.sampledCamera = recorder.sampledCamera
      /\ anyPage'.painted = TRUE /\ anyPage'.camera = anyPage.camera
  BY <1>1 DEF GenericTyped
<1>5. GenericTyped'
  BY <1>1, <1>3 DEF GenericTyped
<1>6. OnTheSpine'
  BY <1>1, <1>2, <1>3, <1>4 DEF OnTheSpine, StatesAt
<1>7. CheckpointsPassed'
  BY <1>1, <1>2, <1>3, <1>4 DEF CheckpointsPassed
<1>8. CameraUnread' /\ StartSeen'
  BY <1>1, <1>4 DEF CameraUnread, StartSeen, Generic!Happened
<1>9. TraceFits'
  BY <1>1, AliveTrace DEF Generic!Alive
<1> QED
  BY <1>5, <1>6, <1>7, <1>8, <1>9

(* What the page does with its camera and its device leaves its states. *)
LEMMA PageKeeps ==
  ASSUME GenericInv,
         Generic!AcquiresCamera \/ Generic!SampleNonBlank \/ Generic!RequestsSession
           \/ Generic!DeviceAnswers \/ Generic!SessionEnds
  PROVE  GenericInv'
<1> USE DEF GenericInv
<1>1. /\ UNCHANGED <<anyDriver, capture, shots, anyTrace>> /\ Generic!Alive
  BY DEF Generic!AcquiresCamera, Generic!SampleNonBlank, Generic!RequestsSession,
         Generic!DeviceAnswers, Generic!SessionEnds, Generic!PageOnly
<1>2. /\ recorder'.states = recorder.states /\ recorder'.checkpoints = recorder.checkpoints
      /\ anyPage'.painted = anyPage.painted /\ anyPage' \in [painted : BOOLEAN, camera : BOOLEAN, asked : Nat, open : Nat]
      /\ recorder' = [states |-> recorder.states, checkpoints |-> recorder.checkpoints,
                      xr |-> recorder'.xr, sampling |-> recorder'.sampling,
                      sampledCamera |-> recorder'.sampledCamera]
  <2>1. CASE Generic!AcquiresCamera
    BY <2>1 DEF Generic!AcquiresCamera, GenericTyped
  <2>2. CASE Generic!SampleNonBlank
    BY <2>2 DEF Generic!SampleNonBlank, GenericTyped
  <2>3. CASE Generic!RequestsSession
    <3>1. anyPage' \in [painted : BOOLEAN, camera : BOOLEAN, asked : Nat, open : Nat]
          /\ anyPage'.painted = anyPage.painted
      <4>1. anyPage' = [anyPage EXCEPT !.asked = anyPage.asked + 1, !.open = anyPage.open + 1]
        BY <2>3 DEF Generic!RequestsSession
      <4>2. anyPage.asked + 1 \in Nat /\ anyPage.open + 1 \in Nat
        BY DEF GenericTyped
      <4> QED
        BY <4>1, <4>2 DEF GenericTyped
    <3> QED
      BY <3>1, <2>3 DEF Generic!RequestsSession, GenericTyped
  <2>4. CASE Generic!DeviceAnswers
    <3>1. anyPage' \in [painted : BOOLEAN, camera : BOOLEAN, asked : Nat, open : Nat]
          /\ anyPage'.painted = anyPage.painted
      <4>1. anyPage' = [anyPage EXCEPT !.open = anyPage.open - 1] /\ anyPage.open > 0
        BY <2>4 DEF Generic!DeviceAnswers
      <4>2. anyPage \in [painted : BOOLEAN, camera : BOOLEAN, asked : Nat, open : Nat]
        BY DEF GenericTyped
      <4>3. anyPage.open - 1 \in Nat
        BY <4>1, <4>2
      <4> QED
        BY ONLY <4>1, <4>2, <4>3
    <3> QED
      BY <3>1, <2>4 DEF Generic!DeviceAnswers, GenericTyped
  <2>5. CASE Generic!SessionEnds
    BY <2>5 DEF Generic!SessionEnds, GenericTyped
  <2> QED
    BY <2>1, <2>2, <2>3, <2>4, <2>5
<1>3. CameraUnread' /\ recorder'.sampling \in {"on", "stopped", "seen"}
  BY DEF Generic!AcquiresCamera, Generic!SampleNonBlank, Generic!RequestsSession,
         Generic!DeviceAnswers, Generic!SessionEnds, GenericTyped, CameraUnread
<1>4. \/ recorder'.xr = recorder.xr
      \/ \E phase \in XrPhases : recorder'.xr = Append(recorder.xr, phase)
  BY DEF Generic!AcquiresCamera, Generic!SampleNonBlank, Generic!RequestsSession,
         Generic!DeviceAnswers, Generic!SessionEnds, GenericTyped, XrPhases
<1>5. StartSeen' /\ recorder'.xr \in Seq(XrPhases)
  <2>1. CASE recorder'.xr = recorder.xr
    BY <2>1, <1>1 DEF GenericTyped, StartSeen, Generic!Happened
  <2>2. CASE \E phase \in XrPhases : recorder'.xr = Append(recorder.xr, phase)
    BY <2>2, <1>1, PhasesGrow
  <2> QED
    BY <1>4, <2>1, <2>2
<1>6. GenericTyped'
  <2>1. recorder'.sampledCamera \in BOOLEAN
    BY <1>3 DEF CameraUnread
  <2>2. recorder' \in [states : Seq(States), checkpoints : Seq(Generic!Checkpoints), xr : Seq(XrPhases),
                     sampling : {"on", "stopped", "seen"}, sampledCamera : BOOLEAN]
    <3>1. recorder.states \in Seq(States) /\ recorder.checkpoints \in Seq(Generic!Checkpoints)
      BY DEF GenericTyped
    <3> HIDE DEF GenericInv
    <3> QED
      BY <3>1, <2>1, <1>2, <1>3, <1>5
  <2> QED
    BY <2>2, <1>1, <1>2 DEF GenericTyped
<1>7. OnTheSpine' /\ CheckpointsPassed'
  BY <1>1, <1>2 DEF OnTheSpine, CheckpointsPassed
<1>8. TraceFits'
  BY <1>1, AliveTrace DEF Generic!Alive
<1> QED
  BY <1>3, <1>5, <1>6, <1>7, <1>8

(* A checkpoint is announced: the driver goes on, and waits for it.        *)
LEMMA AnnouncesKeeps ==
  ASSUME GenericInv, Generic!Alive, capture = Generic!NoCapture, anyPage.painted,
         NEW c \in Generic!Checkpoints, NEW pc \in {"interactive", "look", "xr", "final", "finished"},
         NEW marked \in Seq(States), marked # <<>>, Generic!InOrder(marked),
         Generic!Last(marked) = Generic!StateOf[c], Generic!StateOf[c] \in StatesAt[pc],
         anyDriver' = [anyDriver EXCEPT !.pc = pc],
         Generic!Announces(c, marked), Generic!DriverOnly,
         pc \in {"look", "xr", "final", "finished"} =>
            c = "cp-interactive" \/ anyDriver.pc \notin {"settle", "interactive"},
         pc \in {"xr", "final"} \/ c = "cp-final" =>
            c = "cp-after-look" \/ anyDriver.pc \in {"xr", "poll", "entered", "final"},
         Generic!StateOf[c] = "session-complete" => c = "cp-final"
  PROVE  GenericInv'
<1> USE DEF GenericInv
<1>1. /\ recorder' = [recorder EXCEPT !.states = marked, !.checkpoints = Append(recorder.checkpoints, c)]
      /\ capture' = [id |-> c, step |-> "announced"]
      /\ UNCHANGED <<anyPage, shots, anyTrace>>
  BY DEF Generic!Announces, Generic!DriverOnly
<1>2. /\ recorder'.states = marked /\ recorder'.checkpoints = Append(recorder.checkpoints, c)
      /\ recorder'.xr = recorder.xr /\ recorder'.sampling = recorder.sampling
      /\ recorder'.sampledCamera = recorder.sampledCamera
      /\ anyDriver'.pc = pc /\ anyDriver'.outcome = anyDriver.outcome
      /\ capture'.id = c
  BY <1>1 DEF GenericTyped
<1>3. /\ recorder'.checkpoints \in Seq(Generic!Checkpoints)
      /\ Generic!Contains(recorder'.checkpoints, c)
      /\ \A y : Generic!Contains(recorder.checkpoints, y) => Generic!Contains(recorder'.checkpoints, y)
  BY <1>2, AppendContains DEF GenericTyped
<1>4. pc \in DOMAIN StatesAt /\ pc # "settle"
  BY DEF StatesAt
<1>5. GenericTyped'
  BY <1>1, <1>2, <1>3, <1>4 DEF GenericTyped
<1>6. OnTheSpine'
  BY <1>1, <1>2, <1>4 DEF OnTheSpine
<1>7. CheckpointsPassed'
  <2>1. pc \notin {"settle", "interactive"} => Generic!Contains(recorder'.checkpoints, "cp-interactive")
    BY <1>3 DEF CheckpointsPassed
  <2>2. pc \in {"xr", "final"} \/ c = "cp-final" => Generic!Contains(recorder'.checkpoints, "cp-after-look")
    BY <1>3 DEF CheckpointsPassed
  <2> QED
    BY <1>2, <2>1, <2>2 DEF CheckpointsPassed
<1>8. CameraUnread' /\ StartSeen'
  BY <1>1, <1>2 DEF CameraUnread, StartSeen, Generic!Happened
<1>9. TraceFits'
  BY <1>1, <1>2, AliveTrace DEF Generic!Alive
<1> QED
  BY <1>5, <1>6, <1>7, <1>8, <1>9

(* The checkpoints and the states of the spine. *)
LEMMA CheckpointStates ==
  /\ Generic!Checkpoints = {"cp-first-frame", "cp-interactive", "cp-after-look", "cp-xr", "cp-final"}
  /\ Generic!StateOf["cp-first-frame"] = "first-frame" /\ Generic!StateOf["cp-interactive"] = "interactive"
  /\ Generic!StateOf["cp-after-look"] = "looking" /\ Generic!StateOf["cp-xr"] = "xr-session"
  /\ Generic!StateOf["cp-final"] = "session-complete"
BY DEF Generic!Checkpoints, Generic!StateOf

(* The driver reaches a checkpoint. *)
LEMMA DriverAnnounces ==
  ASSUME GenericInv,
         \/ Generic!Settles \/ Generic!MarksInteractive \/ Generic!MarksXr \/ Generic!Completes
  PROVE  GenericInv'
<1>1. /\ recorder.states \in Seq(States) /\ recorder.states # <<>> /\ Generic!InOrder(recorder.states)
      /\ Generic!Last(recorder.states) \in StatesAt[anyDriver.pc]
      /\ anyDriver.pc # "settle" => anyPage.painted
  BY DEF GenericInv, GenericTyped, OnTheSpine
<1>2. CASE Generic!Settles
  <2>1. /\ anyDriver.pc = "settle" /\ capture = Generic!NoCapture /\ anyPage.painted
        /\ anyDriver' = [anyDriver EXCEPT !.pc = "interactive"]
        /\ Generic!Announces("cp-first-frame", recorder.states) /\ Generic!DriverOnly
    BY <1>2 DEF Generic!Settles, Generic!Ready
  <2>2. Generic!Last(recorder.states) = "first-frame"
    BY <2>1, <1>1 DEF GenericInv, OnTheSpine, StatesAt
  <2> QED
    BY <1>1, <2>1, <2>2, CheckpointStates, AnnouncesKeeps DEF Generic!Alive, StatesAt
<1>3. CASE Generic!MarksInteractive
  <2>1. /\ anyDriver.pc = "interactive" /\ capture = Generic!NoCapture
        /\ anyDriver' = [anyDriver EXCEPT !.pc = "look"]
        /\ Generic!Announces("cp-interactive", Generic!Marked("interactive")) /\ Generic!DriverOnly
    BY <1>3 DEF Generic!MarksInteractive, Generic!Ready
  <2>2. <<Generic!Last(recorder.states), "interactive">> \in Generic!allowedTransitions
    BY <2>1, <1>1 DEF StatesAt, Generic!allowedTransitions
  <2>3. LET marked == Generic!Marked("interactive")
        IN  /\ marked \in Seq(States) /\ marked # <<>> /\ Generic!InOrder(marked)
            /\ Generic!Last(marked) = "interactive"
    BY <1>1, <2>2, MarkedFits DEF States
  <2> QED
    BY <1>1, <2>1, <2>3, CheckpointStates, AnnouncesKeeps DEF Generic!Alive, StatesAt
<1>4. CASE Generic!MarksXr
  <2>1. /\ anyDriver.pc = "entered" /\ capture = Generic!NoCapture
        /\ anyDriver' = [anyDriver EXCEPT !.pc = "final"]
        /\ Generic!Announces("cp-xr", Generic!Marked("xr-session")) /\ Generic!DriverOnly
    BY <1>4 DEF Generic!MarksXr, Generic!Ready
  <2>2. <<Generic!Last(recorder.states), "xr-session">> \in Generic!allowedTransitions
    BY <2>1, <1>1 DEF StatesAt, Generic!allowedTransitions
  <2>3. LET marked == Generic!Marked("xr-session")
        IN  /\ marked \in Seq(States) /\ marked # <<>> /\ Generic!InOrder(marked)
            /\ Generic!Last(marked) = "xr-session"
    BY <1>1, <2>2, MarkedFits DEF States
  <2> QED
    BY <1>1, <2>1, <2>3, CheckpointStates, AnnouncesKeeps DEF Generic!Alive, StatesAt
<1>5. CASE Generic!Completes
  <2>1. /\ anyDriver.pc = "final" /\ capture = Generic!NoCapture
        /\ anyDriver' = [anyDriver EXCEPT !.pc = "finished"]
        /\ Generic!Announces("cp-final", Generic!Marked("session-complete")) /\ Generic!DriverOnly
    BY <1>5 DEF Generic!Completes, Generic!Ready
  <2>2. <<Generic!Last(recorder.states), "session-complete">> \in Generic!allowedTransitions
    BY <2>1, <1>1 DEF StatesAt, Generic!allowedTransitions
  <2>3. LET marked == Generic!Marked("session-complete")
        IN  /\ marked \in Seq(States) /\ marked # <<>> /\ Generic!InOrder(marked)
            /\ Generic!Last(marked) = "session-complete"
    BY <1>1, <2>2, MarkedFits DEF States
  <2> QED
    BY <1>1, <2>1, <2>3, CheckpointStates, AnnouncesKeeps DEF Generic!Alive, StatesAt
<1> QED
  BY <1>2, <1>3, <1>4, <1>5

(* The gesture that looks around is sent, or ends the session. *)
LEMMA LooksKeeps ==
  ASSUME GenericInv, Generic!LooksAround
  PROVE  GenericInv'
<1>1. /\ anyDriver.pc = "look" /\ capture = Generic!NoCapture /\ Generic!DriverOnly
      /\ \/ /\ anyDriver' = [anyDriver EXCEPT !.pc = "xr"]
            /\ Generic!Announces("cp-after-look", Generic!Marked("looking"))
         \/ /\ anyDriver' = [anyDriver EXCEPT !.pc = "finished"]
            /\ recorder' = [recorder EXCEPT !.states = Generic!Marked("looking")]
            /\ UNCHANGED capture
  BY DEF Generic!LooksAround, Generic!Ready
<1>2. anyPage.painted /\ <<Generic!Last(recorder.states), "looking">> \in Generic!allowedTransitions
  BY <1>1 DEF StatesAt, Generic!allowedTransitions, GenericInv, OnTheSpine
<1>3. LET marked == Generic!Marked("looking")
      IN  /\ marked \in Seq(States) /\ marked # <<>> /\ Generic!InOrder(marked)
          /\ Generic!Last(marked) = "looking"
  BY <1>2, MarkedFits DEF States, GenericInv, GenericTyped, OnTheSpine
<1>4. CASE Generic!Announces("cp-after-look", Generic!Marked("looking"))
           /\ anyDriver' = [anyDriver EXCEPT !.pc = "xr"]
  BY <1>1, <1>2, <1>3, <1>4, CheckpointStates, AnnouncesKeeps DEF Generic!Alive, StatesAt
<1>5. CASE /\ anyDriver' = [anyDriver EXCEPT !.pc = "finished"]
           /\ recorder' = [recorder EXCEPT !.states = Generic!Marked("looking")]
           /\ UNCHANGED capture
  <2> USE DEF GenericInv
  <2>1. /\ recorder'.states = Generic!Marked("looking") /\ recorder'.checkpoints = recorder.checkpoints
        /\ recorder'.xr = recorder.xr /\ recorder'.sampling = recorder.sampling
        /\ recorder'.sampledCamera = recorder.sampledCamera
        /\ anyDriver'.pc = "finished" /\ anyDriver'.outcome = anyDriver.outcome
        /\ UNCHANGED <<anyPage, shots, anyTrace, capture>>
    BY <1>1, <1>5 DEF GenericTyped, Generic!DriverOnly
  <2>2. GenericTyped'
    BY <2>1, <1>3, <1>5 DEF GenericTyped, StatesAt
  <2>3. OnTheSpine'
    BY <2>1, <1>1, <1>2, <1>3 DEF OnTheSpine, StatesAt
  <2>4. CheckpointsPassed'
    BY <2>1, <1>1, <1>3 DEF CheckpointsPassed
  <2>5. CameraUnread' /\ StartSeen'
    BY <2>1 DEF CameraUnread, StartSeen, Generic!Happened
  <2>6. TraceFits'
    BY <2>1, <1>1, AliveTrace DEF Generic!Alive
  <2> QED
    BY <2>2, <2>3, <2>4, <2>5, <2>6
<1> QED
  BY <1>1, <1>4, <1>5

(* The tap on the XR control, and the poll after it. *)
LEMMA XrKeeps ==
  ASSUME GenericInv, Generic!TapsXr \/ Generic!Polls
  PROVE  GenericInv'
<1> USE DEF GenericInv
<1>1. /\ UNCHANGED <<recorder, capture, anyPage, shots, anyTrace>>
      /\ anyDriver.pc \in {"xr", "poll"}
  BY DEF Generic!TapsXr, Generic!Polls, Generic!Ready, Generic!DriverOnly
<1>2. /\ anyDriver' \in [pc : {"poll", "entered", "final"},
                          outcome : {"unavailable", "no-trigger", "no-response", "started", "refused"},
                          before : Nat, tapped : BOOLEAN]
      /\ StartSeen
      /\ anyDriver'.outcome = "started" =>
            anyDriver.outcome = "started" \/ Generic!Happened("session-start")
  <2>1. Len(recorder.xr) \in Nat
    BY DEF GenericTyped
  <2>2. CASE Generic!TapsXr
    BY <2>1, <2>2 DEF Generic!TapsXr, GenericTyped
  <2>3. CASE Generic!Polls
    BY <2>3 DEF Generic!Polls, GenericTyped
  <2> QED
    BY <2>2, <2>3
<1>3. GenericTyped'
  BY <1>1, <1>2 DEF GenericTyped, StatesAt
<1>4. OnTheSpine'
  BY <1>1, <1>2 DEF OnTheSpine, StatesAt
<1>5. CheckpointsPassed' /\ CameraUnread'
  BY <1>1, <1>2 DEF CheckpointsPassed, CameraUnread
<1>6. StartSeen'
  BY <1>1, <1>2 DEF StartSeen, Generic!Happened
<1>7. TraceFits'
  BY <1>1, <1>2, AliveTrace DEF Generic!Alive
<1> QED
  BY <1>3, <1>4, <1>5, <1>6, <1>7

(* The runner photographs a page that stands still, and lets it go on.     *)
LEMMA CaptureKeeps ==
  ASSUME GenericInv, Generic!Photograph \/ Generic!Acknowledge
  PROVE  GenericInv'
<1> USE DEF GenericInv
<1>1. /\ UNCHANGED <<recorder, anyDriver, anyPage, anyTrace>> /\ capture # Generic!NoCapture
      /\ \/ capture' = Generic!NoCapture /\ shots' = shots
         \/ /\ capture' = [capture EXCEPT !.step = "taken"]
            /\ \/ shots' = [shots EXCEPT ![capture.id] = Generic!Last(recorder.states)]
               \/ UNCHANGED shots
  BY DEF Generic!Photograph, Generic!Acknowledge
<1>2. /\ capture.id \in Generic!Checkpoints /\ capture \in [id : Generic!Checkpoints, step : {"announced", "taken"}]
      /\ Generic!StateOf[capture.id] = Generic!Last(recorder.states) /\ anyDriver.pc # "settle"
      /\ Generic!Alive
  BY <1>1 DEF GenericTyped, OnTheSpine, TraceFits
<1>3. capture' = Generic!NoCapture \/ (/\ capture'.id = capture.id
                                       /\ capture' \in [id : Generic!Checkpoints, step : {"announced", "taken"}])
  BY <1>1, <1>2
<1>4. DOMAIN shots' = Generic!Checkpoints
  BY <1>1 DEF GenericTyped
<1>5. \A c \in Generic!Checkpoints : shots'[c] \in {Generic!NoShot, Generic!StateOf[c]}
  BY <1>1, <1>2 DEF GenericTyped, OnTheSpine
<1>6. GenericTyped'
  BY <1>1, <1>3, <1>4 DEF GenericTyped
<1>7. OnTheSpine'
  BY <1>1, <1>2, <1>3, <1>5 DEF OnTheSpine
<1>8. CheckpointsPassed' /\ CameraUnread' /\ StartSeen'
  BY <1>1 DEF CheckpointsPassed, CameraUnread, StartSeen, Generic!Happened
<1>9. TraceFits'
  BY <1>1, <1>2, AliveTrace DEF Generic!Alive
<1> QED
  BY <1>6, <1>7, <1>8, <1>9

(* Whoever writes on a trace hashes it anew. *)
LEMMA RehashedFits ==
  ASSUME NEW t, t = [fields |-> t.fields, states |-> t.states, checkpoints |-> t.checkpoints,
                     xr |-> t.xr, camera |-> t.camera, firstFrame |-> t.firstFrame,
                     tier |-> t.tier, path |-> t.path, hash |-> t.hash]
  PROVE  LET u == Generic!Rehashed(t)
         IN  u = [fields |-> t.fields, states |-> t.states, checkpoints |-> t.checkpoints,
                  xr |-> t.xr, camera |-> t.camera, firstFrame |-> t.firstFrame,
                  tier |-> t.tier, path |-> t.path, hash |-> Generic!Hash(u)]
<1> DEFINE u == Generic!Rehashed(t)
           h == Generic!Hash(t)
<1>1. u = [fields |-> t.fields, states |-> t.states, checkpoints |-> t.checkpoints,
           xr |-> t.xr, camera |-> t.camera, firstFrame |-> t.firstFrame,
           tier |-> t.tier, path |-> t.path, hash |-> h]
  <2> HIDE DEF h
  <2>1. u = [t EXCEPT !.hash = h]
    BY DEF Generic!Rehashed, h
  <2> QED
    BY <2>1
<1>2. h = [fields |-> t.fields, states |-> t.states, checkpoints |-> t.checkpoints,
           xr |-> t.xr, camera |-> t.camera, firstFrame |-> t.firstFrame,
           tier |-> t.tier, path |-> t.path, hash |-> "none"]
  BY DEF Generic!Hash
<1>3. Generic!Hash(u) = h
  <2> HIDE DEF h, u
  <2>1. Generic!Hash(u) = [fields |-> t.fields, states |-> t.states, checkpoints |-> t.checkpoints,
           xr |-> t.xr, camera |-> t.camera, firstFrame |-> t.firstFrame,
           tier |-> t.tier, path |-> t.path, hash |-> "none"]
    BY <1>1 DEF Generic!Hash
  <2> QED
    BY <1>2, <2>1
<1> QED
  BY <1>1, <1>3

(* A step after the session leaves all but the trace and the driver's pc. *)
LEMMA AfterKeeps ==
  ASSUME GenericInv, capture = Generic!NoCapture,
         UNCHANGED <<anyPage, recorder, capture, shots>>,
         anyDriver.pc \in {"finished", "harvested"}, NEW pc \in {"harvested", "over"},
         anyDriver' = [anyDriver EXCEPT !.pc = pc], TraceFits'
  PROVE  GenericInv'
<1> USE DEF GenericInv
<1>1. anyDriver'.pc = pc /\ anyDriver'.outcome = anyDriver.outcome
  BY DEF GenericTyped
<1>2. GenericTyped'
  BY DEF GenericTyped, StatesAt
<1>3. OnTheSpine'
  BY <1>1 DEF OnTheSpine, StatesAt
<1>4. CheckpointsPassed' /\ CameraUnread' /\ StartSeen'
  BY <1>1 DEF CheckpointsPassed, CameraUnread, StartSeen, Generic!Happened
<1> QED
  BY <1>2, <1>3, <1>4

(* The trace is harvested, measured and classified. *)
LEMMA TraceKeeps ==
  ASSUME GenericInv, Generic!Harvest \/ Generic!MeasureFirstFrame \/ Generic!Classify
  PROVE  GenericInv'
<1> USE DEF GenericInv
<1>1. CASE Generic!Harvest
  <2> DEFINE t == [fields |-> "harvested", states |-> recorder.states,
                   checkpoints |-> recorder.checkpoints, xr |-> recorder.xr,
                   camera |-> anyPage.camera, firstFrame |-> "unmeasured",
                   tier |-> "none", path |-> "none", hash |-> "none"]
  <2>1. /\ anyTrace' = Generic!Rehashed(t) /\ anyDriver.pc = "finished" /\ capture = Generic!NoCapture
        /\ anyDriver' = [anyDriver EXCEPT !.pc = "harvested"]
        /\ UNCHANGED <<anyPage, recorder, capture, shots>>
    BY <1>1 DEF Generic!Harvest, Generic!Ready
  <2>2. /\ t = [fields |-> t.fields, states |-> t.states, checkpoints |-> t.checkpoints,
                xr |-> t.xr, camera |-> t.camera, firstFrame |-> t.firstFrame,
                tier |-> t.tier, path |-> t.path, hash |-> t.hash]
        /\ t.states = recorder.states /\ t.checkpoints = recorder.checkpoints /\ t.xr = recorder.xr
        /\ t.camera = anyPage.camera
    OBVIOUS
  <2> HIDE DEF t
  <2>3. anyTrace' = [fields |-> t.fields, states |-> t.states, checkpoints |-> t.checkpoints,
                     xr |-> t.xr, camera |-> t.camera, firstFrame |-> t.firstFrame,
                     tier |-> t.tier, path |-> t.path, hash |-> Generic!Hash(anyTrace')]
    BY <2>1, <2>2, RehashedFits
  <2>4. anyDriver'.pc = "harvested"
    BY <2>1 DEF GenericTyped
  <2>5. TraceFits'
    BY <2>1, <2>2, <2>3, <2>4 DEF TraceFits, Generic!Alive
  <2> QED
    BY <2>1, <2>5, AfterKeeps
<1>2. ASSUME anyDriver.pc = "harvested"
      PROVE  /\ capture = Generic!NoCapture
             /\ anyTrace = [fields |-> anyTrace.fields, states |-> recorder.states,
                        checkpoints |-> recorder.checkpoints, xr |-> recorder.xr,
                        camera |-> anyPage.camera, firstFrame |-> anyTrace.firstFrame,
                        tier |-> anyTrace.tier, path |-> anyTrace.path,
                        hash |-> anyTrace.hash]
             /\ anyTrace.states = recorder.states /\ anyTrace.checkpoints = recorder.checkpoints
             /\ anyTrace.xr = recorder.xr /\ anyTrace.camera = anyPage.camera
  BY <1>2 DEF TraceFits, Generic!Alive
<1>3. CASE Generic!MeasureFirstFrame
  <2>1. PICK shown \in {"shown", "blank", "unmeasured"} :
          anyTrace' = Generic!Rehashed([anyTrace EXCEPT !.firstFrame = shown, !.fields = "measured"])
    BY <1>3 DEF Generic!MeasureFirstFrame
  <2>2. /\ anyDriver.pc = "harvested" /\ UNCHANGED <<anyPage, recorder, anyDriver, capture, shots>>
    BY <1>3 DEF Generic!MeasureFirstFrame
  <2> DEFINE t == [anyTrace EXCEPT !.firstFrame = shown, !.fields = "measured"]
  <2>3. /\ t = [fields |-> t.fields, states |-> t.states, checkpoints |-> t.checkpoints,
                xr |-> t.xr, camera |-> t.camera, firstFrame |-> t.firstFrame,
                tier |-> t.tier, path |-> t.path, hash |-> t.hash]
        /\ t.states = recorder.states /\ t.checkpoints = recorder.checkpoints /\ t.xr = recorder.xr
        /\ t.camera = anyPage.camera
    <3>1. t = [anyTrace EXCEPT !.firstFrame = shown, !.fields = "measured"]
      OBVIOUS
    <3> HIDE DEF t
    <3>2. t = [fields |-> "measured", states |-> recorder.states,
               checkpoints |-> recorder.checkpoints, xr |-> recorder.xr, camera |-> anyPage.camera,
               firstFrame |-> shown, tier |-> anyTrace.tier, path |-> anyTrace.path,
               hash |-> anyTrace.hash]
      BY <1>2, <2>2, <3>1
    <3> QED
      BY <3>2
  <2> HIDE DEF t
  <2>4. anyTrace' = Generic!Rehashed(t)
    BY <2>1 DEF t
  <2>5. anyTrace' = [fields |-> t.fields, states |-> t.states, checkpoints |-> t.checkpoints,
                     xr |-> t.xr, camera |-> t.camera, firstFrame |-> t.firstFrame,
                     tier |-> t.tier, path |-> t.path, hash |-> Generic!Hash(anyTrace')]
    BY <2>3, <2>4, RehashedFits
  <2>6. TraceFits'
    BY <1>2, <2>2, <2>3, <2>5 DEF TraceFits, Generic!Alive
  <2>7. anyDriver' = [anyDriver EXCEPT !.pc = "harvested"]
    BY <2>2 DEF GenericTyped
  <2> QED
    BY <1>2, <2>2, <2>6, <2>7, AfterKeeps
<1>4. CASE Generic!Classify
  <2>1. PICK bytes \in {"none", "little", "low", "mid", "high"}, live \in BOOLEAN :
          anyTrace' = Generic!Rehashed(Generic!Classified(anyTrace, bytes, live))
    BY <1>4 DEF Generic!Classify
  <2>2. /\ anyDriver.pc = "harvested" /\ anyDriver' = [anyDriver EXCEPT !.pc = "over"]
        /\ UNCHANGED <<anyPage, recorder, capture, shots>>
    BY <1>4 DEF Generic!Classify
  <2> DEFINE t == Generic!Classified(anyTrace, bytes, live)
             took == Generic!Happened("session-start") \/ anyPage.camera
           path == IF Generic!Started(anyTrace) \/ anyTrace.camera THEN "camera-xr"
                   ELSE IF live THEN "interactive-2d" ELSE "static-safe"
           tier == IF bytes = "none" \/ (bytes = "little" /\ ~live) THEN "static-fallback"
                   ELSE IF bytes = "little" THEN "low" ELSE bytes
  <2>3. /\ t = [anyTrace EXCEPT !.path = path, !.tier = tier, !.fields = "classified"]
        /\ path = "camera-xr" <=> took
    <3>1. Generic!Started(anyTrace) <=> Generic!Happened("session-start")
      BY <1>2, <2>2 DEF Generic!Started, Generic!Happened
    <3>2. anyTrace.camera = anyPage.camera
      BY <1>2, <2>2
    <3> QED
      BY <3>1, <3>2 DEF Generic!Classified
  <2>4. /\ t = [fields |-> t.fields, states |-> t.states, checkpoints |-> t.checkpoints,
                xr |-> t.xr, camera |-> t.camera, firstFrame |-> t.firstFrame,
                tier |-> t.tier, path |-> t.path, hash |-> t.hash]
        /\ t.states = recorder.states /\ t.checkpoints = recorder.checkpoints /\ t.xr = recorder.xr
        /\ t.camera = anyPage.camera /\ t.path = path
    <3> HIDE DEF t, path, tier
    <3>1. t = [fields |-> "classified", states |-> recorder.states,
               checkpoints |-> recorder.checkpoints, xr |-> recorder.xr, camera |-> anyPage.camera,
               firstFrame |-> anyTrace.firstFrame, tier |-> tier, path |-> path,
               hash |-> anyTrace.hash]
      BY <1>2, <2>2, <2>3
    <3> QED
      BY <3>1
  <2> HIDE DEF t
  <2>5. anyTrace' = Generic!Rehashed(t)
    BY <2>1 DEF t
  <2>6. anyTrace' = [fields |-> t.fields, states |-> t.states, checkpoints |-> t.checkpoints,
                     xr |-> t.xr, camera |-> t.camera, firstFrame |-> t.firstFrame,
                     tier |-> t.tier, path |-> t.path, hash |-> Generic!Hash(anyTrace')]
    BY <2>4, <2>5, RehashedFits
  <2>7. anyDriver'.pc = "over" /\ took' = took
    BY <2>2 DEF GenericTyped, Generic!Happened
  <2>8. TraceFits'
    BY <1>2, <2>2, <2>3, <2>4, <2>6, <2>7 DEF TraceFits, Generic!Alive
  <2> QED
    BY <1>2, <2>2, <2>8, AfterKeeps
<1> QED
  BY <1>1, <1>3, <1>4

(* Every step keeps the invariant. *)
LEMMA GenericNext == GenericInv /\ Generic!Next => GenericInv'
BY PaintsKeeps, PageKeeps, DriverAnnounces, LooksKeeps, XrKeeps, CaptureKeeps, TraceKeeps DEF Generic!Next

(* A step of another subject leaves the session alone. *)
LEMMA GenericStutters == GenericInv /\ UNCHANGED genericVars => GenericInv'
BY DEF GenericInv, genericVars, GenericTyped, OnTheSpine, CheckpointsPassed, CameraUnread, StartSeen,
       TraceFits, Generic!Alive, Generic!Happened

(* The invariant says what is promised of the evidence. *)
LEMMA GenericPromise == GenericInv => Generic!GenericEvidence
<1> SUFFICES ASSUME GenericInv
             PROVE  Generic!GenericEvidence
  OBVIOUS
<1> USE DEF GenericInv
<1>1. /\ Generic!InOrder(recorder.states) /\ ~recorder.sampledCamera
      /\ \A c \in Generic!Checkpoints : shots[c] \in {Generic!NoShot, Generic!StateOf[c]}
  BY DEF OnTheSpine, CameraUnread
<1>2. anyTrace # Generic!NoTrace => anyTrace.hash = Generic!Hash(anyTrace)
  BY DEF TraceFits
<1>3. ASSUME anyDriver.pc = "over"
      PROVE  /\ anyTrace.path = "camera-xr" <=> (Generic!Happened("session-start") \/ anyPage.camera)
             /\ anyDriver.outcome = "started" => anyTrace.path = "camera-xr"
             /\ Generic!Last(anyTrace.states) = "session-complete" =>
                   \A c \in {"cp-interactive", "cp-after-look"} : Generic!Contains(anyTrace.checkpoints, c)
  <2>1. /\ anyTrace.path = "camera-xr" <=> (Generic!Happened("session-start") \/ anyPage.camera)
        /\ anyTrace.states = recorder.states /\ anyTrace.checkpoints = recorder.checkpoints
    BY <1>3 DEF TraceFits, Generic!Alive
  <2> QED
    BY <1>3, <2>1 DEF StartSeen, CheckpointsPassed
<1> QED
  BY <1>1, <1>2, <1>3 DEF Generic!GenericEvidence

-----------------------------------------------------------------------------
(* Both sessions.                                                          *)

(* In every behaviour of the job's parts an emulated session leaves        *)
(* evidence of that session: on Orbital a screenshot is of the state its   *)
(* checkpoint names, at the fixed phase, and the trace is in the           *)
(* manifest's order and complete (runtime.js, recorder.js, session.js,     *)
(* drive.js); on any other page as probe-generic.js, drive-generic.js and  *)
(* classify-delivery.js promise.                                           *)
THEOREM SessionTheorem == LabSpec => []SessionEvidence
<1> DEFINE Inv == /\ subject = "orbital" => OrbitalInv
                  /\ subject = "generic" => GenericInv
<1>1. LabInit => Inv
  BY OrbitalStart, GenericStart DEF LabInit
<1>2. Inv /\ [LabNext /\ UNCHANGED subject]_<<subject, labVars>> => Inv'
  BY OrbitalNext, OrbitalStutters, GenericNext, GenericStutters DEF LabNext, labVars
<1>3. Inv => SessionEvidence
  BY OrbitalPromise, GenericPromise DEF SessionEvidence
<1> QED
  BY <1>1, <1>2, <1>3, PTL DEF LabSpec

-----------------------------------------------------------------------------
(* The connection to the browser.                                          *)

Utterances == Commands \cup {"event", "none"}
Units == [op : {"upgrade", "text", "cont", "ping", "close", "odd"}, fin : BOOLEAN,
          text : Utterances, last : BOOLEAN]
CdpClients == [socket : [state : {"connecting", "open", "closing", "closed"}, handshake : BOOLEAN,
                         header : BOOLEAN, fragment : Utterances],
               connect : {"waiting", "open", "failed"},
               pending : SUBSET Commands,
               command : [Commands -> {"none", "sent", "ok", "timeout", "failed", "refused"}]]

(* What a complete frame does: begin a message, continue one, or give its  *)
(* text to whoever waits for it.                                           *)
Opens(u) == u.last /\ u.op = "text" /\ u.fin = FALSE
Conts(u) == u.last /\ u.op = "cont"
Gives(u) == u.last /\ ((u.op = "text" /\ u.fin) \/ u.op = "cont")
Plain(u) == ~Opens(u) /\ ~Conts(u)

(* What continues a message follows the frame that began it, in the wire   *)
(* from j on or in the client's fragment f.                                *)
Follows(w, i, j, f) ==
    \/ \E m \in (j + 1)..(i - 1) :
          /\ Opens(w[m]) /\ w[m].text = w[i].text
          /\ \A k \in (m + 1)..(i - 1) : Plain(w[k])
    \/ /\ \A k \in (j + 1)..(i - 1) : Plain(w[k])
       /\ f = w[i].text

(* A client that has taken j units of the wire: each command is where its  *)
(* answer is.                                                              *)
Good(c, w, j) ==
    /\ c \in CdpClients
    /\ c.socket.fragment \in Commands => c.socket.fragment \in answered
    /\ \A k \in Commands :
          /\ c.command[k] = "ok" => k \in answered
          /\ k \in c.pending <=> c.command[k] = "sent"
          /\ k \in answered => c.command[k] # "none"
          /\ k \in answered /\ k \in c.pending =>
                \E i \in (j + 1)..Len(w) : Gives(w[i]) /\ w[i].text = k
    /\ IF c.socket.state = "closed" THEN c.pending = {}
       ELSE \A i \in (j + 1)..Len(w) : Conts(w[i]) => Follows(w, i, j, c.socket.fragment)

WireFits ==
    /\ wire \in Seq(Units)
    /\ \A i \in 1..Len(wire) : wire[i].text \in Commands => wire[i].text \in answered

CdpInv == WireFits /\ answered \subseteq Commands /\ Good(Cdp!Client, wire, 0)

(* The client rejects everything when the connection ends.                 *)
LEMMA Rejected ==
  ASSUME NEW c \in CdpClients, \A k \in Commands : k \in c.pending <=> c.command[k] = "sent"
  PROVE  LET r == Cdp!RejectAll(c)
         IN  /\ r \in CdpClients /\ r.pending = {} /\ r.socket = c.socket /\ r.connect = c.connect
             /\ \A k \in Commands : r.command[k] = IF c.command[k] = "sent" THEN "failed" ELSE c.command[k]
<1> DEFINE told == [k \in Commands |-> IF k \in c.pending THEN "failed" ELSE c.command[k]]
           r == Cdp!RejectAll(c)
<1>1. r = [c EXCEPT !.pending = {}, !.command = told]
  BY DEF Cdp!RejectAll
<1>2. /\ told \in [Commands -> {"none", "sent", "ok", "timeout", "failed", "refused"}]
      /\ \A k \in Commands : told[k] = IF c.command[k] = "sent" THEN "failed" ELSE c.command[k]
  BY DEF CdpClients
<1> HIDE DEF told, r
<1>3. /\ r \in CdpClients /\ r.pending = {} /\ r.command = told /\ r.socket = c.socket
      /\ r.connect = c.connect
  BY <1>1, <1>2 DEF CdpClients
<1> QED
  BY <1>2, <1>3 DEF r

(* What remains of a connection that ends, whatever is on the wire.        *)
LEMMA EndedGood ==
  ASSUME NEW c, NEW w, NEW j, Good(c, w, j), NEW d, NEW v, NEW i,
         d \in CdpClients, d.socket.fragment = c.socket.fragment, d.pending = {},
         d.socket.state = "closed",
         \A k \in Commands : d.command[k] = IF c.command[k] = "sent" THEN "failed" ELSE c.command[k]
  PROVE  Good(d, v, i)
BY DEF Good

(* _fail and the close frame, from any client: whatever is on the wire.   *)
LEMMA FailedGood ==
  ASSUME NEW c, NEW w, NEW j, Good(c, w, j), NEW v, NEW i
  PROVE  Good(Cdp!Failed(c), v, i) /\ Good(Cdp!Closed(c), v, i)
<1> DEFINE r == Cdp!RejectAll(c)
<1>1. c \in CdpClients /\ \A k \in Commands : k \in c.pending <=> c.command[k] = "sent"
  BY DEF Good
<1>2. /\ r \in CdpClients /\ r.pending = {} /\ r.socket = c.socket
      /\ \A k \in Commands : r.command[k] = IF c.command[k] = "sent" THEN "failed" ELSE c.command[k]
  BY <1>1, Rejected
<1>3. /\ Cdp!Failed(c) = [r EXCEPT !.socket.state = "closed",
                                  !.connect = IF r.connect = "waiting" THEN "failed" ELSE r.connect]
      /\ Cdp!Closed(c) = [r EXCEPT !.socket.state = "closed"]
  BY DEF Cdp!Failed, Cdp!Closed
<1> HIDE DEF r
<1>4. ASSUME NEW outcome \in {"waiting", "open", "failed"}, NEW d,
             d = [r EXCEPT !.socket = [r.socket EXCEPT !.state = "closed"], !.connect = outcome]
      PROVE  Good(d, v, i)
  <2> DEFINE closed == [r.socket EXCEPT !.state = "closed"]
  <2>1. /\ closed \in [state : {"connecting", "open", "closing", "closed"}, handshake : BOOLEAN,
                      header : BOOLEAN, fragment : Utterances]
        /\ closed.fragment = c.socket.fragment /\ closed.state = "closed"
    BY <1>2 DEF CdpClients
  <2>2. d = [r EXCEPT !.socket = closed, !.connect = outcome]
    BY <1>4
  <2> HIDE DEF closed
  <2>3. /\ d \in CdpClients /\ d.socket = closed /\ d.pending = {} /\ d.command = r.command
    BY <1>2, <2>1, <2>2 DEF CdpClients
  <2> QED
    BY <1>2, <2>1, <2>3, EndedGood
<1>5. r.connect \in {"waiting", "open", "failed"}
  BY <1>2 DEF CdpClients
<1>6. /\ Cdp!Failed(c) = [r EXCEPT !.socket = [r.socket EXCEPT !.state = "closed"],
                                  !.connect = IF r.connect = "waiting" THEN "failed" ELSE r.connect]
      /\ Cdp!Closed(c) = [r EXCEPT !.socket = [r.socket EXCEPT !.state = "closed"], !.connect = r.connect]
  BY <1>2, <1>3 DEF CdpClients
<1> QED
  BY <1>4, <1>5, <1>6

(* What continues a message still does when the first unit was taken.      *)
LEMMA FollowsOn ==
  ASSUME NEW w, NEW j \in Nat, NEW i \in Nat, i >= j + 2, NEW f, NEW g, Follows(w, i, j, f),
         Plain(w[j + 1]) => g = f, Opens(w[j + 1]) => g = w[j + 1].text
  PROVE  Follows(w, i, j + 1, g)
<1>1. CASE \E m \in (j + 1)..(i - 1) :
              /\ Opens(w[m]) /\ w[m].text = w[i].text
              /\ \A k \in (m + 1)..(i - 1) : Plain(w[k])
  <2>1. PICK m \in (j + 1)..(i - 1) :
              /\ Opens(w[m]) /\ w[m].text = w[i].text
              /\ \A k \in (m + 1)..(i - 1) : Plain(w[k])
    BY <1>1
  <2>2. CASE m = j + 1
    BY <2>1, <2>2 DEF Follows
  <2>3. CASE m # j + 1
    <3>1. m \in ((j + 1) + 1)..(i - 1)
      BY <2>3
    <3> QED
      BY <2>1, <3>1 DEF Follows
  <2> QED
    BY <2>2, <2>3
<1>2. CASE (\A k \in (j + 1)..(i - 1) : Plain(w[k])) /\ f = w[i].text
  <2>1. j + 1 \in (j + 1)..(i - 1) /\ \A k \in ((j + 1) + 1)..(i - 1) : k \in (j + 1)..(i - 1)
    OBVIOUS
  <2> QED
    BY <1>2, <2>1 DEF Follows
<1> QED
  BY <1>1, <1>2 DEF Follows

(* A unit that says nothing leaves every answer where it is.               *)
LEMMA QuietGood ==
  ASSUME NEW w \in Seq(Units), NEW j \in Nat, j < Len(w), NEW c, Good(c, w, j), NEW d \in CdpClients,
         d.pending = c.pending, d.command = c.command, d.socket.fragment = c.socket.fragment,
         d.socket.state = "closed" <=> c.socket.state = "closed",
         c.socket.state = "closed" \/ (Plain(w[j + 1]) /\ ~Gives(w[j + 1]))
  PROVE  Good(d, w, j + 1)
<1>1. Len(w) \in Nat
  OBVIOUS
<1>2. CASE c.socket.state = "closed"
  BY <1>2 DEF Good
<1>3. CASE c.socket.state # "closed"
  <2>1. ASSUME NEW k \in Commands, k \in answered, k \in c.pending
        PROVE  \E i \in ((j + 1) + 1)..Len(w) : Gives(w[i]) /\ w[i].text = k
    <3>1. PICK i \in (j + 1)..Len(w) : Gives(w[i]) /\ w[i].text = k
      BY <2>1 DEF Good
    <3>2. i # j + 1
      BY <1>3, <3>1
    <3> QED
      BY <1>1, <3>1, <3>2
  <2>2. ASSUME NEW i \in ((j + 1) + 1)..Len(w), Conts(w[i])
        PROVE  Follows(w, i, j + 1, c.socket.fragment)
    <3>1. i \in (j + 1)..Len(w) /\ i \in Nat /\ i >= j + 2
      BY <1>1
    <3>2. Follows(w, i, j, c.socket.fragment)
      BY <1>3, <2>2, <3>1 DEF Good
    <3> QED
      BY <1>3, <3>1, <3>2, FollowsOn DEF Plain
  <2> QED
    BY <1>3, <2>1, <2>2 DEF Good
<1> QED
  BY <1>2, <1>3

(* A frame that begins a message is kept for what continues it.            *)
LEMMA OpeningGood ==
  ASSUME NEW w \in Seq(Units), NEW j \in Nat, j < Len(w), NEW c, Good(c, w, j), NEW d \in CdpClients,
         w[j + 1].text \in Commands => w[j + 1].text \in answered,
         d.pending = c.pending, d.command = c.command, d.socket.fragment = w[j + 1].text,
         d.socket.state # "closed", c.socket.state # "closed", Opens(w[j + 1])
  PROVE  Good(d, w, j + 1)
<1>1. Len(w) \in Nat /\ ~Gives(w[j + 1]) /\ ~Conts(w[j + 1])
  BY DEF Gives, Opens, Conts
<1>2. ASSUME NEW k \in Commands, k \in answered, k \in c.pending
      PROVE  \E i \in ((j + 1) + 1)..Len(w) : Gives(w[i]) /\ w[i].text = k
  <2>1. PICK i \in (j + 1)..Len(w) : Gives(w[i]) /\ w[i].text = k
    BY <1>2 DEF Good
  <2>2. i # j + 1
    BY <1>1, <2>1
  <2> QED
    BY <1>1, <2>1, <2>2
<1>3. ASSUME NEW i \in ((j + 1) + 1)..Len(w), Conts(w[i])
      PROVE  Follows(w, i, j + 1, d.socket.fragment)
  <2>1. i \in (j + 1)..Len(w) /\ i \in Nat /\ i >= j + 2
    BY <1>1
  <2>2. Follows(w, i, j, c.socket.fragment)
    BY <1>3, <2>1 DEF Good
  <2> QED
    BY <2>1, <2>2, FollowsOn DEF Plain
<1> QED
  BY <1>2, <1>3 DEF Good

(* A whole message settles the command it is for, and no other.            *)
LEMMA GivingGood ==
  ASSUME NEW w \in Seq(Units), NEW j \in Nat, j < Len(w), NEW c, Good(c, w, j), NEW d \in CdpClients,
         w[j + 1].text \in Commands => w[j + 1].text \in answered,
         d.pending = c.pending \ {w[j + 1].text},
         \A k \in Commands : d.command[k] = IF k = w[j + 1].text /\ k \in c.pending THEN "ok" ELSE c.command[k],
         d.socket.fragment = (IF Conts(w[j + 1]) THEN "none" ELSE c.socket.fragment),
         d.socket.state # "closed", c.socket.state # "closed", Gives(w[j + 1])
  PROVE  Good(d, w, j + 1)
<1>1. Len(w) \in Nat /\ ~Opens(w[j + 1])
  BY DEF Gives, Opens
<1>2. ASSUME NEW k \in Commands, k \in answered, k \in d.pending
      PROVE  \E i \in ((j + 1) + 1)..Len(w) : Gives(w[i]) /\ w[i].text = k
  <2>1. PICK i \in (j + 1)..Len(w) : Gives(w[i]) /\ w[i].text = k
    BY <1>2 DEF Good
  <2>2. i # j + 1
    BY <1>2, <2>1
  <2> QED
    BY <1>1, <2>1, <2>2
<1>3. ASSUME NEW i \in ((j + 1) + 1)..Len(w), Conts(w[i])
      PROVE  Follows(w, i, j + 1, d.socket.fragment)
  <2>1. i \in (j + 1)..Len(w) /\ i \in Nat /\ i >= j + 2
    BY <1>1
  <2>2. Follows(w, i, j, c.socket.fragment)
    BY <1>3, <2>1 DEF Good
  <2>3. CASE Conts(w[j + 1])
    <3>1. PICK m \in (j + 1)..(i - 1) :
            /\ Opens(w[m]) /\ w[m].text = w[i].text
            /\ \A k \in (m + 1)..(i - 1) : Plain(w[k])
      <4>1. j + 1 \in (j + 1)..(i - 1) /\ ~Plain(w[j + 1])
        BY <2>1, <2>3 DEF Plain
      <4> QED
        BY <2>2, <4>1 DEF Follows
    <3>2. m \in ((j + 1) + 1)..(i - 1)
      BY <1>1, <2>1, <3>1
    <3> QED
      BY <3>1, <3>2 DEF Follows
  <2>4. CASE ~Conts(w[j + 1])
    BY <1>1, <2>1, <2>2, <2>4, FollowsOn
  <2> QED
    BY <2>3, <2>4
<1>4. "none" \notin Commands
  BY CommandAssumption
<1>5. \A k \in Commands : /\ d.command[k] = "ok" => k \in answered
                          /\ k \in d.pending <=> d.command[k] = "sent"
                          /\ k \in answered => d.command[k] # "none"
  BY DEF Good
<1>6. d.socket.fragment \in Commands => d.socket.fragment \in answered
  BY <1>4 DEF Good
<1> QED
  BY <1>2, <1>3, <1>5, <1>6 DEF Good

(* What a client has read of a header does not matter to the answers.      *)
LEMMA SameGood ==
  ASSUME NEW c, NEW w, NEW j, Good(c, w, j), NEW d \in CdpClients,
         d.pending = c.pending, d.command = c.command, d.socket.fragment = c.socket.fragment,
         d.socket.state = "closed" <=> c.socket.state = "closed"
  PROVE  Good(d, w, j)
BY DEF Good

(* _onMessage, in a client that is d but for what waits for the message.   *)
LEMMA DeliveredFits ==
  ASSUME NEW d \in CdpClients, NEW x
  PROVE  LET t == Cdp!Delivered(d, x)
         IN  /\ t \in CdpClients /\ t.socket = d.socket /\ t.pending = d.pending \ {x}
             /\ \A k \in Commands : t.command[k] = IF k = x /\ k \in d.pending THEN "ok" ELSE d.command[k]
<1> DEFINE t == Cdp!Delivered(d, x)
<1>1. CASE x \in d.pending
  <2> DEFINE told == [d.command EXCEPT ![x] = "ok"]
             left == d.pending \ {x}
  <2>1. t = [d EXCEPT !.pending = left, !.command = told]
    BY <1>1 DEF Cdp!Delivered
  <2>2. /\ told \in [Commands -> {"none", "sent", "ok", "timeout", "failed", "refused"}]
        /\ \A k \in Commands : told[k] = IF k = x /\ k \in d.pending THEN "ok" ELSE d.command[k]
    BY <1>1 DEF CdpClients
  <2>3. left \in SUBSET Commands
    BY DEF CdpClients
  <2> HIDE DEF told, left, t
  <2>4. t \in CdpClients /\ t.socket = d.socket /\ t.pending = left /\ t.command = told
    BY <2>1, <2>2, <2>3 DEF CdpClients
  <2> QED
    BY <2>2, <2>4 DEF left, t
<1>2. CASE x \notin d.pending
  BY <1>2 DEF Cdp!Delivered, CdpClients
<1> QED
  BY <1>1, <1>2

(* One unit leaves every answer where it can be found. *)
LEMMA TakesGood ==
  ASSUME NEW w \in Seq(Units), NEW j \in Nat, j < Len(w), NEW c, Good(c, w, j),
         w[j + 1].text \in Commands => w[j + 1].text \in answered
  PROVE  Good(Cdp!Takes(c, w[j + 1]), w, j + 1)
<1> DEFINE u == w[j + 1]
           t == Cdp!Takes(c, u)
           header(b) == [c EXCEPT !.socket = [c.socket EXCEPT !.header = b]]
<1>1. /\ u \in Units /\ c \in CdpClients /\ c.socket \in [state : {"connecting", "open", "closing", "closed"},
                       handshake : BOOLEAN, header : BOOLEAN, fragment : Utterances]
  <2>1. j + 1 \in 1..Len(w)
    OBVIOUS
  <2> QED
    BY <2>1 DEF Good, CdpClients
<1>2. ASSUME NEW b \in BOOLEAN
      PROVE  /\ header(b) \in CdpClients /\ header(b).socket = [c.socket EXCEPT !.header = b]
             /\ header(b).pending = c.pending /\ header(b).command = c.command
             /\ header(b).connect = c.connect
             /\ header(b).socket.fragment = c.socket.fragment /\ header(b).socket.state = c.socket.state
             /\ header(b).socket.handshake = c.socket.handshake
             /\ header(b).socket \in [state : {"connecting", "open", "closing", "closed"},
                       handshake : BOOLEAN, header : BOOLEAN, fragment : Utterances]
  BY <1>1 DEF CdpClients
<1>3. CASE c.socket.state = "closed"
  <2>1. t = c
    BY <1>3 DEF Cdp!Takes
  <2> QED
    BY <1>1, <1>3, <2>1, QuietGood
<1>4. CASE c.socket.state # "closed" /\ ~u.last
  <2>1. t = header(TRUE)
    BY <1>4 DEF Cdp!Takes
  <2>2. Plain(u) /\ ~Gives(u)
    BY <1>4 DEF Plain, Gives, Opens, Conts
  <2>3. /\ t \in CdpClients /\ t.pending = c.pending /\ t.command = c.command
        /\ t.socket.fragment = c.socket.fragment /\ t.socket.state = c.socket.state
    BY ONLY <1>2, <2>1
  <2> HIDE DEF t
  <2>4. Good(t, w, j + 1)
    BY <2>2, <2>3, QuietGood
  <2> QED
    BY <2>4 DEF t
<1>5. CASE c.socket.state # "closed" /\ u.last
  <2> DEFINE read == header(FALSE)
  <2>1. t = IF ~c.socket.handshake
            THEN IF u.op = "upgrade"
                 THEN [read EXCEPT !.socket.handshake = TRUE, !.socket.state = "open", !.connect = "open"]
                 ELSE Cdp!Failed(c)
            ELSE CASE u.op = "ping"           -> read
                   [] u.op = "text" /\ u.fin  -> Cdp!Delivered(read, u.text)
                   [] u.op = "text" /\ ~u.fin -> [read EXCEPT !.socket.fragment = u.text]
                   [] u.op = "cont"           ->
                         Cdp!Delivered([read EXCEPT !.socket.fragment = "none"], c.socket.fragment)
                   [] u.op = "close"          -> Cdp!Closed(read)
                   [] OTHER                   -> Cdp!Failed(read)
    BY <1>5 DEF Cdp!Takes, Cdp!NoText
  <2> HIDE DEF t
  <2>2. /\ read \in CdpClients /\ read.pending = c.pending /\ read.command = c.command
        /\ read.socket.fragment = c.socket.fragment /\ read.socket.state = c.socket.state
        /\ read.socket \in [state : {"connecting", "open", "closing", "closed"},
                       handshake : BOOLEAN, header : BOOLEAN, fragment : Utterances]
    BY <1>2
  <2> HIDE DEF read
  <2>3. Good(read, w, j)
    BY <2>2, SameGood
  <2>4. CASE ~c.socket.handshake /\ u.op = "upgrade"
    <3> DEFINE opened == [read.socket EXCEPT !.handshake = TRUE, !.state = "open"]
    <3>1. t = [read EXCEPT !.socket = opened, !.connect = "open"]
      BY <2>1, <2>2, <2>4 DEF CdpClients
    <3>2. /\ opened \in [state : {"connecting", "open", "closing", "closed"},
                       handshake : BOOLEAN, header : BOOLEAN, fragment : Utterances]
          /\ opened.state = "open" /\ opened.fragment = c.socket.fragment
      BY <2>2
    <3> HIDE DEF opened
    <3>3. t \in CdpClients /\ t.socket = opened /\ t.pending = c.pending /\ t.command = c.command
      BY <2>2, <3>1, <3>2 DEF CdpClients
    <3>4. Plain(u) /\ ~Gives(u)
      BY <2>4 DEF Plain, Gives, Opens, Conts
    <3>5. Good(t, w, j + 1)
      BY <1>5, <3>2, <3>3, <3>4, QuietGood
    <3> QED
      BY <3>5 DEF t
  <2>5. CASE t \in {Cdp!Failed(c), Cdp!Failed(read), Cdp!Closed(read)}
    <3>1. Good(t, w, j + 1)
      BY <2>3, <2>5, FailedGood
    <3> QED
      BY <3>1 DEF t
  <2>6. CASE c.socket.handshake /\ u.op = "ping"
    <3>1. t = read
      BY <2>1, <2>6
    <3>2. Plain(u) /\ ~Gives(u)
      BY <2>6 DEF Plain, Gives, Opens, Conts
    <3>3. Good(t, w, j + 1)
      BY <2>2, <3>1, <3>2, QuietGood
    <3> QED
      BY <3>3 DEF t
  <2>7. CASE c.socket.handshake /\ u.op = "text" /\ u.fin
    <3>1. t = Cdp!Delivered(read, u.text)
      BY <2>1, <2>7
    <3>2. /\ t \in CdpClients /\ t.socket = read.socket /\ t.pending = c.pending \ {u.text}
          /\ \A k \in Commands : t.command[k] = IF k = u.text /\ k \in c.pending THEN "ok" ELSE c.command[k]
      BY <2>2, <3>1, DeliveredFits
    <3>3. Gives(u) /\ ~Conts(u)
      BY <1>5, <2>7 DEF Gives, Conts
    <3>4. Good(t, w, j + 1)
      BY <1>5, <2>2, <3>2, <3>3, GivingGood
    <3> QED
      BY <3>4 DEF t
  <2>8. CASE c.socket.handshake /\ u.op = "text" /\ ~u.fin
    <3> DEFINE kept == [read.socket EXCEPT !.fragment = u.text]
    <3>1. t = [read EXCEPT !.socket = kept]
      BY <2>1, <2>2, <2>8 DEF CdpClients
    <3>2. /\ kept \in [state : {"connecting", "open", "closing", "closed"},
                       handshake : BOOLEAN, header : BOOLEAN, fragment : Utterances]
          /\ kept.state = read.socket.state /\ kept.fragment = u.text
      BY <1>1, <2>2 DEF Units
    <3> HIDE DEF kept
    <3>3. t \in CdpClients /\ t.socket = kept /\ t.pending = c.pending /\ t.command = c.command
      BY <2>2, <3>1, <3>2 DEF CdpClients
    <3>4. Opens(u)
      BY <1>1, <1>5, <2>8 DEF Opens, Units
    <3>5. Good(t, w, j + 1)
      BY <1>5, <2>2, <3>2, <3>3, <3>4, OpeningGood
    <3> QED
      BY <3>5 DEF t
  <2>9. CASE c.socket.handshake /\ u.op = "cont"
    <3> DEFINE cleared == [read.socket EXCEPT !.fragment = "none"]
               whole == [read EXCEPT !.socket = cleared]
    <3>1. t = Cdp!Delivered(whole, c.socket.fragment)
      BY <2>1, <2>2, <2>9 DEF CdpClients
    <3>2. /\ cleared \in [state : {"connecting", "open", "closing", "closed"},
                       handshake : BOOLEAN, header : BOOLEAN, fragment : Utterances]
          /\ cleared.state = read.socket.state /\ cleared.fragment = "none"
      BY <2>2 DEF Utterances
    <3> HIDE DEF cleared
    <3>3. whole \in CdpClients /\ whole.socket = cleared /\ whole.pending = c.pending /\ whole.command = c.command
      BY <2>2, <3>2 DEF CdpClients
    <3> HIDE DEF whole
    <3>4. Gives(u) /\ Conts(u)
      BY <1>5, <2>9 DEF Gives, Conts
    <3>5. c.socket.fragment = u.text
      <4>1. j + 1 \in (j + 1)..Len(w) /\ (j + 1) - 1 = j /\ \A m \in (j + 1)..j : FALSE
        OBVIOUS
      <4>2. Follows(w, j + 1, j, c.socket.fragment)
        BY <1>5, <3>4, <4>1 DEF Good
      <4> QED
        BY <4>1, <4>2 DEF Follows
    <3>6. /\ t \in CdpClients /\ t.socket = cleared /\ t.pending = c.pending \ {u.text}
          /\ \A k \in Commands : t.command[k] = IF k = u.text /\ k \in c.pending THEN "ok" ELSE c.command[k]
      BY <3>1, <3>3, <3>5, DeliveredFits
    <3>7. Good(t, w, j + 1)
      BY <1>5, <2>2, <3>2, <3>4, <3>6, GivingGood
    <3> QED
      BY <3>7 DEF t
  <2> QED
    BY <1>1, <2>1, <2>4, <2>5, <2>6, <2>7, <2>8, <2>9 DEF Units
<1> QED
  BY <1>3, <1>4, <1>5

(* The client after each unit of a chunk: the function that Chunk defines  *)
(* is there, by induction on how far it goes.                              *)
LEMMA ChunkRuns ==
  ASSUME NEW units, Len(units) \in Nat
  PROVE  \E g : /\ g[0] = Cdp!Client
                /\ \A n \in 1..Len(units) : g[n] = Cdp!Takes(g[n - 1], units[n])
                /\ Cdp!Chunk(units) = g[Len(units)]
<1> DEFINE Runs(g, k) == g = [n \in 0..k |-> IF n = 0 THEN Cdp!Client ELSE Cdp!Takes(g[n - 1], units[n])]
           S == {k \in Nat : \E g : Runs(g, k)}
<1>1. 0 \in S
  <2>1. \A n \in 0..0 : n = 0
    OBVIOUS
  <2>2. Runs([n \in 0..0 |-> Cdp!Client], 0)
    BY <2>1
  <2> QED
    BY <2>2
<1>2. ASSUME NEW k \in S
      PROVE  k + 1 \in S
  <2>1. PICK g : Runs(g, k)
    BY <1>2
  <2> DEFINE h == [n \in 0..(k + 1) |-> IF n = k + 1 THEN Cdp!Takes(g[k], units[k + 1]) ELSE g[n]]
  <2>2. \A n \in 0..(k + 1) : h[n] = IF n = 0 THEN Cdp!Client ELSE Cdp!Takes(h[n - 1], units[n])
    <3> TAKE n \in 0..(k + 1)
    <3>1. CASE n = k + 1
      BY <3>1
    <3>2. CASE n # k + 1
      <4>1. n \in 0..k /\ h[n] = g[n] /\ (n # 0 => h[n - 1] = g[n - 1])
        BY <3>2
      <4>2. g[n] = IF n = 0 THEN Cdp!Client ELSE Cdp!Takes(g[n - 1], units[n])
        BY <2>1, <4>1
      <4> QED
        BY <4>1, <4>2
    <3> QED
      BY <3>1, <3>2
  <2>3. Runs(h, k + 1)
    BY <2>2
  <2> HIDE DEF h, Runs
  <2>4. k + 1 \in Nat /\ \E f : Runs(f, k + 1)
    BY <2>3
  <2> QED
    BY <2>4
<1>3. S = Nat
  <2> HIDE DEF Runs
  <2>1. S \subseteq Nat
    OBVIOUS
  <2> HIDE DEF S
  <2> QED
    BY <1>1, <1>2, <2>1, SetInduction
<1> DEFINE after == CHOOSE g : Runs(g, Len(units))
<1>4. Runs(after, Len(units))
  <2>1. \E g : Runs(g, Len(units))
    BY <1>3
  <2> HIDE DEF Runs
  <2> QED
    BY ONLY <2>1
<1>5. Cdp!Chunk(units) = after[Len(units)]
  BY DEF Cdp!Chunk
<1> HIDE DEF after
<1>6. /\ after[0] = Cdp!Client
      /\ \A n \in 1..Len(units) : after[n] = Cdp!Takes(after[n - 1], units[n])
  BY <1>4
<1> QED
  BY <1>5, <1>6

(* A chunk leaves every answer where it can be found, on the wire that     *)
(* remains.                                                                *)
LEMMA ChunkGood ==
  ASSUME CdpInv, NEW n \in 1..Len(wire)
  PROVE  LET c == Cdp!Chunk(SubSeq(wire, 1, n))
             w == SubSeq(wire, n + 1, Len(wire))
         IN  /\ Good(c, w, 0)
             /\ w \in Seq(Units) /\ \A i \in 1..Len(w) : w[i].text \in Commands => w[i].text \in answered
<1> DEFINE units == SubSeq(wire, 1, n)
           c == Cdp!Chunk(units)
           w == SubSeq(wire, n + 1, Len(wire))
<1>1. /\ wire \in Seq(Units) /\ Good(Cdp!Client, wire, 0) /\ Len(wire) \in Nat
      /\ \A i \in 1..Len(wire) : wire[i].text \in Commands => wire[i].text \in answered
  BY DEF CdpInv, WireFits
<1>2. Len(units) = n /\ \A i \in 1..n : units[i] = wire[i]
  BY <1>1
<1>3. /\ w \in Seq(Units) /\ Len(w) = Len(wire) - n
      /\ \A i \in 1..(Len(wire) - n) : w[i] = wire[n + i]
  BY <1>1
<1> HIDE DEF units, w
<1>4. PICK g : /\ g[0] = Cdp!Client
               /\ \A k \in 1..n : g[k] = Cdp!Takes(g[k - 1], units[k])
               /\ c = g[n]
  <2>1. Len(units) \in Nat /\ Len(units) = n
    BY <1>1, <1>2
  <2>2. PICK g : /\ g[0] = Cdp!Client
                 /\ \A k \in 1..Len(units) : g[k] = Cdp!Takes(g[k - 1], units[k])
                 /\ Cdp!Chunk(units) = g[Len(units)]
    BY <2>1, ChunkRuns
  <2>3. /\ \A k \in 1..n : g[k] = Cdp!Takes(g[k - 1], units[k])
        /\ c = g[n]
    BY <2>1, <2>2
  <2> HIDE DEF c
  <2> QED
    BY <2>2, <2>3
<1> HIDE DEF c
<1>5. Good(g[n], wire, n)
  <2> DEFINE S == {k \in Nat : k <= n => Good(g[k], wire, k)}
  <2>1. 0 \in S
    BY <1>1, <1>4
  <2>2. ASSUME NEW k \in S
        PROVE  k + 1 \in S
    <3>1. CASE k + 1 <= n
      <4>1. k \in Nat /\ k < Len(wire) /\ Good(g[k], wire, k)
        BY <1>1, <2>2, <3>1
      <4>2. k + 1 \in 1..n /\ k + 1 \in 1..Len(wire) /\ (k + 1) - 1 = k
        BY <1>1, <3>1, <4>1
      <4>3. g[k + 1] = Cdp!Takes(g[k], wire[k + 1])
        BY <1>2, <1>4, <4>2
      <4>4. Good(Cdp!Takes(g[k], wire[k + 1]), wire, k + 1)
        BY <1>1, <4>1, <4>2, TakesGood
      <4> QED
        BY <4>1, <4>3, <4>4
    <3>2. CASE ~(k + 1 <= n)
      BY <2>2, <3>2
    <3> QED
      BY <3>1, <3>2
  <2>3. S \subseteq Nat
    OBVIOUS
  <2>4. n \in S
    <3> HIDE DEF S
    <3>1. S = Nat
      BY <2>1, <2>2, <2>3, SetInduction
    <3> QED
      BY <1>1, <3>1
  <2> QED
    BY <2>4
<1>6. Good(c, w, 0)
  <2>1. Good(c, wire, n)
    BY <1>4, <1>5
  <2>2. ASSUME NEW k \in Commands, k \in answered, k \in c.pending
        PROVE  \E i \in 1..Len(w) : Gives(w[i]) /\ w[i].text = k
    <3>1. PICK i \in (n + 1)..Len(wire) : Gives(wire[i]) /\ wire[i].text = k
      BY <2>1, <2>2 DEF Good
    <3>2. i - n \in 1..Len(w) /\ n + (i - n) = i
      BY <1>1, <1>3
    <3> QED
      BY <1>3, <3>1, <3>2
  <2>3. ASSUME NEW i \in 1..Len(w), Conts(w[i]), c.socket.state # "closed"
        PROVE  Follows(w, i, 0, c.socket.fragment)
    <3>1. n + i \in (n + 1)..Len(wire) /\ w[i] = wire[n + i] /\ i \in 1..(Len(wire) - n)
      BY <1>1, <1>3
    <3>2. Follows(wire, n + i, n, c.socket.fragment)
      BY <2>1, <2>3, <3>1 DEF Good
    <3>3. \A k \in 1..(i - 1) : w[k] = wire[n + k] /\ n + k \in (n + 1)..((n + i) - 1)
      BY <1>1, <1>3, <3>1
    <3>4. CASE \A k \in (n + 1)..((n + i) - 1) : Plain(wire[k])
      <4>1. \A k \in 1..(i - 1) : Plain(w[k])
        BY <3>3, <3>4
      <4>2. c.socket.fragment = wire[n + i].text
        <5>1. ASSUME NEW m \in (n + 1)..((n + i) - 1), Opens(wire[m])
              PROVE  FALSE
          BY <3>4, <5>1 DEF Plain
        <5> QED
          BY <3>2, <5>1 DEF Follows
      <4> QED
        BY <3>1, <4>1, <4>2 DEF Follows
    <3>5. CASE ~\A k \in (n + 1)..((n + i) - 1) : Plain(wire[k])
      <4>1. PICK m \in (n + 1)..((n + i) - 1) :
              /\ Opens(wire[m]) /\ wire[m].text = wire[n + i].text
              /\ \A k \in (m + 1)..((n + i) - 1) : Plain(wire[k])
        BY <3>2, <3>5 DEF Follows
      <4>2. m - n \in 1..(i - 1) /\ n + (m - n) = m
        BY <1>1, <3>1, <4>1
      <4>3. Opens(w[m - n]) /\ w[m - n].text = w[i].text
        BY <3>1, <3>3, <4>1, <4>2
      <4>4. ASSUME NEW k \in ((m - n) + 1)..(i - 1)
            PROVE  Plain(w[k])
        <5>1. n \in Nat /\ i \in Nat /\ m \in Nat /\ m - n \in 1..(i - 1)
          BY <1>1, <3>1, <4>2
        <5>2. k \in 1..(i - 1) /\ n + k \in (m + 1)..((n + i) - 1)
          BY ONLY <5>1, k \in ((m - n) + 1)..(i - 1)
        <5> QED
          BY <3>3, <4>1, <5>2
      <4> QED
        BY <4>2, <4>3, <4>4 DEF Follows
    <3> QED
      BY <3>4, <3>5
  <2>4. Len(w) \in Nat
    BY <1>3
  <2> QED
    BY <2>1, <2>2, <2>3, <2>4 DEF Good
<1>7. \A i \in 1..Len(w) : w[i].text \in Commands => w[i].text \in answered
  BY <1>1, <1>3
<1> QED
  BY <1>3, <1>6, <1>7 DEF c, w, units

(* What the browser writes is whole: what continues a message follows the  *)
(* frame that began it.                                                    *)
Whole(v, t) ==
    /\ v \in Seq(Units)
    /\ \A i \in 1..Len(v) : v[i].text \in {t, "none"}
    /\ \A i \in 1..Len(v) : Conts(v[i]) =>
          \E m \in 1..(i - 1) : /\ Opens(v[m]) /\ v[m].text = v[i].text
                                /\ \A k \in (m + 1)..(i - 1) : Plain(v[k])
Tells(v, t) == \E i \in 1..Len(v) : Gives(v[i]) /\ v[i].text = t

(* The two halves of a frame that ends its message. *)
LEMMA HalvesFit ==
  ASSUME NEW op \in {"upgrade", "text", "cont", "ping", "close", "odd"}, NEW t \in Utterances
  PROVE  LET v == Cdp!Unit(op, TRUE, t)
         IN  /\ v \in Seq(Units) /\ Len(v) = 2
             /\ v[1].op = op /\ v[1].fin /\ v[1].text = t /\ v[1].last = FALSE
             /\ v[2].op = op /\ v[2].fin /\ v[2].text = t /\ v[2].last = TRUE
<1> DEFINE a == [op |-> op, fin |-> TRUE, text |-> t, last |-> FALSE]
           b == [op |-> op, fin |-> TRUE, text |-> t, last |-> TRUE]
<1>1. /\ a \in Units /\ b \in Units
      /\ a.op = op /\ a.fin /\ a.text = t /\ a.last = FALSE
      /\ b.op = op /\ b.fin /\ b.text = t /\ b.last = TRUE
  BY DEF Units
<1>2. Cdp!Unit(op, TRUE, t) = <<a, b>>
  BY DEF Cdp!Unit
<1> HIDE DEF a, b
<1>3. <<a, b>> \in Seq(Units) /\ Len(<<a, b>>) = 2 /\ <<a, b>>[1] = a /\ <<a, b>>[2] = b
  BY <1>1
<1> QED
  BY <1>1, <1>2, <1>3

(* The two halves of a frame that begins a message. *)
LEMMA OpeningHalves ==
  ASSUME NEW t \in Utterances
  PROVE  LET v == Cdp!Unit("text", FALSE, t)
         IN  /\ v \in Seq(Units) /\ Len(v) = 2
             /\ v[1].op = "text" /\ v[1].fin = FALSE /\ v[1].text = t /\ v[1].last = FALSE
             /\ v[2].op = "text" /\ v[2].fin = FALSE /\ v[2].text = t /\ v[2].last = TRUE
<1> DEFINE a == [op |-> "text", fin |-> FALSE, text |-> t, last |-> FALSE]
           b == [op |-> "text", fin |-> FALSE, text |-> t, last |-> TRUE]
<1>1. /\ a \in Units /\ b \in Units
      /\ a.op = "text" /\ a.fin = FALSE /\ a.text = t /\ a.last = FALSE
      /\ b.op = "text" /\ b.fin = FALSE /\ b.text = t /\ b.last = TRUE
  BY DEF Units
<1>2. Cdp!Unit("text", FALSE, t) = <<a, b>>
  BY DEF Cdp!Unit
<1> HIDE DEF a, b
<1>3. <<a, b>> \in Seq(Units) /\ Len(<<a, b>>) = 2 /\ <<a, b>>[1] = a /\ <<a, b>>[2] = b
  BY <1>1
<1> QED
  BY <1>1, <1>2, <1>3

(* A message is one frame, or two with nothing or a ping between them. *)
LEMMA MessagesFit ==
  ASSUME NEW t \in Utterances
  PROVE  /\ \A op \in {"upgrade", "text", "close", "odd"} : Whole(Cdp!Unit(op, TRUE, t), t)
         /\ Whole(Cdp!Frame(t), t) /\ Tells(Cdp!Frame(t), t)
         /\ Whole(Cdp!Split(t), t) /\ Tells(Cdp!Split(t), t)
         /\ Whole(Cdp!Interleaved(t), t) /\ Tells(Cdp!Interleaved(t), t)
<1>1. ASSUME NEW op \in {"upgrade", "text", "close", "odd"}
      PROVE  /\ Whole(Cdp!Unit(op, TRUE, t), t)
             /\ op = "text" => Tells(Cdp!Unit(op, TRUE, t), t)
  <2> DEFINE v == Cdp!Unit(op, TRUE, t)
  <2>1. /\ v \in Seq(Units) /\ Len(v) = 2
        /\ v[1].op = op /\ v[1].fin /\ v[1].text = t /\ v[1].last = FALSE
        /\ v[2].op = op /\ v[2].fin /\ v[2].text = t /\ v[2].last = TRUE
    <3> DEFINE first == [op |-> op, fin |-> TRUE, text |-> t, last |-> FALSE]
               second == [op |-> op, fin |-> TRUE, text |-> t, last |-> TRUE]
    <3>1. /\ first \in Units /\ second \in Units
          /\ first.op = op /\ first.fin /\ first.text = t /\ first.last = FALSE
          /\ second.op = op /\ second.fin /\ second.text = t /\ second.last = TRUE
      BY DEF Units
    <3>2. v = <<first, second>>
      BY DEF Cdp!Unit
    <3> HIDE DEF first, second, v
    <3>3. /\ <<first, second>> \in Seq(Units) /\ Len(<<first, second>>) = 2
          /\ <<first, second>>[1] = first /\ <<first, second>>[2] = second
      BY <3>1
    <3> QED
      BY <3>1, <3>2, <3>3
  <2> HIDE DEF v
  <2>2. \A i \in 1..2 : i = 1 \/ i = 2
    OBVIOUS
  <2>3. Whole(v, t)
    BY <2>1, <2>2 DEF Whole, Conts
  <2>4. op = "text" => Gives(v[2]) /\ v[2].text = t /\ 2 \in 1..Len(v)
    BY <2>1 DEF Gives
  <2>5. op = "text" => Tells(v, t)
    BY <2>4 DEF Tells
  <2> QED
    BY <2>3, <2>5 DEF v
<1> DEFINE a == Cdp!Unit("text", FALSE, t)
           p == Cdp!Unit("ping", TRUE, "none")
           b == Cdp!Unit("cont", TRUE, t)
<1>2. /\ a \in Seq(Units) /\ Len(a) = 2
      /\ a[1].op = "text" /\ a[1].fin = FALSE /\ a[1].text = t /\ a[1].last = FALSE
      /\ a[2].op = "text" /\ a[2].fin = FALSE /\ a[2].text = t /\ a[2].last = TRUE
  BY OpeningHalves
<1>3. /\ p \in Seq(Units) /\ Len(p) = 2
      /\ p[1].op = "ping" /\ p[1].text = "none" /\ p[2].op = "ping" /\ p[2].text = "none"
  <2>1. "none" \in Utterances
    BY DEF Utterances
  <2>2. LET u == Cdp!Unit("ping", TRUE, "none")
        IN  /\ u \in Seq(Units) /\ Len(u) = 2
            /\ u[1].op = "ping" /\ u[1].fin /\ u[1].text = "none" /\ u[1].last = FALSE
            /\ u[2].op = "ping" /\ u[2].fin /\ u[2].text = "none" /\ u[2].last = TRUE
    BY <2>1, HalvesFit
  <2> QED
    BY <2>2
<1>4. /\ b \in Seq(Units) /\ Len(b) = 2
      /\ b[1].op = "cont" /\ b[1].fin /\ b[1].text = t /\ b[1].last = FALSE
      /\ b[2].op = "cont" /\ b[2].fin /\ b[2].text = t /\ b[2].last = TRUE
  BY HalvesFit
<1>5. Cdp!Split(t) = a \o b /\ Cdp!Interleaved(t) = (a \o p) \o b
  BY DEF Cdp!Split, Cdp!Interleaved, Cdp!NoText
<1> HIDE DEF a, b, p
<1>6. Whole(a \o b, t) /\ Tells(a \o b, t)
  <2> DEFINE v == a \o b
  <2>1. /\ v \in Seq(Units) /\ Len(v) = 4
        /\ v[1] = a[1] /\ v[2] = a[2] /\ v[3] = b[1] /\ v[4] = b[2]
    <3>1. /\ v \in Seq(Units) /\ Len(v) = Len(a) + Len(b)
          /\ \A i \in 1 .. Len(a) + Len(b) : v[i] = IF i <= Len(a) THEN a[i] ELSE b[i - Len(a)]
      BY <1>2, <1>4, ConcatProperties
    <3> QED
      BY <1>2, <1>4, <3>1
  <2> HIDE DEF v
  <2>2. \A i \in 1..4 : i = 1 \/ i = 2 \/ i = 3 \/ i = 4
    OBVIOUS
  <2>3. \A i \in 1..4 : v[i].text = t
    BY <1>2, <1>4, <2>1, <2>2
  <2>4. Opens(v[2]) /\ Plain(v[3]) /\ ~Conts(v[1]) /\ ~Conts(v[2]) /\ ~Conts(v[3]) /\ Gives(v[4])
    BY <1>2, <1>4, <2>1 DEF Opens, Plain, Conts, Gives
  <2>5. \A k \in (2 + 1)..(4 - 1) : Plain(v[k])
    BY <2>4
  <2>6. ASSUME NEW i \in 1..4, Conts(v[i])
        PROVE  \E m \in 1..(i - 1) : /\ Opens(v[m]) /\ v[m].text = v[i].text
                                     /\ \A k \in (m + 1)..(i - 1) : Plain(v[k])
    <3>1. i = 4
      BY <2>2, <2>4, <2>6
    <3>2. 2 \in 1..(4 - 1) /\ Opens(v[2]) /\ v[2].text = v[4].text
      BY <2>3, <2>4
    <3> QED
      BY <2>5, <3>1, <3>2
  <2>7. Whole(v, t)
    BY <2>1, <2>3, <2>6 DEF Whole
  <2>8. Tells(v, t)
    BY <2>1, <2>3, <2>4 DEF Tells
  <2> QED
    BY <2>7, <2>8 DEF v
<1>7. Whole((a \o p) \o b, t) /\ Tells((a \o p) \o b, t)
  <2> DEFINE h == a \o p
             v == h \o b
  <2>0. /\ h \in Seq(Units) /\ Len(h) = 4
        /\ h[1] = a[1] /\ h[2] = a[2] /\ h[3] = p[1] /\ h[4] = p[2]
    <3>1. /\ h \in Seq(Units) /\ Len(h) = Len(a) + Len(p)
          /\ \A i \in 1 .. Len(a) + Len(p) : h[i] = IF i <= Len(a) THEN a[i] ELSE p[i - Len(a)]
      BY <1>2, <1>3, ConcatProperties
    <3> QED
      BY <1>2, <1>3, <3>1
  <2> HIDE DEF h
  <2>1. /\ v \in Seq(Units) /\ Len(v) = 6
        /\ v[1] = a[1] /\ v[2] = a[2] /\ v[3] = p[1] /\ v[4] = p[2] /\ v[5] = b[1] /\ v[6] = b[2]
    <3>1. /\ v \in Seq(Units) /\ Len(v) = Len(h) + Len(b)
          /\ \A i \in 1 .. Len(h) + Len(b) : v[i] = IF i <= Len(h) THEN h[i] ELSE b[i - Len(h)]
      <4>1. h \in Seq(Units) /\ b \in Seq(Units)
        BY <1>4, <2>0
      <4> QED
        BY <4>1, ConcatProperties
    <3> QED
      BY <1>4, <2>0, <3>1
  <2> HIDE DEF v
  <2>2. \A i \in 1..6 : i = 1 \/ i = 2 \/ i = 3 \/ i = 4 \/ i = 5 \/ i = 6
    OBVIOUS
  <2>3. \A i \in 1..6 : v[i].text \in {t, "none"}
    BY <1>2, <1>3, <1>4, <2>1, <2>2
  <2>4. /\ Opens(v[2]) /\ Plain(v[3]) /\ Plain(v[4]) /\ Plain(v[5]) /\ Gives(v[6])
        /\ ~Conts(v[1]) /\ ~Conts(v[2]) /\ ~Conts(v[3]) /\ ~Conts(v[4]) /\ ~Conts(v[5])
        /\ v[2].text = t /\ v[6].text = t
    BY <1>2, <1>3, <1>4, <2>1 DEF Opens, Plain, Conts, Gives
  <2>5. \A k \in (2 + 1)..(6 - 1) : Plain(v[k])
    <3>1. \A k \in (2 + 1)..(6 - 1) : k = 3 \/ k = 4 \/ k = 5
      OBVIOUS
    <3> QED
      BY <2>4, <3>1
  <2>6. ASSUME NEW i \in 1..6, Conts(v[i])
        PROVE  \E m \in 1..(i - 1) : /\ Opens(v[m]) /\ v[m].text = v[i].text
                                     /\ \A k \in (m + 1)..(i - 1) : Plain(v[k])
    <3>1. i = 6
      BY <2>2, <2>4, <2>6
    <3>2. 2 \in 1..(6 - 1) /\ Opens(v[2]) /\ v[2].text = v[6].text
      BY <2>4
    <3> QED
      BY <2>5, <3>1, <3>2
  <2>7. Whole(v, t)
    BY <2>1, <2>3, <2>6 DEF Whole
  <2>8. Tells(v, t)
    BY <2>1, <2>4 DEF Tells
  <2> QED
    BY <2>7, <2>8 DEF v, h
<1>8. Whole(Cdp!Frame(t), t) /\ Tells(Cdp!Frame(t), t)
  BY <1>1 DEF Cdp!Frame
<1> QED
  BY <1>1, <1>5, <1>6, <1>7, <1>8

(* What is written after what is on the wire.                              *)
LEMMA WritesGood ==
  ASSUME CdpInv, NEW v, NEW t \in Utterances, Whole(v, t), wire' = wire \o v,
         UNCHANGED <<socket, connect, pending, command>>,
         \/ answered' = answered /\ t \notin Commands
         \/ /\ answered' = answered \cup {t} /\ t \in Commands /\ Tells(v, t)
            /\ command[t] # "none"
  PROVE  CdpInv'
<1> DEFINE c == Cdp!Client
           L == Len(wire)
           N == Len(v)
<1>1. /\ wire \in Seq(Units) /\ v \in Seq(Units) /\ L \in Nat /\ N \in Nat
      /\ Good(c, wire, 0) /\ answered \subseteq Commands
      /\ \A i \in 1..L : wire[i].text \in Commands => wire[i].text \in answered
  BY DEF CdpInv, WireFits, Whole
<1>2. /\ wire' \in Seq(Units) /\ Len(wire') = L + N
      /\ \A i \in 1 .. L + N : wire'[i] = IF i <= L THEN wire[i] ELSE v[i - L]
  BY <1>1, ConcatProperties
<1>3. /\ \A i \in 1..L : i \in 1..(L + N) /\ wire'[i] = wire[i]
      /\ \A i \in (L + 1)..(L + N) : i - L \in 1..N /\ wire'[i] = v[i - L]
      /\ \A i \in 1..N : L + i \in (L + 1)..(L + N) /\ wire'[L + i] = v[i]
  <2>1. ASSUME NEW i \in 1..N
        PROVE  L + i \in (L + 1)..(L + N) /\ wire'[L + i] = v[i]
    <3>1. L + i \in 1..(L + N) /\ ~(L + i <= L) /\ (L + i) - L = i
      BY <1>1
    <3> QED
      BY <1>2, <3>1
  <2> QED
    BY <1>1, <1>2, <2>1
<1>4. answered' \subseteq Commands /\ answered \subseteq answered'
  BY <1>1
<1>5. WireFits'
  <2>1. ASSUME NEW i \in 1..(L + N), wire'[i].text \in Commands
        PROVE  wire'[i].text \in answered'
    <3>1. CASE i \in 1..L
      BY <1>1, <1>3, <1>4, <2>1, <3>1
    <3>2. CASE i \in (L + 1)..(L + N)
      <4>1. v[i - L].text \in {t, "none"} /\ v[i - L].text \in Commands
        BY <1>3, <2>1, <3>2 DEF Whole
      <4> QED
        BY <1>3, <3>2, <4>1, CommandAssumption
    <3> QED
      BY <1>1, <3>1, <3>2
  <2> QED
    BY <1>2, <2>1 DEF WireFits
<1>6. c' = c
  BY DEF Cdp!Client
<1> HIDE DEF c
<1>7. \A k \in Commands :
          /\ c.command[k] = "ok" => k \in answered'
          /\ k \in c.pending <=> c.command[k] = "sent"
          /\ k \in answered' => c.command[k] # "none"
  <2>1. c.command = command
    BY DEF c, Cdp!Client
  <2> QED
    BY <1>1, <1>4, <2>1 DEF Good
<1>8. ASSUME NEW k \in Commands, k \in answered', k \in c.pending
      PROVE  \E i \in (0 + 1)..Len(wire') : Gives(wire'[i]) /\ wire'[i].text = k
  <2>1. CASE k \in answered
    <3>1. PICK i \in (0 + 1)..L : Gives(wire[i]) /\ wire[i].text = k
      BY <1>1, <1>8, <2>1 DEF Good
    <3> QED
      BY <1>1, <1>2, <1>3, <3>1
  <2>2. CASE k \notin answered
    <3>1. k = t /\ Tells(v, t)
      BY <1>8, <2>2
    <3>2. PICK i \in 1..N : Gives(v[i]) /\ v[i].text = t
      BY <3>1 DEF Tells
    <3>3. L + i \in (0 + 1)..Len(wire') /\ wire'[L + i] = v[i]
      BY <1>1, <1>2, <1>3
    <3> QED
      BY <3>1, <3>2, <3>3
  <2> QED
    BY <2>1, <2>2
<1>9. ASSUME c.socket.state # "closed", NEW i \in (0 + 1)..Len(wire'), Conts(wire'[i])
      PROVE  Follows(wire', i, 0, c.socket.fragment)
  <2>1. CASE i \in 1..L
    <3>1. Follows(wire, i, 0, c.socket.fragment) /\ wire'[i] = wire[i]
      BY <1>1, <1>3, <1>9, <2>1 DEF Good
    <3>2. \A k \in 1..(i - 1) : wire'[k] = wire[k]
      BY <1>1, <1>3, <2>1
    <3>3. \A m \in (0 + 1)..(i - 1) : m \in 1..(i - 1) /\ \A k \in (m + 1)..(i - 1) : k \in 1..(i - 1)
      OBVIOUS
    <3>4. CASE \A k \in (0 + 1)..(i - 1) : Plain(wire[k])
      <4>1. c.socket.fragment = wire[i].text
        <5>1. \A m \in (0 + 1)..(i - 1) : ~Opens(wire[m])
          BY <3>4 DEF Plain
        <5> QED
          BY <3>1, <5>1 DEF Follows
      <4> QED
        BY <3>1, <3>2, <3>4, <4>1 DEF Follows
    <3>5. CASE ~\A k \in (0 + 1)..(i - 1) : Plain(wire[k])
      <4>1. PICK m \in (0 + 1)..(i - 1) :
              /\ Opens(wire[m]) /\ wire[m].text = wire[i].text
              /\ \A k \in (m + 1)..(i - 1) : Plain(wire[k])
        BY <3>1, <3>5 DEF Follows
      <4>2. Opens(wire'[m]) /\ wire'[m].text = wire'[i].text
        BY <3>1, <3>2, <3>3, <4>1
      <4>3. \A k \in (m + 1)..(i - 1) : Plain(wire'[k])
        BY <3>2, <3>3, <4>1
      <4> QED
        BY <4>2, <4>3 DEF Follows
    <3> QED
      BY <3>4, <3>5
  <2>2. CASE i \in (L + 1)..(L + N)
    <3>1. PICK m \in 1..((i - L) - 1) :
            /\ Opens(v[m]) /\ v[m].text = v[i - L].text
            /\ \A k \in (m + 1)..((i - L) - 1) : Plain(v[k])
      BY <1>3, <1>9, <2>2 DEF Whole
    <3>2. m \in 1..N /\ L + m \in (0 + 1)..(i - 1) /\ wire'[L + m] = v[m] /\ wire'[i] = v[i - L]
      BY <1>1, <1>3, <2>2
    <3>3. ASSUME NEW k \in ((L + m) + 1)..(i - 1)
          PROVE  Plain(wire'[k])
      <4>1. k \in (L + 1)..(L + N) /\ k - L \in (m + 1)..((i - L) - 1)
        BY <1>1, <2>2, <3>2
      <4> QED
        BY <1>3, <3>1, <4>1
    <3> QED
      BY <3>1, <3>2, <3>3 DEF Follows
  <2> QED
    BY <1>1, <1>2, <2>1, <2>2
<1>10. Good(c, wire, 0)'
  BY <1>1, <1>4, <1>6, <1>7, <1>8, <1>9 DEF Good
<1> QED
  BY <1>4, <1>5, <1>10 DEF CdpInv, c

(* Before the connection opens nothing was written and nothing waits. *)
LEMMA CdpStart ==
  ASSUME Cdp!Init
  PROVE  CdpInv
<1> DEFINE c == Cdp!Client
<1>1. /\ wire = <<>> /\ answered = {} /\ pending = {} /\ command = [k \in Commands |-> "none"]
      /\ socket = [state |-> "connecting", handshake |-> FALSE, header |-> FALSE, fragment |-> "none"]
      /\ connect = "waiting"
  BY DEF Cdp!Init, Cdp!NoText
<1>2. c = [socket |-> socket, connect |-> connect, pending |-> pending, command |-> command]
  BY DEF Cdp!Client
<1>3. c \in CdpClients
  BY <1>1, <1>2 DEF CdpClients, Utterances
<1> HIDE DEF c
<1>4. /\ c.socket.fragment = "none" /\ c.socket.state = "connecting" /\ c.pending = {}
      /\ \A k \in Commands : c.command[k] = "none"
  BY <1>1, <1>2
<1>5. wire \in Seq(Units) /\ Len(wire) = 0 /\ \A i \in (0 + 1)..Len(wire) : FALSE
  BY <1>1
<1>6. Good(c, wire, 0)
  BY <1>1, <1>3, <1>4, <1>5, CommandAssumption DEF Good
<1>7. WireFits
  BY <1>5 DEF WireFits
<1> QED
  BY <1>1, <1>6, <1>7 DEF CdpInv, c

(* What the client's record says. *)
LEMMA ClientIs ==
  Cdp!Client.socket = socket /\ Cdp!Client.connect = connect
  /\ Cdp!Client.pending = pending /\ Cdp!Client.command = command
BY DEF Cdp!Client

(* A client that has read up to where the wire now begins is the next one. *)
LEMMA BecomesGood ==
  ASSUME NEW c \in CdpClients, Cdp!Becomes(c), answered' = answered, answered \subseteq Commands,
         Good(c, wire', 0), wire' \in Seq(Units),
         \A i \in 1..Len(wire') : wire'[i].text \in Commands => wire'[i].text \in answered
  PROVE  CdpInv'
<1>1. Cdp!Client' = c
  <2>1. Cdp!Client' = [socket |-> c.socket, connect |-> c.connect, pending |-> c.pending,
                       command |-> c.command]
    BY DEF Cdp!Becomes, Cdp!Client
  <2> QED
    BY <2>1 DEF CdpClients
<1>2. Good(Cdp!Client, wire, 0)'
  BY <1>1 DEF Good
<1> QED
  BY <1>2 DEF CdpInv, WireFits

(* Whatever the browser writes, and when its side ends. *)
LEMMA BrowserKeepsCdp ==
  ASSUME CdpInv
  PROVE  /\ Cdp!AnswersUpgrade => CdpInv'
         /\ \A k \in Commands : Cdp!Answers(k) => CdpInv'
         /\ Cdp!Emits => CdpInv'
         /\ Cdp!BrowserEnds => CdpInv'
<1>1. "none" \in Utterances /\ "event" \in Utterances /\ "none" \notin Commands /\ "event" \notin Commands
  BY CommandAssumption DEF Utterances
<1>2. ASSUME Cdp!AnswersUpgrade
      PROVE  CdpInv'
  <2>1. /\ wire' = wire \o Cdp!Unit("upgrade", TRUE, "none")
        /\ UNCHANGED <<socket, connect, pending, command, answered>>
    BY <1>2 DEF Cdp!AnswersUpgrade, Cdp!Writes, Cdp!Upgrade, Cdp!NoText
  <2>2. Whole(Cdp!Unit("upgrade", TRUE, "none"), "none")
    BY <1>1, MessagesFit
  <2> QED
    BY <1>1, <2>1, <2>2, WritesGood
<1>3. ASSUME NEW k \in Commands, Cdp!Answers(k)
      PROVE  CdpInv'
  <2>1. PICK v \in {Cdp!Frame(k), Cdp!Split(k), Cdp!Interleaved(k)} : wire' = wire \o v
    BY <1>3 DEF Cdp!Answers, Cdp!Writes
  <2>2. /\ answered' = answered \cup {k} /\ UNCHANGED <<socket, connect, pending, command>>
        /\ command[k] # "none"
    BY <1>3 DEF Cdp!Answers, Cdp!Writes
  <2>3. k \in Utterances
    BY DEF Utterances
  <2>4. Whole(v, k) /\ Tells(v, k)
    BY <2>1, <2>3, MessagesFit
  <2> QED
    BY <2>1, <2>2, <2>3, <2>4, WritesGood
<1>4. ASSUME Cdp!Emits
      PROVE  CdpInv'
  <2>1. UNCHANGED <<socket, connect, pending, command, answered>>
    BY <1>4 DEF Cdp!Emits, Cdp!Writes
  <2>2. CASE wire' = wire \o Cdp!Frame("event")
    BY <1>1, <2>1, <2>2, MessagesFit, WritesGood
  <2>3. ASSUME NEW op \in {"close", "odd"}, wire' = wire \o Cdp!Unit(op, TRUE, "none")
        PROVE  CdpInv'
    <3>1. Whole(Cdp!Unit(op, TRUE, "none"), "none")
      BY <1>1, MessagesFit
    <3> QED
      BY <1>1, <2>1, <2>3, <3>1, WritesGood
  <2> QED
    BY <1>4, <2>2, <2>3 DEF Cdp!Emits, Cdp!Writes, Cdp!NoText
<1>5. ASSUME Cdp!BrowserEnds
      PROVE  CdpInv'
  BY <1>5 DEF Cdp!BrowserEnds, CdpInv, WireFits, Good, Cdp!Client, Follows
<1> QED
  BY <1>2, <1>3, <1>4, <1>5

(* The client takes a chunk, or its connection ends. *)
LEMMA DataKeepsCdp ==
  ASSUME CdpInv
  PROVE  /\ Cdp!OnData => CdpInv'
         /\ Cdp!SocketFails => CdpInv'
         /\ Cdp!SocketCloses => CdpInv'
         /\ Cdp!HandshakeTimesOut => CdpInv'
<1>1. /\ WireFits /\ answered \subseteq Commands /\ Good(Cdp!Client, wire, 0)
  BY DEF CdpInv
<1>2. ASSUME Cdp!OnData
      PROVE  CdpInv'
  <2>1. PICK n \in 1..Len(wire) :
          /\ wire' = SubSeq(wire, n + 1, Len(wire))
          /\ Cdp!Becomes(Cdp!Chunk(SubSeq(wire, 1, n)))
          /\ answered' = answered
    BY <1>2 DEF Cdp!OnData
  <2>2. PICK c : c = Cdp!Chunk(SubSeq(wire, 1, n))
    OBVIOUS
  <2>3. /\ Good(c, wire', 0) /\ wire' \in Seq(Units)
        /\ \A i \in 1..Len(wire') : wire'[i].text \in Commands => wire'[i].text \in answered
    BY <2>1, <2>2, ChunkGood
  <2>4. c \in CdpClients /\ Cdp!Becomes(c)
    BY <2>1, <2>2, <2>3 DEF Good
  <2> QED
    BY <1>1, <2>1, <2>3, <2>4, BecomesGood
<1>3. ASSUME NEW c \in {Cdp!Failed(Cdp!Client), Cdp!Closed(Cdp!Client)}, Cdp!Becomes(c),
             wire' = wire, answered' = answered
      PROVE  CdpInv'
  <2>1. Good(c, wire, 0)
    BY <1>1, <1>3, FailedGood
  <2>2. c \in CdpClients
    BY <2>1 DEF Good
  <2>3. Good(c, wire', 0) /\ wire' \in Seq(Units)
    BY <1>1, <1>3, <2>1 DEF WireFits
  <2>4. \A i \in 1..Len(wire') : wire'[i].text \in Commands => wire'[i].text \in answered
    BY <1>1, <1>3 DEF WireFits
  <2> QED
    BY <1>1, <1>3, <2>2, <2>3, <2>4, BecomesGood
<1> QED
  BY <1>2, <1>3 DEF Cdp!SocketFails, Cdp!SocketCloses, Cdp!HandshakeTimesOut

(* A command is sent, gives up waiting, or goes with all the others. *)
LEMMA CommandsKeepCdp ==
  ASSUME CdpInv
  PROVE  /\ \A k \in Commands : Cdp!Send(k) => CdpInv'
         /\ \A k \in Commands : Cdp!CommandTimesOut(k) => CdpInv'
         /\ Cdp!Dispose => CdpInv'
<1> DEFINE old == Cdp!Client
<1>1. /\ WireFits /\ answered \subseteq Commands /\ Good(old, wire, 0)
      /\ old.socket = socket /\ old.connect = connect /\ old.pending = pending /\ old.command = command
  BY ClientIs DEF CdpInv
<1>2. PICK c : c = old
  OBVIOUS
<1> HIDE DEF old
<1>3. /\ c \in CdpClients /\ Good(c, wire, 0)
      /\ c.socket = socket /\ c.connect = connect /\ c.pending = pending /\ c.command = command
  BY <1>1, <1>2 DEF Good
<1>4. ASSUME NEW d \in CdpClients, Cdp!Becomes(d), Good(d, wire, 0), wire' = wire, answered' = answered
      PROVE  CdpInv'
  <2>1. Good(d, wire', 0) /\ wire' \in Seq(Units)
    BY <1>1, <1>4 DEF WireFits
  <2>2. \A i \in 1..Len(wire') : wire'[i].text \in Commands => wire'[i].text \in answered
    BY <1>1, <1>4 DEF WireFits
  <2> QED
    BY <1>1, <1>4, <2>1, <2>2, BecomesGood
<1>5. ASSUME NEW k \in Commands, Cdp!Send(k)
      PROVE  CdpInv'
  <2>1. c.command[k] = "none" /\ k \notin answered
    BY <1>3, <1>5 DEF Cdp!Send, Good
  <2>2. CASE /\ socket.state = "open" /\ pending' = pending \cup {k}
             /\ command' = [command EXCEPT ![k] = "sent"]
    <3> DEFINE told == [c.command EXCEPT ![k] = "sent"]
               left == c.pending \cup {k}
    <3>1. /\ told \in [Commands -> {"none", "sent", "ok", "timeout", "failed", "refused"}]
          /\ \A x \in Commands : told[x] = IF x = k THEN "sent" ELSE c.command[x]
          /\ left \in SUBSET Commands
      BY <1>3 DEF CdpClients
    <3>2. PICK d : d = [c EXCEPT !.pending = left, !.command = told]
      OBVIOUS
    <3> HIDE DEF told, left
    <3>3. d \in CdpClients /\ d.socket = c.socket /\ d.connect = c.connect /\ d.pending = left /\ d.command = told
      BY <1>3, <3>1, <3>2 DEF CdpClients
    <3>4. Good(d, wire, 0)
      BY <1>3, <2>1, <2>2, <3>1, <3>3 DEF Good, left
    <3>5. Cdp!Becomes(d)
      BY <1>3, <1>5, <2>2, <3>3 DEF Cdp!Becomes, Cdp!Send, told, left
    <3> QED
      BY <1>4, <1>5, <3>3, <3>4, <3>5 DEF Cdp!Send
  <2>3. CASE command' = [command EXCEPT ![k] = "refused"] /\ UNCHANGED pending
    <3> DEFINE told == [c.command EXCEPT ![k] = "refused"]
    <3>1. /\ told \in [Commands -> {"none", "sent", "ok", "timeout", "failed", "refused"}]
          /\ \A x \in Commands : told[x] = IF x = k THEN "refused" ELSE c.command[x]
      BY <1>3 DEF CdpClients
    <3>2. PICK d : d = [c EXCEPT !.command = told]
      OBVIOUS
    <3> HIDE DEF told
    <3>3. d \in CdpClients /\ d.socket = c.socket /\ d.connect = c.connect /\ d.pending = c.pending
          /\ d.command = told
      BY <1>3, <3>1, <3>2 DEF CdpClients
    <3>4. Good(d, wire, 0)
      BY <1>3, <2>1, <3>1, <3>3 DEF Good
    <3>5. Cdp!Becomes(d)
      BY <1>3, <1>5, <2>3, <3>3 DEF Cdp!Becomes, Cdp!Send, told
    <3> QED
      BY <1>4, <1>5, <3>3, <3>4, <3>5 DEF Cdp!Send
  <2> QED
    BY <1>5, <2>2, <2>3 DEF Cdp!Send
<1>6. ASSUME NEW k \in Commands, Cdp!CommandTimesOut(k)
      PROVE  CdpInv'
  <2> DEFINE told == [c.command EXCEPT ![k] = "timeout"]
             left == c.pending \ {k}
  <2>1. /\ told \in [Commands -> {"none", "sent", "ok", "timeout", "failed", "refused"}]
        /\ \A x \in Commands : told[x] = IF x = k THEN "timeout" ELSE c.command[x]
        /\ left \in SUBSET Commands
    BY <1>3 DEF CdpClients
  <2>2. PICK d : d = [c EXCEPT !.pending = left, !.command = told]
    OBVIOUS
  <2> HIDE DEF told, left
  <2>3. d \in CdpClients /\ d.socket = c.socket /\ d.connect = c.connect /\ d.pending = left /\ d.command = told
    BY <1>3, <2>1, <2>2 DEF CdpClients
  <2>4. Good(d, wire, 0)
    BY <1>3, <2>1, <2>3 DEF Good, left
  <2>5. Cdp!Becomes(d)
    BY <1>3, <1>6, <2>3 DEF Cdp!Becomes, Cdp!CommandTimesOut, told, left
  <2> QED
    BY <1>4, <1>6, <2>3, <2>4, <2>5 DEF Cdp!CommandTimesOut
<1>7. ASSUME Cdp!Dispose
      PROVE  CdpInv'
  <2>1. PICK r : r = Cdp!RejectAll(c)
    OBVIOUS
  <2>2. /\ r \in CdpClients /\ r.pending = {} /\ r.socket = c.socket /\ r.connect = c.connect
        /\ \A x \in Commands : r.command[x] = IF c.command[x] = "sent" THEN "failed" ELSE c.command[x]
    BY <1>3, <2>1, Rejected DEF Good
  <2> DEFINE closing == [r.socket EXCEPT !.state = "closing"]
  <2>3. /\ closing \in [state : {"connecting", "open", "closing", "closed"}, handshake : BOOLEAN,
                        header : BOOLEAN, fragment : Utterances]
        /\ closing.fragment = c.socket.fragment /\ closing.state = "closing"
    BY <2>2 DEF CdpClients
  <2>4. PICK d : d = [r EXCEPT !.socket = closing]
    OBVIOUS
  <2>5. Cdp!Becomes(d)
    <3>1. d = [Cdp!RejectAll(Cdp!Client) EXCEPT !.socket.state = "closing"]
      BY <1>2, <2>1, <2>2, <2>4 DEF CdpClients, old
    <3> QED
      BY <1>7, <3>1 DEF Cdp!Dispose
  <2> HIDE DEF closing
  <2>6. d \in CdpClients /\ d.socket = closing /\ d.pending = {} /\ d.command = r.command
    BY <2>2, <2>3, <2>4 DEF CdpClients
  <2>7. socket.state = "open"
    BY <1>7 DEF Cdp!Dispose
  <2>8. Good(d, wire, 0)
    BY <1>3, <2>2, <2>3, <2>6, <2>7 DEF Good
  <2> QED
    BY <1>4, <1>7, <2>5, <2>6, <2>8 DEF Cdp!Dispose
<1> QED
  BY <1>5, <1>6, <1>7

(* Every step of the connection keeps the invariant. *)
LEMMA CdpNext ==
  ASSUME CdpInv, Cdp!Next
  PROVE  CdpInv'
BY BrowserKeepsCdp, DataKeepsCdp, CommandsKeepCdp DEF Cdp!Next

(* A step that changes nothing of the connection keeps it, too. *)
LEMMA CdpStutters ==
  ASSUME CdpInv, UNCHANGED cdpVars
  PROVE  CdpInv'
BY DEF cdpVars, CdpInv, WireFits, Good, Cdp!Client, Follows

(* Every command that the browser answered is settled or has its answer on *)
(* the wire.                                                               *)
LEMMA CdpPromise ==
  ASSUME CdpInv
  PROVE  Cdp!AnswersReachTheirCommands
<1>1. Good(Cdp!Client, wire, 0)
  BY DEF CdpInv
<1>2. PICK c : c = Cdp!Client
  OBVIOUS
<1>3. /\ Good(c, wire, 0)
      /\ c.socket = socket /\ c.connect = connect /\ c.pending = pending /\ c.command = command
  BY <1>1, <1>2, ClientIs
<1>4. ASSUME NEW k \in Commands, k \in answered, k \in pending
      PROVE  Cdp!InFlight(k)
  <2>1. PICK i \in (0 + 1)..Len(wire) : Gives(wire[i]) /\ wire[i].text = k
    BY <1>3, <1>4 DEF Good
  <2> QED
    BY <2>1 DEF Cdp!InFlight
<1> QED
  BY <1>3, <1>4 DEF Good, Cdp!AnswersReachTheirCommands

(* No chunk, fragment or ping between fragments loses the answer to a      *)
(* command: it is on the wire or the command is settled by it.             *)
THEOREM CdpTheorem == LabSpec => []AnswersReachTheirCommands
<1> DEFINE Inv == subject = "cdp" => CdpInv
<1>1. LabInit => Inv
  BY CdpStart DEF LabInit
<1>2. Inv /\ [LabNext /\ UNCHANGED subject]_<<subject, labVars>> => Inv'
  BY CdpNext, CdpStutters DEF LabNext, labVars
<1>3. Inv => AnswersReachTheirCommands
  BY CdpPromise DEF AnswersReachTheirCommands
<1> QED
  BY <1>1, <1>2, <1>3, PTL DEF LabSpec

-----------------------------------------------------------------------------
(* The connection to the browser: what it writes at once is six units at   *)
(* most, and it writes when the wire holds no more than the limit.         *)

ConnectionTyped == Len(wire) <= WireLimit + 6 /\ upgraded \in BOOLEAN /\ ended \in BOOLEAN

(* The client's record and the wire have their types. *)
LEMMA ConnectionTypes == CdpInv /\ ConnectionTyped => Cdp!TypeOK
<1> SUFFICES ASSUME CdpInv, ConnectionTyped
             PROVE  Cdp!TypeOK
  OBVIOUS
<1>1. PICK c : c = Cdp!Client
  OBVIOUS
<1>2. /\ c \in CdpClients /\ answered \subseteq Commands
      /\ c.socket = socket /\ c.connect = connect /\ c.pending = pending /\ c.command = command
  BY <1>1, ClientIs DEF CdpInv, Good
<1>3. Utterances = Cdp!Texts \cup {Cdp!NoText}
  BY DEF Utterances, Cdp!Texts, Cdp!Events, Cdp!NoText
<1>4. /\ socket \in [state : {"connecting", "open", "closing", "closed"}, handshake : BOOLEAN,
                     header : BOOLEAN, fragment : Utterances]
      /\ connect \in {"waiting", "open", "failed"} /\ pending \subseteq Commands
      /\ command \in [Commands -> {"none", "sent", "ok", "timeout", "failed", "refused"}]
  BY <1>2 DEF CdpClients
<1> QED
  BY <1>2, <1>3, <1>4 DEF ConnectionTyped, Cdp!TypeOK

(* The wire is empty at first. *)
LEMMA ConnectionStart == Cdp!Init => ConnectionTyped
<1> SUFFICES ASSUME Cdp!Init
             PROVE  ConnectionTyped
  OBVIOUS
<1>1. WireLimit \in Nat
  BY CommandAssumption
<1>2. upgraded \in BOOLEAN /\ ended \in BOOLEAN
  BY DEF Cdp!Init
<1>3. Len(wire) = 0
  BY DEF Cdp!Init
<1>4. Len(wire) <= WireLimit + 6
  BY <1>1, <1>3
<1> QED
  BY <1>2, <1>4, Zenon DEF ConnectionTyped

(* A message is six units at most: three frames of two halves. *)
LEMMA MessagesShort ==
  ASSUME NEW t \in Utterances
  PROVE  \A v \in {Cdp!Frame(t), Cdp!Split(t), Cdp!Interleaved(t)} : v \in Seq(Units) /\ Len(v) <= 6
<1> DEFINE a == Cdp!Unit("text", FALSE, t)
           b == Cdp!Unit("cont", TRUE, t)
           p == Cdp!Unit("ping", TRUE, "none")
           f == Cdp!Unit("text", TRUE, t)
<1>1. "none" \in Utterances
  BY DEF Utterances
<1>2. a \in Seq(Units) /\ Len(a) = 2
  BY OpeningHalves
<1>3. /\ b \in Seq(Units) /\ Len(b) = 2 /\ f \in Seq(Units) /\ Len(f) = 2
  BY HalvesFit
<1>4. p \in Seq(Units) /\ Len(p) = 2
  BY <1>1, HalvesFit
<1>5. Cdp!Frame(t) = f /\ Cdp!Split(t) = a \o b /\ Cdp!Interleaved(t) = (a \o p) \o b
  BY DEF Cdp!Frame, Cdp!Split, Cdp!Interleaved, Cdp!NoText
<1> HIDE DEF a, b, p, f
<1> DEFINE ab == a \o b
           ap == a \o p
           apb == ap \o b
<1>6. ab \in Seq(Units) /\ Len(ab) = Len(a) + Len(b)
  BY <1>2, <1>3, ConcatProperties
<1>7. ap \in Seq(Units) /\ Len(ap) = Len(a) + Len(p)
  BY <1>2, <1>4, ConcatProperties
<1> HIDE DEF ab, ap
<1>8. apb \in Seq(Units) /\ Len(apb) = Len(ap) + Len(b)
  BY <1>3, <1>7, ConcatProperties
<1> HIDE DEF apb
<1>9. Len(ab) <= 6 /\ Len(apb) <= 6
  BY <1>2, <1>3, <1>4, <1>6, <1>7, <1>8
<1>10. ASSUME NEW v \in {f, ab, apb}
       PROVE  v \in Seq(Units) /\ Len(v) <= 6
  BY <1>3, <1>6, <1>8, <1>9
<1>11. {Cdp!Frame(t), Cdp!Split(t), Cdp!Interleaved(t)} = {f, ab, apb}
  BY <1>5 DEF ab, ap, apb
<1> QED
  BY <1>10, <1>11

(* What the browser writes fits, and what the client takes only shortens.  *)
LEMMA ConnectionStep == CdpInv /\ ConnectionTyped /\ Cdp!Next => ConnectionTyped'
<1> SUFFICES ASSUME CdpInv, ConnectionTyped, Cdp!Next
             PROVE  ConnectionTyped'
  OBVIOUS
<1>1. wire \in Seq(Units) /\ WireLimit \in Nat /\ Len(wire) \in Nat
  BY CommandAssumption DEF CdpInv, WireFits
<1>2. ASSUME NEW v \in Seq(Units), Len(v) <= 6, Cdp!Writes(v), upgraded' \in BOOLEAN
      PROVE  ConnectionTyped'
  <2>1. wire' = wire \o v /\ Len(wire) <= WireLimit /\ ended' = ended
    BY <1>2 DEF Cdp!Writes
  <2>2. Len(wire') = Len(wire) + Len(v)
    BY <1>1, <1>2, <2>1
  <2> QED
    BY <1>1, <1>2, <2>1, <2>2 DEF ConnectionTyped
<1>3. \A op \in {"upgrade", "close", "odd"} :
         Cdp!Unit(op, TRUE, "none") \in Seq(Units) /\ Len(Cdp!Unit(op, TRUE, "none")) <= 6
  <2>1. "none" \in Utterances
    BY DEF Utterances
  <2>2. ASSUME NEW op \in {"upgrade", "close", "odd"}
        PROVE  /\ Cdp!Unit(op, TRUE, "none") \in Seq(Units)
               /\ Len(Cdp!Unit(op, TRUE, "none")) <= 6
    <3>1. Whole(Cdp!Unit(op, TRUE, "none"), "none")
      BY <2>1, MessagesFit
    <3>2. Len(Cdp!Unit(op, TRUE, "none")) <= 6
      BY DEF Cdp!Unit
    <3> QED
      BY <3>1, <3>2 DEF Whole
  <2> QED
    BY <2>2
<1>4. CASE Cdp!AnswersUpgrade
  BY <1>2, <1>3, <1>4 DEF Cdp!AnswersUpgrade, Cdp!Upgrade, Cdp!NoText
<1>5. ASSUME NEW t \in Utterances, NEW v \in {Cdp!Frame(t), Cdp!Split(t), Cdp!Interleaved(t)},
             Cdp!Writes(v), upgraded' = upgraded
      PROVE  ConnectionTyped'
  BY <1>2, <1>5, MessagesShort DEF ConnectionTyped
<1>6. ASSUME NEW k \in Commands, Cdp!Answers(k)
      PROVE  ConnectionTyped'
  BY <1>5, <1>6 DEF Cdp!Answers, Utterances
<1>7. CASE Cdp!Emits
  <2>1. upgraded' = upgraded /\ "event" \in Utterances
    BY <1>7 DEF Cdp!Emits, Utterances
  <2>2. CASE Cdp!Writes(Cdp!Frame("event"))
    BY <1>5, <2>1, <2>2
  <2>3. CASE Cdp!Writes(Cdp!Unit("close", TRUE, "none")) \/ Cdp!Writes(Cdp!Unit("odd", TRUE, "none"))
    BY <1>2, <1>3, <2>1, <2>3 DEF ConnectionTyped
  <2> QED
    BY <1>7, <2>2, <2>3 DEF Cdp!Emits, Cdp!NoText
<1>8. CASE Cdp!BrowserEnds
  BY <1>8 DEF Cdp!BrowserEnds, ConnectionTyped
<1>9. CASE Cdp!OnData
  <2>1. PICK n \in 1..Len(wire) : wire' = SubSeq(wire, n + 1, Len(wire)) /\ UNCHANGED <<upgraded, ended>>
    BY <1>9 DEF Cdp!OnData
  <2>2. Len(wire') = Len(wire) - n
    BY <1>1, <2>1
  <2> QED
    BY <1>1, <2>1, <2>2 DEF ConnectionTyped
<1>10. CASE Cdp!SocketFails \/ Cdp!SocketCloses \/ Cdp!HandshakeTimesOut \/ Cdp!Dispose
  BY <1>10 DEF Cdp!SocketFails, Cdp!SocketCloses, Cdp!HandshakeTimesOut, Cdp!Dispose, ConnectionTyped
<1>11. ASSUME NEW k \in Commands, Cdp!Send(k) \/ Cdp!CommandTimesOut(k)
       PROVE  ConnectionTyped'
  BY <1>11 DEF Cdp!Send, Cdp!CommandTimesOut, ConnectionTyped
<1> QED
  BY <1>4, <1>6, <1>7, <1>8, <1>9, <1>10, <1>11 DEF Cdp!Next

-----------------------------------------------------------------------------
(* The session with the Orbital experience.                                *)

(* The step the driver is at, and what was posted. *)
DriverTyped ==
    /\ 1 <= driver.step /\ driver.step <= Len(driver.script) + 1
    /\ posted.by \in {"none", "page", "runner"} /\ posted.states \in Seq(PageStates)

(* The states of the manifest are those of its transitions. *)
LEMMA StatesListed == Orbital!States = PageStates
<1>1. ASSUME NEW t \in Orbital!allowedTransitions
      PROVE  t[1] \in PageStates /\ t[2] \in PageStates
  BY DEF Orbital!allowedTransitions, PageStates
<1>2. Orbital!States \subseteq PageStates
  BY <1>1 DEF Orbital!States
<1>3. \A x, y : <<x, y>> \in Orbital!allowedTransitions => x \in Orbital!States /\ y \in Orbital!States
  BY DEF Orbital!States
<1>4. /\ <<"boot", "probing">> \in Orbital!allowedTransitions
      /\ <<"routing", "loading">> \in Orbital!allowedTransitions
      /\ <<"first-frame", "interactive">> \in Orbital!allowedTransitions
      /\ <<"product-detail", "cart">> \in Orbital!allowedTransitions
      /\ <<"cart", "checkout-complete">> \in Orbital!allowedTransitions
      /\ <<"degraded", "error">> \in Orbital!allowedTransitions
  BY DEF Orbital!allowedTransitions
<1>5. PageStates \subseteq Orbital!States
  BY <1>3, <1>4 DEF PageStates
<1> QED
  BY <1>2, <1>5

(* The invariant has the types of the rest. *)
LEMMA OrbitalTypes == OrbitalInv /\ DriverTyped => Orbital!TypeOK
<1> SUFFICES ASSUME OrbitalInv, DriverTyped
             PROVE  Orbital!TypeOK
  OBVIOUS
<1>1. OrbitalTyped
  BY DEF OrbitalInv
<1>2. driver.script \in Scripts /\ driver.step \in Nat /\ Len(driver.script) \in Nat
  BY <1>1, ScriptAssumption DEF OrbitalTyped
<1>3. driver.step \in 1..(Len(driver.script) + 1)
  BY <1>2 DEF DriverTyped
<1>4. runner.shots \in [Orbital!Checkpoints -> [state : PageStates, still : BOOLEAN]]
      /\ runner.chain \in Seq(Orbital!Checkpoints)
  BY <1>1 DEF OrbitalTyped, Shots
<1>5. /\ trace.states \in Seq(PageStates) /\ trace.checkpoints \in Seq(Orbital!Checkpoints)
      /\ driver.pc \in {"settling", "tapping", "checking", "done", "stopped", "over"}
      /\ waiting \subseteq [id : Orbital!Checkpoints, step : {"painting", "announced"}]
  BY <1>1 DEF OrbitalTyped, Waits
<1>6. page \in [state : PageStates, path : Orbital!Paths, tier : 1..4, forced : BOOLEAN, motion : BOOLEAN,
                pc : {"boot", "load", "paint", "first", "sampling", "live", "over"},
                animating : BOOLEAN, done : BOOLEAN]
  BY <1>1 DEF OrbitalTyped
<1> QED
  BY <1>2, <1>3, <1>4, <1>5, <1>6, StatesListed DEF DriverTyped, Orbital!TypeOK

(* The driver is at the first step, and nothing was posted. *)
LEMMA DriverStart == Orbital!Init => DriverTyped
<1> SUFFICES ASSUME Orbital!Init
             PROVE  DriverTyped
  OBVIOUS
<1>1. driver.step = 1 /\ driver.script \in Scripts
  BY DEF Orbital!Init
<1>2. Len(driver.script) \in Nat
  BY <1>1, ScriptAssumption
<1>3. posted.by = "none" /\ posted.states = <<>>
  BY DEF Orbital!Init, Orbital!NoTrace
<1> QED
  BY <1>1, <1>2, <1>3 DEF DriverTyped

(* A step of the script is passed when its tap was taken; what is posted   *)
(* is what the trace holds.                                                *)
LEMMA DriverStep == OrbitalInv /\ DriverTyped /\ Orbital!Next => DriverTyped'
<1> SUFFICES ASSUME OrbitalInv, DriverTyped, Orbital!Next
             PROVE  DriverTyped'
  OBVIOUS
<1>1. OrbitalInv'
  BY OrbitalNext
<1>2. /\ trace.states \in Seq(PageStates) /\ trace'.states \in Seq(PageStates)
      /\ driver \in [script : Scripts, step : Nat,
                     pc : {"settling", "tapping", "checking", "done", "stopped", "over"}]
  BY <1>1 DEF OrbitalInv, OrbitalTyped
<1>3. Len(driver.script) \in Nat
  BY <1>2, ScriptAssumption
<1>4. \/ posted' = posted
      \/ posted'.by = "page" /\ posted'.states = trace'.states
      \/ posted'.by = "runner" /\ posted'.states = trace.states
  <2> DEFINE Posts == posted' = posted \/ (posted'.by = "page" /\ posted'.states = trace'.states)
  <2>1. ASSUME NEW p, NEW t, Orbital!Finish(p, t)
        PROVE  Posts
    <3>1. trace' = t
      BY <2>1 DEF Orbital!Finish
    <3>2. \/ posted' = posted
          \/ posted' = [by |-> "page", states |-> t.states, taps |-> t.taps,
                        checkpoints |-> t.checkpoints, tier |-> p.tier]
      BY <2>1 DEF Orbital!Finish
    <3> QED
      BY <3>1, <3>2
  <2>2. ASSUME NEW p, NEW begun, Orbital!Fail(p, begun)
        PROVE  Posts
    BY <2>1, <2>2, Zenon DEF Orbital!Fail
  <2> HIDE DEF Posts
  <2>3. ASSUME NEW c, Orbital!CheckpointEnds(c)
        PROVE  Posts
    <3>1. posted' = posted \/ Orbital!Finish(page, trace)
      BY <2>3 DEF Orbital!CheckpointEnds
    <3> QED
      BY <2>1, <3>1 DEF Posts
  <2>4. ASSUME Orbital!Load \/ Orbital!FirstFrame \/ Orbital!Settle
        PROVE  Posts
    <3>1. posted' = posted \/ \E p, begun : Orbital!Fail(p, begun)
      BY <2>4, Zenon DEF Orbital!Load, Orbital!FirstFrame, Orbital!Settle, Orbital!Begins
    <3> QED
      BY <2>2, <3>1 DEF Posts
  <2>5. ASSUME Orbital!SessionEnds
        PROVE  posted' = posted \/ (posted'.by = "runner" /\ posted'.states = trace.states)
    <3>1. \/ posted' = posted
          \/ posted' = [by |-> "runner", states |-> trace.states, taps |-> trace.taps,
                        checkpoints |-> trace.checkpoints, tier |-> page.tier]
      BY <2>5 DEF Orbital!SessionEnds
    <3> QED
      BY <3>1
  <2>6. (\/ Orbital!BootFails \/ Orbital!Route \/ Orbital!Painted \/ Orbital!Photograph
         \/ Orbital!Acknowledge \/ Orbital!FindsInteractive \/ Orbital!Tap \/ Orbital!SeesTap
         \/ Orbital!GivesUp) => posted' = posted
    BY DEF Orbital!BootFails, Orbital!Route, Orbital!Painted, Orbital!Photograph, Orbital!Acknowledge,
           Orbital!FindsInteractive, Orbital!Tap, Orbital!SeesTap, Orbital!GivesUp, Orbital!Begins
  <2> DEFINE Told == \/ posted' = posted
                     \/ posted'.by = "page" /\ posted'.states = trace'.states
                     \/ posted'.by = "runner" /\ posted'.states = trace.states
  <2>7. Orbital!Load \/ Orbital!FirstFrame \/ Orbital!Settle => Told
    BY <2>4 DEF Posts
  <2>8. (\E c \in Orbital!Checkpoints : Orbital!CheckpointEnds(c)) => Told
    BY <2>3 DEF Posts
  <2>9. Orbital!SessionEnds => Told
    BY <2>5
  <2>10. posted' = posted => Told
    OBVIOUS
  <2> HIDE DEF Told
  <2>11. Told
    BY <2>6, <2>7, <2>8, <2>9, <2>10 DEF Orbital!Next
  <2> QED
    BY <2>11 DEF Told
<1>5. \/ driver' = driver
      \/ driver'.script = driver.script /\ driver'.step = driver.step
      \/ /\ driver.pc = "checking" /\ driver'.script = driver.script /\ driver'.step = driver.step + 1
  <2>1. \A p, begun : Orbital!Fail(p, begun) => driver' = driver
    BY DEF Orbital!Fail
  <2>2. Orbital!Load \/ Orbital!FirstFrame \/ Orbital!Settle => driver' = driver
    BY <2>1 DEF Orbital!Load, Orbital!FirstFrame, Orbital!Settle
  <2>3. \A c : Orbital!CheckpointEnds(c) => driver' = driver
    BY DEF Orbital!CheckpointEnds
  <2>4. Orbital!BootFails \/ Orbital!Route \/ Orbital!Painted \/ Orbital!Photograph
        \/ Orbital!Acknowledge => driver' = driver
    BY DEF Orbital!BootFails, Orbital!Route, Orbital!Painted, Orbital!Photograph, Orbital!Acknowledge
  <2>5. Orbital!FindsInteractive \/ Orbital!Tap \/ Orbital!GivesUp \/ Orbital!SessionEnds =>
           driver'.script = driver.script /\ driver'.step = driver.step
    BY <1>2 DEF Orbital!FindsInteractive, Orbital!Tap, Orbital!GivesUp, Orbital!SessionEnds
  <2>6. Orbital!SeesTap =>
           driver.pc = "checking" /\ driver'.script = driver.script /\ driver'.step = driver.step + 1
    BY <1>2 DEF Orbital!SeesTap
  <2> QED
    BY <2>2, <2>3, <2>4, <2>5, <2>6 DEF Orbital!Next
<1>6. driver.pc = "checking" => driver.step <= Len(driver.script)
  BY DEF OrbitalInv, TapsFit
<1>7. 1 <= driver'.step /\ driver'.step <= Len(driver'.script) + 1
  BY <1>2, <1>3, <1>5, <1>6 DEF DriverTyped
<1>8. posted'.by \in {"none", "page", "runner"} /\ posted'.states \in Seq(PageStates)
  BY <1>2, <1>4 DEF DriverTyped
<1> QED
  BY <1>7, <1>8 DEF DriverTyped

-----------------------------------------------------------------------------
(* The session with any other page.                                        *)

(* What the page asked for is counted, and a screenshot is of a checkpoint.*)
DeviceTyped ==
    /\ grant \in Grants
    /\ anyPage.asked <= MaxRequests /\ anyPage.open <= anyPage.asked
    /\ shots = [c \in Generic!Checkpoints |-> shots[c]]

(* The invariant has the types of the rest. *)
LEMMA GenericTypes == GenericInv /\ DeviceTyped => Generic!TypeOK
<1> SUFFICES ASSUME GenericInv, DeviceTyped
             PROVE  Generic!TypeOK
  OBVIOUS
<1> USE DEF GenericInv
<1>1. /\ anyPage \in [painted : BOOLEAN, camera : BOOLEAN, asked : Nat, open : Nat]
      /\ recorder \in [states : Seq(States), checkpoints : Seq(Generic!Checkpoints), xr : Seq(XrPhases),
                       sampling : {"on", "stopped", "seen"}, sampledCamera : BOOLEAN]
  BY DEF GenericTyped
<1>2. anyPage \in [painted : BOOLEAN, camera : BOOLEAN, asked : 0..MaxRequests, open : 0..MaxRequests]
  <2>1. anyPage.asked \in 0..MaxRequests /\ anyPage.open \in 0..MaxRequests
    BY <1>1, PageAssumption DEF DeviceTyped
  <2> QED
    BY <1>1, <2>1
<1>3. States = {"boot", "probing", "loading"} \cup {Generic!StateOf[c] : c \in Generic!Checkpoints}
  BY DEF States, Generic!StateOf, Generic!Checkpoints
<1>4. recorder.states \in Seq({"boot", "probing", "loading"}
                              \cup {Generic!StateOf[c] : c \in Generic!Checkpoints})
  BY <1>1, <1>3
<1>5. recorder.xr \in Seq({"request", "session-start", "session-refused", "session-end", "unavailable"})
  BY <1>1 DEF XrPhases
<1>6. anyDriver.pc \in {"settle", "interactive", "look", "looked", "xr", "poll", "entered", "final",
                       "finished", "harvested", "over"}
  BY DEF GenericTyped, StatesAt
<1>7. anyDriver.outcome \in {"unavailable", "no-trigger", "no-response", "started", "refused"}
  BY DEF GenericTyped
<1>8. capture \in [id : Generic!Checkpoints, step : {"announced", "taken", "acknowledged"}]
                 \cup {Generic!NoCapture}
  BY DEF GenericTyped
<1>9. shots \in [Generic!Checkpoints ->
                   {Generic!StateOf[c] : c \in Generic!Checkpoints} \cup {"loading", Generic!NoShot}]
  <2>1. \A c \in Generic!Checkpoints :
           shots[c] \in {Generic!StateOf[d] : d \in Generic!Checkpoints} \cup {"loading", Generic!NoShot}
    BY DEF OnTheSpine
  <2> QED
    BY <2>1 DEF DeviceTyped
<1> QED
  BY <1>1, <1>2, <1>4, <1>5, <1>6, <1>7, <1>8, <1>9 DEF DeviceTyped, Generic!TypeOK

(* The page has asked for nothing at first. *)
LEMMA DeviceStart == Generic!Init => DeviceTyped
BY PageAssumption DEF Generic!Init, DeviceTyped

(* The page asks for at most so many sessions, and each is answered once.  *)
LEMMA DeviceStep == GenericInv /\ DeviceTyped /\ Generic!Next => DeviceTyped'
<1> SUFFICES ASSUME GenericInv, DeviceTyped, Generic!Next
             PROVE  DeviceTyped'
  OBVIOUS
<1>1. anyPage \in [painted : BOOLEAN, camera : BOOLEAN, asked : Nat, open : Nat] /\ MaxRequests \in Nat
  BY PageAssumption DEF GenericInv, GenericTyped
<1>2. grant' = grant
  BY DEF Generic!Next, Generic!Paints, Generic!AcquiresCamera, Generic!SampleNonBlank,
         Generic!RequestsSession, Generic!DeviceAnswers, Generic!SessionEnds, Generic!Settles,
         Generic!MarksInteractive, Generic!LooksAround, Generic!TapsXr, Generic!Polls, Generic!MarksXr,
         Generic!Completes, Generic!Photograph, Generic!Acknowledge, Generic!Harvest,
         Generic!MeasureFirstFrame, Generic!Classify, Generic!PageOnly, Generic!DriverOnly
<1>3. anyPage'.asked <= MaxRequests /\ anyPage'.open <= anyPage'.asked
  <2>1. \/ anyPage'.asked = anyPage.asked /\ anyPage'.open = anyPage.open
        \/ Generic!RequestsSession \/ Generic!DeviceAnswers
    BY <1>1 DEF Generic!Next, Generic!Paints, Generic!AcquiresCamera, Generic!SampleNonBlank,
         Generic!SessionEnds, Generic!Settles,
         Generic!MarksInteractive, Generic!LooksAround, Generic!TapsXr, Generic!Polls, Generic!MarksXr,
         Generic!Completes, Generic!Photograph, Generic!Acknowledge, Generic!Harvest,
         Generic!MeasureFirstFrame, Generic!Classify, Generic!DriverOnly
  <2>2. CASE Generic!RequestsSession
    BY <1>1, <2>2 DEF Generic!RequestsSession, DeviceTyped
  <2>3. CASE Generic!DeviceAnswers
    BY <1>1, <2>3 DEF Generic!DeviceAnswers, DeviceTyped
  <2> QED
    BY <2>1, <2>2, <2>3 DEF DeviceTyped
<1>4. shots' = shots \/ \E s : shots' = [shots EXCEPT ![capture.id] = s]
  BY DEF Generic!Next, Generic!Paints, Generic!AcquiresCamera, Generic!SampleNonBlank,
         Generic!RequestsSession, Generic!DeviceAnswers, Generic!SessionEnds, Generic!Settles,
         Generic!MarksInteractive, Generic!LooksAround, Generic!TapsXr, Generic!Polls, Generic!MarksXr,
         Generic!Completes, Generic!Photograph, Generic!Acknowledge, Generic!Harvest,
         Generic!MeasureFirstFrame, Generic!Classify, Generic!PageOnly, Generic!DriverOnly
<1>5. shots' = [c \in Generic!Checkpoints |-> shots'[c]]
  BY <1>4 DEF DeviceTyped
<1> QED
  BY <1>2, <1>3, <1>5 DEF DeviceTyped
=============================================================================
