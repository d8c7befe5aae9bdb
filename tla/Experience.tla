---------------------------- MODULE Experience -----------------------------
(***************************************************************************)
(* One emulated session of the Orbital experience: the page's state        *)
(* machine and recorder (experience/runtime.js, recorder.js), the runner   *)
(* that photographs its checkpoints (session.js) and the driver that taps  *)
(* through it (drive.js).                                                  *)
(*                                                                         *)
(* The page boots in awaits nothing else can interfere with, so a stage of *)
(* the boot is one step.  From the first frame on, the page, the capture   *)
(* chain and the driver interleave.  A scene that animates shows any       *)
(* phase; a stopped one shows CHECKPOINT_PHASE.                            *)
(***************************************************************************)
EXTENDS Naturals, Sequences

CONSTANTS
    Scripts,       \* what the driver taps: the purchase flow or a recorded trace
    AckTimesOut    \* whether the page may give up waiting for its screenshot

VARIABLES
    page,          \* the state machine, its scene and how far the boot is
    trace,         \* what the recorder has: states, interactions, checkpoints
    waiting,       \* checkpointAtFixedPhase calls in flight and their step
    unpainted,     \* targets tapped whose two animation frames are to come
    runner,        \* the capture chain, the screenshots, the acknowledgement
    driver,        \* the script, the step in it, and where the driver waits
    posted         \* the trace the control plane received or the runner read

experienceVars == <<page, trace, waiting, unpainted, runner, driver, posted>>

Tiers == <<"high", "mid", "low", "static-fallback">>
Paths == {"camera-xr", "interactive-2d", "static-safe"}

(* The state each checkpoint is declared on. *)
StateOf == [c \in {"cp-first-frame", "cp-interactive", "cp-product-detail", "cp-checkout"} |->
    CASE c = "cp-first-frame"    -> "first-frame"
      [] c = "cp-interactive"    -> "interactive"
      [] c = "cp-product-detail" -> "product-detail"
      [] c = "cp-checkout"       -> "checkout-complete"]
Checkpoints == DOMAIN StateOf

allowedTransitions ==
    {<<"boot", "probing">>, <<"probing", "routing">>, <<"routing", "loading">>,
     <<"loading", "first-frame">>, <<"loading", "error">>,
     <<"first-frame", "interactive">>, <<"first-frame", "degraded">>,
     <<"interactive", "product-detail">>, <<"interactive", "degraded">>,
     <<"product-detail", "interactive">>, <<"product-detail", "cart">>,
     <<"cart", "product-detail">>, <<"cart", "checkout-complete">>,
     <<"degraded", "interactive">>, <<"degraded", "product-detail">>, <<"degraded", "error">>}
States == {t[1] : t \in allowedTransitions} \cup {t[2] : t \in allowedTransitions}

(* validateStateOrdering: a state may repeat itself. *)
InOrder(states) == \A i \in 2..Len(states) :
    states[i - 1] = states[i] \/ <<states[i - 1], states[i]>> \in allowedTransitions

NoShot  == [state |-> "boot", still |-> FALSE]
NoTrace == [by |-> "none", states |-> <<>>, taps |-> <<>>, checkpoints |-> <<>>, tier |-> 4]

TypeOK ==
    /\ page \in [state : States, path : Paths, tier : 1..4, forced : BOOLEAN, motion : BOOLEAN,
                 pc : {"boot", "load", "paint", "first", "sampling", "live", "over"},
                 animating : BOOLEAN, done : BOOLEAN]
    /\ trace.states \in Seq(States) /\ trace.checkpoints \in Seq(Checkpoints)
    /\ waiting \subseteq [id : Checkpoints, step : {"painting", "announced"}]
    /\ runner.chain \in Seq(Checkpoints)
    /\ runner.shots \in [Checkpoints -> [state : States, still : BOOLEAN]]
    /\ driver.pc \in {"settling", "tapping", "checking", "done", "stopped", "over"}
    /\ driver.script \in Scripts /\ driver.step \in 1..(Len(driver.script) + 1)
    /\ posted.by \in {"none", "page", "runner"} /\ posted.states \in Seq(States)

Init ==
    /\ page \in [state : {"boot"}, path : {"static-safe"}, tier : {4}, forced : BOOLEAN,
                 motion : BOOLEAN, pc : {"boot"}, animating : {FALSE}, done : {FALSE}]
    /\ trace = [states |-> <<"boot">>, taps |-> <<>>, checkpoints |-> <<>>]
    /\ waiting = {}
    /\ unpainted = <<>>
    /\ runner = [chain |-> <<>>, taken |-> FALSE, ack |-> "none",
                 shots |-> [c \in Checkpoints |-> NoShot]]
    /\ driver \in [script : Scripts, step : {1}, pc : {"settling"}]
    /\ posted = NoTrace

-----------------------------------------------------------------------------
(* The page.                                                               *)

(* A page that fails, or checks out, posts what it has recorded, once.     *)
Finish(p, t) ==
    /\ page' = [p EXCEPT !.pc = "over", !.animating = FALSE, !.done = TRUE]
    /\ trace' = t
    /\ \/ posted' = [by |-> "page", states |-> t.states, taps |-> t.taps,
                     checkpoints |-> t.checkpoints, tier |-> p.tier]
       \/ UNCHANGED posted

Through(states) == [trace EXCEPT !.states = @ \o states]

Fail(p, states) ==
    /\ Finish([p EXCEPT !.state = "error"], Through(Append(states, "error")))
    /\ UNCHANGED <<waiting, unpainted, runner, driver>>

(* No manifest or no capability snapshot: no payload and no completion, so *)
(* the runner waits in vain.                                               *)
BootFails ==
    /\ page.pc = "boot"
    /\ page' = [page EXCEPT !.state = "error", !.pc = "over"]
    /\ \E begun \in {<<>>, <<"probing">>} : trace' = Through(Append(begun, "error"))
    /\ UNCHANGED <<waiting, unpainted, runner, driver, posted>>

(* The router answers a tier and a path, or cannot be reached and the page *)
(* serves the safest thing; a baseline run forces the tier.                *)
Decisions(forced) ==
    {d \in [tier : 1..4, path : Paths] :
        (d.tier = 4 <=> d.path = "static-safe") /\ (forced => d.tier # 4)}
    \cup (IF forced THEN {} ELSE {[tier |-> 3, path |-> "static-safe"]})

Route ==
    /\ page.pc = "boot"
    /\ \E d \in Decisions(page.forced) :
          page' = [page EXCEPT !.state = "loading", !.pc = "load", !.tier = d.tier, !.path = d.path]
    /\ trace' = Through(<<"probing", "routing", "loading">>)
    /\ UNCHANGED <<waiting, unpainted, runner, driver, posted>>

(* Each tier that will not load, after a retry, gives way to the next; the *)
(* last resort is the poster.                                              *)
Load ==
    /\ page.pc = "load"
    /\ \/ /\ page.path # "static-safe"
          /\ \E t \in page.tier..3 : page' = [page EXCEPT !.tier = t, !.pc = "paint"]
          /\ UNCHANGED <<trace, waiting, unpainted, runner, driver, posted>>
       \/ /\ page' = [page EXCEPT !.tier = 3, !.path = "static-safe", !.pc = "paint"]
          /\ UNCHANGED <<trace, waiting, unpainted, runner, driver, posted>>
       \/ Fail([page EXCEPT !.path = "static-safe"], <<>>)

Begins(c) ==
    /\ waiting' = waiting \cup {[id |-> c, step |-> "painting"]}
    /\ UNCHANGED <<runner, posted>>

(* A refused camera leaves the 2D path, a refused WebGL context the 2D     *)
(* scene; with neither scene there is nothing to show.                     *)
FirstFrame ==
    /\ page.pc = "paint"
    /\ \/ /\ \E path \in {page.path} \cup (IF page.path = "camera-xr" THEN {"interactive-2d"} ELSE {}) :
                page' = [page EXCEPT !.state = "first-frame", !.path = path, !.pc = "first"]
          /\ trace' = Through(<<"first-frame">>)
          /\ Begins("cp-first-frame")
          /\ UNCHANGED <<unpainted, driver>>
       \/ page.path # "static-safe" /\ Fail(page, <<>>)

Animates == page.path # "static-safe" /\ page.motion

(* maybeDowngrade with the frames measured, then interactive.  A second    *)
(* answer of no interactive tier at all is no rung of the ladder: kept.    *)
Settle ==
    /\ page.pc = "sampling"
    /\ \/ /\ page' = [page EXCEPT !.state = "interactive", !.pc = "live", !.animating = FALSE]
          /\ trace' = Through(<<"interactive">>)
          /\ Begins("cp-interactive")
          /\ UNCHANGED <<unpainted, driver>>
       \/ /\ ~page.forced /\ page.path # "static-safe"
          /\ \E t \in (page.tier + 1)..3 :
                \/ /\ page' = [page EXCEPT !.state = "interactive", !.pc = "live",
                                           !.animating = FALSE, !.tier = t]
                   /\ trace' = Through(<<"degraded", "interactive">>)
                   /\ Begins("cp-interactive")
                   /\ UNCHANGED <<unpainted, driver>>
                \/ Fail(page, <<"degraded">>)

PaintedUndeclared ==
    /\ unpainted # <<>> \/ \E v \in waiting : v.step = "painting"
    /\ trace' = [trace EXCEPT !.taps = @ \o unpainted]
    /\ \E order \in {<<>>} \cup {<<w.id>> : w \in {v \in waiting : v.step = "painting"}} :
          runner' = [runner EXCEPT !.chain = @ \o order]
    /\ waiting' = {[w EXCEPT !.step = "announced"] : w \in waiting}
    /\ unpainted' = <<>>
    /\ UNCHANGED <<page, driver, posted>>

(* Two animation frames: every checkpoint that painted is declared and     *)
(* announced, and only then is the tap that caused it recorded.            *)
Painted ==
    LET ids == {w.id : w \in {v \in waiting : v.step = "painting"}}
    IN  /\ ids # {} \/ unpainted # <<>>
        /\ \E order \in [1..(IF ids = {} THEN 0 ELSE 1) -> ids] :
              /\ trace' = [trace EXCEPT !.checkpoints = @ \o order, !.taps = @ \o unpainted]
              /\ runner' = [runner EXCEPT !.chain = @ \o order]
        /\ waiting' = {[w EXCEPT !.step = "announced"] : w \in waiting}
        /\ unpainted' = <<>>
        /\ UNCHANGED <<page, driver, posted>>

AlwaysResumes(c) == TRUE

(* The acknowledgement names the checkpoint, and stays until the next.     *)
Resumes(c) == runner.ack = c \/ AckTimesOut

(* The scene moves on; what waited for the checkpoint moves on with it.    *)
CheckpointEnds(c) ==
    /\ [id |-> c, step |-> "announced"] \in waiting
    /\ Resumes(c)
    /\ waiting' = waiting \ {[id |-> c, step |-> "announced"]}
    /\ IF c = "cp-checkout" /\ page.pc = "live"
       THEN Finish(page, trace)
       ELSE /\ page' = [page EXCEPT !.animating = page.pc # "over" /\ Animates,
                                    !.pc = IF @ = "first" THEN "sampling" ELSE @]
            /\ UNCHANGED <<trace, posted>>
    /\ UNCHANGED <<unpainted, runner, driver>>

-----------------------------------------------------------------------------
(* The runner's captures, one after the other.                             *)

(* What is photographed is what the page shows by now.                     *)
Photograph ==
    /\ runner.chain # <<>> /\ ~runner.taken
    /\ \/ runner' = [runner EXCEPT !.taken = TRUE,
                                   !.shots[Head(runner.chain)] = [state |-> page.state, still |-> ~page.animating]]
       \/ runner' = [runner EXCEPT !.taken = TRUE]
    /\ UNCHANGED <<page, trace, waiting, unpainted, driver, posted>>

Acknowledge ==
    /\ runner.taken
    /\ runner' = [runner EXCEPT !.taken = FALSE, !.chain = Tail(@), !.ack = Head(runner.chain)]
    /\ UNCHANGED <<page, trace, waiting, unpainted, driver, posted>>

-----------------------------------------------------------------------------
(* The driver.                                                             *)

Leads == [product |-> "product-detail", back |-> "interactive",
          cart |-> "cart", checkout |-> "checkout-complete"]

(* The first element of the name that has a layout box.  Two buttons are   *)
(* named back, and the one of the cart is never the first.                 *)
Hittable(target) ==
    \/ page.state = "interactive" /\ target = "product"
    \/ page.state = "product-detail" /\ target \in {"back", "cart"}
    \/ page.state = "cart" /\ target = "checkout"

(* Nothing is tapped before the page has settled: the promise of a         *)
(* checkpoint the page has not had answered counts as unsettled.           *)
Settled == waiting = {}

FindsInteractive ==
    /\ driver.pc = "settling"
    /\ page.state = "interactive" /\ Settled
    /\ driver' = [driver EXCEPT !.pc = IF driver.script = <<>> THEN "done" ELSE "tapping"]
    /\ UNCHANGED <<page, trace, waiting, unpainted, runner, posted>>

(* The click handler runs go(): back to the start pushes its state twice.  *)
Tap ==
    LET target == driver.script[driver.step]
        next   == Leads[target]
    IN  /\ driver.pc = "tapping"
        /\ Hittable(target)
        /\ driver' = [driver EXCEPT !.pc = "checking"]
        /\ trace' = Through(IF next = "interactive" THEN <<next, next>> ELSE <<next>>)
        /\ unpainted' = Append(unpainted, target)
        /\ \/ /\ next \in {"product-detail", "checkout-complete"}
              /\ page' = [page EXCEPT !.state = next, !.animating = FALSE]
              /\ Begins(CHOOSE c \in Checkpoints : StateOf[c] = next)
           \/ /\ next \in {"interactive", "cart"}
              /\ page' = [page EXCEPT !.state = next]
              /\ UNCHANGED <<waiting, runner, posted>>

SeesTap ==
    /\ driver.pc = "checking"
    /\ Len(trace.taps) >= driver.step /\ Settled
    /\ driver' = [driver EXCEPT !.step = @ + 1,
                                !.pc = IF driver.step = Len(driver.script) THEN "done" ELSE "tapping"]
    /\ UNCHANGED <<page, trace, waiting, unpainted, runner, posted>>

(* A step that takes too long ends the journey. *)
GivesUp ==
    /\ driver.pc \in {"settling", "tapping", "checking"}
    /\ driver' = [driver EXCEPT !.pc = "stopped"]
    /\ UNCHANGED <<page, trace, waiting, unpainted, runner, posted>>

(* A page without a capability snapshot has no payload to give. *)
Probed == \E i \in 1..Len(trace.states) : trace.states[i] = "routing"

(* After the chain has drained: the posted trace, a partial one read from  *)
(* the page, or none in time.  The page is closed.                         *)
SessionEnds ==
    /\ runner.chain = <<>>
    /\ \/ driver.pc = "done" /\ UNCHANGED posted
       \/ /\ driver.pc = "stopped"
          /\ \/ /\ Probed
                /\ posted' = [by |-> "runner", states |-> trace.states, taps |-> trace.taps,
                              checkpoints |-> trace.checkpoints, tier |-> page.tier]
             \/ UNCHANGED posted
    /\ driver' = [driver EXCEPT !.pc = "over"]
    /\ page' = [page EXCEPT !.pc = "over", !.animating = FALSE]
    /\ waiting' = {}
    /\ unpainted' = <<>>
    /\ UNCHANGED <<trace, runner>>

Next ==
    \/ BootFails \/ Route \/ Load \/ FirstFrame \/ Settle \/ Painted
    \/ \E c \in Checkpoints : CheckpointEnds(c)
    \/ Photograph \/ Acknowledge
    \/ FindsInteractive \/ Tap \/ SeesTap \/ GivesUp \/ SessionEnds

Spec == Init /\ [][Next]_experienceVars

-----------------------------------------------------------------------------
(* A screenshot is of the state its checkpoint names, at the fixed phase:  *)
(* the page blocks on the acknowledgement and the driver on the page.      *)
ScreenshotOfItsState ==
    \A c \in Checkpoints :
        runner.shots[c] # NoShot => runner.shots[c] = [state |-> StateOf[c], still |-> TRUE]

(* A trace is in the manifest's order, declares every checkpoint it has a  *)
(* screenshot of, and a completed one has every tap.                       *)
TraceTellsTheSession ==
    posted.by # "none" =>
        /\ InOrder(posted.states)
        /\ posted.by = "runner" =>
              \A c \in Checkpoints : runner.shots[c] # NoShot =>
                  \E i \in 1..Len(posted.checkpoints) : posted.checkpoints[i] = c
        /\ posted.states[Len(posted.states)] = "checkout-complete" /\ posted.by = "page" =>
              posted.taps = driver.script
=============================================================================
