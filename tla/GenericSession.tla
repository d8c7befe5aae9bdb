--------------------------- MODULE GenericSession ----------------------------
(***************************************************************************)
(* A session with a page nobody wrote for Atlas: the injected recorder     *)
(* (experience/probe-generic.js), the emulated XR device (xr-stub.js), the *)
(* driver (drive-generic.js), the capture of its checkpoints and the trace *)
(* that is harvested, measured and classified (session.js, assemble.js,    *)
(* normalize.js, classify-delivery.js).                                    *)
(*                                                                         *)
(* The page paints, asks for an XR session or a camera and stops changing  *)
(* when it likes, also while the driver waits.  Frame times, input         *)
(* latency, errors and lists of resources are left out; how much was       *)
(* transferred and whether a canvas lives are choices at the harvest.      *)
(***************************************************************************)
EXTENDS Naturals, Sequences, SequencesExt

CONSTANTS
    Grants,        \* what a profile's device answers: "granted", "denied", "absent"
    MaxRequests,   \* XR sessions the page asks for
    PaintsLate     \* whether a page may not have painted when it is taken for settled

VARIABLES
    grant,         \* the injected device
    page,          \* painted, the camera, requests the device has not answered
    recorder,      \* states, checkpoints, XR phases, canvas sampling
    driver,        \* where driveGeneric is, and what it returns
    capture,       \* the checkpoint announced last and the runner's work on it
    shots,         \* the state the page was in at each screenshot
    trace          \* the trace of the session, with its hash

genericVars == <<grant, page, recorder, driver, capture, shots, trace>>

allowedTransitions ==
    {<<"boot", "probing">>, <<"probing", "loading">>, <<"loading", "first-frame">>, <<"loading", "error">>,
     <<"first-frame", "interactive">>, <<"first-frame", "degraded">>,
     <<"interactive", "looking">>, <<"interactive", "degraded">>,
     <<"looking", "xr-session">>, <<"looking", "session-complete">>, <<"looking", "degraded">>,
     <<"xr-session", "looking">>, <<"xr-session", "session-complete">>, <<"xr-session", "error">>,
     <<"degraded", "interactive">>, <<"degraded", "looking">>, <<"degraded", "error">>}

InOrder(states) == \A i \in 2..Len(states) : <<states[i - 1], states[i]>> \in allowedTransitions

StateOf == [c \in {"cp-first-frame", "cp-interactive", "cp-after-look", "cp-xr", "cp-final"} |->
    CASE c = "cp-first-frame" -> "first-frame"
      [] c = "cp-interactive" -> "interactive"
      [] c = "cp-after-look"  -> "looking"
      [] c = "cp-xr"          -> "xr-session"
      [] c = "cp-final"       -> "session-complete"]
Checkpoints == DOMAIN StateOf

NoShot     == "none"
NoCapture  == [id |-> "none", step |-> "none"]
NoTrace    == [fields |-> "none"]

TypeOK ==
    /\ grant \in Grants
    /\ page \in [painted : BOOLEAN, camera : BOOLEAN, asked : 0..MaxRequests, open : 0..MaxRequests]
    /\ recorder.states \in Seq({"boot", "probing", "loading"} \cup {StateOf[c] : c \in Checkpoints})
    /\ recorder.checkpoints \in Seq(Checkpoints)
    /\ recorder.xr \in Seq({"request", "session-start", "session-refused", "session-end", "unavailable"})
    /\ recorder.sampling \in {"on", "stopped", "seen"} /\ recorder.sampledCamera \in BOOLEAN
    /\ driver.pc \in {"settle", "interactive", "look", "looked", "xr", "poll", "entered", "final",
                      "finished", "harvested", "over"}
    /\ driver.outcome \in {"unavailable", "no-trigger", "no-response", "started", "refused"}
    /\ capture \in [id : Checkpoints, step : {"announced", "taken", "acknowledged"}] \cup {NoCapture}
    /\ shots \in [Checkpoints -> {StateOf[c] : c \in Checkpoints} \cup {"loading", NoShot}]

(* Without a device the recorder notes it at once. *)
Init ==
    /\ grant \in Grants
    /\ page = [painted |-> FALSE, camera |-> FALSE, asked |-> 0, open |-> 0]
    /\ recorder = [states |-> <<"boot", "probing", "loading">>, checkpoints |-> <<>>,
                   xr |-> IF grant = "absent" THEN <<"unavailable">> ELSE <<>>,
                   sampling |-> "on", sampledCamera |-> FALSE]
    /\ driver = [pc |-> "settle", outcome |-> "unavailable", before |-> 0, tapped |-> FALSE]
    /\ capture = NoCapture
    /\ shots = [c \in Checkpoints |-> NoShot]
    /\ trace = NoTrace

-----------------------------------------------------------------------------
(* The page and its recorder.                                              *)

Alive == driver.pc \notin {"harvested", "over"}
PageOnly == UNCHANGED <<grant, driver, capture, shots, trace>>

(* mark: a state that repeats itself is not recorded again. *)
Marked(state) == IF Last(recorder.states) = state THEN recorder.states ELSE Append(recorder.states, state)

(* First contentful paint, or the frame after load, whichever is first. *)
Paints ==
    /\ Alive /\ ~page.painted
    /\ page' = [page EXCEPT !.painted = TRUE]
    /\ recorder' = [recorder EXCEPT !.states = Marked("first-frame")]
    /\ PageOnly

(* The wrapped getUserMedia stops the sampling before the page sees the    *)
(* stream.                                                                 *)
AcquiresCamera ==
    /\ Alive /\ ~page.camera
    /\ page' = [page EXCEPT !.camera = TRUE]
    /\ recorder' = [recorder EXCEPT !.sampling = IF @ = "seen" THEN @ ELSE "stopped"]
    /\ PageOnly

SamplesRegardless ==
    /\ Alive /\ recorder.sampling # "seen"
    /\ recorder' = [recorder EXCEPT !.sampling = "seen", !.sampledCamera = page.camera]
    /\ UNCHANGED page
    /\ PageOnly

(* Every 100 ms, until a canvas has shown something or cannot be read. *)
SampleNonBlank ==
    /\ Alive /\ recorder.sampling = "on"
    /\ \/ recorder' = [recorder EXCEPT !.sampling = "seen", !.sampledCamera = page.camera]
       \/ recorder' = [recorder EXCEPT !.sampling = "stopped"]
    /\ UNCHANGED page
    /\ PageOnly

(* requestSession, wrapped: by the page itself or from the tapped button. *)
RequestsSession ==
    /\ Alive /\ grant # "absent" /\ page.asked < MaxRequests
    /\ page' = [page EXCEPT !.asked = @ + 1, !.open = @ + 1]
    /\ recorder' = [recorder EXCEPT !.xr = Append(@, "request")]
    /\ PageOnly

(* A mode the device lacks is refused even where sessions are granted. *)
DeviceAnswers ==
    /\ Alive /\ page.open > 0
    /\ page' = [page EXCEPT !.open = @ - 1]
    /\ \/ grant = "granted" /\ recorder' = [recorder EXCEPT !.xr = Append(@, "session-start")]
       \/ recorder' = [recorder EXCEPT !.xr = Append(@, "session-refused")]
    /\ PageOnly

Count(phase) == Len(SelectSeq(recorder.xr, LAMBDA p : p = phase))

SessionEnds ==
    /\ Alive /\ Count("session-start") > Count("session-end")
    /\ recorder' = [recorder EXCEPT !.xr = Append(@, "session-end")]
    /\ UNCHANGED page
    /\ PageOnly

-----------------------------------------------------------------------------
(* The driver.  Its pc names the step at hand; a step that announces a     *)
(* checkpoint goes on when the checkpoint is over.                         *)

DriverOnly == UNCHANGED <<grant, page, shots, trace>>
Ready(pc) == driver.pc = pc /\ capture = NoCapture

Announces(c, states) ==
    /\ recorder' = [recorder EXCEPT !.states = states, !.checkpoints = Append(@, c)]
    /\ capture' = [id |-> c, step |-> "announced"]

(* waitForSettle: quiet for a while, or changing still at the cap. *)
Settles ==
    /\ Ready("settle")
    /\ page.painted \/ PaintsLate
    /\ driver' = [driver EXCEPT !.pc = "interactive"]
    /\ Announces("cp-first-frame", recorder.states)
    /\ DriverOnly

MarksInteractive ==
    /\ Ready("interactive")
    /\ driver' = [driver EXCEPT !.pc = "look"]
    /\ Announces("cp-interactive", Marked("interactive"))
    /\ DriverOnly

(* A gesture that cannot be sent ends the session there. *)
LooksAround ==
    /\ Ready("look")
    /\ \/ /\ driver' = [driver EXCEPT !.pc = "xr"]
          /\ Announces("cp-after-look", Marked("looking"))
       \/ /\ driver' = [driver EXCEPT !.pc = "finished"]
          /\ recorder' = [recorder EXCEPT !.states = Marked("looking")]
          /\ UNCHANGED capture
    /\ DriverOnly

(* attemptXr: no control to tap, or the tap and the poll after it. *)
TapsXr ==
    /\ Ready("xr")
    /\ \/ \E outcome \in IF grant = "absent" THEN {"unavailable"} ELSE {"unavailable", "no-trigger"} :
             driver' = [driver EXCEPT !.pc = "final", !.outcome = outcome]
       \/ driver' = [driver EXCEPT !.pc = "poll", !.before = Len(recorder.xr), !.tapped = TRUE]
    /\ UNCHANGED <<recorder, capture>>
    /\ DriverOnly

Happened(phase) == Contains(recorder.xr, phase)

(* All the phases so far are read, those before the tap included. *)
Polls ==
    /\ Ready("poll")
    /\ \/ /\ Happened("session-start")
          /\ driver' = [driver EXCEPT !.pc = "entered", !.outcome = "started"]
       \/ /\ ~Happened("session-start") /\ Happened("session-refused")
          /\ driver' = [driver EXCEPT !.pc = "entered", !.outcome = "refused"]
       \/ /\ ~Happened("session-start") /\ ~Happened("session-refused")
          /\ driver' = IF Len(recorder.xr) > driver.before
                       THEN [driver EXCEPT !.pc = "entered", !.outcome = "refused"]
                       ELSE [driver EXCEPT !.pc = "final", !.outcome = "no-response"]
    /\ UNCHANGED <<recorder, capture>>
    /\ DriverOnly

MarksXr ==
    /\ Ready("entered")
    /\ driver' = [driver EXCEPT !.pc = "final"]
    /\ Announces("cp-xr", Marked("xr-session"))
    /\ DriverOnly

Completes ==
    /\ Ready("final")
    /\ driver' = [driver EXCEPT !.pc = "finished"]
    /\ Announces("cp-final", Marked("session-complete"))
    /\ DriverOnly

-----------------------------------------------------------------------------
(* The runner's capture, and the page's promise that waits for it: the     *)
(* capture is taken to end within the five seconds the page waits for it.  *)

Photograph ==
    /\ capture # NoCapture /\ capture.step = "announced"
    /\ capture' = [capture EXCEPT !.step = "taken"]
    /\ \/ shots' = [shots EXCEPT ![capture.id] = Last(recorder.states)]
       \/ UNCHANGED shots
    /\ UNCHANGED <<grant, page, recorder, driver, trace>>

Acknowledge ==
    /\ capture # NoCapture /\ capture.step = "taken"
    /\ capture' = NoCapture
    /\ UNCHANGED <<grant, page, recorder, driver, shots, trace>>

-----------------------------------------------------------------------------
(* The trace.                                                              *)

(* normalizeTrace, and a hash that tells any two of them apart. *)
Hash(t) == [t EXCEPT !.hash = "none"]
Rehashed(t) == [t EXCEPT !.hash = Hash(t)]

(* obtainTrace: assembleTrace of the recorder's payload. *)
Harvest ==
    /\ Ready("finished")
    /\ driver' = [driver EXCEPT !.pc = "harvested"]
    /\ trace' = Rehashed([fields |-> "harvested", states |-> recorder.states,
                          checkpoints |-> recorder.checkpoints, xr |-> recorder.xr,
                          camera |-> page.camera, firstFrame |-> "unmeasured",
                          tier |-> "none", path |-> "none", hash |-> "none"])
    /\ UNCHANGED <<grant, page, recorder, capture, shots>>

(* measureFirstFrame writes on the event of that name, if there is one and *)
(* its screenshot can be decoded.                                          *)
MeasureFirstFrame ==
    /\ driver.pc = "harvested" /\ trace.fields = "harvested"
    /\ \E shown \in {"shown", "blank", "unmeasured"} :
          /\ shown # "unmeasured" => /\ shots["cp-first-frame"] # NoShot
                                     /\ Contains(trace.states, "first-frame")
          /\ trace' = Rehashed([trace EXCEPT !.firstFrame = shown, !.fields = "measured"])
    /\ UNCHANGED <<grant, page, recorder, driver, capture, shots>>

Started(t) == Contains(t.xr, "session-start")

(* classifyDelivery: the path by what was seen to happen, the tier by what *)
(* was transferred: nothing, too little for a page without a live canvas,  *)
(* or the nearest of the declared envelopes.                               *)
Classified(t, bytes, live) ==
    [t EXCEPT !.path = IF Started(t) \/ t.camera THEN "camera-xr"
                       ELSE IF live THEN "interactive-2d" ELSE "static-safe",
              !.tier = IF bytes = "none" \/ (bytes = "little" /\ ~live) THEN "static-fallback"
                       ELSE IF bytes = "little" THEN "low" ELSE bytes,
              !.fields = "classified"]

ClassifyWithoutHash ==
    /\ driver.pc = "harvested" /\ trace.fields = "measured"
    /\ \E bytes \in {"none", "little", "low", "mid", "high"}, live \in BOOLEAN :
          trace' = Classified(trace, bytes, live)
    /\ driver' = [driver EXCEPT !.pc = "over"]
    /\ UNCHANGED <<grant, page, recorder, capture, shots>>

(* applyDeliveryClassification: served tier and path are part of the hash. *)
Classify ==
    /\ driver.pc = "harvested" /\ trace.fields = "measured"
    /\ \E bytes \in {"none", "little", "low", "mid", "high"}, live \in BOOLEAN :
          trace' = Rehashed(Classified(trace, bytes, live))
    /\ driver' = [driver EXCEPT !.pc = "over"]
    /\ UNCHANGED <<grant, page, recorder, capture, shots>>

Next ==
    \/ Paints \/ AcquiresCamera \/ SampleNonBlank
    \/ RequestsSession \/ DeviceAnswers \/ SessionEnds
    \/ Settles \/ MarksInteractive \/ LooksAround \/ TapsXr \/ Polls \/ MarksXr \/ Completes
    \/ Photograph \/ Acknowledge
    \/ Harvest \/ MeasureFirstFrame \/ Classify

Spec == Init /\ [][Next]_genericVars

-----------------------------------------------------------------------------
(* What a session leaves behind is evidence of that session: its states    *)
(* follow the spine whenever the page paints; a screenshot shows the state *)
(* its checkpoint names; the canvas was never read with a camera stream in *)
(* it; the trace's hash is of what the trace says after every stage that   *)
(* writes on it; its path is camera-xr exactly when the page was seen to   *)
(* get a session or a camera.                                              *)
GenericEvidence ==
    /\ InOrder(recorder.states)
    /\ \A c \in Checkpoints : shots[c] \in {NoShot, StateOf[c]}
    /\ ~recorder.sampledCamera
    /\ trace # NoTrace => trace.hash = Hash(trace)
    /\ driver.pc = "over" =>
          /\ trace.path = "camera-xr" <=> (Happened("session-start") \/ page.camera)
          /\ driver.outcome = "started" => trace.path = "camera-xr"
          /\ Last(trace.states) = "session-complete" => \A c \in {"cp-interactive", "cp-after-look"} :
                Contains(trace.checkpoints, c)
=============================================================================
