---------------------------- MODULE JobHandshake -----------------------------
(***************************************************************************)
(* One job of a worker: executeLocalRun (local-worker.js), which makes the *)
(* network and the containers, polls for the marker with the exit code,    *)
(* copies the bundle out of the running container, says that it has it,    *)
(* and waits for the exit; and the supervisor inside (job-supervisor.js),  *)
(* which keeps the container up, and with it the bundle, until then.       *)
(*                                                                         *)
(* /output is memory of the running container.  A docker call of the       *)
(* worker is one step; the supervisor opens its marker in one step and     *)
(* writes it in another.  The heartbeat's callback and the reaper of       *)
(* another worker stop or remove the container between any two steps.      *)
(***************************************************************************)
EXTENDS Integers

CONSTANTS
    Files,         \* of the bundle
    Result         \* job-result.json, the one written last

VARIABLES
    resources,     \* what the worker made and has not removed
    inside,        \* the job's container, its two processes and /output
    executor,      \* executeLocalRun
    beat,          \* the heartbeat's callback: "idle" or about to "kill"
    disturbed      \* history: something other than the two took a hand

jobVars == <<resources, inside, executor, beat, disturbed>>

Codes        == {0, 1, 137}
NoCode       == -1
Polling      == {"reading", "inspecting"}
Collecting   == {"listing", "copying", "waiting", "checking"}

TypeOK ==
    /\ resources \subseteq {"network", "proxy", "worker"}
    /\ inside \in [container : {"absent", "created", "running", "stopped"}, code : Codes \cup {NoCode},
                   supervisor : {"child", "marking", "writing", "holding", "leaving"},
                   interrupted : BOOLEAN, job : Codes \cup {NoCode}, files : SUBSET Files,
                   marker : {"none", "empty", "written"}, collected : BOOLEAN]
    /\ executor.pc \in {"network", "proxy", "worker", "starting", "cleaning", "ended"} \cup Polling \cup Collecting
    /\ executor.exported \subseteq executor.listing /\ executor.listing \subseteq Files
    /\ beat \in {"idle", "kill"} /\ disturbed \in BOOLEAN

(* job and code: the exit codes of execute-job.js and of the container.    *)
Init ==
    /\ resources = {}
    /\ inside = [container |-> "absent", code |-> NoCode, supervisor |-> "child", interrupted |-> FALSE,
                 job |-> NoCode, files |-> {}, marker |-> "none", collected |-> FALSE]
    /\ executor = [pc |-> "network", active |-> {}, late |-> FALSE, cancelled |-> FALSE, lost |-> FALSE,
                   exit |-> NoCode, listing |-> {}, exported |-> {}, error |-> "none", unclean |-> FALSE]
    /\ beat = "idle"
    /\ disturbed = FALSE

-----------------------------------------------------------------------------
(* Inside the running container.                                           *)
Running == inside.container = "running"
Stopped(code) == [inside EXCEPT !.container = "stopped", !.code = code]
Supervising(pc) == Running /\ inside.supervisor = pc
InsideOnly == UNCHANGED <<resources, executor, beat, disturbed>>

(* The result summary is written when all the rest is.                     *)
WriteFile(f) ==
    /\ Running /\ inside.job = NoCode /\ f \notin inside.files
    /\ f = Result => inside.files = Files \ {Result}
    /\ inside' = [inside EXCEPT !.files = @ \cup {f}]
    /\ InsideOnly

(* It throws where it likes, for a lost profile for one.                   *)
JobExits ==
    /\ Running /\ inside.job = NoCode
    /\ inside' = [inside EXCEPT !.job = IF inside.files = Files THEN 0 ELSE 1]
    /\ InsideOnly

JobCloses ==
    /\ Supervising("child") /\ inside.job # NoCode
    /\ inside' = [inside EXCEPT !.supervisor = "marking"]
    /\ InsideOnly

(* writeFile with flag wx: the file is there before its content.           *)
OpenMarker ==
    /\ Supervising("marking")
    /\ inside' = [inside EXCEPT !.supervisor = "writing", !.marker = "empty"]
    /\ InsideOnly

WriteMarker ==
    /\ Supervising("writing")
    /\ inside' = [inside EXCEPT !.marker = "written",
                                !.supervisor = IF inside.interrupted THEN "leaving" ELSE "holding"]
    /\ InsideOnly

SeeCollected ==
    /\ Supervising("holding") /\ inside.collected
    /\ inside' = [inside EXCEPT !.supervisor = "leaving"]
    /\ InsideOnly

SupervisorExits ==
    /\ Supervising("leaving")
    /\ inside' = Stopped(inside.job)
    /\ InsideOnly

(* A child that cannot be spawned, a marker that cannot be written.        *)
SupervisorThrows ==
    /\ \/ Supervising("child") /\ inside.job = NoCode /\ inside.files = {}
       \/ Supervising("writing")
    /\ inside' = Stopped(1)
    /\ disturbed' = TRUE
    /\ UNCHANGED <<resources, executor, beat>>

(* SIGTERM or SIGINT, passed on to the child.  A job that has ended is not *)
(* changed; a supervisor that holds the container lets it go.              *)
Signal ==
    /\ Running /\ ~inside.interrupted
    /\ inside' = [inside EXCEPT !.interrupted = TRUE, !.job = IF @ = NoCode THEN 1 ELSE @,
                                !.supervisor = IF @ = "holding" THEN "leaving" ELSE @]
    /\ disturbed' = TRUE
    /\ UNCHANGED <<resources, executor, beat>>

-----------------------------------------------------------------------------
(* The executor.                                                           *)
At(pc)   == executor.pc = pc
GoTo(pc) == executor' = [executor EXCEPT !.pc = pc]
Throw(error) == executor' = [executor EXCEPT !.pc = "cleaning", !.error = error]
(* A heartbeat that failed is why the poll failed, whatever it says.       *)
PollThrow(error) == Throw(IF executor.lost THEN "lost" ELSE error)
ExecutorOnly == UNCHANGED <<resources, inside, beat, disturbed>>

After(x) == CASE x = "network" -> "proxy" [] x = "proxy" -> "worker" [] x = "worker" -> "starting"

(* What was made before a later check of it failed is active all the same. *)
Launch(x) ==
    /\ At(x)
    /\ \E made \in {{}, {x}}, fails \in BOOLEAN :
          /\ ~fails => made = {x} /\ (x # "network" => "network" \in resources)
          /\ resources' = resources \cup made
          /\ inside' = IF made = {"worker"} THEN [inside EXCEPT !.container = "created"] ELSE inside
          /\ executor' = [executor EXCEPT !.active = @ \cup made,
                              !.pc = IF fails THEN "cleaning" ELSE After(x),
                              !.error = IF fails THEN "launch" ELSE @]
          /\ disturbed' = (disturbed \/ fails)
    /\ UNCHANGED beat

Start ==
    /\ At("starting") /\ inside.container = "created"
    /\ inside' = [inside EXCEPT !.container = "running"]
    /\ GoTo("reading")
    /\ UNCHANGED <<resources, beat, disturbed>>

(* docker exec cat: no such file, no such container and a container that   *)
(* is not running are looked into; an empty marker is malformed.           *)
ReadMarker ==
    /\ At("reading") /\ ~executor.late
    /\ IF ~Running \/ inside.marker = "none" THEN GoTo("inspecting")
       ELSE IF inside.marker = "empty" THEN PollThrow("malformed")
       ELSE IF executor.lost THEN Throw("lost")
       ELSE executor' = [executor EXCEPT !.pc = "listing", !.exit = inside.job]
    /\ ExecutorOnly

Inspect ==
    /\ At("inspecting")
    /\ IF Running THEN GoTo("reading") ELSE PollThrow("stopped")
    /\ ExecutorOnly

DeadlinePasses ==
    /\ executor.pc \in Polling /\ ~executor.late
    /\ executor' = [executor EXCEPT !.late = TRUE]
    /\ disturbed' = TRUE
    /\ UNCHANGED <<resources, inside, beat>>

(* docker kill, whose error is ignored.                                    *)
MayKill == inside' \in {inside} \cup (IF Running THEN {Stopped(137)} ELSE {})

TimeOut ==
    /\ At("reading") /\ executor.late
    /\ MayKill
    /\ PollThrow("timeout")
    /\ UNCHANGED <<resources, beat, disturbed>>

ListFiles ==
    /\ At("listing")
    /\ IF Running /\ inside.files # {}
       THEN executor' = [executor EXCEPT !.pc = "copying", !.listing = inside.files]
       ELSE Throw("export")
    /\ ExecutorOnly

CopyFile(f) ==
    /\ At("copying") /\ f \in executor.listing \ executor.exported
    /\ IF Running THEN executor' = [executor EXCEPT !.exported = @ \cup {f}] ELSE Throw("export")
    /\ ExecutorOnly

(* touch .parent-collected                                                 *)
Acknowledge ==
    /\ At("copying") /\ executor.exported = executor.listing
    /\ IF Running THEN GoTo("waiting") ELSE Throw("export")
    /\ inside' = [inside EXCEPT !.collected = Running]
    /\ UNCHANGED <<resources, beat, disturbed>>

(* docker wait, then the comparison with the marker.                       *)
Wait ==
    /\ At("waiting") /\ ~Running
    /\ IF inside.container = "stopped" /\ inside.code = executor.exit THEN GoTo("checking") ELSE Throw("mismatch")
    /\ ExecutorOnly

(* Cancelled, failed, incomplete; or published, and no error.              *)
Check ==
    /\ At("checking")
    /\ Throw(IF executor.cancelled THEN "cancelled"
             ELSE IF executor.exit # 0 THEN "harness"
             ELSE IF Result \notin executor.exported THEN "incomplete" ELSE "none")
    /\ ExecutorOnly

(* A docker call, or a file operation, that fails of itself.               *)
CallFails ==
    /\ executor.pc \in Polling \cup Collecting \cup {"starting"}
    /\ IF executor.pc \in Polling THEN PollThrow("call") ELSE Throw("call")
    /\ disturbed' = TRUE
    /\ UNCHANGED <<resources, inside, beat>>

(* The finally block: what is active is removed in this order, whatever    *)
(* fails.  A network that a container is attached to cannot be removed.    *)
FirstToRemove ==
    CASE "worker" \in executor.active -> "worker"
      [] "worker" \notin executor.active /\ "proxy" \in executor.active -> "proxy"
      [] OTHER -> "network"

CleanUp ==
    /\ At("cleaning") /\ executor.active # {}
    /\ LET x       == FirstToRemove
           refused == x = "network" /\ resources \cap {"proxy", "worker"} # {}
       IN  \E fails \in BOOLEAN :
              /\ refused => fails
              /\ resources' = IF fails THEN resources ELSE resources \ {x}
              /\ inside' = IF x = "worker" /\ ~fails THEN [inside EXCEPT !.container = "absent"] ELSE inside
              /\ executor' = [executor EXCEPT !.active = @ \ {x}, !.unclean = @ \/ fails]
              /\ disturbed' = (disturbed \/ (fails /\ ~refused))
    /\ UNCHANGED beat

(* An error of the clean-up is an error of the job when it had none.       *)
Settle ==
    /\ At("cleaning") /\ executor.active = {}
    /\ executor' = [executor EXCEPT !.pc = "ended",
                        !.error = IF @ = "none" /\ executor.unclean THEN "unclean" ELSE @]
    /\ ExecutorOnly

-----------------------------------------------------------------------------
(* The others: the container may die of its memory limit or the daemon.    *)
ContainerDies ==
    /\ Running
    /\ inside' = Stopped(137)
    /\ disturbed' = TRUE
    /\ UNCHANGED <<resources, executor, beat>>

(* The heartbeat, as long as its interval is set.                          *)
Beat ==
    /\ executor.pc \in Polling \cup Collecting /\ beat = "idle"
    /\ \/ ~executor.cancelled /\ executor' = [executor EXCEPT !.cancelled = TRUE]
       \/ ~executor.lost /\ executor' = [executor EXCEPT !.lost = TRUE]
    /\ beat' = "kill"
    /\ disturbed' = TRUE
    /\ UNCHANGED <<resources, inside>>

(* It may come after the clean-up.                                         *)
Kill ==
    /\ beat = "kill"
    /\ beat' = "idle"
    /\ MayKill
    /\ UNCHANGED <<resources, executor, disturbed>>

(* Another worker takes the lease for expired and removes what has the     *)
(* run's label: the containers, then the networks.                         *)
Reap ==
    /\ resources # {}
    /\ resources' = IF resources = {"network"} THEN {} ELSE resources \cap {"network"}
    /\ inside' = [inside EXCEPT !.container = "absent"]
    /\ disturbed' = TRUE
    /\ UNCHANGED <<executor, beat>>

Next ==
    \/ \E f \in Files : WriteFile(f) \/ CopyFile(f)
    \/ JobExits \/ JobCloses \/ OpenMarker \/ WriteMarker \/ SeeCollected \/ SupervisorExits
    \/ SupervisorThrows \/ Signal \/ ContainerDies
    \/ \E x \in {"network", "proxy", "worker"} : Launch(x)
    \/ Start \/ ReadMarker \/ Inspect \/ TimeOut \/ ListFiles \/ Acknowledge \/ Wait \/ Check
    \/ CallFails \/ CleanUp \/ Settle \/ DeadlinePasses \/ Beat \/ Kill \/ Reap

Spec == Init /\ [][Next]_jobVars

-----------------------------------------------------------------------------
(* What a job is published with is all that it wrote, copied after its end *)
(* and with its own exit code; an ended job leaves nothing behind without  *)
(* saying so; and unless somebody else took a hand, the bundle of a job    *)
(* that succeeded is published: the supervisor keeps it until it is        *)
(* collected.  The exception is a marker that is read between its creation *)
(* and its content: the poll takes it for malformed and the job is lost.   *)
(* docker wait has no deadline: who is waited for knows that it may leave. *)
BundleCollected ==
    /\ executor.exported # {} => inside.job # NoCode
    /\ (At("waiting") /\ Running) => inside.collected /\ inside.supervisor \in {"holding", "leaving"}
    /\ (At("ended") /\ executor.error = "none") =>
           executor.exported = Files /\ inside.job = 0 /\ ~executor.unclean
    /\ (At("ended") /\ ~executor.unclean) => resources = {}
    /\ (At("ended") /\ ~disturbed /\ inside.job = 0) => executor.error \in {"none", "malformed"}
=============================================================================
