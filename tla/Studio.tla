-------------------------------- MODULE Studio --------------------------------
(***************************************************************************)
(* Where the studio is (apps/control-plane/public/app.js): the             *)
(* organization, the project the page takes requests to, and the project   *)
(* whose detail is drawn.  Opening a project waits for its data and then   *)
(* for the list of projects, and the user goes on meanwhile; a timer opens *)
(* a project with active runs again.                                       *)
(***************************************************************************)
EXTENDS Integers

CONSTANTS
    Organizations, Projects,
    OrgOf,          \* the organization of each project
    Loads,          \* bound: handlers of loadProject that wait at once
    Nothing

VARIABLES
    org,            \* selectedOrg; Nothing while signed out
    selected,       \* selectedProject
    wished,         \* the project the user asked for last
    shown,          \* the project whose detail is drawn
    loads,          \* the handlers of loadProject: [at, project, org]
    switch,         \* the handler of the organization picker waits for the list
    creating,       \* the handler of the project form waits for an answer
    timer           \* runRefreshTimer: the project it was armed for

studioVars == <<org, selected, wished, shown, loads, switch, creating, timer>>

NoLoad == [at |-> "idle", project |-> Nothing, org |-> Nothing]

SignedIn == org # Nothing

(* loadProject(p), until its first await: the request has the organization *)
(* of this moment.                                                         *)
Loading(l, p) == loads' = [loads EXCEPT ![l] = [at |-> "data", project |-> p, org |-> org]]

StartLoad(p) ==
    /\ selected' = p
    /\ \E l \in Loads : loads[l] = NoLoad /\ Loading(l, p)

-----------------------------------------------------------------------------
(* The user.                                                               *)

(* A button of the list, which may still be that of another organization.  *)
Open(p) ==
    /\ SignedIn /\ StartLoad(p) /\ wished' = p
    /\ UNCHANGED <<org, shown, switch, creating, timer>>

(* Cancelling, queueing or verifying ends in loadProject(selectedProject). *)
Reload ==
    /\ SignedIn /\ selected # Nothing /\ StartLoad(selected)
    /\ UNCHANGED <<org, wished, shown, switch, creating, timer>>

ChangeOrganization(o) ==
    /\ SignedIn /\ o # org /\ ~switch
    /\ org' = o /\ selected' = Nothing /\ wished' = Nothing /\ switch' = TRUE
    /\ UNCHANGED <<shown, loads, creating, timer>>

(* The placeholder is drawn when the list of projects came; a failure      *)
(* leaves the old detail.                                                  *)
SwitchEnds ==
    /\ switch /\ switch' = FALSE
    /\ shown' \in {shown, Nothing}
    /\ UNCHANGED <<org, selected, wished, loads, creating, timer>>

(* The detail stays in the hidden page. *)
Logout ==
    /\ SignedIn
    /\ org' = Nothing /\ selected' = Nothing /\ wished' = Nothing
    /\ UNCHANGED <<shown, loads, switch, creating, timer>>

Login(o) ==
    /\ ~SignedIn /\ org' = o
    /\ UNCHANGED <<selected, wished, shown, loads, switch, creating, timer>>

SubmitProject ==
    /\ SignedIn /\ ~creating /\ creating' = TRUE
    /\ UNCHANGED <<org, selected, wished, shown, loads, switch, timer>>

(* Its project is opened, wherever the user is by then; or an alert.       *)
ProjectCreated(p) ==
    /\ creating /\ creating' = FALSE
    /\ StartLoad(p) /\ wished' = p
    /\ UNCHANGED <<org, shown, switch, timer>>

ProjectRefused ==
    /\ creating /\ creating' = FALSE
    /\ UNCHANGED <<org, selected, wished, shown, loads, switch, timer>>

-----------------------------------------------------------------------------
(* The answers.                                                            *)

(* The data replaces the timer, armed again while a run is active.         *)
DataArrives(l) ==
    /\ loads[l].at = "data" /\ OrgOf[loads[l].project] = loads[l].org
    /\ loads' = [loads EXCEPT ![l].at = "list", ![l].org = Nothing]
    /\ timer' \in {Nothing, loads[l].project}
    /\ UNCHANGED <<org, selected, wished, shown, switch, creating>>

ListArrives(l) ==
    /\ loads[l].at = "list"
    /\ loads' = [loads EXCEPT ![l] = NoLoad]
    /\ shown' = loads[l].project
    /\ UNCHANGED <<org, selected, wished, switch, creating, timer>>

(* Another organization's project is not found; any request may fail.      *)
LoadFails(l) ==
    /\ loads[l] # NoLoad
    /\ loads' = [loads EXCEPT ![l] = NoLoad]
    /\ UNCHANGED <<org, selected, wished, shown, switch, creating, timer>>

(* The timer opens its project again if that is still the selected one.    *)
TimerFires ==
    /\ timer # Nothing /\ timer' = Nothing
    /\ IF selected = timer THEN StartLoad(timer) ELSE UNCHANGED <<selected, loads>>
    /\ UNCHANGED <<org, wished, shown, switch, creating>>

-----------------------------------------------------------------------------
Init ==
    /\ org \in Organizations \cup {Nothing}
    /\ selected = Nothing /\ wished = Nothing /\ shown = Nothing
    /\ loads = [l \in Loads |-> NoLoad]
    /\ switch = FALSE /\ creating = FALSE /\ timer = Nothing

Next ==
    \/ \E p \in Projects : Open(p) \/ ProjectCreated(p)
    \/ \E o \in Organizations : ChangeOrganization(o) \/ Login(o)
    \/ \E l \in Loads : DataArrives(l) \/ ListArrives(l) \/ LoadFails(l)
    \/ Reload \/ SwitchEnds \/ Logout \/ SubmitProject \/ ProjectRefused \/ TimerFires

-----------------------------------------------------------------------------
TypeOK ==
    /\ org \in Organizations \cup {Nothing}
    /\ {selected, wished, shown, timer} \subseteq Projects \cup {Nothing}
    /\ \A l \in Loads : loads[l].at \in {"idle", "data", "list"}
    /\ switch \in BOOLEAN /\ creating \in BOOLEAN

(* Requests go to the project the user asked for last: neither the timer,  *)
(* which may be another project's by the time it fires, nor an answer that *)
(* comes late takes the page back to a project the user left, closed by a  *)
(* change of organization or signed out of.                                *)
NothingReopens == selected = wished
=============================================================================
