------------------------------- MODULE Triage --------------------------------
(***************************************************************************)
(* The batch judge of traces (src/judge/run-judge.js) and the incidents it *)
(* asks about (src/gate/incidents.js).  A verdict is an outcome, a score   *)
(* and the incidents an engine is sure of; an incident is a name with the  *)
(* time it was last seen.  Printing, costs and texts are left out.         *)
(***************************************************************************)
EXTENDS Integers, FiniteSets, FiniteSetsExt

CONSTANTS
    Incidents, OpenCap,   \* names, and OPEN_INCIDENT_CAP
    Batches,              \* sets of JSON files that are judged together
    Contents,             \* of each file: [shape, outcome, score, rules, model, near]
    LastSeen              \* bound: how often an incident is recorded

VARIABLES
    incidents,   \* the store: status and time last seen of each incident known
    clock,
    batch,       \* the judge: phase, incidents asked about, files left, rows, skipped
    summary      \* judge-report.json, when written

triageVars == <<incidents, clock, batch, summary>>

-----------------------------------------------------------------------------
(* The incidents.                                                          *)

Unknown == [status |-> "unknown", seen |-> 0]
Open(store) == {i \in Incidents : store[i].status = "open"}

(* openIncidents: the most recently seen ones, up to the cap. *)
OpenIncidents(store) ==
    {o \in SUBSET Open(store) :
        /\ Cardinality(o) = Min({OpenCap, Cardinality(Open(store))})
        /\ \A i \in o, j \in Open(store) \ o : store[i].seen >= store[j].seen}

RetiredBefore(store, i, j) == store[i].seen <= store[j].seen

(* retireOverflow: all but the one just seen may go, the oldest first, and *)
(* only until the questions are few enough.                                *)
RetireOverflow(store, exempt) ==
    {[i \in Incidents |-> IF i \in gone THEN [store[i] EXCEPT !.status = "retired"] ELSE store[i]] :
        gone \in {g \in SUBSET (Open(store) \ {exempt}) :
                    /\ Cardinality(g) = Max({0, Cardinality(Open(store)) - OpenCap})
                    /\ \A i \in g, j \in Open(store) \ (g \cup {exempt}) : RetiredBefore(store, i, j)}}

(* recordIncident and saveIncidents: a person sees it, again or for the    *)
(* first time, and it is open again whatever it was.                       *)
RecordIncident(i) ==
    /\ clock < LastSeen
    /\ clock' = clock + 1
    /\ incidents' \in RetireOverflow([incidents EXCEPT ![i] = [status |-> "open", seen |-> clock + 1]], i)
    /\ UNCHANGED <<batch, summary>>

(* A person marks it in the file. *)
MarkFixed(i) ==
    /\ incidents[i].status = "open"
    /\ incidents' = [incidents EXCEPT ![i].status = "fixed"]
    /\ UNCHANGED <<clock, batch, summary>>

-----------------------------------------------------------------------------
(* The batch judge.                                                        *)

Files == UNION Batches

NoBatch == [phase |-> "idle", files |-> {}, asked |-> {}, left |-> {}, rows |-> <<>>, skipped |-> {}]

(* collectTraceFiles, then the incidents, once for the batch. *)
StartBatch ==
    /\ batch.phase = "idle"
    /\ \E asked \in OpenIncidents(incidents), files \in Batches :
          batch' = [NoBatch EXCEPT !.phase = "judging", !.files = files, !.asked = asked, !.left = files]
    /\ UNCHANGED <<incidents, clock, summary>>

(* loadTrace: not JSON, or without a trace id and events. *)
Readable(f) == Contents[f].shape \in {"trace", "hollow"}

Extend(f, x, g) == [y \in (DOMAIN g) \cup {x} |-> IF y = x THEN f ELSE g[y]]

SkipFile(f) ==
    /\ batch.phase = "judging" /\ f \in batch.left /\ ~Readable(f)
    /\ batch' = [batch EXCEPT !.left = @ \ {f}, !.skipped = @ \cup {f}]
    /\ UNCHANGED <<incidents, clock, summary>>

(* The rules and, if there is one, the model's engine; a model's failure   *)
(* is caught and costs its column.  A match is one either engine is sure   *)
(* of; the model's near misses are listed beside them.                     *)
MatchesOf(f, model) ==
    [matched |-> batch.asked \cap (Contents[f].rules \cup (IF model = "ok" THEN Contents[f].model ELSE {})),
     near    |-> batch.asked \cap (IF model = "ok" THEN Contents[f].near ELSE {})]

JudgeFile(f, model) ==
    /\ batch.phase = "judging" /\ f \in batch.left /\ Contents[f].shape = "trace"
    /\ batch' = [batch EXCEPT !.left = @ \ {f},
                   !.rows = Extend([outcome |-> Contents[f].outcome, score |-> Contents[f].score,
                                    asked |-> batch.asked, model |-> model,
                                    matches |-> MatchesOf(f, model)], f, @)]
    /\ UNCHANGED <<incidents, clock, summary>>

(* A file with a trace id and events and little else passes loadTrace; the *)
(* rules and the score read what it lacks, and nothing catches that.       *)
JudgeThrows(f) ==
    /\ batch.phase = "judging" /\ f \in batch.left /\ Contents[f].shape = "hollow"
    /\ batch' = [batch EXCEPT !.phase = "rejected"]
    /\ UNCHANGED <<incidents, clock, summary>>

Failed(row) == row.outcome = "fail" \/ row.score < 50

(* A near miss explains nothing. *)
UnexplainedFailures(rows) == {f \in DOMAIN rows : Failed(rows[f]) /\ rows[f].matches.matched = {}}

WriteReport ==
    /\ batch.phase = "judging" /\ batch.left = {}
    /\ batch' = [batch EXCEPT !.phase = "written"]
    /\ LET rows   == batch.rows
           scores == {rows[f].score : f \in DOMAIN rows}
       IN  summary' = [judged      |-> DOMAIN rows,
                       skipped     |-> batch.skipped,
                       modelErrors |-> {f \in DOMAIN rows : rows[f].model = "failed"},
                       worst       |-> IF scores = {} THEN 100 ELSE Min(scores),
                       tally       |-> [o \in {"pass", "fail"} |->
                                          Cardinality({f \in DOMAIN rows : rows[f].outcome = o})],
                       unexplained |-> UnexplainedFailures(rows)]
    /\ UNCHANGED <<incidents, clock>>

-----------------------------------------------------------------------------
Init ==
    /\ incidents \in [Incidents -> {Unknown, [status |-> "open", seen |-> 0]}]
    /\ Cardinality(Open(incidents)) <= OpenCap
    /\ clock = 0 /\ batch = NoBatch
    /\ summary = [unexplained |-> {}]

Next ==
    \/ \E i \in Incidents : RecordIncident(i) \/ MarkFixed(i)
    \/ StartBatch \/ WriteReport
    \/ \E f \in Files : SkipFile(f) \/ JudgeThrows(f)
    \/ \E f \in Files, model \in {"ok", "failed", "absent"} : JudgeFile(f, model)

-----------------------------------------------------------------------------
TypeOK ==
    /\ incidents \in [Incidents -> [status : {"unknown", "open", "retired", "fixed"}, seen : 0..LastSeen]]
    /\ clock \in 0..LastSeen
    /\ batch.phase \in {"idle", "judging", "written", "rejected"}
    /\ batch.left \cup batch.skipped \cup DOMAIN batch.rows \subseteq Files

(* The questions stay few, and what leaves them was last seen before all   *)
(* that stay: no incident is retired while an older one is asked about.    *)
RecentIncidentsStayOpen ==
    /\ Cardinality(Open(incidents)) <= OpenCap
    /\ \A i, j \in Incidents : incidents[i].status = "retired" /\ incidents[j].status = "open"
                                  => incidents[i].seen <= incidents[j].seen

(* A judge report accounts for every file of its batch, against one set of *)
(* questions, and a failure that no incident it asked about explains is    *)
(* put before a person, whatever became of the model's call.               *)
JudgeAccounts ==
    batch.phase = "written" =>
        /\ summary.judged \cup summary.skipped = batch.files /\ summary.judged \cap summary.skipped = {}
        /\ \A f, g \in summary.judged : batch.rows[f].asked = batch.rows[g].asked
        /\ \A f \in summary.judged : Contents[f].outcome = "fail" \/ Contents[f].score < 50 =>
              \/ f \in summary.unexplained
              \/ batch.asked \cap Contents[f].rules # {}
              \/ batch.asked \cap Contents[f].model # {} /\ batch.rows[f].model = "ok"

TriageAccounts == RecentIncidentsStayOpen /\ JudgeAccounts
=============================================================================
