------------------------------ MODULE OpsAgent ------------------------------
(***************************************************************************)
(* ops_agent: the agent's graph sense -> monitor -> classify -> persist    *)
(* -> act (graph.py, sensors.py, classifier.py, actions.py) and the daily  *)
(* report over what it persisted (report.py), beside the monitor whose     *)
(* history it shares (OpsMonitor).                                         *)
(*                                                                         *)
(* A run reads the table's snapshots and schema, judges the monitor again  *)
(* (without persisting the result), appends to the log of runs, then to    *)
(* the log of findings, then writes an incident for each actionable one.   *)
(* Batches and other processes come in between; it may die anywhere. The   *)
(* report reads the logs and nothing else. A finding has a key, by which   *)
(* the logs and the incident files know it, and a severity that is no part *)
(* of the key and may be another in the next run.                          *)
(***************************************************************************)
EXTENDS OpsMonitor

CONSTANTS
  Drifts,       \* ways the columns may leave the contract
  MaxAgentRuns  \* bound

ASSUME AgentAssumption ==
  /\ Drifts \subseteq {"added", "renamed", "dropped", "type_changed", "enum_drift"}
  /\ MaxAgentRuns \in Nat

VARIABLES
  drift,       \* the findings about how the columns differ from the contract
  agent,       \* the run in progress: << >> or its state
  agentRuns,   \* ops.agent_runs
  findingLog,  \* ops.finding_log
  incidents,   \* the incident files: one per key, of its last write
  raised       \* per run, what it found and whether it came to its end (history)

agentVars == <<drift, agent, agentRuns, findingLog, incidents, raised>>
vars == <<monitorVars, agentVars>>

-----------------------------------------------------------------------------
(* The agent                                                               *)

\* classify: the severities a finding of that key may have. A rename may have
\* changed the type too, a type may have widened, and an enum watch may have
\* found no values, values it cannot compare, or new ones.
SeveritiesOf(key) ==
  CASE key = "added" -> {"additive"}
    [] key = "renamed" -> {"renaming", "breaking"}
    [] key = "type_changed" -> {"widening", "breaking"}
    [] key = "enum_drift" -> {"enum_drift", "benign", "breaking"}
    [] OTHER -> {"breaking"}   \* dropped, volume_anomaly, monitor_breach

Actionable(finding) == finding.severity \in {"breaking", "renaming"}
ToAct(findings) == {f \in findings : Actionable(f)}

Init ==
  /\ MonitorInit
  /\ drift = {}
  /\ agent = << >> /\ agentRuns = << >> /\ findingLog = << >>
  /\ incidents = {} /\ raised = << >>

\* The columns or their values change, or the contract is brought up to date:
\* one key has another finding, or none.
Evolve ==
  /\ \E key \in Drifts :
       LET others == {f \in drift : f.key # key}
       IN  \/ \E s \in SeveritiesOf(key) : drift' = others \cup {[key |-> key, severity |-> s]}
           \/ drift' = others
  /\ drift' # drift
  /\ UNCHANGED <<monitorVars, agent, agentRuns, findingLog, incidents, raised>>

\* detect: the newest snapshot against the median of those before it, of
\* whatever kind they are; alone, against itself.
VolumeAnomaly ==
  LET n == Len(snapshots)
      history == [i \in 1..(IF n > 1 THEN n - 1 ELSE n) |-> snapshots[i].added]
  IN  /\ TwiceMedian(history) > 0
      /\ 4 * snapshots[n].added < TwiceMedian(history)

\* sense_and_detect. The logical day is fixed when the run starts.
Sense(d) ==
  /\ agent = << >>
  /\ snapshots # << >>
  /\ Len(raised) < MaxAgentRuns
  /\ agent' = <<[day |-> d, next |-> "monitor",
                 findings |-> drift \cup IF VolumeAnomaly
                                         THEN {[key |-> "volume", severity |-> "breaking"]}
                                         ELSE {}]>>
  /\ UNCHANGED <<monitorVars, drift, agentRuns, findingLog, incidents, raised>>

Breach == [key |-> "row_count", severity |-> "breaking"]

\* run_monitors and classify_findings, up to the first append of
\* persist_findings: only a breach is a finding.
Judge ==
  /\ agent # << >> /\ agent[1].next = "monitor"
  /\ \E baseline \in Baselines :
       LET breach == Verdict(LatestIncrement, baseline) = "breach"
           found == agent[1].findings \cup IF breach THEN {Breach} ELSE {}
       IN  /\ agent' = <<[agent[1] EXCEPT !.findings = found, !.next = "log"]>>
           /\ agentRuns' = Append(agentRuns, [day |-> agent[1].day,
                                              count |-> Cardinality(found),
                                              actioned |-> Cardinality(ToAct(found))])
           /\ raised' = Append(raised, [day |-> agent[1].day, findings |-> found,
                                        metric |-> LatestIncrement, results |-> Len(results),
                                        ended |-> FALSE])
  /\ UNCHANGED <<monitorVars, drift, findingLog, incidents>>

\* The second append of persist_findings.
LogFindings ==
  /\ agent # << >> /\ agent[1].next = "log"
  /\ LET row(f) == [day |-> agent[1].day, key |-> f.key, severity |-> f.severity]
         found == SetToSeq(agent[1].findings)
     IN  findingLog' = findingLog \o [i \in DOMAIN found |-> row(found[i])]
  /\ agent' = <<[agent[1] EXCEPT !.next = "act"]>>
  /\ UNCHANGED <<monitorVars, drift, agentRuns, incidents, raised>>

\* write_incident of each: a recurring finding rewrites its file.
Filed(findings) ==
  {i \in incidents : \A f \in findings : f.key # i.key}
    \cup {[day |-> agent[1].day, key |-> f.key, severity |-> f.severity] : f \in findings}

\* act, or the end without it when nothing is actionable.
Act ==
  /\ agent # << >> /\ agent[1].next = "act"
  /\ incidents' = Filed(ToAct(agent[1].findings))
  /\ agent' = << >>
  /\ raised' = [raised EXCEPT ![Len(raised)].ended = TRUE]
  /\ UNCHANGED <<monitorVars, drift, agentRuns, findingLog>>

\* The run dies, perhaps with some of its incidents written.
Die ==
  /\ agent # << >>
  /\ \E done \in SUBSET ToAct(agent[1].findings) :
       /\ agent[1].next # "act" => done = {}
       /\ incidents' = Filed(done)
  /\ agent' = << >>
  /\ UNCHANGED <<monitorVars, drift, agentRuns, findingLog, raised>>

-----------------------------------------------------------------------------
(* The report of day d                                                     *)

Ran(d) == \E i \in DOMAIN agentRuns : agentRuns[i].day = d

\* _latest_per_key keeps one row of each key that was logged on the day: the
\* last in the order of a query that states none, so any.
MayKeep(d, key) ==
  {i \in DOMAIN findingLog : findingLog[i].day = d /\ findingLog[i].key = key}

KeysOf(d) ==
  {findingLog[i].key : i \in {j \in DOMAIN findingLog : findingLog[j].day = d}}

\* Findings are diffed with those of the last day before d that has a run.
PreviousRun(d) ==
  LET earlier == {agentRuns[i].day : i \in {j \in DOMAIN agentRuns : agentRuns[j].day < d}}
  IN  {e \in earlier : \A f \in earlier : f <= e}

Prior(d) == UNION {KeysOf(e) : e \in PreviousRun(d)}
New(d) == KeysOf(d) \ Prior(d)
Cleared(d) == Prior(d) \ KeysOf(d)

\* The monitor's results the report may show: one of the day's, in the order
\* the query returns them, or of the last day before it that has any.
MonitorShown(d) ==
  LET upTo == {i \in DOMAIN results : results[i].day <= d}
      today == {i \in upTo : results[i].day = d}
  IN  IF today # {} THEN today
      ELSE {i \in upTo : \A j \in upTo : results[j].day <= results[i].day}

\* Variant of MayBeClean: a renamed column is nothing.
BreakingOnly(d) ==
  /\ Ran(d)
  /\ \A key \in KeysOf(d) : \E i \in MayKeep(d, key) : findingLog[i].severity # "breaking"
  /\ \/ MonitorShown(d) = {}
     \/ \E i \in MonitorShown(d) : results[i].status # "breach"

\* Whether _verdict may read CLEAN.
MayBeClean(d) ==
  /\ Ran(d)
  /\ \A key \in KeysOf(d) : \E i \in MayKeep(d, key) : ~Actionable(findingLog[i])
  /\ \/ MonitorShown(d) = {}
     \/ \E i \in MonitorShown(d) : results[i].status # "breach"

-----------------------------------------------------------------------------
MonitorNext ==
  \/ \E n \in BatchSizes : \E later \in 0..1 : Ingest(n, later)
  \/ \E n \in BatchSizes : Refill(n)
  \/ Rewrite \/ DeleteRows \/ Expire
  \/ Measure
  \/ \E others \in SUBSET OtherAlerts, execute \in BOOLEAN : Route(others, execute)
  \/ DieBeforeRouting

Next ==
  \/ MonitorNext /\ UNCHANGED agentVars
  \/ Evolve
  \/ \E d \in AsOf : Sense(d)
  \/ Judge \/ LogFindings \/ Act \/ Die

Spec == Init /\ [][Next]_vars

-----------------------------------------------------------------------------
(* Properties                                                              *)

\* A collapsed batch, less than half of most results the baseline may be drawn
\* from, is a breach of the monitor and a finding of the agent: on the day it
\* lands, on reruns, and until the collapse makes up half of the baseline.
CollapseReported ==
  /\ \A i \in Measured :
       Outnumbered(results[i].metric, {j \in Measured : j < i})
         => results[i].status = "breach"
  /\ \A i \in DOMAIN raised :
       Outnumbered(raised[i].metric, {j \in Measured : j <= raised[i].results})
         => Breach \in raised[i].findings

LogicalDays == 0..MaxDay
RunsOf(d) == {i \in DOMAIN raised : raised[i].day = d}
EndedOn(d) == {i \in RunsOf(d) : raised[i].ended}
FoundBy(runs) == UNION {raised[i].findings : i \in runs}
KeysFoundBy(runs) == {f.key : f \in FoundBy(runs)}

\* Whatever order runs, reruns and replays of old days come in, whatever
\* severity a key has in each and wherever they die, the report of a day says
\* what its runs found. It is clean only if each actionable finding of a run
\* that came to its end was, in some run of the day, not actionable; new is
\* what no run that ended found on the day compared with, cleared what none
\* found on the day itself; and no incident file is without its row.
ReportFaithful ==
  /\ \A d \in LogicalDays :
       /\ MayBeClean(d) =>
            \A f \in FoundBy(EndedOn(d)) : Actionable(f) =>
              \E g \in FoundBy(RunsOf(d)) : g.key = f.key /\ ~Actionable(g)
       /\ New(d) \subseteq KeysFoundBy(RunsOf(d))
       /\ \A e \in PreviousRun(d) : New(d) \cap KeysFoundBy(EndedOn(e)) = {}
       /\ Cleared(d) \cap KeysFoundBy(EndedOn(d)) = {}
       /\ Cleared(d) \subseteq UNION {KeysFoundBy(RunsOf(e)) : e \in PreviousRun(d)}
  /\ \A i \in incidents :
       \E j \in MayKeep(i.day, i.key) : findingLog[j].severity = i.severity

\* What a clean verdict says (report.py:170): the agent ran on the day, and
\* what it raised was not actionable. So, with no run in progress, some run of
\* the day is recorded as having had nothing to act on.
CleanSaysWhatRan ==
  agent = << >> =>
    \A d \in LogicalDays :
      MayBeClean(d) => \E i \in DOMAIN agentRuns : agentRuns[i].day = d /\ agentRuns[i].actioned = 0
=============================================================================
