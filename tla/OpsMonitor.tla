----------------------------- MODULE OpsMonitor -----------------------------
(***************************************************************************)
(* ops_agent: the volume monitor of an append-only Iceberg table, its      *)
(* history and the alerts it raises (monitors.py, runner.py, alerts.py,    *)
(* engine.py).                                                             *)
(*                                                                         *)
(* Ingestion, rebuilds, deletes and snapshot expiry commit snapshots. A    *)
(* run of the monitor measures the rows of the newest snapshot that is no  *)
(* rebuild, judges them against the newest persisted results, persists its *)
(* own, and routes an alert unless the same one was logged on one of the   *)
(* last days that have alerts. Runs carry a logical day, the newest event  *)
(* day unless AS_OF_DATE overrides it. The process may die between the     *)
(* persisting and the routing.                                             *)
(***************************************************************************)
EXTENDS Integers, Sequences, FiniteSets, SequencesExt

CONSTANTS
  BatchSizes,     \* rows a batch may have
  BaselineRuns,   \* load_baselines(limit): 14
  ThrottleRuns,   \* throttle_runs: 3
  RetainLast,     \* snapshots expire_snapshots keeps: 5
  AsOfDates,      \* what AS_OF_DATE may be set to
  OtherAlerts,    \* keys of the alerts other monitors may raise
  MaxDay,         \* bound: event days
  MaxSnapshots,   \* bound: snapshots committed
  MaxRuns         \* bound: monitor runs

ASSUME MonitorAssumption ==
  /\ BatchSizes \subseteq Nat \ {0} /\ BatchSizes # {}
  /\ BaselineRuns \in Nat \ {0} /\ ThrottleRuns \in Nat \ {0}
  /\ RetainLast \in Nat \ {0}
  /\ MaxDay \in Nat /\ MaxSnapshots \in Nat /\ MaxRuns \in Nat
  /\ AsOfDates \subseteq 0..MaxDay
  /\ IsFiniteSet(OtherAlerts) /\ OtherAlerts \cap {"warn", "breach"} = {}

VARIABLES
  snapshots,  \* the table's retained snapshots, oldest first
  committed,  \* snapshots ever committed
  day,        \* the newest event day
  results,    \* ops.monitor_results of the monitor
  alertLog,   \* ops.alert_log
  routing,    \* the result of a run that has persisted and not yet routed
  batch,      \* the id of the newest ingested batch's snapshot (history)
  reduced,    \* rows were deleted since (history)
  died        \* results whose run died before it routed (history)

lake  == <<snapshots, committed, day>>
logs  == <<results, alertLog, routing>>
truth == <<batch, reduced>>
monitorVars == <<lake, logs, truth, died>>

None == -1   \* a metric that could not be measured
Statuses == {"ok", "warn", "breach"}
Total == IF snapshots = << >> THEN 0 ELSE Last(snapshots).total

MonitorInit ==
  /\ snapshots = << >> /\ committed = 0
  /\ day = 0
  /\ results = << >> /\ alertLog = << >> /\ routing = << >>
  /\ batch = 0 /\ reduced = FALSE
  /\ died = {}

-----------------------------------------------------------------------------
(* The table                                                               *)

\* A snapshot's operation, and the rows it adds, removes and leaves.
Commit(operation, added, deleted) ==
  /\ committed < MaxSnapshots
  /\ committed' = committed + 1
  /\ snapshots' = Append(snapshots,
       [operation |-> operation, added |-> added, deleted |-> deleted,
        total |-> Total + added - deleted, id |-> committed + 1])

\* append_rows: one batch, one snapshot, perhaps of a later day.
Ingest(n, later) ==
  /\ Commit("append", n, 0)
  /\ day' = day + later /\ day' <= MaxDay
  /\ batch' = committed'
  /\ reduced' = FALSE
  /\ UNCHANGED <<logs, died>>

\* The table emptied in a commit of its own, as some writers rebuild.
Empties(s) == s.operation = "delete" /\ s.deleted > 0 /\ s.total = 0

\* The rebuild goes on: it appends everything in one snapshot.
Refill(n) ==
  /\ snapshots # << >> /\ Empties(Last(snapshots))
  /\ Commit("append", n, 0)
  /\ UNCHANGED <<day, logs, truth, died>>

\* A MERGE or an overwrite, a compaction, the emptying of the table.
Rewrite ==
  /\ Total > 0
  /\ \/ Commit("overwrite", Total, Total)
     \/ Commit("replace", Total, Total)
     \/ Commit("delete", 0, Total)
  /\ UNCHANGED <<day, logs, truth, died>>

\* delete_where: a delete of some rows, which adds none.
DeleteRows ==
  /\ Total > 1
  /\ Commit("delete", 0, 1)
  /\ reduced' = TRUE
  /\ UNCHANGED <<day, logs, batch, died>>

\* expire_snapshots: the oldest go; the parent of one that stays may be gone.
Expire ==
  /\ Len(snapshots) > RetainLast
  /\ snapshots' = Tail(snapshots)
  /\ UNCHANGED <<committed, day, logs, truth, died>>

-----------------------------------------------------------------------------
(* The verdict                                                             *)

\* Variant of IsFullRebuild: only an overwrite is one.
OnlyOverwrites(i) == snapshots[i].operation \in {"overwrite", "replace"}

\* is_full_rebuild of the i-th retained snapshot, whose parent is the one
\* before it.
IsFullRebuild(i) ==
  \/ snapshots[i].operation \in {"overwrite", "replace"}
  \/ Empties(snapshots[i])
  \/ /\ snapshots[i].operation = "append"
     /\ i > 1 /\ Empties(snapshots[i - 1])

\* latest_incremental_added_rows.
LatestIncrement ==
  LET incremental == {i \in DOMAIN snapshots : ~IsFullRebuild(i)}
  IN  IF incremental = {} THEN 0
      ELSE LET newest == CHOOSE i \in incremental : \A j \in incremental : j <= i
           IN  snapshots[newest].added

\* The k-th smallest of the values of f.
Kth(f, k) ==
  CHOOSE v \in {f[i] : i \in DOMAIN f} :
    /\ Cardinality({i \in DOMAIN f : f[i] < v}) < k
    /\ k <= Cardinality({i \in DOMAIN f : f[i] <= v})

\* Twice statistics.median: the mean of the two values in the middle.
TwiceMedian(f) ==
  LET n == Cardinality(DOMAIN f)
  IN  Kth(f, (n + 1) \div 2) + Kth(f, n \div 2 + 1)

\* Variant of Verdict: the ratios are tried the other way around.
WarnFirst(metric, baseline) ==
  IF DOMAIN baseline # {} /\ 5 * metric < 2 * TwiceMedian(baseline) THEN "warn" ELSE "ok"

\* evaluate() of a row count: breach below half of the median of the
\* baseline, warn below four fifths.
Verdict(metric, baseline) ==
  IF DOMAIN baseline = {} \/ TwiceMedian(baseline) <= 0 THEN "ok"
  ELSE IF 4 * metric < TwiceMedian(baseline) THEN "breach"
  ELSE IF 5 * metric < 2 * TwiceMedian(baseline) THEN "warn" ELSE "ok"

Measured == {i \in DOMAIN results : results[i].metric # None}

\* load_baselines: the newest results that have a metric, by day; which ones
\* of a day the limit cuts off is up to the query.
Baselines ==
  LET n == IF Cardinality(Measured) < BaselineRuns THEN Cardinality(Measured)
           ELSE BaselineRuns
      newest == {S \in SUBSET Measured :
                   /\ Cardinality(S) = n
                   /\ \A i \in S, j \in Measured \ S : results[i].day >= results[j].day}
  IN  {[i \in S |-> results[i].metric] : S \in newest}

AsOf == {day} \cup AsOfDates

\* run_monitors and persist. A query that raises is a breach without metric.
Measure ==
  /\ routing = << >>
  /\ snapshots # << >>
  /\ Len(results) < MaxRuns
  /\ \E d \in AsOf, baseline \in Baselines, broken \in BOOLEAN :
       LET result == [day |-> d,
                      metric |-> IF broken THEN None ELSE LatestIncrement,
                      status |-> IF broken THEN "breach"
                                 ELSE Verdict(LatestIncrement, baseline)]
       IN  /\ results' = Append(results, result)
           /\ routing' = <<result>>
  /\ UNCHANGED <<lake, alertLog, truth, died>>

-----------------------------------------------------------------------------
(* The alerts                                                              *)

AlertDays == {alertLog[i].day : i \in DOMAIN alertLog}

\* Variant of RecentKeys: the keys of the last rows, whatever their days.
KeysOfLastRows ==
  {alertLog[i].key : i \in {j \in DOMAIN alertLog : j > Len(alertLog) - ThrottleRuns}}

\* recent_keys: those logged on the last days that have any. Dry runs count.
RecentKeys ==
  {alertLog[i].key : i \in {j \in DOMAIN alertLog :
     Cardinality({d \in AlertDays : d > alertLog[j].day}) < ThrottleRuns}}

\* route: what was logged recently is throttled, and not logged again. With
\* --execute the others are marked as delivered.
Route(others, execute) ==
  /\ routing # << >>
  /\ LET keys == (others \cup {routing[1].status}) \ {"ok"}
         row(k) == [day |-> routing[1].day, key |-> k, delivered |-> execute]
         fresh == SetToSeq(keys \ RecentKeys)
     IN  alertLog' = alertLog \o [i \in DOMAIN fresh |-> row(fresh[i])]
  /\ routing' = << >>
  /\ UNCHANGED <<lake, results, truth, died>>

\* The run dies before it routes: its result is history, its alert is not.
DieBeforeRouting ==
  /\ routing # << >>
  /\ routing' = << >>
  /\ died' = died \cup {Len(results)}
  /\ UNCHANGED <<lake, results, alertLog, truth>>

-----------------------------------------------------------------------------
(* Properties                                                              *)

\* The earlier results that have a metric, of which low are at most twice m:
\* they are too few to carry the median of any baseline of the last runs.
Outnumbered(m, earlier) ==
  LET low == {i \in earlier : results[i].metric <= 2 * m}
      n == Cardinality(earlier)
  IN  2 * Cardinality(low) < IF n < BaselineRuns THEN n ELSE BaselineRuns

\* Whatever compactions, overwrites and rebuilds were committed since, what is
\* measured is the newest batch, while its snapshot is retained and no rows
\* were deleted from it; unless it landed on a table that had been emptied.
MeasuresTheBatch ==
  \A i \in DOMAIN snapshots :
    snapshots[i].id = batch /\ ~reduced =>
      \/ LatestIncrement = snapshots[i].added
      \/ i > 1 /\ Empties(snapshots[i - 1])

\* Alerts are neither lost nor repeated: what a run found is in the log once
\* the run has routed, and twice only if alerts were logged on ThrottleRuns
\* newer days in between.
AlertsLoggedOnce ==
  /\ \A i \in DOMAIN results \ died :
       results[i].status # "ok" /\ (i < Len(results) \/ routing = << >>)
         => \E j \in DOMAIN alertLog : alertLog[j].key = results[i].status
  /\ \A j \in DOMAIN alertLog : \A i \in 1..j - 1 :
       alertLog[i].key = alertLog[j].key =>
         Cardinality({d \in {alertLog[k].day : k \in 1..j - 1} : d > alertLog[i].day})
           >= ThrottleRuns
=============================================================================
