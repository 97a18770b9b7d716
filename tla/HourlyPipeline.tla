--------------------------- MODULE HourlyPipeline ---------------------------
(***************************************************************************)
(* The Airflow DAG impression_pipeline over several hours at once, the     *)
(* aggregation job it runs after the pulls, and the dataset-triggered DAG  *)
(* impression_quality_checks behind it.                                    *)
(*                                                                         *)
(* A run of the DAG pulls every page type of its hour, then aggregates the *)
(* hour into impressions_aggregated, which has a partition per page type.  *)
(* A successful aggregation emits a dataset event; the check DAG turns the *)
(* events it finds into one run that judges one hour. Finished hours are   *)
(* cleared and run again. A pull is one step here (RawLanding has its      *)
(* steps); what it lands is a batch, numbered per slice in landing order.  *)
(***************************************************************************)
EXTENDS Integers, Sequences, FiniteSets

CONSTANTS
  Hours,         \* logical dates, in time order
  PageTypes,     \* PAGE_TYPES, a sequence: the order the check reads them in
  None,          \* no hour
  MaxActiveRuns, \* max_active_runs of impression_pipeline
  Retries,       \* retries of a task of impression_pipeline
  MaxClears,     \* bound: clears of a finished run in a behaviour
  MaxFaults      \* bound: attempts that fail in a behaviour

Pages == {PageTypes[i] : i \in DOMAIN PageTypes}
Agg == "aggregate_impressions"
Tasks == Pages \cup {Agg}

ASSUME ScheduleAssumption ==
  /\ Hours \subseteq Nat
  /\ IsFiniteSet(Hours)
  /\ None \notin Hours
  /\ PageTypes \in Seq(STRING) /\ PageTypes # << >>
  /\ Agg \notin Pages
  /\ MaxActiveRuns \in Nat \ {0}
  /\ Retries \in Nat
  /\ MaxClears \in Nat
  /\ MaxFaults \in Nat

VARIABLES
  run,      \* run[h]: the DAG run of hour h
  task,     \* task[h][t]: its task instances
  tries,    \* tries[h][t]: failed attempts since t was last cleared
  impressions, \* impressions[h][p]: batch in the partition of that table; 0 is none
  manifest, \* manifest[h][p]: batch of the raw landing and its manifest
  short,    \* the landed batches, <<h, p, n>>, the volume check would refuse
  seen,     \* seen[h]: what the running aggregation of h read, per page type
  unwritten,\* unwritten[h]: output partitions the aggregation has yet to replace
  output,   \* output[p][h]: batch of hour h aggregated in partition p
  events,   \* hours whose aggregation emitted an event not yet consumed
  check,    \* the check run: the hour it judges and how many pages it passed
  verdict,  \* verdict[h]: of the last check run that judged h
  clears, faults

pipeline == <<run, task, tries>>
landings == <<impressions, manifest, short>>
agg      == <<seen, unwritten, output>>
checks   == <<events, check, verdict>>
counters == <<clears, faults>>
vars == <<pipeline, landings, agg, checks, counters>>

Idle == [hour |-> None, passed |-> 0]

TypeOK ==
  /\ run \in [Hours -> {"queued", "running", "success", "failed"}]
  /\ task \in [Hours -> [Tasks -> {"none", "running", "success", "failed"}]]
  /\ tries \in [Hours -> [Tasks -> 0..Retries]]
  /\ impressions \in [Hours -> [Pages -> Nat]]
  /\ manifest \in [Hours -> [Pages -> Nat]]
  /\ short \subseteq Hours \X Pages \X Nat
  /\ seen \in [Hours -> [Pages -> Nat]]
  /\ unwritten \in [Hours -> SUBSET Pages]
  /\ output \in [Pages -> [Hours -> Nat]]
  /\ events \subseteq Hours
  /\ check \in [hour : Hours \cup {None}, passed : 0..Len(PageTypes)]
  /\ verdict \in [Hours -> {"none", "passed", "failed"}]
  /\ clears \in 0..MaxClears
  /\ faults \in 0..MaxFaults

\* A backfill: a run per hour waits for a slot, and nothing has landed yet.
Init ==
  /\ run = [h \in Hours |-> "queued"]
  /\ task = [h \in Hours |-> [t \in Tasks |-> "none"]]
  /\ tries = [h \in Hours |-> [t \in Tasks |-> 0]]
  /\ impressions = [h \in Hours |-> [p \in Pages |-> 0]]
  /\ manifest = impressions
  /\ short = {}
  /\ seen = impressions
  /\ unwritten = [h \in Hours |-> {}]
  /\ output = [p \in Pages |-> [h \in Hours |-> 0]]
  /\ events = {}
  /\ check = Idle
  /\ verdict = [h \in Hours |-> "none"]
  /\ clears = 0
  /\ faults = 0

ActiveRuns == {h \in Hours : run[h] = "running"}

\* The scheduler gives a queued run one of the slots.
StartRun(h) ==
  /\ run[h] = "queued"
  /\ Cardinality(ActiveRuns) < MaxActiveRuns
  /\ run' = [run EXCEPT ![h] = "running"]
  /\ UNCHANGED <<task, tries, landings, agg, checks, counters>>

\* An attempt of t fails: it is tried again, until the retries are used up.
Retry(h, t) ==
  /\ faults < MaxFaults
  /\ faults' = faults + 1
  /\ IF tries[h][t] < Retries
     THEN /\ tries' = [tries EXCEPT ![h][t] = @ + 1]
          /\ task' = [task EXCEPT ![h][t] = "none"]
     ELSE /\ task' = [task EXCEPT ![h][t] = "failed"]
          /\ UNCHANGED tries
  /\ UNCHANGED <<run, clears>>

PullReady(h, p) == run[h] = "running" /\ task[h][p] = "none"

\* Overwriting the partition of (p, h): the number of the batch is larger
\* than that of any batch before it.
Overwrite(h, p) == impressions' = [impressions EXCEPT ![h][p] = @ + 1]

\* api_pull lands a batch, of a volume the check will accept or refuse: by
\* default the job itself only warns about it.
Pull(h, p) ==
  /\ PullReady(h, p)
  /\ Overwrite(h, p)
  /\ manifest' = [manifest EXCEPT ![h][p] = impressions[h][p] + 1]
  /\ \E refused \in BOOLEAN :
       short' = IF refused THEN short \cup {<<h, p, impressions[h][p] + 1>>} ELSE short
  /\ task' = [task EXCEPT ![h][p] = "success"]
  /\ UNCHANGED <<run, tries, agg, checks, counters>>

\* An attempt fails before the partition is written or, the promotion of the
\* raw file or the publication of the manifest raising, after it.
PullFails(h, p) ==
  /\ PullReady(h, p)
  /\ Overwrite(h, p) \/ UNCHANGED impressions
  /\ Retry(h, p)
  /\ UNCHANGED <<manifest, short, agg, checks>>

\* Variant: the dependency pull_impressions >> aggregate_impressions is lost.
AggregateBeforePulls(h) ==
  /\ run[h] = "running"
  /\ task[h][Agg] = "none"
  /\ task' = [task EXCEPT ![h][Agg] = "running"]
  /\ seen' = [seen EXCEPT ![h] = impressions[h]]
  /\ unwritten' = [unwritten EXCEPT ![h] = {p \in Pages : impressions[h][p] # 0}]
  /\ UNCHANGED <<run, tries, landings, output, checks, counters>>

\* Every pull of h has succeeded: the aggregation reads the hour's partitions.
AggregateReads(h) ==
  /\ run[h] = "running"
  /\ \A p \in Pages : task[h][p] = "success"
  /\ task[h][Agg] = "none"
  /\ task' = [task EXCEPT ![h][Agg] = "running"]
  /\ seen' = [seen EXCEPT ![h] = impressions[h]]
  /\ unwritten' = [unwritten EXCEPT ![h] = {p \in Pages : impressions[h][p] # 0}]
  /\ UNCHANGED <<run, tries, landings, output, checks, counters>>

\* What is left of an output partition when rows of hour h replace it:
\* write_output partitions by page_type alone, so none of another hour.
Replacing(h, p) == [i \in Hours |-> IF i = h THEN seen[h][p] ELSE 0]

\* The job's commit moves one partition after the other into place.
AggregateWrites(h, p) ==
  /\ task[h][Agg] = "running"
  /\ p \in unwritten[h]
  /\ output' = [output EXCEPT ![p] = Replacing(h, p)]
  /\ unwritten' = [unwritten EXCEPT ![h] = @ \ {p}]
  /\ UNCHANGED <<pipeline, landings, seen, checks, counters>>

\* The job's process ends, and what it had read is gone.
ProcessEnds(h) ==
  /\ seen' = [seen EXCEPT ![h] = [p \in Pages |-> 0]]
  /\ unwritten' = [unwritten EXCEPT ![h] = {}]
  /\ UNCHANGED output

\* The task succeeds, and with it the run; its outlet emits an event.
AggregateEnds(h) ==
  /\ task[h][Agg] = "running"
  /\ unwritten[h] = {}
  /\ ProcessEnds(h)
  /\ task' = [task EXCEPT ![h][Agg] = "success"]
  /\ run' = [run EXCEPT ![h] = "success"]
  /\ events' = events \cup {h}
  /\ UNCHANGED <<tries, landings, check, verdict, counters>>

\* The job dies, before, between or after the partitions.
AggregateFails(h) ==
  /\ task[h][Agg] = "running"
  /\ ProcessEnds(h)
  /\ Retry(h, Agg)
  /\ UNCHANGED <<landings, checks>>

\* Variant: only a failed aggregation ends the run; a failed pull blocks it.
FailOnAggregationOnly(h) ==
  /\ run[h] = "running"
  /\ task[h][Agg] = "failed"
  /\ run' = [run EXCEPT ![h] = "failed"]
  /\ UNCHANGED <<task, tries, landings, agg, checks, counters>>

\* A task is out of retries, and none can run any more.
FailRun(h) ==
  /\ run[h] = "running"
  /\ \E t \in Tasks : task[h][t] = "failed"
  /\ \A p \in Pages : task[h][p] # "none"
  /\ run' = [run EXCEPT ![h] = "failed"]
  /\ UNCHANGED <<task, tries, landings, agg, checks, counters>>

\* An operator clears pulls of a finished run and what is downstream of them:
\* all of them, or the map index of one page type.
Clear(h) ==
  /\ run[h] \in {"success", "failed"}
  /\ clears < MaxClears
  /\ \E pulls \in {Pages} \cup {{p} : p \in Pages} :
       LET cleared == pulls \cup {Agg}
       IN  /\ task' = [task EXCEPT ![h] =
                [t \in Tasks |-> IF t \in cleared THEN "none" ELSE @[t]]]
           /\ tries' = [tries EXCEPT ![h] =
                [t \in Tasks |-> IF t \in cleared THEN 0 ELSE @[t]]]
  /\ run' = [run EXCEPT ![h] = "queued"]
  /\ clears' = clears + 1
  /\ UNCHANGED <<landings, agg, checks, faults>>

\* Variant: the oldest event wins.
ResolveOldest(hours) == CHOOSE h \in hours : \A i \in hours : h <= i

\* resolve_partition: the newest logical date among the events.
Resolve(hours) == CHOOSE h \in hours : \A i \in hours : i <= h

\* One check run at a time; it consumes the events that piled up since the
\* last one started.
StartCheck ==
  /\ check = Idle
  /\ events # {}
  /\ check' = [hour |-> Resolve(events), passed |-> 0]
  /\ events' = {}
  /\ UNCHANGED <<pipeline, landings, agg, verdict, counters>>

\* run_volume_check reads the manifests one by one, and raises at the first
\* one that is refused.
CheckPage ==
  /\ check # Idle
  /\ LET h == check.hour
         p == PageTypes[check.passed + 1]
         refused == manifest[h][p] = 0 \/ <<h, p, manifest[h][p]>> \in short
         last == check.passed + 1 = Len(PageTypes)
     IN  /\ check' = IF refused \/ last THEN Idle
                     ELSE [check EXCEPT !.passed = @ + 1]
         /\ verdict' = [verdict EXCEPT ![h] =
              IF refused THEN "failed" ELSE IF last THEN "passed" ELSE @]
  /\ UNCHANGED <<events, pipeline, landings, agg, counters>>

Next ==
  \/ \E h \in Hours :
       \/ StartRun(h) \/ FailRun(h) \/ Clear(h)
       \/ AggregateReads(h) \/ AggregateEnds(h) \/ AggregateFails(h)
       \/ \E p \in Pages : Pull(h, p) \/ PullFails(h, p) \/ AggregateWrites(h, p)
  \/ StartCheck
  \/ CheckPage

Spec == Init /\ [][Next]_vars

\* Airflow's scheduler keeps starting what may start, and its workers finish
\* what they run; nobody has to clear a run, and no attempt has to fail.
Fairness ==
  /\ \A h \in Hours :
       /\ WF_vars(StartRun(h)) /\ WF_vars(FailRun(h))
       /\ WF_vars(AggregateReads(h)) /\ WF_vars(AggregateEnds(h))
       /\ \A p \in Pages : WF_vars(Pull(h, p)) /\ WF_vars(AggregateWrites(h, p))
  /\ WF_vars(StartCheck) /\ WF_vars(CheckPage)

FairSpec == Spec /\ Fairness
-----------------------------------------------------------------------------
(* Properties. *)

\* No run is waiting, running or being judged.
Quiet ==
  /\ \A h \in Hours : run[h] \in {"success", "failed"}
  /\ events = {}
  /\ check = Idle

\* Whatever was cleared, retried or overlapped: an hour whose run succeeded
\* has no stale rows in the output. What a partition holds of it was
\* aggregated from the batches now in the table (api_pull >> aggregation,
\* --downstream).
SettledOutputFresh ==
  \A h \in Hours : run[h] = "success" =>
    \A p \in Pages : output[p][h] \in {0, impressions[h][p]}

\* The newest hour is never missed: once all is quiet, if its run succeeded,
\* the verdict on it is of the batches that are landed now. It passed only if
\* none of them is short, although pulls landed while a check was reading.
NewestHourJudged ==
  \A newest \in Hours :
    (\A h \in Hours : h <= newest) /\ Quiet /\ run[newest] = "success" =>
      /\ verdict[newest] # "none"
      /\ verdict[newest] = "passed" =>
           \A p \in Pages : <<newest, p, manifest[newest][p]>> \notin short

\* A backfill drains: every queued run gets a slot and ends.
BackfillDrains ==
  \A h \in Hours : run[h] = "queued" ~> run[h] \in {"success", "failed"}
-----------------------------------------------------------------------------
(* What the documents say, and the code does not do. *)

\* "Re-running an hour replaces exactly that hour's partitions"
\* (impression_pipeline.py:16-17): rows of an hour, once in the output, are
\* replaced by rows of that hour only.
HourKept == \A p \in Pages, h \in Hours : output[p][h] # 0 => output'[p][h] # 0
RerunKeepsOtherHours == [][HourKept]_vars
=============================================================================
