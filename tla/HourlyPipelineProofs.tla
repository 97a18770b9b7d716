------------------------ MODULE HourlyPipelineProofs ------------------------
(***************************************************************************)
(* However many hours run at once, and whatever fails, is retried or is    *)
(* cleared: an hour whose run succeeded has no stale rows in the output.   *)
(* SettledOutputFresh says nothing of an aggregation under way, so it is   *)
(* strengthened with what an aggregation knows while it runs: its pulls    *)
(* are over, so the table still holds what it read.                        *)
(*                                                                         *)
(* What is read is judged and joined on the way: the salted join is the    *)
(* join, and the three checks of a batch's row counts are one.             *)
(***************************************************************************)
EXTENDS HourlyPipeline, SaltedJoin, VolumeGates, TLAPS, FiniteSetTheorems

\* The types the argument needs; the checks are no part of it.
DataOK ==
  /\ run \in [Hours -> {"queued", "running", "success", "failed"}]
  /\ task \in [Hours -> [Tasks -> {"none", "running", "success", "failed"}]]
  /\ impressions \in [Hours -> [Pages -> Nat]]
  /\ seen \in [Hours -> [Pages -> Nat]]
  /\ unwritten \in [Hours -> SUBSET Pages]
  /\ output \in [Pages -> [Hours -> Nat]]

\* What holds of hour h while its aggregation runs.
AggregatingFresh(h) ==
  task[h][Agg] = "running" =>
    /\ run[h] = "running"
    /\ \A p \in Pages : task[h][p] = "success"
    /\ seen[h] = impressions[h]
    /\ \A p \in Pages \ unwritten[h] : output[p][h] \in {0, impressions[h][p]}

\* What holds of it once its run has succeeded.
SettledFresh(h) ==
  run[h] = "success" => \A p \in Pages : output[p][h] \in {0, impressions[h][p]}

\* Nothing is aggregated of a slice that never landed.
NothingFromNothing(h) == \A p \in Pages : impressions[h][p] = 0 => output[p][h] = 0

FreshInv ==
  /\ DataOK
  /\ \A h \in Hours : AggregatingFresh(h) /\ SettledFresh(h) /\ NothingFromNothing(h)

LEMMA PagesAreTasks == Agg \in Tasks /\ Pages \subseteq Tasks /\ Agg \notin Pages
BY ScheduleAssumption DEF Tasks

LEMMA InitFresh == Init => FreshInv
BY PagesAreTasks DEF Init, FreshInv, DataOK, AggregatingFresh, SettledFresh, NothingFromNothing

-----------------------------------------------------------------------------
(* One lemma per action that touches the runs, the table or the output. *)

LEMMA StartRunFresh ==
  ASSUME FreshInv, NEW h \in Hours, StartRun(h)
  PROVE  FreshInv'
BY PagesAreTasks DEF StartRun, FreshInv, DataOK, AggregatingFresh, SettledFresh,
   NothingFromNothing, landings, agg

LEMMA FailRunFresh ==
  ASSUME FreshInv, NEW h \in Hours, FailRun(h)
  PROVE  FreshInv'
<1>1. /\ run[h] = "running"
      /\ run' = [run EXCEPT ![h] = "failed"]
      /\ UNCHANGED <<task, impressions, seen, unwritten, output>>
  BY DEF FailRun, landings, agg
<1>2. task[h][Agg] # "running"
  <2>1. PICK t \in Tasks : task[h][t] = "failed"
    BY DEF FailRun
  <2>2. CASE t = Agg
    BY <2>1, <2>2
  <2>3. CASE t \in Pages
    BY <2>1, <2>3 DEF FreshInv, AggregatingFresh
  <2>. QED
    BY <2>2, <2>3 DEF Tasks
<1>. QED
  BY <1>1, <1>2 DEF FreshInv, DataOK, AggregatingFresh, SettledFresh, NothingFromNothing

LEMMA ClearFresh ==
  ASSUME FreshInv, NEW h \in Hours, Clear(h)
  PROVE  FreshInv'
BY PagesAreTasks DEF Clear, FreshInv, DataOK, AggregatingFresh, SettledFresh,
   NothingFromNothing, landings, agg

LEMMA PullFresh ==
  ASSUME FreshInv, NEW h \in Hours, NEW p \in Pages, Pull(h, p)
  PROVE  FreshInv'
BY PagesAreTasks DEF Pull, PullReady, Overwrite, FreshInv, DataOK, AggregatingFresh,
   SettledFresh, NothingFromNothing, landings, agg

\* A failed attempt leaves its task to be tried again, or failed for good.
LEMMA RetryTask ==
  ASSUME FreshInv, NEW h \in Hours, NEW t \in Tasks, Retry(h, t)
  PROVE  /\ run' = run
         /\ task' \in [Hours -> [Tasks -> {"none", "running", "success", "failed"}]]
         /\ task'[h][t] \in {"none", "failed"}
         /\ \A i \in Hours, u \in Tasks : i # h \/ u # t => task'[i][u] = task[i][u]
<1>1. PICK v \in {"none", "failed"} : task' = [task EXCEPT ![h][t] = v]
  BY DEF Retry
<1>2. task \in [Hours -> [Tasks -> {"none", "running", "success", "failed"}]]
  BY DEF FreshInv, DataOK
<1>3. task' = [task EXCEPT ![h] = [task[h] EXCEPT ![t] = v]]
  BY <1>1, <1>2
<1>4. [task[h] EXCEPT ![t] = v] \in [Tasks -> {"none", "running", "success", "failed"}]
  BY <1>1, <1>2
<1>. QED
  BY <1>1, <1>2, <1>3, <1>4 DEF Retry

LEMMA PullFailsFresh ==
  ASSUME FreshInv, NEW h \in Hours, NEW p \in Pages, PullFails(h, p)
  PROVE  FreshInv'
<1>1. /\ run' = run
      /\ task' \in [Hours -> [Tasks -> {"none", "running", "success", "failed"}]]
      /\ \A i \in Hours : task'[i][Agg] = task[i][Agg]
      /\ \A i \in Hours, q \in Pages : i # h => task'[i][q] = task[i][q]
  BY PagesAreTasks, RetryTask DEF PullFails
<1>2. /\ task[h][p] = "none"
      /\ run[h] = "running"
      /\ UNCHANGED <<seen, unwritten, output>>
  BY DEF PullFails, PullReady, agg
<1>3. /\ impressions' \in [Hours -> [Pages -> Nat]]
      /\ \A i \in Hours \ {h} : impressions'[i] = impressions[i]
      /\ \A q \in Pages : impressions'[h][q] = 0 => impressions[h][q] = 0
  <2>1. impressions \in [Hours -> [Pages -> Nat]]
    BY DEF FreshInv, DataOK
  <2>2. CASE UNCHANGED impressions
    BY <2>1, <2>2
  <2>3. CASE Overwrite(h, p)
    BY <2>1, <2>3 DEF Overwrite
  <2>. QED
    BY <2>2, <2>3 DEF PullFails
<1>4. task[h][Agg] # "running"
  BY <1>2 DEF FreshInv, AggregatingFresh
<1>5. ASSUME NEW i \in Hours
      PROVE  AggregatingFresh(i)' /\ SettledFresh(i)' /\ NothingFromNothing(i)'
  <2>1. AggregatingFresh(i) /\ SettledFresh(i) /\ NothingFromNothing(i)
    BY DEF FreshInv
  <2>2. CASE i = h
    <3>1. task'[h][Agg] # "running" /\ run'[h] = "running"
      BY <1>1, <1>2, <1>4
    <3>2. NothingFromNothing(h)'
      BY <1>2, <1>3, <2>1, <2>2 DEF NothingFromNothing
    <3>. QED
      BY <2>2, <3>1, <3>2 DEF AggregatingFresh, SettledFresh
  <2>3. CASE i # h
    <3>1. /\ task'[i][Agg] = task[i][Agg]
          /\ \A q \in Pages : task'[i][q] = task[i][q]
          /\ impressions'[i] = impressions[i]
      BY <1>1, <1>3, <2>3
    <3>. QED
      BY <1>1, <1>2, <2>1, <3>1 DEF AggregatingFresh, SettledFresh, NothingFromNothing
  <2>. QED
    BY <2>2, <2>3
<1>. QED
  BY <1>1, <1>2, <1>3, <1>5 DEF FreshInv, DataOK

LEMMA AggregateReadsFresh ==
  ASSUME FreshInv, NEW h \in Hours, AggregateReads(h)
  PROVE  FreshInv'
BY PagesAreTasks DEF AggregateReads, FreshInv, DataOK, AggregatingFresh, SettledFresh,
   NothingFromNothing, landings, agg

LEMMA AggregateWritesFresh ==
  ASSUME FreshInv, NEW h \in Hours, NEW p \in Pages, AggregateWrites(h, p)
  PROVE  FreshInv'
BY PagesAreTasks DEF AggregateWrites, Replacing, FreshInv, DataOK, AggregatingFresh,
   SettledFresh, NothingFromNothing, pipeline, landings, agg

LEMMA AggregateEndsFresh ==
  ASSUME FreshInv, NEW h \in Hours, AggregateEnds(h)
  PROVE  FreshInv'
BY PagesAreTasks DEF AggregateEnds, ProcessEnds, FreshInv, DataOK, AggregatingFresh,
   SettledFresh, NothingFromNothing, landings, agg

LEMMA AggregateFailsFresh ==
  ASSUME FreshInv, NEW h \in Hours, AggregateFails(h)
  PROVE  FreshInv'
<1>1. /\ run' = run
      /\ task' \in [Hours -> [Tasks -> {"none", "running", "success", "failed"}]]
      /\ task'[h][Agg] # "running"
      /\ \A i \in Hours \ {h} : \A u \in Tasks : task'[i][u] = task[i][u]
  BY PagesAreTasks, RetryTask DEF AggregateFails
<1>2. /\ UNCHANGED <<impressions, output>>
      /\ seen' \in [Hours -> [Pages -> Nat]]
      /\ unwritten' \in [Hours -> SUBSET Pages]
      /\ \A i \in Hours \ {h} : seen'[i] = seen[i] /\ unwritten'[i] = unwritten[i]
  BY DEF AggregateFails, ProcessEnds, landings, FreshInv, DataOK
<1>3. DataOK'
  BY <1>1, <1>2 DEF FreshInv, DataOK
<1>4. ASSUME NEW i \in Hours PROVE AggregatingFresh(i)'
  <2>1. CASE i = h
    BY <1>1, <2>1 DEF AggregatingFresh
  <2>2. CASE i # h
    <3>1. /\ \A u \in Tasks : task'[i][u] = task[i][u]
          /\ seen'[i] = seen[i] /\ unwritten'[i] = unwritten[i]
      BY <1>1, <1>2, <2>2
    <3>2. AggregatingFresh(i)
      BY DEF FreshInv
    <3>. QED
      BY PagesAreTasks, <1>1, <1>2, <3>1, <3>2 DEF AggregatingFresh
  <2>. QED
    BY <2>1, <2>2
<1>5. ASSUME NEW i \in Hours PROVE SettledFresh(i)' /\ NothingFromNothing(i)'
  BY <1>1, <1>2 DEF FreshInv, SettledFresh, NothingFromNothing
<1>. QED
  BY <1>3, <1>4, <1>5 DEF FreshInv

LEMMA UnrelatedFresh ==
  ASSUME FreshInv, UNCHANGED <<pipeline, landings, agg>>
  PROVE  FreshInv'
BY DEF FreshInv, DataOK, AggregatingFresh, SettledFresh, NothingFromNothing,
   pipeline, landings, agg

-----------------------------------------------------------------------------

LEMMA NextFresh == FreshInv /\ [Next]_vars => FreshInv'
<1>. SUFFICES ASSUME FreshInv, [Next]_vars PROVE FreshInv'
  OBVIOUS
<1>1. ASSUME NEW h \in Hours, StartRun(h) \/ FailRun(h) \/ Clear(h)
      PROVE  FreshInv'
  BY <1>1, StartRunFresh, FailRunFresh, ClearFresh
<1>2. ASSUME NEW h \in Hours,
             AggregateReads(h) \/ AggregateEnds(h) \/ AggregateFails(h)
      PROVE  FreshInv'
  BY <1>2, AggregateReadsFresh, AggregateEndsFresh, AggregateFailsFresh
<1>3. ASSUME NEW h \in Hours, NEW p \in Pages,
             Pull(h, p) \/ PullFails(h, p) \/ AggregateWrites(h, p)
      PROVE  FreshInv'
  BY <1>3, PullFresh, PullFailsFresh, AggregateWritesFresh
<1>4. ASSUME StartCheck \/ CheckPage \/ UNCHANGED vars
      PROVE  FreshInv'
  BY <1>4, UnrelatedFresh DEF StartCheck, CheckPage, vars, pipeline, landings, agg
<1>. QED
  BY <1>1, <1>2, <1>3, <1>4 DEF Next

\* Rows of an hour whose run succeeded are those of the batches in the table.
THEOREM SettledOutputIsFresh == Spec => []SettledOutputFresh
<1>1. FreshInv => SettledOutputFresh
  BY DEF FreshInv, SettledFresh, SettledOutputFresh
<1>. QED
  BY <1>1, InitFresh, NextFresh, PTL DEF Spec

-----------------------------------------------------------------------------
(***************************************************************************)
(* The verdict on the newest hour.  NewestHourJudged speaks of the end     *)
(* only; before, either the event of the hour is still waiting, or its     *)
(* check is under way and has refused none of the pages it has read, which *)
(* are as they were: pulls of the hour first take away its success.        *)
(***************************************************************************)

Sound(n, p) == <<n, p, manifest[n][p]>> \notin short

Judged(n) ==
  /\ verdict[n] # "none"
  /\ verdict[n] = "passed" => \A p \in Pages : Sound(n, p)

BeingJudged(n) ==
  \/ n \in events
  \/ check.hour = n /\ \A i \in 1..check.passed : Sound(n, PageTypes[i])
  \/ check.hour # n /\ Judged(n)

\* The types this argument needs.
CheckOK ==
  /\ manifest \in [Hours -> [Pages -> Nat]]
  /\ verdict \in [Hours -> {"none", "passed", "failed"}]
  /\ check = [hour |-> check.hour, passed |-> check.passed]
  /\ check.passed \in 0..Len(PageTypes) - 1
  /\ events \subseteq Hours

VerdictInv ==
  /\ CheckOK
  /\ \A n \in Hours :
       (\A h \in Hours : h <= n) /\ run[n] = "success" => BeingJudged(n)

LEMMA InitVerdict == Init => VerdictInv
<1>. SUFFICES ASSUME Init PROVE VerdictInv
  OBVIOUS
<1>1. Len(PageTypes) \in Nat \ {0}
  BY ScheduleAssumption
<1>. QED
  BY <1>1 DEF Init, VerdictInv, CheckOK, Idle

LEMMA ListedPages ==
  ASSUME NEW k \in 0..Len(PageTypes), NEW i \in 1..k
  PROVE  PageTypes[i] \in Pages
<1>1. i \in DOMAIN PageTypes
  BY ScheduleAssumption
<1>. QED
  BY <1>1 DEF Pages

\* Steps of the pipeline: what is landed of a settled hour, and what is known of
\* it, stays; a run that succeeds emits its event.
LEMMA PipelineVerdict ==
  ASSUME DataOK, VerdictInv, UNCHANGED <<check, verdict>>,
         events \subseteq events', events' \subseteq Hours,
         manifest' \in [Hours -> [Pages -> Nat]],
         \A n \in Hours : run'[n] = "success" =>
           \/ n \in events'
           \/ /\ run[n] = "success" /\ manifest'[n] = manifest[n]
              /\ \A p \in Pages : <<n, p, manifest[n][p]>> \in short' =>
                                    <<n, p, manifest[n][p]>> \in short
  PROVE  VerdictInv'
<1>. SUFFICES ASSUME NEW n \in Hours, \A h \in Hours : h <= n, run'[n] = "success"
              PROVE  BeingJudged(n)'
  BY DEF VerdictInv, CheckOK
<1>1. CASE n \in events'
  BY <1>1 DEF BeingJudged
<1>2. CASE n \notin events'
  <2>1. run[n] = "success" /\ manifest'[n] = manifest[n]
    BY <1>2
  <2>2. \A p \in Pages : Sound(n, p) => Sound(n, p)'
    BY <1>2 DEF Sound
  <2>3. \A i \in 1..check.passed : PageTypes[i] \in Pages
    <3>1. check.passed \in 0..Len(PageTypes)
      BY ScheduleAssumption DEF VerdictInv, CheckOK
    <3>. QED
      BY <3>1, ListedPages
  <2>4. BeingJudged(n) /\ n \notin events
    BY <1>2, <2>1 DEF VerdictInv
  <2>. QED
    BY <2>2, <2>3, <2>4 DEF BeingJudged, Judged
<1>. QED
  BY <1>1, <1>2

\* The newest hour is the one a check takes among the events it finds.
LEMMA NewestResolved ==
  ASSUME NEW n \in Hours, \A h \in Hours : h <= n, events \subseteq Hours, n \in events
  PROVE  Resolve(events) = n
<1>1. \A h \in events : (\A i \in events : i <= h) <=> h = n
  BY ScheduleAssumption
<1>. QED
  BY <1>1 DEF Resolve

LEMMA StartCheckVerdict ==
  ASSUME VerdictInv, StartCheck
  PROVE  VerdictInv'
<1>1. /\ check = Idle
      /\ check' = [hour |-> Resolve(events), passed |-> 0]
      /\ events' = {}
      /\ UNCHANGED <<run, manifest, short, verdict>>
  BY DEF StartCheck, pipeline, landings
<1>2. check'.hour = Resolve(events) /\ check'.passed = 0 /\ check.hour = None
  BY <1>1 DEF Idle
<1>3. CheckOK'
  BY <1>1, <1>2, ScheduleAssumption DEF VerdictInv, CheckOK
<1>4. ASSUME NEW n \in Hours, \A h \in Hours : h <= n, run'[n] = "success"
      PROVE  BeingJudged(n)'
  <2>1. BeingJudged(n)
    BY <1>1, <1>4 DEF VerdictInv
  <2>2. Resolve(events) = n => BeingJudged(n)'
    BY <1>2 DEF BeingJudged
  <2>3. ASSUME n \notin events, Resolve(events) # n PROVE BeingJudged(n)'
    BY <1>1, <1>2, <2>1, <2>3, ScheduleAssumption DEF BeingJudged, Judged, Sound
  <2>. QED
    BY <2>2, <2>3, NewestResolved, <1>4 DEF VerdictInv, CheckOK
<1>. QED
  BY <1>3, <1>4 DEF VerdictInv

LEMMA CheckPageVerdict ==
  ASSUME VerdictInv, CheckPage
  PROVE  VerdictInv'
<1>. DEFINE h == check.hour
            p == PageTypes[check.passed + 1]
            refused == manifest[h][p] = 0 \/ <<h, p, manifest[h][p]>> \in short
            last == check.passed + 1 = Len(PageTypes)
<1>1. /\ check' = IF refused \/ last THEN Idle ELSE [check EXCEPT !.passed = @ + 1]
      /\ verdict' = [verdict EXCEPT ![h] =
                       IF refused THEN "failed" ELSE IF last THEN "passed" ELSE @]
      /\ UNCHANGED <<run, manifest, short, events>>
  BY DEF CheckPage, pipeline, landings
<1>2. /\ check = [hour |-> check.hour, passed |-> check.passed]
      /\ check.passed \in 0..Len(PageTypes) - 1
      /\ Len(PageTypes) \in Nat \ {0}
      /\ verdict \in [Hours -> {"none", "passed", "failed"}]
  BY ScheduleAssumption DEF VerdictInv, CheckOK
<1>3. p \in Pages /\ Pages = {PageTypes[i] : i \in 1..Len(PageTypes)}
  BY <1>2, ScheduleAssumption DEF Pages
<1>4. IF refused \/ last THEN check' = Idle
      ELSE check' = [hour |-> h, passed |-> check.passed + 1]
  BY <1>1, <1>2
<1>5. IF refused \/ last THEN check'.hour = None /\ check'.passed = 0
      ELSE check'.hour = h /\ check'.passed = check.passed + 1
  BY <1>4 DEF Idle
<1>6. CheckOK'
  <2>1. verdict' \in [Hours -> {"none", "passed", "failed"}]
    BY <1>1, <1>2
  <2>2. check'.passed \in 0..Len(PageTypes) - 1
    BY <1>2, <1>5
  <2>3. check' = [hour |-> check'.hour, passed |-> check'.passed]
    BY <1>4 DEF Idle
  <2>. QED
    BY <1>1, <2>1, <2>2, <2>3 DEF VerdictInv, CheckOK
<1>7. ASSUME NEW n \in Hours, \A i \in Hours : i <= n, run'[n] = "success"
      PROVE  BeingJudged(n)'
  <2>1. BeingJudged(n) /\ (Judged(n) /\ verdict'[n] = verdict[n] => Judged(n)')
    BY <1>1, <1>7 DEF VerdictInv, Judged, Sound
  <2>2. CASE n \in events
    BY <1>1, <2>2 DEF BeingJudged
  <2>3. CASE h # n /\ Judged(n)
    <3>1. verdict'[n] = verdict[n]
      BY <1>1, <1>2, <2>3
    <3>2. check'.hour # n
      BY <1>5, <2>3, ScheduleAssumption
    <3>. QED
      BY <2>1, <2>3, <3>1, <3>2 DEF BeingJudged
  <2>4. CASE h = n /\ \A i \in 1..check.passed : Sound(n, PageTypes[i])
    <3>1. CASE refused
      <4>1. verdict'[n] = "failed" /\ check'.hour # n
        BY <1>1, <1>2, <1>5, <2>4, <3>1, ScheduleAssumption
      <4>. QED
        BY <4>1 DEF BeingJudged, Judged
    <3>2. CASE ~refused
      <4>1. \A i \in 1..check.passed + 1 : Sound(n, PageTypes[i])
        BY <1>2, <2>4, <3>2 DEF Sound
      <4>2. CASE last
        <5>1. verdict'[n] = "passed" /\ check'.hour # n
          BY <1>1, <1>2, <1>5, <2>4, <3>2, <4>2, ScheduleAssumption
        <5>2. \A q \in Pages : Sound(n, q)'
          BY <1>1, <1>3, <4>1, <4>2 DEF Sound
        <5>. QED
          BY <5>1, <5>2 DEF BeingJudged, Judged
      <4>3. CASE ~last
        <5>1. check'.hour = n /\ check'.passed = check.passed + 1
          BY <1>5, <2>4, <3>2, <4>3
        <5>. QED
          BY <1>1, <4>1, <5>1 DEF BeingJudged, Sound
      <4>. QED
        BY <4>2, <4>3
    <3>. QED
      BY <3>1, <3>2
  <2>. QED
    BY <2>1, <2>2, <2>3, <2>4 DEF BeingJudged
<1>. QED
  BY <1>6, <1>7 DEF VerdictInv

LEMMA NextVerdict == DataOK /\ VerdictInv /\ [Next]_vars => VerdictInv'
<1>. SUFFICES ASSUME DataOK, VerdictInv, [Next]_vars PROVE VerdictInv'
  OBVIOUS
<1>. USE DEF pipeline, landings, agg, checks
<1>0. /\ manifest \in [Hours -> [Pages -> Nat]]
      /\ run \in [Hours -> {"queued", "running", "success", "failed"}]
      /\ events \subseteq Hours
  BY DEF VerdictInv, CheckOK, DataOK
<1>1. ASSUME NEW h \in Hours, StartRun(h) \/ FailRun(h) \/ Clear(h)
      PROVE  VerdictInv'
  <2>1. /\ UNCHANGED <<manifest, short, events, check, verdict>>
        /\ run' = [run EXCEPT ![h] = "running"] \/ run' = [run EXCEPT ![h] = "failed"]
           \/ run' = [run EXCEPT ![h] = "queued"]
    BY <1>1 DEF StartRun, FailRun, Clear
  <2>2. \A n \in Hours : run'[n] = "success" => run[n] = "success"
    BY <1>0, <2>1
  <2>. QED
    BY <1>0, <2>1, <2>2, PipelineVerdict
<1>2. ASSUME NEW h \in Hours, AggregateReads(h) \/ AggregateFails(h)
      PROVE  VerdictInv'
  <2>1. UNCHANGED <<run, manifest, short, events, check, verdict>>
    BY <1>2 DEF AggregateReads, AggregateFails, Retry
  <2>. QED
    BY <1>0, <2>1, PipelineVerdict
<1>3. ASSUME NEW h \in Hours, AggregateEnds(h) PROVE VerdictInv'
  <2>1. /\ UNCHANGED <<manifest, short, check, verdict>>
        /\ events' = events \cup {h}
        /\ events \subseteq events' /\ events' \subseteq Hours
        /\ \A n \in Hours : n # h => run'[n] = run[n]
    BY <1>0, <1>3 DEF AggregateEnds
  <2>. QED
    BY <1>0, <2>1, PipelineVerdict
<1>4. ASSUME NEW h \in Hours, NEW p \in Pages, PullFails(h, p) \/ AggregateWrites(h, p)
      PROVE  VerdictInv'
  <2>1. UNCHANGED <<run, manifest, short, events, check, verdict>>
    BY <1>4 DEF PullFails, AggregateWrites, Retry
  <2>. QED
    BY <1>0, <2>1, PipelineVerdict
<1>5. ASSUME NEW h \in Hours, NEW p \in Pages, Pull(h, p) PROVE VerdictInv'
  <2>1. /\ run[h] = "running"
        /\ UNCHANGED <<run, events, check, verdict>>
        /\ manifest' = [manifest EXCEPT ![h][p] = impressions[h][p] + 1]
        /\ short' \subseteq short \cup {<<h, p, impressions[h][p] + 1>>}
    BY <1>5 DEF Pull, PullReady
  <2>2. manifest' \in [Hours -> [Pages -> Nat]]
    BY <1>0, <2>1 DEF DataOK
  <2>3. \A n \in Hours : run[n] = "success" => n # h /\ manifest'[n] = manifest[n]
    BY <1>0, <2>1
  <2>4. \A n \in Hours, q \in Pages : n # h /\ <<n, q, manifest[n][q]>> \in short' =>
          <<n, q, manifest[n][q]>> \in short
    BY <2>1
  <2>5. \A n \in Hours : run'[n] = "success" =>
          /\ run[n] = "success" /\ manifest'[n] = manifest[n]
          /\ \A q \in Pages : <<n, q, manifest[n][q]>> \in short' =>
                               <<n, q, manifest[n][q]>> \in short
    BY <2>1, <2>3, <2>4
  <2>. QED
    BY <1>0, <2>1, <2>2, <2>5, PipelineVerdict
<1>6. CASE StartCheck
  BY <1>6, StartCheckVerdict
<1>7. CASE CheckPage
  BY <1>7, CheckPageVerdict
<1>8. CASE UNCHANGED vars
  BY <1>0, <1>8, PipelineVerdict DEF vars
<1>. QED
  BY <1>1, <1>2, <1>3, <1>4, <1>5, <1>6, <1>7, <1>8 DEF Next

\* However checks, retries, clears and later landings interleave, the newest
\* hour gets its verdict, and it is about the batches that are landed
\* (resolve_partition and run_volume_check).
THEOREM NewestHourIsJudged == Spec => []NewestHourJudged
<1>1. VerdictInv => NewestHourJudged
  BY ScheduleAssumption DEF VerdictInv, BeingJudged, Judged, Sound, NewestHourJudged, Quiet, Idle
<1>2. FreshInv => DataOK
  BY DEF FreshInv
<1>. QED
  BY <1>1, <1>2, InitFresh, NextFresh, InitVerdict, NextVerdict, PTL DEF Spec
-----------------------------------------------------------------------------
(* The salted join of the aggregation job                                  *)

\* The sides, keys and salts keep their types as rows are added.
THEOREM JoinTypes == JoinSpec => []JoinTypeOK
<1>1. JoinInit => JoinTypeOK
  BY DEF JoinInit, JoinTypeOK
<1>2. JoinTypeOK /\ [JoinNext]_joinVars => JoinTypeOK'
  BY DEF JoinTypeOK, JoinNext, AddLarge, AddSmall, joinVars
<1>. QED
  BY <1>1, <1>2, PTL DEF JoinSpec

-----------------------------------------------------------------------------

\* Every row of the small side with the key of l is among its partners under
\* the one salt l drew, which is a salt the explode produced.
LEMMA PartnersAreMatches ==
  ASSUME JoinTypeOK, NEW l \in large, NEW s \in small
  PROVE  (\E x \in Partners(l) : x.row = s) <=> Matches(l, s)
<1>1. salt[l] \in Salts
  BY DEF JoinTypeOK
<1>2. ASSUME Matches(l, s)
      PROVE  \E x \in Partners(l) : x.row = s
  <2>. DEFINE x == [row |-> s, salt |-> salt[l]]
  <2>1. x \in Exploded
    BY <1>1 DEF Exploded
  <2>2. SameSaltedKey(l, x)
    BY <1>2 DEF SameSaltedKey, Matches
  <2>. QED
    BY <2>1, <2>2 DEF Partners
<1>3. ASSUME NEW x \in Partners(l), x.row = s
      PROVE  Matches(l, s)
  BY <1>3 DEF Partners, SameSaltedKey, Matches
<1>. QED
  BY <1>2, <1>3

\* A partner is a row of the small side.
LEMMA PartnersAreSmall ==
  ASSUME NEW l, NEW x \in Partners(l)
  PROVE  x.row \in small
BY DEF Partners, Exploded

\* A row of the large side is left without a partner by the salted join
\* exactly if the small side has no row of its key.
LEMMA UnmatchedAgree ==
  ASSUME JoinTypeOK, NEW l \in large
  PROVE  Partners(l) = {} <=> \A s \in small : ~Matches(l, s)
<1>1. ASSUME NEW x \in Partners(l)
      PROVE  \E s \in small : Matches(l, s)
  <2>1. x.row \in small
    BY PartnersAreSmall
  <2>. QED
    BY <2>1, PartnersAreMatches
<1>2. ASSUME NEW s \in small, Matches(l, s)
      PROVE  Partners(l) # {}
  BY <1>2, PartnersAreMatches
<1>. QED
  BY <1>1, <1>2

\* salted_join returns what large.join(small) returns, inner and left.
THEOREM SaltedJoinIsJoin == JoinSpec => []DropIn
<1>1. JoinTypeOK => DropIn
  <2>. SUFFICES ASSUME JoinTypeOK PROVE DropIn
    OBVIOUS
  <2>1. SaltedInner = Inner
    BY PartnersAreMatches DEF SaltedInner, Inner
  <2>2. {r \in large : Partners(r) = {}} = {r \in large : \A s \in small : ~Matches(r, s)}
    BY UnmatchedAgree
  <2>3. SaltedLeft = Left
    BY <2>1, <2>2 DEF SaltedLeft, Left
  <2>. QED
    BY <2>1, <2>3 DEF DropIn
<1>. QED
  BY <1>1, JoinTypes, PTL

\* The explode copies the small side SaltRange times, and no joined row.
THEOREM SaltedJoinNoDuplicates == JoinSpec => []NoDuplicates
<1>1. NoDuplicates
  <2>. SUFFICES ASSUME NEW l \in large, NEW x \in Partners(l), NEW y \in Partners(l),
                       x.row = y.row
                PROVE  x = y
    BY DEF NoDuplicates
  <2>1. x.salt = y.salt
    BY DEF Partners, SameSaltedKey
  <2>. QED
    BY <2>1 DEF Partners, Exploded
<1>. QED
  BY <1>1, PTL

-----------------------------------------------------------------------------
(* The judgements of a batch: what is counted off, sorted or looked up by  *)
(* rank is the same.                                                       *)

TotallyOrders(S, R) ==
  /\ \A x, y \in S : <<x, y>> \in R \/ <<y, x>> \in R
  /\ \A x, y \in S : <<x, y>> \in R /\ <<y, x>> \in R => x = y
  /\ \A x, y, z \in S : <<x, y>> \in R /\ <<y, z>> \in R => <<x, z>> \in R

\* How many of S come up to x in the order R.
Rank(S, R, x) == Cardinality({y \in S : <<y, x>> \in R})

\* A finite set in a total order: the ranks are 1, 2, ..., each once.
LEMMA RankFacts ==
  ASSUME NEW S, IsFiniteSet(S), NEW R, TotallyOrders(S, R)
  PROVE  /\ Cardinality(S) \in Nat
         /\ \A x \in S : Rank(S, R, x) \in 1..Cardinality(S)
         /\ \A x, y \in S : Rank(S, R, x) <= Rank(S, R, y) => <<x, y>> \in R
         /\ \A k \in 1..Cardinality(S) : \E x \in S : Rank(S, R, x) = k
<1>. DEFINE n == Cardinality(S)
            upTo(x) == {y \in S : <<y, x>> \in R}
            rank == [x \in S |-> Cardinality(upTo(x))]
<1>0. /\ \A x \in S : <<x, x>> \in R
      /\ \A x, y \in S : <<x, y>> \in R \/ <<y, x>> \in R
      /\ \A x, y \in S : <<x, y>> \in R /\ <<y, x>> \in R => x = y
      /\ \A x, y, z \in S : <<x, y>> \in R /\ <<y, z>> \in R => <<x, z>> \in R
  BY DEF TotallyOrders
<1>1. n \in Nat
  BY FS_CardinalityType
<1>2. \A x \in S : IsFiniteSet(upTo(x)) /\ Cardinality(upTo(x)) \in Nat /\ Cardinality(upTo(x)) <= n
  <2>. SUFFICES ASSUME NEW x \in S
                PROVE  IsFiniteSet(upTo(x)) /\ Cardinality(upTo(x)) \in Nat /\ Cardinality(upTo(x)) <= n
    OBVIOUS
  <2>1. upTo(x) \in SUBSET S
    OBVIOUS
  <2>. HIDE DEF upTo
  <2>. QED
    BY <2>1, FS_Subset, FS_CardinalityType
<1>3. \A x \in S : Cardinality(upTo(x)) \in 1..n
  <2>1. \A x \in S : upTo(x) # {}
    BY <1>0
  <2>. HIDE DEF upTo, n
  <2>. QED
    BY <1>1, <1>2, <2>1, FS_EmptySet
<1>4. ASSUME NEW x \in S, NEW y \in S, Cardinality(upTo(x)) <= Cardinality(upTo(y))
      PROVE  <<x, y>> \in R
  <2>. SUFFICES ASSUME <<x, y>> \notin R PROVE FALSE
    OBVIOUS
  <2>1. <<y, x>> \in R /\ x # y
    BY <1>0
  <2>2. x \in upTo(x) /\ upTo(y) \in SUBSET (upTo(x) \ {x})
    BY <1>0, <2>1
  <2>. HIDE DEF upTo
  <2>3. IsFiniteSet(upTo(x) \ {x}) /\ Cardinality(upTo(x) \ {x}) = Cardinality(upTo(x)) - 1
    BY <1>2, <2>2, FS_RemoveElement
  <2>4. Cardinality(upTo(y)) <= Cardinality(upTo(x) \ {x})
    BY <2>2, <2>3, FS_Subset
  <2>. QED
    BY <1>2, <1>4, <2>3, <2>4
<1>5. \A x, y \in S : Cardinality(upTo(x)) = Cardinality(upTo(y)) => x = y
  <2>. SUFFICES ASSUME NEW x \in S, NEW y \in S, Cardinality(upTo(x)) = Cardinality(upTo(y))
                PROVE  x = y
    OBVIOUS
  <2>1. Cardinality(upTo(x)) <= Cardinality(upTo(y)) /\ Cardinality(upTo(y)) <= Cardinality(upTo(x))
    <3>. HIDE DEF upTo
    <3>. QED
      BY <1>2
  <2>2. <<x, y>> \in R /\ <<y, x>> \in R
    <3>. HIDE DEF upTo
    <3>. QED
      BY <1>4, <2>1
  <2>. QED
    BY <1>0, <2>2
<1>6. \A x \in S : rank[x] = Cardinality(upTo(x))
  OBVIOUS
<1>7. rank \in Injection(S, 1..n)
  <2>. HIDE DEF rank, upTo, n
  <2>1. DOMAIN rank = S
    BY DEF rank
  <2>2. rank \in [S -> 1..n]
    BY <1>3, <1>6 DEF rank
  <2>. QED
    BY <1>5, <1>6, <2>1, <2>2 DEF Injection, IsInjective
<1>8. IsFiniteSet(1..n) /\ Cardinality(1..n) = n
  BY <1>1, FS_Interval
<1>9. rank \in Surjection(S, 1..n)
  <2>. HIDE DEF rank, n
  <2>. QED
    BY <1>7, <1>8, FS_Injection DEF n
<1>10. \A k \in 1..n : \E x \in S : Cardinality(upTo(x)) = k
  <2>. HIDE DEF rank, upTo, n
  <2>. QED
    BY <1>6, <1>9 DEF Surjection
<1>. QED
  BY <1>1, <1>3, <1>4, <1>10 DEF Rank

\* What is landed of the days looked up are counts.
LEMMA LandedAreCounts ==
  ASSUME NEW m \in Seq(DayCounts \cup {NoManifest})
  PROVE  Landed(m) \in Seq(Nat)
<1>. DEFINE S == {i \in DOMAIN m : m[i] # NoManifest}
            R == {q \in S \X S : q[1] <= q[2]}
            nth(k) == CHOOSE i \in S : Cardinality({j \in S : j <= i}) = k
            n == Cardinality(S)
            Count == DayCounts \cup {NoManifest}
<1>1. S \subseteq Int /\ IsFiniteSet(S)
  <2>1. DOMAIN m = 1..Len(m) /\ Len(m) \in Nat
    OBVIOUS
  <2>2. IsFiniteSet(DOMAIN m)
    BY <2>1, FS_Interval
  <2>3. S \in SUBSET DOMAIN m
    OBVIOUS
  <2>4. IsFiniteSet(S)
    <3>. HIDE DEF S
    <3>. QED
      BY <2>2, <2>3, FS_Subset
  <2>. QED
    BY <2>1, <2>4
<1>2. \A i \in S : m[i] \in Nat
  <2>1. \A i \in DOMAIN m : m[i] \in Count
    <3>1. m \in Seq(Count)
      OBVIOUS
    <3>. HIDE DEF Count
    <3>. QED
      BY <3>1
  <2>. QED
    BY <2>1, GatesAssumption
<1>3. Landed(m) = [k \in 1..n |-> m[nth(k)]]
  BY DEF Landed
<1>. HIDE DEF S
<1>4. \A x, y \in S : <<x, y>> \in R <=> x <= y
  OBVIOUS
<1>5. \A i \in S : {j \in S : <<j, i>> \in R} = {j \in S : j <= i}
  BY <1>4
<1>6. /\ n \in Nat
      /\ \A k \in 1..n : \E i \in S : Rank(S, R, i) = k
  <2>1. TotallyOrders(S, R)
    <3>. HIDE DEF R
    <3>. QED
      BY <1>1, <1>4 DEF TotallyOrders
  <2>. HIDE DEF R, n
  <2>3. IsFiniteSet(S)
    BY <1>1
  <2>4. \A k \in 1..Cardinality(S) : \E i \in S : Rank(S, R, i) = k
    BY <2>1, <2>3, RankFacts
  <2>5. Cardinality(S) \in Nat
    BY <2>1, <2>3, RankFacts
  <2>. QED
    BY <2>4, <2>5 DEF n
<1>7. \A k \in 1..n : nth(k) \in S
  <2>. SUFFICES ASSUME NEW k \in 1..n PROVE nth(k) \in S
    OBVIOUS
  <2>1. PICK i \in S : Rank(S, R, i) = k
    BY <1>6
  <2>2. Cardinality({j \in S : j <= i}) = k
    BY <1>5, <2>1 DEF Rank
  <2>. QED
    BY <2>2
<1>. HIDE DEF n, nth
<1>8. [k \in 1..n |-> m[nth(k)]] \in [1..n -> Nat]
  BY <1>2, <1>7
<1>. QED
  BY <1>3, <1>6, <1>8

LEMMA FromOne ==
  ASSUME NEW n \in Nat
  PROVE  IsFiniteSet(1..n) /\ Cardinality(1..n) = n
BY FS_Interval

\* Sorting permutes the values and puts none before a smaller one.
LEMMA SortedFacts ==
  ASSUME NEW values \in Seq(Nat)
  PROVE  \E p \in Bijection(1..Len(values), 1..Len(values)) :
           /\ \A i, j \in 1..Len(values) : i <= j => values[p[i]] <= values[p[j]]
           /\ Sorted(values) = [i \in 1..Len(values) |-> values[p[i]]]
<1>. DEFINE n == Len(values)
            S == 1..n
            R == {q \in S \X S : \/ values[q[1]] < values[q[2]]
                                 \/ values[q[1]] = values[q[2]] /\ q[1] <= q[2]}
            p == [k \in S |-> CHOOSE i \in S : Rank(S, R, i) = k]
<1>0. n \in Nat /\ DOMAIN values = S /\ S \subseteq Int
  OBVIOUS
<1>1. IsFiniteSet(S) /\ Cardinality(S) = n
  BY <1>0, FromOne
<1>v. \A i \in S : values[i] \in Nat /\ values[i] \in Int
  BY <1>0
<1>2. \A x, y \in S : <<x, y>> \in R <=> values[x] < values[y] \/ (values[x] = values[y] /\ x <= y)
  OBVIOUS
<1>3. IsFiniteSet(S)
  BY <1>1
<1>. HIDE DEF n, S, R
<1>4. TotallyOrders(S, R)
  <2>1. \A x, y \in S : <<x, y>> \in R \/ <<y, x>> \in R
    <3>. SUFFICES ASSUME NEW x \in S, NEW y \in S PROVE <<x, y>> \in R \/ <<y, x>> \in R
      OBVIOUS
    <3>1. x \in Int /\ y \in Int /\ values[x] \in Int /\ values[y] \in Int
      BY <1>0, <1>v
    <3>. QED
      BY <1>2, <3>1
  <2>2. \A x, y \in S : <<x, y>> \in R /\ <<y, x>> \in R => x = y
    BY <1>0, <1>v, <1>2
  <2>3. \A x, y, z \in S : <<x, y>> \in R /\ <<y, z>> \in R => <<x, z>> \in R
    BY <1>0, <1>v, <1>2
  <2>. QED
    BY <2>1, <2>2, <2>3 DEF TotallyOrders
<1>5. \A x \in S : Rank(S, R, x) \in 1..Cardinality(S)
  BY <1>3, <1>4, RankFacts
<1>6. \A x, y \in S : Rank(S, R, x) <= Rank(S, R, y) => <<x, y>> \in R
  BY <1>3, <1>4, RankFacts
<1>7. \A k \in 1..Cardinality(S) : \E x \in S : Rank(S, R, x) = k
  BY <1>3, <1>4, RankFacts
<1>8. \A k \in S : p[k] \in S /\ Rank(S, R, p[k]) = k
  <2>. SUFFICES ASSUME NEW k \in S PROVE p[k] \in S /\ Rank(S, R, p[k]) = k
    OBVIOUS
  <2>1. k \in 1..Cardinality(S)
    BY <1>1 DEF S
  <2>2. \E x \in S : Rank(S, R, x) = k
    BY <1>7, <2>1
  <2>3. p[k] = CHOOSE i \in S : Rank(S, R, i) = k
    OBVIOUS
  <2>. QED
    BY <2>2, <2>3
<1>9. p \in [S -> S]
  BY <1>8
<1>. HIDE DEF p
<1>10. p \in Injection(S, S)
  BY <1>8, <1>9 DEF Injection, IsInjective
<1>11. p \in Surjection(S, S)
  BY <1>3, <1>10, FS_Injection
<1>12. p \in Bijection(S, S)
  BY <1>10, <1>11 DEF Bijection
<1>13. \A i, j \in S : i <= j => values[p[i]] <= values[p[j]]
  <2>. SUFFICES ASSUME NEW i \in S, NEW j \in S, i <= j PROVE values[p[i]] <= values[p[j]]
    OBVIOUS
  <2>0. i \in Int /\ j \in Int
    BY <1>0
  <2>1. <<p[i], p[j]>> \in R
    BY <1>6, <1>8
  <2>. QED
    <3>1. p[i] \in S /\ p[j] \in S
      BY <1>8
    <3>2. values[p[i]] \in Int /\ values[p[j]] \in Int
      BY <1>v, <3>1
    <3>3. values[p[i]] < values[p[j]] \/ values[p[i]] = values[p[j]]
      BY <1>2, <2>1, <3>1
    <3>. QED
      BY <3>2, <3>3
<1>. DEFINE order == CHOOSE q \in Bijection(S, S) :
                       \A i, j \in S : i <= j => values[q[i]] <= values[q[j]]
<1>14. /\ order \in Bijection(S, S)
       /\ \A i, j \in S : i <= j => values[order[i]] <= values[order[j]]
  BY <1>12, <1>13
<1>15. Sorted(values) = [i \in S |-> values[order[i]]]
  BY <1>0 DEF Sorted
<1>. HIDE DEF order
<1>. QED
  BY <1>14, <1>15 DEF S, n

Under(values, x) == {i \in DOMAIN values : values[i] < x}
UpTo(values, x) == {i \in DOMAIN values : values[i] <= x}

\* The element of rank k is the k-th of the sorted list.
LEMMA KthIsKthSorted ==
  ASSUME NEW values \in Seq(Nat), NEW k \in 1..Len(values)
  PROVE  KthSmallest(values, k) = Sorted(values)[k] /\ Sorted(values)[k] \in Nat
<1>. DEFINE n == Len(values)
            S == 1..n
<1>1. n \in Nat /\ DOMAIN values = S /\ \A i \in S : values[i] \in Nat
  OBVIOUS
<1>2. k \in S /\ k \in Int /\ \A i \in S : i \in Int
  OBVIOUS
<1>3. IsFiniteSet(S) /\ Cardinality(S) = n
  BY <1>1, FromOne
<1>4. PICK p \in Bijection(S, S) :
        /\ \A i, j \in S : i <= j => values[p[i]] <= values[p[j]]
        /\ Sorted(values) = [i \in S |-> values[p[i]]]
  BY SortedFacts
<1>. DEFINE x == values[p[k]]
            low == 1..k - 1
            upto == 1..k
<1>5. p \in [S -> S] /\ (\A i, j \in S : p[i] = p[j] => i = j) /\ \A y \in S : \E i \in S : p[i] = y
  BY <1>4 DEF Bijection, Injection, Surjection, IsInjective
<1>6. low \subseteq S /\ upto \subseteq S /\ IsFiniteSet(low) /\ Cardinality(low) = k - 1
      /\ IsFiniteSet(upto) /\ Cardinality(upto) = k
  <2>1. low \subseteq S /\ upto \subseteq S
    BY <1>1, <1>2
  <2>2. k - 1 \in Int /\ k >= 1 /\ k - 1 - 1 + 1 = k - 1 /\ k - 1 + 1 = k
    OBVIOUS
  <2>3. IsFiniteSet(low) /\ Cardinality(low) = k - 1
    BY <2>2, FS_Interval
  <2>4. IsFiniteSet(upto) /\ Cardinality(upto) = k
    BY <2>2, FS_Interval
  <2>. QED
    BY <2>1, <2>3, <2>4
<1>7. \A i \in S : (i \in low <=> i < k) /\ (i \in upto <=> i <= k)
  BY <1>2
<1>8. x \in {values[i] : i \in DOMAIN values} /\ x \in Nat /\ x = Sorted(values)[k]
  BY <1>1, <1>2, <1>4, <1>5
<1>9. \A y \in Nat : /\ IsFiniteSet(Under(values, y)) /\ Cardinality(Under(values, y)) \in Nat
                     /\ IsFiniteSet(UpTo(values, y)) /\ Cardinality(UpTo(values, y)) \in Nat
  <2>1. \A y \in Nat : Under(values, y) \subseteq S /\ UpTo(values, y) \subseteq S
    BY <1>1 DEF Under, UpTo
  <2>. HIDE DEF S
  <2>. QED
    BY <1>3, <2>1, FS_Subset, FS_CardinalityType
<1>. HIDE DEF S, n, low, upto
\* What is less than the k-th comes before it.
<1>10. Cardinality(Under(values, x)) < k
  <2>. DEFINE f == [i \in low |-> p[i]]
              T == {p[i] : i \in low}
  <2>1. Under(values, x) \in SUBSET T
    <3>. SUFFICES ASSUME NEW y \in S, values[y] < x PROVE \E i \in low : p[i] = y
      BY <1>1 DEF Under
    <3>1. PICK i \in S : p[i] = y
      BY <1>5
    <3>2. ~(k <= i)
      <4>1. k <= i => x <= values[y]
        BY <1>2, <1>4, <3>1
      <4>2. x \in Int /\ values[y] \in Int
        BY <1>1, <1>8
      <4>. HIDE DEF x
      <4>. QED
        BY <4>1, <4>2
    <3>. QED
      BY <1>2, <1>7, <3>1, <3>2
  <2>2. f \in Surjection(low, T)
    BY DEF Surjection
  <2>. HIDE DEF T, f
  <2>3. IsFiniteSet(T) /\ Cardinality(T) <= Cardinality(low)
    BY <1>6, <2>2, FS_Surjection
  <2>4. Cardinality(Under(values, x)) <= Cardinality(T) /\ Cardinality(T) \in Nat
    BY <2>1, <2>3, FS_Subset, FS_CardinalityType
  <2>5. Cardinality(Under(values, x)) \in Nat
    BY <1>8, <1>9
  <2>6. Cardinality(low) = k - 1
    BY <1>6
  <2>. HIDE DEF x
  <2>. QED
    BY <1>2, <2>3, <2>4, <2>5, <2>6
\* What comes up to it is no more.
<1>11. k <= Cardinality(UpTo(values, x))
  <2>. DEFINE f == [i \in upto |-> p[i]]
  <2>1. \A i \in upto : f[i] \in UpTo(values, x)
    <3>. SUFFICES ASSUME NEW i \in upto PROVE p[i] \in S /\ values[p[i]] <= x
      BY <1>1 DEF UpTo
    <3>1. i \in S /\ i <= k
      BY <1>6, <1>7
    <3>. QED
      BY <1>2, <1>4, <1>5, <3>1
  <2>2. \A i, j \in upto : f[i] = f[j] => i = j
    BY <1>5, <1>6
  <2>3. f \in Injection(upto, UpTo(values, x))
    BY <2>1, <2>2 DEF Injection, IsInjective
  <2>. HIDE DEF f, x
  <2>4. IsFiniteSet(UpTo(values, x))
    BY <1>8, <1>9
  <2>5. Cardinality(upto) <= Cardinality(UpTo(values, x))
    BY <2>3, <2>4, FS_Injection
  <2>. QED
    BY <1>6, <2>5
\* No two values have the rank.
<1>12. ASSUME NEW y \in Nat, NEW z \in Nat, y < z,
              k <= Cardinality(UpTo(values, y)), Cardinality(Under(values, z)) < k
       PROVE  FALSE
  <2>1. UpTo(values, y) \in SUBSET Under(values, z)
    BY <1>1, <1>12 DEF UpTo, Under
  <2>2. Cardinality(UpTo(values, y)) <= Cardinality(Under(values, z))
    BY <1>9, <2>1, FS_Subset
  <2>. QED
    BY <1>2, <1>9, <1>12, <2>2
<1>. DEFINE Is(y) == Cardinality(Under(values, y)) < k /\ k <= Cardinality(UpTo(values, y))
            V == {values[i] : i \in DOMAIN values}
<1>13. V \subseteq Nat
  BY <1>1
<1>14. KthSmallest(values, k) = CHOOSE y \in V : Is(y)
  BY DEF KthSmallest, Under, UpTo
<1>15. x \in V /\ Is(x)
  BY <1>8, <1>10, <1>11
<1>16. \A y, z \in V : Is(y) /\ Is(z) => y = z
  <2>. SUFFICES ASSUME NEW y \in V, NEW z \in V, Is(y), Is(z) PROVE y = z
    OBVIOUS
  <2>1. y \in Nat /\ z \in Nat
    BY <1>13
  <2>2. ~(y < z) /\ ~(z < y)
    BY <1>12, <2>1
  <2>. QED
    BY <2>1, <2>2
<1>. HIDE DEF Is, V, x
<1>17. KthSmallest(values, k) \in V /\ Is(KthSmallest(values, k))
  BY <1>14, <1>15
<1>. QED
  BY <1>8, <1>15, <1>16, <1>17

LEMMA MediansAgree ==
  ASSUME NEW values \in Seq(Nat), values # << >>
  PROVE  TwiceMedianRs(values) = TwiceMedian(values) /\ TwiceMedian(values) \in Nat
<1>. DEFINE n == Len(values)
            h == n \div 2
<1>1. n \in Nat \ {0}
  OBVIOUS
<1>. HIDE DEF n
<1>2. h \in Nat /\ (n % 2 = 0 => n = 2 * h /\ h \in 1..n /\ (n + 1) \div 2 = h)
      /\ (n % 2 # 0 => n = 2 * h + 1 /\ (n + 1) \div 2 = h + 1) /\ h + 1 \in 1..n
  BY <1>1
<1>3. \A k \in 1..n : KthSmallest(values, k) = Sorted(values)[k] /\ Sorted(values)[k] \in Nat
  BY KthIsKthSorted DEF n
<1>. DEFINE at(i) == Sorted(values)[i + 1]
<1>4. TwiceMedianRs(values) = IF n % 2 = 0 THEN at(h - 1) + at(h) ELSE 2 * at(h)
  BY DEF TwiceMedianRs, n
<1>5. TwiceMedian(values) = KthSmallest(values, (n + 1) \div 2) + KthSmallest(values, h + 1)
  BY DEF TwiceMedian, n
<1>. HIDE DEF h
<1>6. at(h) = Sorted(values)[h + 1] /\ at(h - 1) = Sorted(values)[h]
  <2>1. (h - 1) + 1 = h
    BY <1>2
  <2>. QED
    BY <2>1
<1>. HIDE DEF at
<1>7. CASE n % 2 = 0
  <2>1. TwiceMedian(values) = Sorted(values)[h] + Sorted(values)[h + 1]
    BY <1>2, <1>3, <1>5, <1>7
  <2>2. TwiceMedianRs(values) = Sorted(values)[h] + Sorted(values)[h + 1]
    BY <1>4, <1>6, <1>7
  <2>. QED
    BY <1>2, <1>3, <1>7, <2>1, <2>2
<1>8. CASE n % 2 # 0
  <2>1. TwiceMedian(values) = Sorted(values)[h + 1] + Sorted(values)[h + 1]
    BY <1>2, <1>3, <1>5, <1>8
  <2>2. TwiceMedianRs(values) = 2 * Sorted(values)[h + 1]
    BY <1>4, <1>6, <1>8
  <2>. QED
    BY <1>2, <1>3, <2>1, <2>2
<1>. QED
  BY <1>7, <1>8

BatchInv ==
  /\ read \in Nat /\ bad \in Nat /\ bad <= read
  /\ days \in Seq(DayCounts \cup {NoManifest})

LEMMA BatchIsOne == GatesSpec => []BatchInv
<1>1. BatchInit => BatchInv
  BY GatesAssumption DEF BatchInit, BatchInv
<1>2. BatchInv /\ [EarlierDay]_batch => BatchInv'
  <2>. SUFFICES ASSUME BatchInv, [EarlierDay]_batch PROVE BatchInv'
    OBVIOUS
  <2>. DEFINE Count == DayCounts \cup {NoManifest}
  <2>1. CASE EarlierDay
    <3>1. PICK c \in Count : days' = Append(days, c)
      BY <2>1 DEF EarlierDay
    <3>2. days \in Seq(Count)
      BY DEF BatchInv
    <3>. HIDE DEF Count
    <3>3. days' \in Seq(Count)
      BY <3>1, <3>2
    <3>. QED
      BY <2>1, <3>3 DEF BatchInv, EarlierDay, Count
  <2>2. CASE UNCHANGED batch
    BY <2>2 DEF BatchInv, batch
  <2>. QED
    BY <2>1, <2>2
<1>. QED
  BY <1>1, <1>2, PTL DEF GatesSpec

LEMMA JudgedAlike == BatchInv => JudgementsAgree
<1>. SUFFICES ASSUME BatchInv PROVE JudgementsAgree
  OBVIOUS
<1>. DEFINE twice == TwiceMedian(baselines)
<1>1. baselines \in Seq(Nat)
  BY LandedAreCounts DEF BatchInv, baselines
<1>2. baselines # << >> => TwiceMedianRs(baselines) = twice /\ twice \in Nat
  BY <1>1, MediansAgree
<1>3. PortAgrees
  BY <1>2 DEF PortAgrees, CheckVolume, CheckVolumeRs
<1>4. read \in Nat /\ bad \in Nat /\ bad <= read
  BY DEF BatchInv
<1>5. CheckFails(read, bad, days) <=>
        100 * bad > read \/ (/\ baselines # << >> /\ twice # 0
                             /\ 4 * (read - bad) < twice \/ read - bad > twice)
  BY DEF CheckFails, OutOfRange, baselines
<1>6. JobLands <=>
        /\ ~(100 * bad > 1 * read)
        /\ read - bad # 0
        /\ \/ baselines = << >> \/ twice = 0
           \/ ~(4 * (read - bad) < twice \/ read - bad > twice)
  BY DEF JobLands, QuarantineRefused, CheckVolume, Written
<1>. DEFINE unheard == read = 0 /\ (baselines = << >> \/ twice = 0)
<1>7. ~CheckFails(read, bad, days) <=> JobLands \/ unheard
  <2>. HIDE DEF twice
  <2>1. CASE baselines = << >>
    BY <1>4, <1>5, <1>6, <2>1
  <2>2. CASE baselines # << >>
    <3>1. twice \in Nat
      BY <1>2, <2>2
    <3>. QED
      BY <1>4, <1>5, <1>6, <2>2, <3>1
  <2>. QED
    BY <2>1, <2>2
<1>8. GatesAgree
  BY <1>7 DEF GatesAgree
<1>. QED
  BY <1>3, <1>8 DEF JudgementsAgree

\* The landing job, the Rust port and the Airflow check come to one judgement
\* of every batch, whatever the counts of the earlier days, their order and
\* number, and whichever of them did not land: api_pull.py's gates, lib.rs and
\* quality_checks.py compute the median differently, of the same numbers.
THEOREM GatesNeverDisagree == GatesSpec => []JudgementsAgree
BY BatchIsOne, JudgedAlike, PTL
=============================================================================
