------------------------- MODULE ImpressionAnalyses -------------------------
(***************************************************************************)
(* The copies of the raw impressions and the four analyses made of them:   *)
(* dbt over Postgres, DuckDB, Polars, the ClickHouse cluster, and Trino    *)
(* over copies of the Postgres table, which it reconciles with gold.       *)
(*                                                                         *)
(* A loader fetches one slice (page_type, date, hour), deletes what the    *)
(* store has of it and inserts what it fetched; a load may fail in         *)
(* between, and two may overlap. A table is a bag of rows: the rows of an  *)
(* impression are its events 1..depth (a..f), a second apart.              *)
(***************************************************************************)
EXTENDS Integers, FiniteSets, Sequences, Bags, FiniteSetsExt

CONSTANTS
  Fetches,   \* what a fetch of each slice may bring: a set of impressions
  MaxLoads   \* bound on the loads

Slices == DOMAIN Fetches
Dates == {"day", "NOPE", "0231"}  \* a date, none, one of no calendar

SliceOf(imp) == [page |-> imp.page, date |-> imp.date, hour |-> imp.hour]
\* _make_impression_id: what the id of an impression is made of.
Id(imp) == [user |-> imp.user, page |-> imp.page, date |-> imp.date,
            hour |-> imp.hour, minute |-> imp.minute]

ASSUME AnalysesAssumption ==
  /\ IsFiniteSet(Slices)
  /\ \A s \in Slices : s.date \in Dates
  /\ \A s \in Slices : \A content \in Fetches[s] :
       /\ IsFiniteSet(content)
       /\ \A i \in content :
            /\ SliceOf(i) = s /\ i.depth \in 1..6 /\ i.second \in 0..(60 - i.depth)
            /\ \A j \in content : Id(i) = Id(j) => i = j
  /\ MaxLoads \in Nat

VARIABLES
  store,    \* the store under load: "postgres", "duckdb", "polars", "clickhouse"
  table,    \* its rows
  doomed,   \* ClickHouse: rows a mutation has yet to delete
  loads,    \* the loads under way, by number
  loaded,   \* per slice, what the last complete load brought
  settled,  \* per slice, whether that load was alone and none failed since
  gold,     \* Postgres: what dbt last built its tables from: << >> or the rows
  copies    \* Postgres: Trino's copies: their rows, and the tables they are of

stores == <<store, table, doomed, loads, loaded, settled, gold, copies>>

-----------------------------------------------------------------------------
(* Loading                                                                 *)

\* generate_rows: an impression that reaches an event had all before it.
RowsOf(content) ==
  SetToBag(UNION {{[imp |-> i, event |-> e] : e \in 1..i.depth} : i \in content})

Where(bag, P(_)) == [r \in {q \in DOMAIN bag : P(q)} |-> bag[r]]
InSlice(bag, s) == Where(bag, LAMBDA r : SliceOf(r.imp) = s)
OfOthers(bag, s) == Where(bag, LAMBDA r : SliceOf(r.imp) # s)

StoresInit ==
  /\ store \in {"postgres", "duckdb", "polars", "clickhouse"}
  /\ table = EmptyBag /\ doomed = EmptyBag
  /\ loads = << >>
  /\ loaded = [s \in Slices |-> {}]
  /\ settled = [s \in Slices |-> TRUE]
  /\ gold = << >>
  /\ copies = [lake |-> [rows |-> EmptyBag, of |-> << >>], cluster |-> [rows |-> EmptyBag, of |-> << >>]]

Done == [next |-> "done"]
Active(n) == loads[n] # Done
Beside(s) == {n \in DOMAIN loads : Active(n) /\ loads[n].slice = s}

\* With another load of its slice under way neither is alone.
Fetch(s, content) ==
  /\ Len(loads) < MaxLoads
  /\ loads' = Append([n \in DOMAIN loads |->
                        IF n \in Beside(s) THEN [loads[n] EXCEPT !.alone = FALSE] ELSE loads[n]],
                     [next |-> "delete", slice |-> s, content |-> content,
                      seen |-> EmptyBag, alone |-> Beside(s) = {}])
  /\ UNCHANGED <<store, table, doomed, loaded, settled, gold, copies>>

\* A date of the wrong form stops the parser (Polars) or the statement
\* (ClickHouse) before anything is deleted; Postgres and DuckDB keep text.
Deletable(s) == store \in {"postgres", "duckdb"} \/ s.date = "day"

\* Variant: the loader appends.
DeleteNothing(n) ==
  /\ Active(n) /\ loads[n].next = "delete" /\ Deletable(loads[n].slice)
  /\ loads' = [loads EXCEPT ![n].next = "insert"]
  /\ UNCHANGED <<store, table, doomed, loaded, settled, gold, copies>>

\* Postgres deletes in the transaction that inserts; ClickHouse only submits a
\* mutation of the rows there are.
Delete(n) ==
  /\ Active(n) /\ loads[n].next = "delete" /\ Deletable(loads[n].slice)
  /\ LET there == InSlice(table, loads[n].slice)
     IN  /\ loads' = [loads EXCEPT ![n].next = "insert", ![n].seen = there]
         /\ table' = IF store \in {"duckdb", "polars"} THEN table (-) there ELSE table
         /\ doomed' = IF store = "clickhouse"
                      THEN OfOthers(doomed, loads[n].slice) (+) there
                      ELSE doomed
  /\ UNCHANGED <<store, loaded, settled, gold, copies>>

\* The insert, and Postgres' commit: the rows another load has put there since
\* the delete stay. Polars writes the one file of the partition.
Insert(n) ==
  /\ Active(n) /\ loads[n].next = "insert"
  /\ LET s == loads[n].slice
         base == CASE store = "postgres" -> table (-) loads[n].seen
                   [] store = "polars" -> table (-) InSlice(table, s)
                   [] OTHER -> table
     IN  /\ table' = base (+) RowsOf(loads[n].content)
         /\ loaded' = [loaded EXCEPT ![s] = loads[n].content]
         /\ settled' = [settled EXCEPT ![s] = loads[n].alone]
  /\ loads' = [loads EXCEPT ![n] = Done]
  /\ UNCHANGED <<store, doomed, gold, copies>>

\* A load fails, or its process dies. DuckDB commits row by row (here, by
\* impression).
Fail(n) ==
  /\ Active(n)
  /\ LET s == loads[n].slice
         begun == loads[n].next = "insert"
     IN  /\ \/ UNCHANGED table
            \/ /\ store = "duckdb" /\ begun
               /\ \E part \in SUBSET loads[n].content : table' = table (+) RowsOf(part)
         /\ settled' = [settled EXCEPT ![s] = @ /\ (begun => store = "postgres")]
  /\ loads' = [loads EXCEPT ![n] = Done]
  /\ UNCHANGED <<store, doomed, loaded, gold, copies>>

Mutate ==
  /\ doomed # EmptyBag
  /\ table' = table (-) doomed
  /\ doomed' = EmptyBag
  /\ UNCHANGED <<store, loads, loaded, settled, gold, copies>>

-----------------------------------------------------------------------------
(* dbt's build and Trino's copies of the Postgres table                    *)

Dated(bag) == Where(bag, LAMBDA r : r.imp.date = "day")

\* safe_to_date looks at the form of a date; one of no calendar then fails the
\* cast and the build, and the tables stay as they were.
Build ==
  /\ store = "postgres"
  /\ \A r \in DOMAIN table : r.imp.date # "0231"
  /\ gold' = <<table>>
  /\ UNCHANGED <<store, table, doomed, loads, loaded, settled, copies>>

\* from_postgres, clickhouse_from_postgres: rows whose date is none are left
\* out; the cluster is left alone if it has rows.
Seed(copy) ==
  /\ store = "postgres"
  /\ copy = "cluster" => copies[copy].rows = EmptyBag
  /\ copies' = [copies EXCEPT ![copy] = [rows |-> @.rows (+) Dated(table), of |-> Append(@.of, table)]]
  /\ Len(copies[copy].of) < MaxLoads
  /\ UNCHANGED <<store, table, doomed, loads, loaded, settled, gold>>

Truncate ==
  /\ store = "postgres"
  /\ copies' = [copies EXCEPT !.lake = [rows |-> EmptyBag, of |-> << >>]]
  /\ UNCHANGED <<store, table, doomed, loads, loaded, settled, gold>>

StoresNext ==
  \/ \E s \in Slices : \E content \in Fetches[s] : Fetch(s, content)
  \/ \E n \in DOMAIN loads : Delete(n) \/ Insert(n) \/ Fail(n)
  \/ Mutate \/ Build \/ Truncate
  \/ \E copy \in {"lake", "cluster"} : Seed(copy)

StoresSpec == StoresInit /\ [][StoresNext]_stores

-----------------------------------------------------------------------------
(* The analyses, of rows                                                   *)

\* Hundredths of n/d. ClickHouse rounds floats half to even, the others half
\* away from zero.
HalfAway(n, d) == (200 * n + d) \div (2 * d)
HalfEven(n, d) ==
  IF (200 * n) % (2 * d) = d /\ HalfAway(n, d) % 2 = 1 THEN HalfAway(n, d) - 1 ELSE HalfAway(n, d)
Round(half, n, d) == IF half = "away" THEN HalfAway(n, d) ELSE HalfEven(n, d)

SumOf(f(_), S) == Cardinality(UNION {{x} \X (1..f(x)) : x \in S})
MaxOf(f(_), S) == Max({f(x) : x \in S})
IdsOf(rows) == {Id(r.imp) : r \in rows}
SecondOf(r) == r.imp.second + r.event - 1

\* int_impressions_aggregated: a row for each key in the rows.
Aggregated(bag) ==
  LET of(id) == {r \in DOMAIN bag : Id(r.imp) = id}
  IN  {[id |-> id,
        events |-> SumOf(LAMBDA r : bag[r], of(id)),
        distinct |-> Cardinality({r.event : r \in of(id)}),
        first |-> Min({SecondOf(r) : r \in of(id)}),
        last |-> MaxOf(SecondOf, of(id)),
        deepest |-> MaxOf(LAMBDA r : r.event, of(id))] : id \in IdsOf(DOMAIN bag)}

Reaching(groups, stage) == Cardinality({g \in groups : g.deepest >= stage})

\* funnel_analysis: LAG is over the stages there are.
Funnel(bag, half) ==
  LET at(p, e) == Cardinality(IdsOf({r \in DOMAIN bag : r.imp.page = p /\ r.event = e}))
      total(p) == Cardinality(IdsOf({r \in DOMAIN bag : r.imp.page = p}))
      stages(p) == {r.event : r \in {q \in DOMAIN bag : q.imp.page = p}}
      before(p, e) == {f \in stages(p) : f < e}
  IN  {[page |-> k[1], stage |-> k[2], at |-> at(k[1], k[2]), total |-> total(k[1]),
        ofTotal |-> Round(half, 100 * at(k[1], k[2]), total(k[1])),
        ofPrevious |-> IF before(k[1], k[2]) = {} THEN << >>
                       ELSE <<Round(half, 100 * at(k[1], k[2]), at(k[1], Max(before(k[1], k[2]))))>>]
        : k \in {<<r.imp.page, r.event>> : r \in DOMAIN bag}}

Grouped(by, g) == IF by = "page" THEN <<g.id.page>> ELSE <<g.id.date, g.id.hour, g.id.page>>

\* page_type_summary and hourly_traffic, by what they group by.
Traffic(groups, by, half) ==
  LET key(g) == Grouped(by, g)
      of(k) == {g \in groups : key(g) = k}
      count(k) == Cardinality({g.id : g \in of(k)})
  IN  {[key |-> k, total |-> count(k),
        users |-> Cardinality({g.id.user : g \in of(k)}),
        depth |-> Round(half, SumOf(LAMBDA g : g.distinct, of(k)), Cardinality(of(k))),
        maxDepth |-> MaxOf(LAMBDA g : g.distinct, of(k)),
        duration |-> Round(half, SumOf(LAMBDA g : g.last - g.first, of(k)), Cardinality(of(k))),
        reaching |-> [e \in 4..6 |-> Reaching(of(k), e)],
        percent |-> [e \in 4..6 |-> Round(half, 100 * Reaching(of(k), e), count(k))]]
        : k \in {key(g) : g \in groups}}

PageTypeSummary(groups, half) == Traffic(groups, "page", half)
HourlyTraffic(groups, half) == Traffic(groups, "hour and page", half)

\* user_engagement: dbt's DISTINCT ON takes any of the pages with most rows,
\* the others the lowest of them (lowest).
UserEngagement(groups, lowest, half) ==
  LET of(u) == {g \in groups : g.id.user = u}
      onPage(u, p) == Cardinality({g \in of(u) : g.id.page = p})
      pages(u) == {g.id.page : g \in of(u)}
      top(u) == {p \in pages(u) : \A q \in pages(u) : onPage(u, q) <= onPage(u, p)}
  IN  {[user |-> u, total |-> Cardinality({g.id : g \in of(u)}),
        visited |-> Cardinality(pages(u)),
        depth |-> Round(half, SumOf(LAMBDA g : g.distinct, of(u)), Cardinality(of(u))),
        maxDepth |-> MaxOf(LAMBDA g : g.distinct, of(u)),
        events |-> SumOf(LAMBDA g : g.events, of(u)),
        page |-> IF lowest THEN {Min(top(u))} ELSE top(u),
        onPage |-> onPage(u, Min(top(u)))] : u \in {g.id.user : g \in groups}}

Analyses(rows, groups, lowest, half) ==
  [funnel |-> <<Funnel(rows, half)>>,
   summary |-> <<PageTypeSummary(groups, half)>>,
   hourly |-> <<HourlyTraffic(groups, half)>>,
   engagement |-> <<UserEngagement(groups, lowest, half)>>]

\* dbt: rows without a date are in the funnel only.
DbtAnswers(bag) == Analyses(bag, Aggregated(Dated(bag)), FALSE, "away")

\* DuckDB keeps the text of a date, and casts it where a query needs the time
\* of events; that query then fails.
DuckAnswers(bag) ==
  LET answers == Analyses(bag, Aggregated(bag), TRUE, "away")
  IN  IF Dated(bag) = bag THEN answers ELSE [answers EXCEPT !.engagement = << >>]

PolarsAnswers(bag) == Analyses(bag, Aggregated(bag), TRUE, "away")
ClickHouseAnswers(bag) == Analyses(bag, Aggregated(bag), TRUE, "even")

\* Trino's summary of a copy, beside gold's.
TrinoSummary(bag) == PageTypeSummary(Aggregated(bag), "away")
Mismatches(copy) ==
  LET ours == TrinoSummary(copies[copy].rows)
      theirs == DbtAnswers(gold[1]).summary[1]
  IN  (ours \ theirs) \cup (theirs \ ours)

-----------------------------------------------------------------------------
(* Properties                                                              *)

\* What the analyses mean, of impressions that reached a depth.
Groups(imps) ==
  {[id |-> Id(i), events |-> i.depth, distinct |-> i.depth, first |-> i.second,
    last |-> i.second + i.depth - 1, deepest |-> i.depth] : i \in imps}

TrueFunnel(imps, half) ==
  LET at(p, e) == Cardinality({i \in imps : i.page = p /\ i.depth >= e})
  IN  {[page |-> k[1], stage |-> k[2], at |-> at(k[1], k[2]), total |-> at(k[1], 1),
        ofTotal |-> Round(half, 100 * at(k[1], k[2]), at(k[1], 1)),
        ofPrevious |-> IF k[2] = 1 THEN << >>
                       ELSE <<Round(half, 100 * at(k[1], k[2]), at(k[1], k[2] - 1))>>]
        : k \in {l \in {i.page : i \in imps} \X (1..6) : at(l[1], l[2]) > 0}}

AllSettled ==
  /\ \A n \in DOMAIN loads : ~Active(n)
  /\ doomed = EmptyBag /\ \A s \in Slices : settled[s]

\* Whatever was loaded, failed and loaded again, once the last load of every
\* slice ran to its end by itself the store's answers are those of the
\* impressions those loads brought: in dbt those without a date only in the
\* funnel, in DuckDB none about users with one, in ClickHouse rounded half to
\* even.
AnswersTheLoads ==
  LET imps == UNION {loaded[s] : s \in Slices}
      dated == {i \in imps : i.date = "day"}
      ofThose(groups, lowest, half) ==
        [Analyses(EmptyBag, Groups(groups), lowest, half) EXCEPT !.funnel = <<TrueFunnel(imps, half)>>]
  IN  AllSettled =>
        CASE store = "postgres" -> DbtAnswers(table) = ofThose(dated, FALSE, "away")
          [] store = "duckdb" ->
               LET right == ofThose(imps, TRUE, "away")
               IN  DuckAnswers(table) = IF dated = imps THEN right
                                        ELSE [right EXCEPT !.engagement = << >>]
          [] store = "polars" -> PolarsAnswers(table) = ofThose(imps, TRUE, "away")
          [] store = "clickhouse" -> ClickHouseAnswers(table) = ofThose(imps, TRUE, "even")

\* A copy made once of the table that gold was built of reconciles with gold,
\* rows without a date and all.
CopiesReconcile ==
  \A copy \in {"lake", "cluster"} :
    gold # << >> /\ copies[copy].of = gold => Mismatches(copy) = {}

EnginesAgree == AnswersTheLoads /\ CopiesReconcile
=============================================================================
