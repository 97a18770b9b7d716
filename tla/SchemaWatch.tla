----------------------------- MODULE SchemaWatch ----------------------------
(***************************************************************************)
(* What ops_agent says of a table whose columns change under its contract: *)
(* the rename map (sensors.build_rename_map), what a run observes          *)
(* (observe), finds (detect, _detect_enum_drift) and makes of it           *)
(* (classifier.classify), beside three other judges of the same table: the *)
(* monitor of column types (monitors.check_column_types), the monitor of   *)
(* arrival (arrival.check_arrival) and the gate that stops a build         *)
(* (contracts.validate). The table is evolved by                           *)
(* iceberg_deployment.schema_evolution.                                    *)
(*                                                                         *)
(* Iceberg tells columns apart by field id; the contract and the code by   *)
(* name. Values are whole columns: the non-null values a field id holds.   *)
(***************************************************************************)
EXTENDS Integers, FiniteSets, Sequences, SequencesExt, FiniteSetsExt

CONSTANTS
  Contract,    \* the declared type of each declared column
  Spare,       \* other names a column may get
  Internal,    \* those of them that begin with "_"
  EnumColumn,  \* the column under enum_watch, and its known values
  Known,
  EnumLimit,   \* ENUM_CARDINALITY_LIMIT
  DateColumn,  \* the column of the freshness expectation
  Days,        \* its values that parse, and those that do not
  Garbage,
  AsOfDay,     \* AS_OF, the logical day
  MaxLag,      \* max_lag_days of the expectation and of the arrival SLA
  Lookback,    \* lookback_days of check_arrival
  EnumValues,  \* the values the watched column may hold
  MaxChanges   \* bound on schema changes

Declared == DOMAIN Contract

ASSUME SchemaAssumption ==
  /\ EnumColumn \in Declared /\ DateColumn \in Declared /\ EnumColumn # DateColumn
  /\ Internal \subseteq Spare /\ Spare \cap Declared = {}
  /\ Days \subseteq Int /\ Garbage \cap Days = {} /\ AsOfDay \in Int
  /\ IsFiniteSet(Declared) /\ IsFiniteSet(EnumValues) /\ IsFiniteSet(Days)
  /\ {MaxLag, Lookback, EnumLimit, MaxChanges} \subseteq Nat

VARIABLES
  versions,  \* the table's schemas by schema id: name -> [id, type]
  current,   \* the schema id of the table's schema
  changes,   \* how often it changed, with the ids given out
  data       \* by field id, the values in the table

schema == <<versions, current, changes, data>>

-----------------------------------------------------------------------------
(* The table                                                               *)

Names == Declared \cup Spare
Present == versions[current]
IdsIn(version) == {version[n].id : n \in DOMAIN version}

\* The declared columns in an order of their own: they get the first ids.
Order == SetToSeq(Declared)
IdOf(c) == CHOOSE i \in DOMAIN Order : Order[i] = c

Ids == 1..Len(Order) + MaxChanges

\* The contract describes the table as it is created.
Created ==
  /\ versions = <<[c \in Declared |-> [id |-> IdOf(c), type |-> Contract[c]]]>>
  /\ current = 1
  /\ changes = 0

SchemaInit ==
  /\ Created
  /\ \E enum \in SUBSET EnumValues, dates \in SUBSET (Days \cup Garbage) :
       data = [i \in Ids |-> CASE i = IdOf(EnumColumn) -> enum
                             [] i = IdOf(DateColumn) -> dates
                             [] OTHER -> {}]

\* Iceberg gives a schema the next id, or the id it had before.
Become(version) ==
  /\ changes < MaxChanges
  /\ changes' = changes + 1
  /\ LET before == {v \in DOMAIN versions : versions[v] = version}
     IN  IF before # {} THEN /\ current' = Min(before) /\ UNCHANGED versions
         ELSE /\ versions' = Append(versions, version)
              /\ current' = Len(versions) + 1

\* A field id is never given out twice.
AddColumn(name, type) ==
  /\ name \notin DOMAIN Present
  /\ Become([n \in DOMAIN Present \cup {name} |->
              IF n = name THEN [id |-> Len(Order) + changes + 1, type |-> type]
              ELSE Present[n]])
  /\ UNCHANGED data

RenameColumn(old, new) ==
  /\ old \in DOMAIN Present /\ new \notin DOMAIN Present
  /\ Become([n \in (DOMAIN Present \ {old}) \cup {new} |->
              IF n = new THEN Present[old] ELSE Present[n]])
  /\ UNCHANGED data

DropColumn(name) ==
  /\ name \in DOMAIN Present /\ DOMAIN Present # {name}
  /\ Become([n \in DOMAIN Present \ {name} |-> Present[n]])
  /\ UNCHANGED data

\* (declared, observed) pairs the classifier takes for a safe widening.
Widening == {<<"int", "long">>, <<"float", "double">>}

WidenColumn(name, type) ==
  /\ name \in DOMAIN Present /\ <<Present[name].type, type>> \in Widening
  /\ Become([Present EXCEPT ![name].type = type])
  /\ UNCHANGED data

-----------------------------------------------------------------------------
(* observe                                                                 *)

\* The schema the code takes for the table's: the one of the highest id.
Newest == versions[Len(versions)]

\* Variant: a rename is seen in the last change only.
RenameMapOfLastChange ==
  LET earlier == versions[IF Len(versions) > 1 THEN Len(versions) - 1 ELSE 1]
      renamed(old, new) == /\ old \in DOMAIN earlier /\ new \in DOMAIN Newest /\ old # new
                           /\ earlier[old].id = Newest[new].id
  IN  [old \in {o \in Names : \E n \in Names : renamed(o, n)} |->
         CHOOSE n \in Names : renamed(old, n)]

\* build_rename_map: what a column that is still there was called before.
RenameMap ==
  LET renamed(old, new) ==
        /\ new \in DOMAIN Newest /\ old # new
        /\ \E v \in DOMAIN versions : /\ old \in DOMAIN versions[v]
                                      /\ versions[v][old].id = Newest[new].id
  IN  [old \in {o \in Names : \E n \in Names : renamed(o, n)} |->
         CHOOSE n \in Names : renamed(old, n)]

\* live_name: the column a contract name is read from, if there is one.
Live(name) ==
  IF name \in DOMAIN Newest THEN {name}
  ELSE IF name \in DOMAIN RenameMap THEN {RenameMap[name]} ELSE {}

\* The scan selects by name from the table as it is: it fails on a name that
\* is not there, and with it the run.
ScanFails == ~(Live(EnumColumn) \cup Live(DateColumn) \subseteq DOMAIN Present)
Scan(name) == data[Present[name].id]

-----------------------------------------------------------------------------
(* detect                                                                  *)

\* A type is also compatible with one it is a prefix of.
Compatible(declared, observed) ==
  declared = observed \/ <<declared, observed>> = <<"timestamp", "timestamptz">>

Drift(c) ==
  IF c \in DOMAIN Newest
  THEN IF Compatible(Contract[c], Newest[c].type) THEN {}
       ELSE {[change |-> "type_changed", column |-> c,
              declared |-> Contract[c], observed |-> Newest[c].type]}
  ELSE IF c \in DOMAIN RenameMap
  THEN {[change |-> "renamed", column |-> c, to |-> RenameMap[c],
         id |-> Newest[RenameMap[c]].id,
         compatible |-> Compatible(Contract[c], Newest[RenameMap[c]].type)]}
  ELSE {[change |-> "dropped", column |-> c]}

\* The new name of a declared column is not reported as one added.
RenamedTo == {RenameMap[c] : c \in (Declared \ DOMAIN Newest) \cap DOMAIN RenameMap}

SchemaDrift ==
  (UNION {Drift(c) : c \in Declared}) \cup
  {[change |-> "added", column |-> n] :
     n \in DOMAIN Newest \ (Declared \cup Internal \cup RenamedTo)}

\* _detect_enum_drift: a watch that could not be read is not silent.
EnumDrift ==
  IF Live(EnumColumn) = {} THEN {[error |-> "column_absent"]}
  ELSE LET seen == Scan(CHOOSE n \in Live(EnumColumn) : TRUE)
       IN  IF seen = {} THEN {[error |-> "no_values"]}
           ELSE IF Cardinality(seen) > EnumLimit THEN {[error |-> "cardinality_exceeded"]}
           ELSE IF seen \ Known # {} THEN {[error |-> "none", new |-> seen \ Known]} ELSE {}

\* max_parseable_date: what does not parse is counted and never the newest.
DateFindings ==
  IF Live(DateColumn) = {} THEN {}
  ELSE LET seen == Scan(CHOOSE n \in Live(DateColumn) : TRUE)
           parsed == seen \cap Days
       IN  (IF parsed # {} /\ AsOfDay - Max(parsed) > MaxLag THEN {"staleness"} ELSE {}) \cup
           (IF seen \ Days # {} THEN {"data_corruption"} ELSE {})

\* classify.
DriftSeverity(f) ==
  CASE f.change = "added" -> "additive"
    [] f.change = "dropped" -> "breaking"
    [] f.change = "renamed" -> IF f.compatible THEN "renaming" ELSE "breaking"
    [] f.change = "type_changed" ->
         IF <<f.declared, f.observed>> \in Widening THEN "widening" ELSE "breaking"

EnumSeverity(f) ==
  CASE f.error \in {"column_absent", "no_values"} -> "breaking"
    [] f.error = "cardinality_exceeded" -> "benign"
    [] f.error = "none" -> "enum_drift"

\* check_column_types reads the table's schema, by name.
TypeBreach(c) ==
  c \notin DOMAIN Present \/ ~Compatible(Contract[c], Present[c].type)

-----------------------------------------------------------------------------
(* The gate of a build and the monitor of arrival                          *)

\* validate, of the table by name: columns missing, unknown categories, and
\* dates that are old, absent or do not parse.
Refused(c) ==
  IF c \notin DOMAIN Present THEN {"schema_present"}
  ELSE LET seen == Scan(c)
           parsed == seen \cap Days
           fresh == /\ parsed # {} /\ AsOfDay - Max(parsed) <= MaxLag
                    /\ seen \subseteq Days
       IN  (IF c = EnumColumn /\ ~(seen \subseteq Known) THEN {"accepted_values"} ELSE {}) \cup
           (IF c = DateColumn /\ ~fresh THEN {"freshness"} ELSE {})

\* check_arrival, of days that have rows: the lag of the newest, and the days
\* missing of those looked back on, up to the logical day or beyond.
Arrival(seen) ==
  IF seen = {} THEN {"missing"}
  ELSE LET newest == Max(seen)
           start == Max({newest - Lookback, Min(seen)})
       IN  (IF AsOfDay - newest > MaxLag THEN {"lag"} ELSE {}) \cup
           (IF start..Max({AsOfDay, newest}) \subseteq seen THEN {} ELSE {"gap"})

-----------------------------------------------------------------------------
SchemaNext ==
  \/ \E n \in Names, type \in {"int", "string"} : AddColumn(n, type)
  \/ \E old, new \in Names : RenameColumn(old, new)
  \/ \E n \in Names : DropColumn(n)
  \/ \E n \in Names, type \in {"long", "double"} : WidenColumn(n, type)

SchemaSpec == SchemaInit /\ [][SchemaNext]_schema

-----------------------------------------------------------------------------
(* Properties                                                              *)

\* No name ever went to another column, and the table did not return to an
\* earlier schema.
NamesStay ==
  /\ current = Len(versions)
  /\ \A v, w \in DOMAIN versions : \A n \in DOMAIN versions[v] \cap DOMAIN versions[w] :
       versions[v][n].id = versions[w][n].id

\* What became of the column the contract declared, by its field id.
NowCalled(c) == {n \in DOMAIN Present : Present[n].id = IdOf(c)}

FoundAs(c) == {f \in SchemaDrift : f.column = c}

\* However often columns were renamed, widened, added and dropped, a run finds
\* exactly what happened to the field ids: a declared column that is intact is
\* not mentioned, a renamed one is mentioned once, by its last name, and is
\* an emergency only if its type changed too.
DriftFollowsIds ==
  /\ \A c \in Declared :
       LET now == NowCalled(c)
           intact == \E n \in now : Present[n].type = Contract[c]
       IN  /\ now = {} => {f.change : f \in FoundAs(c)} = {"dropped"}
           /\ now = {c} => {DriftSeverity(f) : f \in FoundAs(c)}
                             = IF intact THEN {} ELSE {"widening"}
           /\ now \notin {{}, {c}} =>
                /\ Cardinality(FoundAs(c)) = 1
                /\ \A f \in FoundAs(c) :
                     /\ f.change = "renamed" /\ f.to \in now
                     /\ DriftSeverity(f) = IF intact THEN "renaming" ELSE "breaking"
           /\ TypeBreach(c) <=> FoundAs(c) # {}
  /\ {f.column : f \in {g \in SchemaDrift : g.change = "added"}}
       = {n \in DOMAIN Present : Present[n].id > Len(Order)} \ Internal

\* A watch follows its column, and is silent only if it read values, all of
\* them known.
WatchFollowsColumn ==
  LET held == UNION {data[Present[n].id] : n \in NowCalled(EnumColumn)}
  IN  /\ EnumDrift = {} <=> held # {} /\ held \subseteq Known /\ Cardinality(held) <= EnumLimit
      /\ \A f \in EnumDrift : EnumSeverity(f) = "breaking" <=> held = {}
      /\ \A f \in EnumDrift : f.error = "none" => f.new = held \ Known

\* The agent judges the dates that parse, whatever their column is called. The
\* gate refuses what the agent reports, and what it says nothing of: a column
\* that lost its name or its values. Of those, arrival reports the latter, and
\* of the days it looks back on from the newest it overlooks none that is
\* missing since the first.
DatesFollowColumn ==
  LET held == UNION {data[Present[n].id] : n \in NowCalled(DateColumn)}
      days == held \cap Days
      old == days # {} /\ \A d \in days : d < AsOfDay - MaxLag
  IN  /\ DateFindings = {f \in {"data_corruption", "staleness"} :
                            IF f = "staleness" THEN old ELSE held # days}
      /\ Refused(DateColumn) = {} <=>
           DateColumn \in NowCalled(DateColumn) /\ DateFindings = {} /\ held # {}
      /\ "lag" \in Arrival(days) <=> "staleness" \in DateFindings
      /\ held = {} => Arrival(days) # {}
      /\ Arrival(days) = {} =>
           \A e \in Max(days) - Lookback..Max(days \cup {AsOfDay}) :
             (\E d \in days : d < e) => e \in days

\* All of it holds as long as no name was given to a second column and no
\* schema came back: the code looks a declared name up before it asks for ids,
\* and takes the schema of the highest id for the table's.
DriftExact == NamesStay => ~ScanFails /\ DriftFollowsIds /\ WatchFollowsColumn /\ DatesFollowColumn
=============================================================================
