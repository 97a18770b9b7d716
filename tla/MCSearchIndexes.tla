--------------------------- MODULE MCSearchIndexes --------------------------
(***************************************************************************)
(* One instance for TLC of what is searched by embeddings: the vector      *)
(* index under migration (IndexMigration), the catalog of the gold schema  *)
(* (CatalogSync), or the templates found in it and called                  *)
(* (QueryTemplates), the others at rest.                                   *)
(***************************************************************************)
EXTENDS IndexMigration, CatalogSync, QueryTemplates, TLC

CONSTANTS c1, c2, a1, a2, table, column

VARIABLE searched  \* "index", "catalog" or "templates"

MCAccountOf == [c \in Conversations |-> IF c = c1 THEN a1 ELSE a2]

\* Two manifests of a table with a column, the second with another place and
\* another type of the column, and one without the column.
At(content, ordinal) == [content |-> content, ordinal |-> ordinal]
MCManifests ==
  {(table :> At(1, 0) @@ column :> At(1, 1)),
   (table :> At(1, 0) @@ column :> At(1, 2)),
   (table :> At(2, 0) @@ column :> At(2, 1)),
   (table :> At(2, 0))}

SearchSymmetry == Permutations(Syncs) \cup Permutations(TemplateFiles)

Parameter(name, type, required, default, choices, low, high) ==
  [name |-> name, type |-> type, required |-> required, default |-> default,
   choices |-> choices, low |-> low, high |-> high, explained |-> TRUE]

Choice == Parameter("a", "int", TRUE, Nothing, {Value("int", 1), Value("int", 2)}, Nothing, Nothing)
Limit == Parameter("b", "int", FALSE, Value("int", 2), Nothing, Value("int", 1), Value("int", 3))
Since == Parameter("a", "date", TRUE, Nothing, Nothing, Value("date", 1), Nothing)
Ratio == Parameter("b", "float", TRUE, Nothing, Nothing, Value("int", 2), Nothing)

Template(name, engine, params, uses, casts, reads) ==
  [name |-> name, engine |-> engine, params |-> params, uses |-> uses, casts |-> casts,
   reads |-> reads, commented |-> {}, statement |-> TRUE, maxRows |-> 2]

Engaged == Template("engaged", "postgres", <<Choice, Limit>>, <<"a", "b">>, {}, {"gold"})
Reconcile == Template("reconcile", "trino", <<[Choice EXCEPT !.required = FALSE]>>, <<"a", "a">>,
                      {"a"}, {"gold", "iceberg"})
Trend == Template("trend", "postgres", <<Since, Ratio>>, <<"b", "a">>, {}, {"gold"})

\* Sound ones, two of one name, and those with: a NULL that is not cast, choices
\* of another type, a parameter in a comment of either engine, a source the
\* engine may not read, a parameter that is not declared, one declared twice.
MCAuthored ==
  {Engaged, Reconcile, Trend, [Trend EXCEPT !.name = "engaged"],
   [Reconcile EXCEPT !.engine = "postgres", !.casts = {}, !.reads = {"gold"}],
   [Engaged EXCEPT !.params = <<Limit, [Choice EXCEPT !.choices = {Value("str", 1)}]>>],
   [Reconcile EXCEPT !.commented = {"a"}], [Engaged EXCEPT !.commented = {"a", "c"}],
   [Engaged EXCEPT !.params = <<Choice, [Limit EXCEPT !.default = Value("int", 1)], Limit>>],
   [Reconcile EXCEPT !.engine = "postgres"], [Engaged EXCEPT !.uses = <<"a", "c">>]}

Json(kind, reads, n) == [json |-> kind, reads |-> reads, n |-> n]
MCValues ==
  {Json("int", "int", 1), Json("str", "int", 1), Json("int", "int", 4), Json("float", "float", 2),
   Json("str", "nan", 0), Json("str", "date", 1), Json("bool", "bool", 1), Json("null", "null", 0)}
MCArguments ==
  UNION {[names -> MCValues] : names \in {{}, {"a"}, {"b"}, {"a", "b"}}}
    \cup {("c" :> Json("int", "int", 1))}

MCInit ==
  /\ Init /\ CatalogInit /\ TemplatesInit
  /\ searched \in {"index", "catalog", "templates"}
  /\ searched # "templates" => directory = [f \in TemplateFiles |-> Nothing]

IndexStep == searched = "index" /\ Next /\ UNCHANGED <<catalogVars, templateVars, searched>>
CatalogStep == searched = "catalog" /\ CatalogNext /\ UNCHANGED <<vars, templateVars, searched>>
TemplateStep ==
  searched = "templates" /\ TemplatesNext /\ UNCHANGED <<vars, catalogVars, searched>>

MCSpec == MCInit /\ [][IndexStep \/ CatalogStep \/ TemplateStep]_<<vars, catalogVars, templateVars, searched>>
=============================================================================
