--------------------------- MODULE QueryTemplates ---------------------------
(***************************************************************************)
(* The query templates of the gold layer and the MCP server that runs      *)
(* them (templates.py, service.py, trino_engine.py of mcp_deployment).     *)
(*                                                                         *)
(* A template is a file. The server loads all files at its first call and  *)
(* keeps them; the catalog is synced from the files apart from that. An    *)
(* agent searches the catalog, asks the server for the template it found,  *)
(* and calls it with arguments, which are coerced, checked and bound, by   *)
(* name on PostgreSQL and by position on Trino.                            *)
(***************************************************************************)
EXTENDS Integers, Sequences, FiniteSets, SequencesExt

CONSTANTS
  TemplateFiles, \* the files of the directory
  Authored,      \* templates that may be written into one
  Arguments,     \* what an agent may pass: functions from names to JSON values
  ResultRows,    \* sizes of a result
  Nothing,       \* no file, no default, no bound, no choices
  MaxEdits       \* bound: changes of the files and restarts of the server

ParamTypes == {"int", "float", "str", "date", "bool"}

\* What a parameter's value is to the checks: its type and an order within it.
Values == [type : ParamTypes \cup {"nan"}, n : Int]
Parameters ==
  [name : STRING, type : STRING, required : BOOLEAN, explained : BOOLEAN,
   default : Values \cup {Nothing}, choices : {Nothing} \cup SUBSET Values,
   low : Values \cup {Nothing}, high : Values \cup {Nothing}]
Templates ==
  [name : STRING, engine : STRING, params : Seq(Parameters), uses : Seq(STRING),
   casts : SUBSET STRING, reads : SUBSET STRING, commented : SUBSET STRING,
   statement : BOOLEAN, maxRows : Int]

ASSUME TemplateAssumption ==
  /\ Authored \subseteq Templates
  /\ \A args \in Arguments : \A n \in DOMAIN args :
       args[n] \in [json : STRING, reads : STRING, n : Int]
  /\ ResultRows \subseteq Nat
  /\ Nothing \notin Templates /\ Nothing \notin Values

VARIABLES
  directory,  \* what each file holds
  served,     \* << >>, or the templates by name of a server that has loaded them
  indexed,    \* the templates the catalog holds, by name
  call,       \* what the agent is doing
  edits

templateVars == <<directory, served, indexed, call, edits>>

NoCall == [pc |-> "idle", name |-> "none", told |-> Nothing, args |-> << >>,
           current |-> FALSE, bound |-> << >>, outcome |-> "none", size |-> 0, rows |-> 0, more |-> FALSE]

TemplatesInit ==
  /\ directory \in [TemplateFiles -> Authored \cup {Nothing}]
  /\ served = << >> /\ indexed = << >> /\ call = NoCall /\ edits = 0

-----------------------------------------------------------------------------
(* Loading                                                                 *)

ParamNames(t) == {p.name : p \in Range(t.params)}

\* What a template of the engine may read, beside its own CTEs.
Sources(engine) == IF engine = "trino" THEN {"gold", "iceberg", "clickhouse"} ELSE {"gold"}

\* validate_template: t.statement says that the text without its comments is one
\* SELECT without a bare percent, and the name, the description and the time-out
\* are in order.
Valid(t) ==
  /\ t.statement
  /\ Range(t.uses) = ParamNames(t)
  /\ t.engine \in {"postgres", "trino"}
  /\ t.reads \subseteq Sources(t.engine)
  /\ \A p \in Range(t.params) :
       /\ p.type \in ParamTypes
       /\ p.required \/ p.default # Nothing \/ p.choices # Nothing \/ p.explained
  /\ t.maxRows > 0 /\ t.maxRows <= 100000

\* load_templates: one bad file, or two of a name, and there are none.
Loadable ==
  LET files == {f \in TemplateFiles : directory[f] # Nothing}
  IN  /\ files # {}
      /\ \A f \in files : Valid(directory[f])
      /\ \A f, g \in files : directory[f].name = directory[g].name => f = g

Loaded ==
  LET all == {directory[f] : f \in TemplateFiles} \ {Nothing}
  IN  [n \in {t.name : t \in all} |-> CHOOSE t \in all : t.name = n]

\* svc(): what the server has, once it is asked; an error leaves it without.
Service == IF served = << >> /\ Loadable THEN <<Loaded>> ELSE served

-----------------------------------------------------------------------------
(* Arguments                                                               *)

Value(type, n) == [type |-> type, n |-> n]
Numeric == {"int", "float", "bool"}

\* _coerce: the value, or none. A JSON value has a kind, and reads as a type.
Coerced(type, given) ==
  {Value(as, given.n) : as \in
    CASE type = "int"   -> {t \in {"int"} : given.json \in {"int", "str"} /\ given.reads = t}
      [] type = "float" -> {t \in {"float"} : given.reads \in {"int", "float"} \/ given.json = "bool"}
                             \cup {t \in {"nan"} : given.reads = t}
      [] type = "str"   -> {t \in {"str"} : given.json = t}
      [] OTHER          -> {t \in {type} : given.reads = t}}

\* Python's == and <. Of values that do not compare, < raises; a NaN is neither
\* below nor above anything.
Like(v, w) == v.type = w.type \/ {v.type, w.type} \subseteq Numeric
Same(v, w) == Like(v, w) /\ v.n = w.n
InBounds(v, low, high) ==
  \/ v.type = "nan"
  \/ /\ low # Nothing => Like(v, low) /\ v.n >= low.n
     /\ high # Nothing => Like(v, high) /\ v.n <= high.n

Accepted(p, given) ==
  {v \in Coerced(p.type, given) :
     /\ p.choices # Nothing => \E c \in p.choices : Same(v, c)
     /\ InBounds(v, p.low, p.high)}

Omitted(p, args) == p.name \notin DOMAIN args \/ args[p.name].json = "null"

\* bind: a default is not checked, and none is a NULL.
Binding(p, args) ==
  IF ~Omitted(p, args) THEN Accepted(p, args[p.name])
  ELSE IF p.required THEN {} ELSE {p.default}

BindRefuses(t, args) ==
  \/ ~(DOMAIN args \subseteq ParamNames(t))
  \/ \E p \in Range(t.params) : Binding(p, args) = {}

\* Of two declarations of a name, both are checked and the last one binds.
Declared(t, n) ==
  LET of == {i \in DOMAIN t.params : t.params[i].name = n}
  IN  t.params[CHOOSE i \in of : \A j \in of : j <= i]

Bound(t, args) ==
  [n \in ParamNames(t) |-> CHOOSE v \in Binding(Declared(t, n), args) : TRUE]

-----------------------------------------------------------------------------
(* The engines                                                             *)

\* psycopg looks at the placeholders and percents of comments too, and sends a
\* value once, by name. PostgreSQL cannot type a NULL that is not cast.
PostgresFails(t, bound) ==
  \/ ~(t.commented \subseteq ParamNames(t))
  \/ \E n \in ParamNames(t) \ t.casts : bound[n] = Nothing

\* Variant of Markers: a name used twice binds once.
MarkersOnce(t) == SetToSeq(Range(t.uses) \cup (t.commented \ {"%"}))

\* positional: a value for every placeholder of the text, comments included.
Markers(t) == t.uses \o SetToSeq(t.commented \ {"%"})

\* The server's parser sees no comment and wants a value for each marker.
TrinoFails(t) ==
  \/ ~(Range(Markers(t)) \subseteq ParamNames(t))
  \/ Len(Markers(t)) # Len(t.uses)

EngineFails(t, bound) == IF t.engine = "trino" THEN TrinoFails(t) ELSE PostgresFails(t, bound)

-----------------------------------------------------------------------------
(* The agent, and what goes on beside                                      *)

Edit(f) ==
  /\ edits < MaxEdits /\ edits' = edits + 1
  /\ \E t \in Authored \cup {Nothing} : t # directory[f] /\ directory' = [directory EXCEPT ![f] = t]
  /\ UNCHANGED <<served, indexed, call>>

\* The sync takes the files, or fails as the server does.
SyncTemplates ==
  /\ Loadable /\ indexed # Loaded
  /\ indexed' = Loaded
  /\ UNCHANGED <<directory, served, call, edits>>

RestartServer ==
  /\ served # << >> /\ edits < MaxEdits /\ edits' = edits + 1
  /\ served' = << >> /\ call' = NoCall
  /\ UNCHANGED <<directory, indexed>>

Search ==
  /\ call.pc = "idle" /\ Service # << >>
  /\ served' = Service
  /\ \E n \in DOMAIN indexed :
       call' = [call EXCEPT !.pc = "found", !.name = n,
                            !.current = n \in DOMAIN Service[1] /\ Service[1][n] = indexed[n]]
  /\ UNCHANGED <<directory, indexed, edits>>

Ended(outcome) == [call EXCEPT !.pc = "ended", !.outcome = outcome]

Describe ==
  /\ call.pc = "found"
  /\ call' = IF call.name \in DOMAIN served[1]
             THEN [call EXCEPT !.pc = "described", !.told = served[1][call.name]]
             ELSE Ended("unknown")
  /\ UNCHANGED <<directory, served, indexed, edits>>

\* The arguments are bound before a connection is used.
RunTemplate ==
  /\ call.pc = "described"
  /\ LET t == served[1][call.name] IN
       \E args \in Arguments :
         call' = IF BindRefuses(t, args)
                 THEN [Ended("refused") EXCEPT !.args = args]
                 ELSE [call EXCEPT !.pc = "bound", !.args = args, !.bound = Bound(t, args)]
  /\ UNCHANGED <<directory, served, indexed, edits>>

\* A statement that takes too long, reads what the reader may not or a table the
\* release lacks, fails; of the others, one row more than the cap is fetched.
Execute ==
  /\ call.pc = "bound"
  /\ LET t == served[1][call.name] IN
       \/ call' = Ended("error of the data")
       \/ /\ EngineFails(t, call.bound)
          /\ call' = Ended("defect")
       \/ /\ ~EngineFails(t, call.bound)
          /\ \E n \in ResultRows :
               LET fetched == IF n > t.maxRows + 1 THEN t.maxRows + 1 ELSE n
               IN  call' = [Ended("rows") EXCEPT
                     !.size = n,
                     !.rows = IF fetched > t.maxRows THEN t.maxRows ELSE fetched,
                     !.more = fetched > t.maxRows]
  /\ UNCHANGED <<directory, served, indexed, edits>>

TemplatesNext ==
  \/ \E f \in TemplateFiles : Edit(f)
  \/ SyncTemplates \/ RestartServer \/ Search \/ Describe \/ RunTemplate \/ Execute

TemplatesSpec == TemplatesInit /\ [][TemplatesNext]_templateVars

-----------------------------------------------------------------------------
(* Properties                                                              *)

\* A value the declaration asks for, passed as JSON has it.
Natural(p, given) ==
  /\ given.json = IF p.type = "date" THEN "str" ELSE p.type
  /\ given.reads = p.type \/ p.type = "str"
  /\ p.choices # Nothing => \E c \in p.choices : c.n = given.n
  /\ p.low # Nothing => given.n >= p.low.n
  /\ p.high # Nothing => given.n <= p.high.n

AsDescribed(t, args) ==
  /\ DOMAIN args \subseteq ParamNames(t)
  /\ \A p \in Range(t.params) : IF Omitted(p, args) THEN ~p.required ELSE Natural(p, args[p.name])

\* What the lint does not look at: constraints of another type than the
\* parameter's, placeholders and percents in comments, NULLs without a cast.
Sound(t) ==
  /\ \A p \in Range(t.params) :
       /\ \A c \in ({p.low, p.high} \cup (IF p.choices = Nothing THEN {} ELSE p.choices)) \ {Nothing} :
            Like(Value(p.type, 0), c)
       /\ ~p.required /\ p.default = Nothing => p.name \in t.casts
  /\ t.commented = {}

\* A template that is found is known if the catalog and the server are of the
\* same files; and a call as the server described it, of a template that is
\* sound beyond what the lint asks, is neither refused nor a defect on either
\* engine. What an engine gets instead is, for every parameter, the (last) declared
\* default of one that was left out, or a value of the type, among the choices
\* and within the bounds, if it is a number at all; and an answer that says it
\* is complete is not cut.
CallsAsDeclared ==
  /\ call.outcome = "unknown" => ~call.current
  /\ call.outcome \in {"refused", "defect"} => ~(Sound(call.told) /\ AsDescribed(call.told, call.args))
  /\ call.outcome = "rows" => call.more \/ call.rows = call.size
  /\ call.outcome = "rows" =>
       \A n \in ParamNames(call.told) :
         LET p == Declared(call.told, n)
             v == call.bound[n]
         IN  IF Omitted(p, call.args) THEN v = p.default
             ELSE \/ v.type = "nan"
                  \/ /\ v.type = p.type
                     /\ p.choices # Nothing => \E c \in p.choices : c.n = v.n
                     /\ p.low # Nothing => p.low.n <= v.n
                     /\ p.high # Nothing => v.n <= p.high.n
=============================================================================
