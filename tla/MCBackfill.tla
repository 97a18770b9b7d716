----------------------------- MODULE MCBackfill -----------------------------
(***************************************************************************)
(* Two instances for TLC in one: a backfill through the slots of the       *)
(* hourly pipeline, and changes of the schema of a table with what the     *)
(* agent finds of them (SchemaWatch). The subject says which one a         *)
(* behaviour is of; the other stays as it began.                           *)
(***************************************************************************)
EXTENDS MCHourlyPipeline, SchemaWatch

VARIABLE subject

Columns == [page_type |-> "int", event_type |-> "string", event_ts |-> "string"]

NoTable == Created /\ data = [i \in Ids |-> {}]

MCInit ==
  /\ Init
  /\ \/ subject = "backfill" /\ NoTable
     \/ /\ subject = "schema" /\ SchemaInit
        \* each set of values once, as both columns' values
        /\ data[IdOf(EnumColumn)] = data[IdOf(DateColumn)]

BackfillStep == subject = "backfill" /\ Next /\ UNCHANGED <<schema, subject>>
SchemaStep == subject = "schema" /\ SchemaNext /\ UNCHANGED <<vars, subject>>

\* Fair are behaviours of the backfill only: in the others the hours stay queued
\* for good, and they are there for what holds in every state.
MCSpec == MCInit /\ [][BackfillStep \/ SchemaStep]_<<subject, vars, schema>> /\ Fairness
=============================================================================
