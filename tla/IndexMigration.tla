--------------------------- MODULE IndexMigration ---------------------------
(***************************************************************************)
(* The vector index and its migration to another embedding model           *)
(* (pinecone_deployment: store.py, migrate.py, api.py).                    *)
(*                                                                         *)
(* A loader keeps the live index up to date.  A migration opens a shadow   *)
(* index for the new model, backfills it from the source of truth batch by *)
(* batch, has new conversations written to both, moves the pointer file    *)
(* and deletes the old index.  API processes read the pointer when they    *)
(* open their store and keep that store.  Upserts may give up after their  *)
(* last retry, with the vectors written or not; tenants are offboarded at  *)
(* any time.  The service returns an index's tags, or not (the emulator).  *)
(***************************************************************************)
EXTENDS Integers, Sequences

CONSTANTS
  Conversations,
  AccountOf,      \* AccountOf[c]: the tenant of conversation c
  Old, New,       \* the embedding models
  Base, Shadow,   \* the names of the indexes
  None,
  MaxFaults,      \* bound: upserts that give up, reads of a record that fail
  MaxRestarts     \* bound: restarts of the API

Accounts == {AccountOf[c] : c \in Conversations}
Models == {Old, New}
Names == {Base, Shadow}
\* What an index holds: a tag, a record, and the model of each vector.
Indexes == [tag : Models, record : Models \cup {None},
            vector : [Conversations -> Models \cup {None}]]

ASSUME NamesAssumption ==
  /\ Old # New /\ Base # Shadow
  /\ None \notin {Old, New, Base, Shadow} \cup Indexes

Openers == {"load", "migrate", "api"}

VARIABLES
  tags,        \* whether the service returns the tags of an index
  index,       \* index[n]: None, or its tag, its record and its vectors
  opening,     \* opening[o]: a store whose ensure_index is under way
  store,       \* store[o]: the store o has opened: an index and a model
  embedder,    \* EMBEDDER of the API
  pointer,     \* the active-index file: None, "torn" or a name
  conversation, \* the conversations in the source of truth
  mode,        \* where the loader writes: "live", "dual" or "new"
  loading,     \* the upsert of the loader: << >> or what is left of it
  backfill,    \* the backfill: << >> or what is left of it
  filled,      \* "no", "gap", "yes": a backfill completed, begun when dual
  offboarded,  \* tenants whose vectors were deleted
  acked,       \* conversations whose upsert returned (history)
  crossed,     \* tenants offboarded beside a writer or a migration (history)
  overlapped,  \* TRUE once two opened one index at a time (history)
  faults, restarts

stores == <<tags, index, opening, store, embedder, overlapped>>
writers == <<conversation, mode, loading, backfill, filled, acked>>
tenants == <<offboarded, crossed>>
vars == <<stores, pointer, writers, tenants, faults, restarts>>

Of(a) == {c \in Conversations : AccountOf[c] = a}

Init ==
  /\ tags \in BOOLEAN
  /\ index = [n \in Names |-> None]
  /\ opening = [o \in Openers |-> None] /\ store = [o \in Openers |-> None]
  /\ embedder = Old /\ pointer = None
  /\ conversation = {} /\ mode = "live" /\ loading = << >> /\ backfill = << >>
  /\ filled = "no" /\ offboarded = {} /\ acked = {} /\ crossed = {}
  /\ overlapped = FALSE /\ faults = 0 /\ restarts = 0

-----------------------------------------------------------------------------
(* ConversationStore                                                       *)

OpenedElsewhere(o, n) == \E p \in Openers \ {o} : opening[p] # None /\ opening[p].name = n

\* Variant of Look: only the record says which model the index holds.
LookAtRecord(o, n, m, lost) ==
  LET fresh == [tag |-> m, record |-> None, vector |-> [c \in Conversations |-> None]]
      seen == IF index[n] = None THEN fresh ELSE index[n]
      recorded == IF lost THEN None ELSE seen.record
  IN  /\ index' = [index EXCEPT ![n] = seen]
      /\ opening' = [opening EXCEPT ![o] = [name |-> n, model |-> m, recorded |-> recorded]]
      /\ overlapped' = (overlapped \/ OpenedElsewhere(o, n))
      /\ faults' = faults + IF lost THEN 1 ELSE 0

\* ensure_index up to what it decides on: the index is created if missing; the
\* tag says which model it holds, or the record, when it can be read.
Look(o, n, m, lost) ==
  LET missing == index[n] = None
      fresh == [tag |-> m, record |-> None, vector |-> [c \in Conversations |-> None]]
      seen == IF missing THEN fresh ELSE index[n]
      recorded == IF tags THEN seen.tag ELSE IF lost THEN None ELSE seen.record
  IN  /\ index' = [index EXCEPT ![n] = seen]
      /\ opening' = [opening EXCEPT ![o] = [name |-> n, model |-> m, recorded |-> recorded]]
      /\ overlapped' = (overlapped \/ OpenedElsewhere(o, n))
      /\ faults' = faults + IF lost THEN 1 ELSE 0

Begin(o, n, m) ==
  /\ store[o] = None /\ opening[o] = None
  /\ \E lost \in BOOLEAN : (lost => faults < MaxFaults /\ ~tags) /\ Look(o, n, m, lost)
  /\ UNCHANGED <<tags, store, embedder, pointer, writers, tenants, restarts>>

OpenLive == mode = "live" /\ Begin("load", Base, Old)
OpenShadow == store["load"] # None /\ Begin("migrate", Shadow, New)

\* The rest of ensure_index: an index of another model is refused, and one that
\* nothing is recorded of becomes the embedder's.
Decide(o) ==
  /\ opening[o] # None
  /\ LET n == opening[o].name
         m == opening[o].model
         claimed == opening[o].recorded = None /\ index[n] # None
         accepted == opening[o].recorded = m \/ claimed
     IN  /\ index' = IF claimed THEN [index EXCEPT ![n].record = m] ELSE index
         /\ store' = [store EXCEPT ![o] = IF accepted THEN [name |-> n, model |-> m]
                                          ELSE None]
  /\ opening' = [opening EXCEPT ![o] = None]
  /\ UNCHANGED <<tags, embedder, overlapped, pointer, writers, tenants, faults, restarts>>

\* The vectors of cs as store o writes them, under their own ids.
Written(o, cs) ==
  LET s == store[o]
  IN  [index EXCEPT ![s.name].vector = [c \in Conversations |->
                                          IF c \in cs THEN s.model ELSE @[c]]]

Reachable(o) == store[o] # None /\ index[store[o].name] # None

\* One batch: `returned' when an attempt succeeded; after the last attempt the
\* vectors may be there all the same. Without the index every attempt fails.
UpsertBatch(o, cs, returned) ==
  IF Reachable(o)
  THEN /\ returned \/ faults < MaxFaults
       /\ index' = Written(o, cs) \/ (~returned /\ index' = index)
       /\ faults' = faults + IF returned THEN 0 ELSE 1
  ELSE ~returned /\ UNCHANGED <<index, faults>>

-----------------------------------------------------------------------------
(* The loader                                                              *)

\* A new conversation, to be written where the loader now writes.
Deliver(c) ==
  /\ loading = << >>
  /\ c \notin conversation /\ AccountOf[c] \notin offboarded
  /\ store[IF mode = "new" THEN "migrate" ELSE "load"] # None
  /\ conversation' = conversation \cup {c}
  /\ loading' = <<[conv |-> c,
                   stores |-> CASE mode = "live" -> <<"load">>
                                [] mode = "dual" -> <<"load", "migrate">>
                                [] mode = "new" -> <<"migrate">>]>>
  /\ UNCHANGED <<stores, pointer, mode, backfill, filled, acked, tenants, faults, restarts>>

\* ConversationStore.upsert, or DualWriter.upsert: the live store, then the
\* shadow. What one raises ends it.
Upsert(returned) ==
  /\ loading # << >>
  /\ LET job == loading[1]
         last == Len(job.stores) = 1
     IN  /\ UpsertBatch(Head(job.stores), {job.conv}, returned)
         /\ loading' = IF returned /\ ~last THEN <<[job EXCEPT !.stores = Tail(@)]>> ELSE << >>
         /\ acked' = IF returned /\ last THEN acked \cup {job.conv} ELSE acked
  /\ UNCHANGED <<tags, opening, store, embedder, overlapped, pointer, conversation, mode,
                 backfill, filled, tenants, restarts>>

SwitchWriter ==
  /\ \/ mode = "live" /\ store["migrate"] # None /\ mode' = "dual"
     \/ mode = "dual" /\ pointer = Shadow /\ mode' = "new"
  /\ UNCHANGED <<stores, pointer, conversation, loading, backfill, filled, acked, tenants,
                 faults, restarts>>

-----------------------------------------------------------------------------
(* The migration                                                           *)

\* Variant of BackfillStart: from a list taken before the offboardings.
BackfillFromList ==
  /\ backfill = << >> /\ store["migrate"] # None /\ pointer = None
  /\ backfill' = <<[left |-> conversation \cup {c \in Conversations : AccountOf[c] \in offboarded},
                    dual |-> mode # "live"]>>
  /\ UNCHANGED <<stores, pointer, conversation, mode, loading, filled, acked, tenants,
                 faults, restarts>>

\* The backfill reads the source of truth.
BackfillStart ==
  /\ backfill = << >> /\ store["migrate"] # None /\ pointer = None
  /\ backfill' = <<[left |-> conversation, dual |-> mode # "live"]>>
  /\ UNCHANGED <<stores, pointer, conversation, mode, loading, filled, acked, tenants,
                 faults, restarts>>

\* Variant of BackfillBatch: a batch that fails is left out.
BackfillSkips(a, returned) ==
  /\ backfill # << >> /\ Of(a) \cap backfill[1].left # {}
  /\ UpsertBatch("migrate", Of(a) \cap backfill[1].left, returned)
  /\ backfill' = <<[backfill[1] EXCEPT !.left = @ \ Of(a)]>>
  /\ UNCHANGED <<tags, opening, store, embedder, overlapped, pointer, conversation, mode,
                 loading, filled, acked, tenants, restarts>>

\* The batch of one namespace; a failure ends the backfill, which is run again.
BackfillBatch(a, returned) ==
  /\ backfill # << >> /\ Of(a) \cap backfill[1].left # {}
  /\ UpsertBatch("migrate", Of(a) \cap backfill[1].left, returned)
  /\ backfill' = IF returned THEN <<[backfill[1] EXCEPT !.left = @ \ Of(a)]>> ELSE << >>
  /\ UNCHANGED <<tags, opening, store, embedder, overlapped, pointer, conversation, mode,
                 loading, filled, acked, tenants, restarts>>

BackfillDone ==
  /\ backfill # << >> /\ backfill[1].left = {}
  /\ filled' = IF backfill[1].dual \/ filled = "yes" THEN "yes" ELSE "gap"
  /\ backfill' = << >>
  /\ UNCHANGED <<stores, pointer, conversation, mode, loading, acked, tenants, faults,
                 restarts>>

\* cut_over, after a backfill. The file is written in place.
CutOver ==
  /\ filled # "no" /\ backfill = << >>
  /\ \/ pointer = None /\ pointer' = "torn"
     \/ pointer = "torn" /\ pointer' = Shadow
  /\ UNCHANGED <<stores, writers, tenants, faults, restarts>>

\* delete_index, once nothing reads or writes the old index.
Retire ==
  /\ pointer = Shadow /\ mode = "new" /\ loading = << >> /\ index[Base] # None
  /\ \A o \in {"migrate", "api"} : store[o] # None => store[o].name # Base
  /\ index' = [index EXCEPT ![Base] = None]
  /\ store' = [store EXCEPT !["load"] = None]
  /\ UNCHANGED <<tags, opening, embedder, overlapped, pointer, writers, tenants, faults,
                 restarts>>

\* delete_account, on the index the pointer names: by namespace, or by the ids
\* that are listed with the account's prefix.
Offboard(a) ==
  /\ a \notin offboarded
  /\ LET n == IF pointer = Shadow THEN Shadow ELSE Base
         busy == \/ \A m \in Names : index[m] # None
                 \/ loading # << >> /\ loading[1].conv \in Of(a)
                 \/ backfill # << >> /\ backfill[1].left \cap Of(a) # {}
     IN  /\ index[n] # None
         /\ index' = [index EXCEPT ![n].vector = [c \in Conversations |->
                                                    IF c \in Of(a) THEN None ELSE @[c]]]
         /\ crossed' = IF busy THEN crossed \cup {a} ELSE crossed
  /\ offboarded' = offboarded \cup {a}
  /\ conversation' = conversation \ Of(a)
  /\ UNCHANGED <<tags, opening, store, embedder, overlapped, pointer, mode, loading,
                 backfill, filled, acked, faults, restarts>>

-----------------------------------------------------------------------------
(* The API                                                                 *)

\* get_store: the pointer is read once; a torn one raises, and the next request
\* tries again.
StartApi ==
  /\ pointer # "torn"
  /\ Begin("api", IF pointer = None THEN Base ELSE pointer, embedder)

\* A process with another EMBEDDER, or the same: what was cached is gone.
Restart(m) ==
  /\ restarts < MaxRestarts /\ restarts' = restarts + 1
  /\ embedder' = m
  /\ store' = [store EXCEPT !["api"] = None]
  /\ opening' = [opening EXCEPT !["api"] = None]
  /\ UNCHANGED <<tags, index, overlapped, pointer, writers, tenants, faults>>

Next ==
  \/ OpenLive \/ OpenShadow \/ StartApi
  \/ \E o \in Openers : Decide(o)
  \/ \E c \in Conversations : Deliver(c)
  \/ \E returned \in BOOLEAN : Upsert(returned)
  \/ SwitchWriter
  \/ BackfillStart \/ BackfillDone \/ CutOver \/ Retire
  \/ \E a \in Accounts, returned \in BOOLEAN : BackfillBatch(a, returned)
  \/ \E a \in Accounts : Offboard(a)
  \/ \E m \in Models : Restart(m)

Spec == Init /\ [][Next]_vars

-----------------------------------------------------------------------------
(* Properties                                                              *)

\* No store searches or writes an index that holds vectors of another model,
\* however the stores are opened beside each other, when the service returns
\* tags; without tags, as long as the record could be read and the opens did
\* not overlap.
OneModelPerIndex ==
  (tags \/ (faults = 0 /\ ~overlapped)) =>
    \A o \in Openers : Reachable(o) =>
      \A c \in Conversations :
        index[store[o].name].vector[c] \in {None, store[o].model}

\* After the pointer has moved, the index it names has every conversation (of a
\* tenant still there) that was acknowledged before or since, if a backfill that
\* read the source of truth after dual writing had begun has completed.
CutOverKeepsAll ==
  pointer = Shadow /\ filled = "yes" =>
    \A c \in acked :
      AccountOf[c] \notin offboarded => index[Shadow].vector[c] # None

\* The vectors of an offboarded tenant come back only if a writer or a
\* migration was under way beside the deletion: DualWriter does not delete.
OffboardedStaysGone ==
  \A n \in Names : index[n] # None =>
    \A c \in Conversations :
      AccountOf[c] \in offboarded \ crossed => index[n].vector[c] = None
=============================================================================
