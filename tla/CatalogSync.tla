---------------------------- MODULE CatalogSync ----------------------------
(***************************************************************************)
(* The semantic catalog of the gold schema: catalog.sync and               *)
(* catalog.search of mcp_deployment (catalog.py).                          *)
(*                                                                         *)
(* A sync reads what is stored, embeds what differs from the manifest it   *)
(* was given, or was embedded by another model, and writes it in one       *)
(* transaction with the deletion of what is gone.  Syncs of other          *)
(* manifests and models run beside it: what a sync writes does not depend  *)
(* on what the rows hold by then, and its row locks last until it commits, *)
(* so its writes are one step.  A search is one statement.                 *)
(***************************************************************************)
EXTENDS Integers

CONSTANTS
  Syncs,       \* sessions that call sync
  Embedders,   \* embedding models
  Manifests,   \* functions from some entries to a content and an ordinal
  MaxSyncs     \* bound

VARIABLES
  entries,   \* catalog.entries: entry id -> content, ordinal, embedder
  sync,      \* sync[s]: << >>, or the manifest, the model and what it has read
  ended,     \* number of syncs that have begun
  last,      \* << >> or the sync that committed last, and what it replaced (history)
  mingled    \* TRUE once a sync committed what another had not read (history)

catalogVars == <<entries, sync, ended, last, mingled>>

CatalogInit ==
  /\ entries = << >>
  /\ sync = [s \in Syncs |-> << >>]
  /\ ended = 0 /\ last = << >> /\ mingled = FALSE

\* The content is hashed, with the model; the ordinal is not.
Key(row) == <<row.content, row.embedder>>

\* What an entry of the manifest becomes in the table.
Row(manifest, model, e) ==
  [content |-> manifest[e].content, ordinal |-> manifest[e].ordinal, embedder |-> model]

ReadExisting(s) ==
  /\ sync[s] = << >> /\ ended < MaxSyncs
  /\ ended' = ended + 1
  /\ \E manifest \in Manifests, model \in Embedders :
       sync' = [sync EXCEPT ![s] =
                  <<[manifest |-> manifest, model |-> model, existing |-> entries]>>]
  /\ UNCHANGED <<entries, last, mingled>>

\* Variant of ToEmbed: a sync with another model embeds what has changed.
ChangedContent(job) ==
  {e \in DOMAIN job.manifest :
     e \in DOMAIN job.existing =>
       job.existing[e].content # job.manifest[e].content}

ToEmbed(job) ==
  {e \in DOMAIN job.manifest :
     e \in DOMAIN job.existing =>
       Key(job.existing[e]) # Key(Row(job.manifest, job.model, e))}

Gone(job) == DOMAIN job.existing \ DOMAIN job.manifest

Commit(s) ==
  /\ sync[s] # << >>
  /\ LET job == sync[s][1]
         written == ToEmbed(job)
     IN  entries' = [e \in (DOMAIN entries \cup written) \ Gone(job) |->
                       IF e \in written THEN Row(job.manifest, job.model, e) ELSE entries[e]]
  /\ last' = <<[job |-> sync[s][1], alone |-> sync[s][1].existing = entries]>>
  /\ mingled' = (mingled \/ sync[s][1].existing # entries)
  /\ sync' = [sync EXCEPT ![s] = << >>]
  /\ UNCHANGED ended

\* The embedder fails, the session is lost, or it is the victim of a deadlock.
RollBack(s) ==
  /\ sync[s] # << >>
  /\ sync' = [sync EXCEPT ![s] = << >>]
  /\ UNCHANGED <<entries, ended, last, mingled>>

CatalogNext == \E s \in Syncs : ReadExisting(s) \/ Commit(s) \/ RollBack(s)

CatalogSpec == CatalogInit /\ [][CatalogNext]_catalogVars

-----------------------------------------------------------------------------
(* Properties                                                              *)

\* What a search with the model sees.
Searched(model) == {e \in DOMAIN entries : entries[e].embedder = model}

\* A sync that no other committed beside leaves the catalog its manifest says,
\* whatever earlier ones left; a column whose content had not changed may keep
\* the place it had.
SyncLeavesManifest ==
  last # << >> /\ last[1].alone =>
    LET job == last[1].job
    IN  /\ DOMAIN entries = DOMAIN job.manifest
        /\ \A e \in DOMAIN entries :
             /\ Key(entries[e]) = Key(Row(job.manifest, job.model, e))
             /\ \/ entries[e].ordinal = job.manifest[e].ordinal
                \/ e \in DOMAIN job.existing /\ Key(job.existing[e]) = Key(entries[e])

\* While syncs do not commit beside each other, a search finds the whole
\* catalog or, with a model that is not the last sync's, nothing: it never
\* ranks part of it.
SearchSeesAllOrNothing ==
  \A model \in Embedders :
    ~mingled => Searched(model) \in {{}, DOMAIN entries}

\* The catalog is that of one manifest: what a sync by itself leaves, and what a
\* search sees while syncs are not mingled.
CatalogOfOneManifest == SyncLeavesManifest /\ SearchSeesAllOrNothing
=============================================================================
