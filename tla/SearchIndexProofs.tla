------------------------- MODULE SearchIndexProofs --------------------------
(***************************************************************************)
(* What is searched by embeddings: the catalog of the gold schema is that  *)
(* of one manifest (CatalogSync), and the vector index, whatever the       *)
(* stores, the loader, the migration, the offboardings and the API do      *)
(* beside each other, holds one model per index, keeps what was            *)
(* acknowledged across the cut-over and stays without the vectors of an    *)
(* offboarded tenant (IndexMigration); and a template that is found in the *)
(* catalog and called is run as it declares (QueryTemplates).              *)
(***************************************************************************)
EXTENDS IndexMigration, CatalogSync, QueryTemplates, TLAPS, FiniteSetTheorems,
        WellFoundedInduction

-----------------------------------------------------------------------------
(* The catalog.  Its property is inductive as it stands.                   *)

LEMMA InitCatalog == CatalogInit => CatalogOfOneManifest
BY DEF CatalogInit, CatalogOfOneManifest, SyncLeavesManifest, SearchSeesAllOrNothing, Searched

\* A sync that commits on the entries it has read leaves its own catalog.
LEMMA CommitAlone ==
  ASSUME NEW s \in Syncs, Commit(s), sync[s][1].existing = entries
  PROVE  LET job == sync[s][1]
         IN  /\ DOMAIN entries' = DOMAIN job.manifest
             /\ \A e \in DOMAIN entries' :
                  /\ Key(entries'[e]) = Key(Row(job.manifest, job.model, e))
                  /\ entries'[e].embedder = job.model
                  /\ \/ entries'[e].ordinal = job.manifest[e].ordinal
                     \/ e \in DOMAIN job.existing /\ Key(job.existing[e]) = Key(entries'[e])
<1>. DEFINE job == sync[s][1]
            written == ToEmbed(job)
<1>1. entries' = [e \in (DOMAIN entries \cup written) \ Gone(job) |->
                    IF e \in written THEN Row(job.manifest, job.model, e) ELSE entries[e]]
  BY DEF Commit
<1>2. DOMAIN entries' = DOMAIN job.manifest
  BY <1>1 DEF ToEmbed, Gone
<1>3. ASSUME NEW e \in DOMAIN entries', e \in written
      PROVE  entries'[e] = Row(job.manifest, job.model, e)
  BY <1>1, <1>3
<1>4. ASSUME NEW e \in DOMAIN entries', e \notin written
      PROVE  /\ e \in DOMAIN entries /\ entries'[e] = entries[e]
             /\ Key(entries[e]) = Key(Row(job.manifest, job.model, e))
  BY <1>1, <1>2, <1>4 DEF ToEmbed
<1>5. ASSUME NEW e \in DOMAIN entries'
      PROVE  /\ Key(entries'[e]) = Key(Row(job.manifest, job.model, e))
             /\ \/ entries'[e].ordinal = job.manifest[e].ordinal
                \/ e \in DOMAIN job.existing /\ Key(job.existing[e]) = Key(entries'[e])
  <2>1. CASE e \in written
    BY <1>3, <2>1 DEF Row
  <2>2. CASE e \notin written
    BY <1>4, <2>2
  <2>. QED
    BY <2>1, <2>2
<1>6. \A e \in DOMAIN entries' : entries'[e].embedder = job.model
  BY <1>5 DEF Key, Row
<1>. QED
  BY <1>2, <1>5, <1>6

LEMMA NextCatalog == CatalogOfOneManifest /\ [CatalogNext]_catalogVars => CatalogOfOneManifest'
<1>. SUFFICES ASSUME CatalogOfOneManifest, [CatalogNext]_catalogVars PROVE CatalogOfOneManifest'
  OBVIOUS
<1>1. CASE UNCHANGED <<entries, last, mingled>>
  BY <1>1 DEF CatalogOfOneManifest, SyncLeavesManifest, SearchSeesAllOrNothing, Searched
<1>2. ASSUME NEW s \in Syncs, Commit(s) PROVE CatalogOfOneManifest'
  <2>1. /\ last' = <<[job |-> sync[s][1], alone |-> sync[s][1].existing = entries]>>
        /\ mingled' = (mingled \/ sync[s][1].existing # entries)
    BY <1>2 DEF Commit
  <2>2. last'[1].job = sync[s][1] /\ last'[1].alone = (sync[s][1].existing = entries)
    BY <2>1
  <2>3. SyncLeavesManifest'
    <3>. SUFFICES ASSUME sync[s][1].existing = entries
                  PROVE  LET job == last'[1].job
                         IN  /\ DOMAIN entries' = DOMAIN job.manifest
                             /\ \A e \in DOMAIN entries' :
                                  /\ Key(entries'[e]) = Key(Row(job.manifest, job.model, e))
                                  /\ \/ entries'[e].ordinal = job.manifest[e].ordinal
                                     \/ e \in DOMAIN job.existing
                                        /\ Key(job.existing[e]) = Key(entries'[e])
      BY <2>2 DEF SyncLeavesManifest
    <3>. QED
      BY <1>2, <2>2, CommitAlone
  <2>4. SearchSeesAllOrNothing'
    <3>. SUFFICES ASSUME NEW model \in Embedders, ~mingled'
                  PROVE  Searched(model)' \in {{}, DOMAIN entries'}
      BY DEF SearchSeesAllOrNothing
    <3>1. \A e \in DOMAIN entries' : entries'[e].embedder = sync[s][1].model
      BY <1>2, <2>1, CommitAlone
    <3>2. CASE model = sync[s][1].model
      BY <3>1, <3>2 DEF Searched
    <3>3. CASE model # sync[s][1].model
      BY <3>1, <3>3 DEF Searched
    <3>. QED
      BY <3>2, <3>3
  <2>. QED
    BY <2>3, <2>4 DEF CatalogOfOneManifest
<1>. QED
  BY <1>1, <1>2 DEF CatalogNext, ReadExisting, RollBack, catalogVars

\* A sync that no other committed beside leaves the catalog of its manifest, and
\* a search sees all of it or nothing (catalog.sync, catalog.search).
THEOREM CatalogIsOfOneManifest == CatalogSpec => []CatalogOfOneManifest
BY InitCatalog, NextCatalog, PTL DEF CatalogSpec

-----------------------------------------------------------------------------
(* The vector index: what the three properties rest on.                    *)

Routes == {<<"load">>, <<"load", "migrate">>, <<"migrate">>}

IndexTypes ==
  /\ tags \in BOOLEAN
  /\ index \in [Names -> Indexes \cup {None}]
  /\ opening \in [Openers -> [name : Names, model : Models, recorded : Models \cup {None}]
                               \cup {None}]
  /\ store \in [Openers -> [name : Names, model : Models] \cup {None}]
  /\ embedder \in Models
  /\ pointer \in {None, "torn", Shadow}
  /\ mode \in {"live", "dual", "new"}
  /\ conversation \subseteq Conversations
  /\ loading # << >> => loading[1] \in [conv : Conversations, stores : Routes]
  /\ backfill # << >> => backfill[1] \in [left : SUBSET Conversations, dual : BOOLEAN]
  /\ filled \in {"no", "gap", "yes"}
  /\ overlapped \in BOOLEAN
  /\ faults \in Nat

\* Once this holds it holds for good, and nothing opens the old index again.
Retired == pointer = Shadow /\ mode = "new"

\* An index that is being opened, or is open, exists, but for the retired one.
Found ==
  \A o \in Openers :
    /\ opening[o] # None /\ index[opening[o].name] = None =>
         opening[o].name = Base /\ Retired
    /\ store[o] # None /\ index[store[o].name] = None => store[o].name = Base /\ Retired

\* The migration has the shadow index open as long as anything depends on it.
Steady ==
  /\ \A o \in Openers : store[o] # None => opening[o] = None
  /\ opening["migrate"] # None => opening["migrate"].name = Shadow
  /\ store["migrate"] # None => store["migrate"].name = Shadow
  /\ mode # "live" \/ backfill # << >> \/ filled # "no" => store["migrate"] # None

SteadyInv == IndexTypes /\ Found /\ Steady

LEMMA InitSteady == Init => SteadyInv
<1>. SUFFICES ASSUME Init PROVE SteadyInv
  OBVIOUS
<1>1. IndexTypes
  BY DEF Init, IndexTypes, Models
<1>2. Found
  BY DEF Init, Found
<1>3. Steady
  BY DEF Init, Steady, Openers
<1>. QED
  BY <1>1, <1>2, <1>3 DEF SteadyInv

-----------------------------------------------------------------------------
(* What the operations on a store do to the index.                         *)

\* An open finds the index as it was or creates it empty, and what it takes for
\* its model is the tag, or the record unless the read of it failed.
LEMMA BeginFacts ==
  ASSUME SteadyInv, NEW o \in Openers, NEW n \in Names, NEW m \in Models, Begin(o, n, m)
  PROVE  \E seen \in Indexes, recorded \in Models \cup {None} :
           /\ index' = [index EXCEPT ![n] = seen]
           /\ index[n] # None => seen = index[n]
           /\ index[n] = None => \A c \in Conversations : seen.vector[c] = None
           /\ opening' = [opening EXCEPT ![o] = [name |-> n, model |-> m, recorded |-> recorded]]
           /\ tags => recorded = seen.tag
           /\ ~tags /\ faults' = 0 => faults = 0 /\ recorded = seen.record
           /\ overlapped' = (overlapped \/ OpenedElsewhere(o, n))
           /\ faults' \in Nat
<1>1. PICK lost \in BOOLEAN : (lost => faults < MaxFaults /\ ~tags) /\ Look(o, n, m, lost)
  BY DEF Begin
<1>. DEFINE fresh == [tag |-> m, record |-> None, vector |-> [c \in Conversations |-> None]]
            seen == IF index[n] = None THEN fresh ELSE index[n]
            recorded == IF tags THEN seen.tag ELSE IF lost THEN None ELSE seen.record
<1>2. /\ index' = [index EXCEPT ![n] = seen]
      /\ opening' = [opening EXCEPT ![o] = [name |-> n, model |-> m, recorded |-> recorded]]
      /\ overlapped' = (overlapped \/ OpenedElsewhere(o, n))
      /\ faults' = faults + IF lost THEN 1 ELSE 0
  BY <1>1 DEF Look
<1>3. fresh \in Indexes
  BY DEF Indexes
<1>4. seen \in Indexes
  <2>1. CASE index[n] = None
    BY <1>3, <2>1
  <2>2. CASE index[n] # None
    BY <2>2 DEF SteadyInv, IndexTypes
  <2>. QED
    BY <2>1, <2>2
<1>5. recorded \in Models \cup {None}
  BY <1>4 DEF Indexes
<1>6. index[n] = None => \A c \in Conversations : seen.vector[c] = None
  OBVIOUS
<1>7. faults \in Nat
  BY DEF SteadyInv, IndexTypes
<1>8. faults' \in Nat /\ (faults' = 0 => ~lost /\ faults = 0)
  BY <1>1, <1>2, <1>7
<1>. HIDE DEF seen, recorded
<1>9. /\ index[n] # None => seen = index[n]
      /\ tags => recorded = seen.tag
      /\ ~tags /\ ~lost => recorded = seen.record
  BY <1>1 DEF seen, recorded
<1>. QED
  BY <1>2, <1>4, <1>5, <1>6, <1>8, <1>9

\* An upsert that returned has written its vectors; one that gave up may have.
LEMMA UpsertFacts ==
  ASSUME SteadyInv, NEW o \in Openers, NEW cs \in SUBSET Conversations,
         NEW returned \in BOOLEAN, UpsertBatch(o, cs, returned)
  PROVE  /\ \/ UNCHANGED index
            \/ Reachable(o) /\ index' = Written(o, cs)
         /\ returned => Reachable(o) /\ index' = Written(o, cs)
         /\ faults' \in Nat
         /\ faults' = 0 => faults = 0
<1>1. faults \in Nat
  BY DEF SteadyInv, IndexTypes
<1>2. CASE Reachable(o)
  BY <1>1, <1>2 DEF UpsertBatch
<1>3. CASE ~Reachable(o)
  BY <1>1, <1>3 DEF UpsertBatch
<1>. QED
  BY <1>2, <1>3

LEMMA WrittenFacts ==
  ASSUME SteadyInv, NEW o \in Openers, Reachable(o), NEW cs \in SUBSET Conversations,
         index' = Written(o, cs)
  PROVE  LET n == store[o].name
         IN  /\ n \in Names /\ store[o].model \in Models
             /\ index[n] \in Indexes /\ index'[n] \in Indexes
             /\ index'[n].tag = index[n].tag /\ index'[n].record = index[n].record
             /\ \A c \in Conversations :
                  index'[n].vector[c] = IF c \in cs THEN store[o].model ELSE index[n].vector[c]
             /\ \A i \in Names \ {n} : index'[i] = index[i]
             /\ index' \in [Names -> Indexes \cup {None}]
<1>. DEFINE n == store[o].name
            vector == [c \in Conversations |->
                         IF c \in cs THEN store[o].model ELSE index[n].vector[c]]
<1>1. n \in Names /\ store[o].model \in Models
  BY DEF SteadyInv, IndexTypes, Reachable
<1>2. index[n] \in Indexes /\ index \in [Names -> Indexes \cup {None}]
  BY <1>1 DEF SteadyInv, IndexTypes, Reachable
<1>3. index' = [index EXCEPT ![n] = [index[n] EXCEPT !.vector = vector]]
  BY <1>1, <1>2 DEF Written
<1>4. vector \in [Conversations -> Models \cup {None}]
  BY <1>1, <1>2 DEF Indexes
<1>. HIDE DEF n, vector
<1>5. [index[n] EXCEPT !.vector = vector] =
        [tag |-> index[n].tag, record |-> index[n].record, vector |-> vector]
  BY <1>2 DEF Indexes
<1>6. index'[n] = [tag |-> index[n].tag, record |-> index[n].record, vector |-> vector]
  BY <1>1, <1>2, <1>3, <1>5
<1>7. index'[n] \in Indexes
  BY <1>2, <1>4, <1>6 DEF Indexes
<1>8. \A i \in Names \ {n} : index'[i] = index[i]
  BY <1>1, <1>2, <1>3
<1>9. index' \in [Names -> Indexes \cup {None}]
  BY <1>2, <1>3, <1>6, <1>7
<1>10. index'[n].tag = index[n].tag /\ index'[n].record = index[n].record /\ index'[n].vector = vector
  BY <1>6
<1>. QED
  BY <1>1, <1>2, <1>7, <1>8, <1>9, <1>10 DEF n, vector

LEMMA UpsertKeeps ==
  ASSUME SteadyInv, NEW o \in Openers, NEW cs \in SUBSET Conversations,
         NEW returned \in BOOLEAN, UpsertBatch(o, cs, returned)
  PROVE  /\ index' \in [Names -> Indexes \cup {None}] /\ faults' \in Nat
         /\ \A i \in Names : index'[i] = None => index[i] = None
<1>1. /\ UNCHANGED index \/ (Reachable(o) /\ index' = Written(o, cs))
      /\ faults' \in Nat
  BY UpsertFacts
<1>2. index \in [Names -> Indexes \cup {None}]
  BY DEF SteadyInv, IndexTypes
<1>3. CASE UNCHANGED index
  BY <1>1, <1>2, <1>3
<1>4. CASE Reachable(o) /\ index' = Written(o, cs)
  <2>1. /\ index' \in [Names -> Indexes \cup {None}]
        /\ index'[store[o].name] \in Indexes
        /\ \A i \in Names \ {store[o].name} : index'[i] = index[i]
    BY <1>4, WrittenFacts
  <2>. QED
    BY <1>1, <2>1, NamesAssumption
<1>. QED
  BY <1>1, <1>3, <1>4

\* An offboarding takes the tenant's vectors, and nothing else.
LEMMA OffboardFacts ==
  ASSUME SteadyInv, NEW a \in Accounts, Offboard(a)
  PROVE  LET n == IF pointer = Shadow THEN Shadow ELSE Base
         IN  /\ n \in Names /\ index[n] \in Indexes /\ index[n] # None
             /\ index'[n] \in Indexes
             /\ index'[n].tag = index[n].tag /\ index'[n].record = index[n].record
             /\ \A c \in Conversations :
                  index'[n].vector[c] = IF c \in Of(a) THEN None ELSE index[n].vector[c]
             /\ \A i \in Names \ {n} : index'[i] = index[i]
             /\ index' \in [Names -> Indexes \cup {None}]
<1>. DEFINE n == IF pointer = Shadow THEN Shadow ELSE Base
            vector == [c \in Conversations |-> IF c \in Of(a) THEN None ELSE index[n].vector[c]]
<1>1. n \in Names
  BY DEF Names
<1>2. index[n] # None
  BY DEF Offboard
<1>3. index[n] \in Indexes /\ index \in [Names -> Indexes \cup {None}]
  BY <1>1, <1>2 DEF SteadyInv, IndexTypes
<1>. HIDE DEF n
<1>4. index' = [index EXCEPT ![n] = [index[n] EXCEPT !.vector = vector]]
  BY <1>1, <1>3 DEF Offboard, n
<1>5. vector \in [Conversations -> Models \cup {None}]
  BY <1>3 DEF Indexes
<1>. HIDE DEF vector
<1>6. [index[n] EXCEPT !.vector = vector] =
        [tag |-> index[n].tag, record |-> index[n].record, vector |-> vector]
  BY <1>3 DEF Indexes
<1>7. index'[n] = [tag |-> index[n].tag, record |-> index[n].record, vector |-> vector]
  BY <1>1, <1>3, <1>4, <1>6
<1>8. index'[n] \in Indexes
  BY <1>3, <1>5, <1>7 DEF Indexes
<1>9. \A i \in Names \ {n} : index'[i] = index[i]
  BY <1>1, <1>3, <1>4
<1>10. index' \in [Names -> Indexes \cup {None}]
  BY <1>3, <1>4, <1>7, <1>8
<1>11. index'[n].tag = index[n].tag /\ index'[n].record = index[n].record /\ index'[n].vector = vector
  BY <1>7
<1>. QED
  BY <1>1, <1>2, <1>3, <1>8, <1>9, <1>10, <1>11 DEF n, vector

\* The first open of an index nothing is recorded of records its model.
LEMMA DecideFacts ==
  ASSUME SteadyInv, NEW o \in Openers, Decide(o)
  PROVE  LET n == opening[o].name
             m == opening[o].model
             claimed == opening[o].recorded = None /\ index[n] # None
         IN  /\ opening[o] # None /\ n \in Names /\ m \in Models
             /\ ~claimed => UNCHANGED index
             /\ claimed => /\ index[n] \in Indexes /\ index'[n] \in Indexes
                           /\ index'[n].tag = index[n].tag /\ index'[n].record = m
                           /\ index'[n].vector = index[n].vector
                           /\ \A i \in Names \ {n} : index'[i] = index[i]
             /\ index' \in [Names -> Indexes \cup {None}]
             /\ opening' = [opening EXCEPT ![o] = None]
             /\ store' = [store EXCEPT ![o] =
                            IF opening[o].recorded = m \/ claimed THEN [name |-> n, model |-> m]
                            ELSE None]
<1>. DEFINE n == opening[o].name
            m == opening[o].model
            claimed == opening[o].recorded = None /\ index[n] # None
<1>1. opening[o] # None /\ n \in Names /\ m \in Models
  BY DEF Decide, SteadyInv, IndexTypes
<1>2. index \in [Names -> Indexes \cup {None}]
  BY DEF SteadyInv, IndexTypes
<1>3. /\ index' = IF claimed THEN [index EXCEPT ![n].record = m] ELSE index
      /\ opening' = [opening EXCEPT ![o] = None]
      /\ store' = [store EXCEPT ![o] =
                     IF opening[o].recorded = m \/ claimed THEN [name |-> n, model |-> m] ELSE None]
  BY DEF Decide
<1>4. ASSUME claimed
      PROVE  /\ index[n] \in Indexes /\ index'[n] \in Indexes
             /\ index'[n].tag = index[n].tag /\ index'[n].record = m
             /\ index'[n].vector = index[n].vector
             /\ \A i \in Names \ {n} : index'[i] = index[i]
             /\ index' \in [Names -> Indexes \cup {None}]
  <2>1. index[n] \in Indexes
    BY <1>1, <1>2, <1>4
  <2>. HIDE DEF n, m
  <2>2. index' = [index EXCEPT ![n] = [index[n] EXCEPT !.record = m]]
    BY <1>1, <1>2, <1>3, <1>4
  <2>3. [index[n] EXCEPT !.record = m] =
          [tag |-> index[n].tag, record |-> m, vector |-> index[n].vector]
    BY <2>1 DEF Indexes
  <2>4. index'[n] = [tag |-> index[n].tag, record |-> m, vector |-> index[n].vector]
    BY <1>1, <1>2, <2>2, <2>3
  <2>5. index'[n] \in Indexes
    BY <1>1, <2>1, <2>4 DEF Indexes
  <2>6. index'[n].tag = index[n].tag /\ index'[n].record = m /\ index'[n].vector = index[n].vector
    BY <2>4
  <2>7. \A i \in Names \ {n} : index'[i] = index[i]
    BY <1>1, <1>2, <2>2
  <2>8. index' \in [Names -> Indexes \cup {None}]
    BY <1>2, <2>2, <2>4, <2>5
  <2>. QED
    BY <2>1, <2>5, <2>6, <2>7, <2>8
<1>. QED
  BY <1>1, <1>2, <1>3, <1>4

-----------------------------------------------------------------------------
(* Every step keeps the stores steady.                                     *)

\* An open of an index that is there, or of one nothing has retired.
LEMMA BeginSteady ==
  ASSUME SteadyInv, NEW o \in Openers, NEW n \in Names, NEW m \in Models, Begin(o, n, m),
         ~(n = Base /\ Retired), o = "migrate" => n = Shadow
  PROVE  SteadyInv'
<1>1. PICK seen \in Indexes, recorded \in Models \cup {None} :
        /\ index' = [index EXCEPT ![n] = seen]
        /\ opening' = [opening EXCEPT ![o] = [name |-> n, model |-> m, recorded |-> recorded]]
        /\ overlapped' = (overlapped \/ OpenedElsewhere(o, n))
        /\ faults' \in Nat
  BY BeginFacts
<1>2. /\ UNCHANGED <<tags, store, embedder, pointer, writers, tenants, restarts>>
      /\ store[o] = None /\ opening[o] = None
  BY DEF Begin
<1>3. UNCHANGED <<conversation, mode, loading, backfill, filled, acked>>
  BY <1>2 DEF writers
<1>4. index'[n] # None /\ \A i \in Names \ {n} : index'[i] = index[i]
  BY <1>1, NamesAssumption DEF SteadyInv, IndexTypes
<1>5. /\ opening'[o] = [name |-> n, model |-> m, recorded |-> recorded]
      /\ \A p \in Openers \ {o} : opening'[p] = opening[p]
      /\ opening'[o].name = n
  BY <1>1 DEF SteadyInv, IndexTypes
<1>6. IndexTypes'
  BY <1>1, <1>2, <1>3 DEF SteadyInv, IndexTypes
<1>7. \A p \in Openers : /\ opening[p] # None => opening[p].name \in Names
                         /\ store[p] # None => store[p].name \in Names
  BY DEF SteadyInv, IndexTypes
<1>8. Found'
  BY <1>2, <1>3, <1>4, <1>5, <1>7 DEF SteadyInv, Found, Retired
<1>9. Steady'
  <2>1. "migrate" \in Openers
    BY DEF Openers
  <2>. QED
    BY <1>2, <1>3, <1>5, <2>1 DEF SteadyInv, Steady
<1>. QED
  BY <1>6, <1>8, <1>9 DEF SteadyInv

LEMMA DecideSteady ==
  ASSUME SteadyInv, NEW o \in Openers, Decide(o)
  PROVE  SteadyInv'
<1>. DEFINE n == opening[o].name
<1>1. /\ opening[o] # None /\ n \in Names /\ opening[o].model \in Models
      /\ index' \in [Names -> Indexes \cup {None}]
      /\ \A i \in Names : index'[i] = None => index[i] = None
      /\ opening' = [opening EXCEPT ![o] = None]
      /\ \/ store' = [store EXCEPT ![o] = None]
         \/ store' = [store EXCEPT ![o] = [name |-> n, model |-> opening[o].model]]
  BY DecideFacts, NamesAssumption
<1>2. UNCHANGED <<tags, embedder, overlapped, pointer, conversation, mode, loading, backfill,
                  filled, acked, faults>>
  BY DEF Decide, writers
<1>3. store[o] = None
  BY <1>1 DEF SteadyInv, Steady
<1>4. IndexTypes'
  BY <1>1, <1>2 DEF SteadyInv, IndexTypes
<1>5. /\ opening'[o] = None /\ \A p \in Openers \ {o} : opening'[p] = opening[p]
      /\ store'[o] = None \/ store'[o] = [name |-> n, model |-> opening[o].model]
      /\ \A p \in Openers \ {o} : store'[p] = store[p]
  BY <1>1 DEF SteadyInv, IndexTypes
<1>6. store'[o] # None => store'[o].name = n
  BY <1>5
<1>7. \A p \in Openers : /\ opening[p] # None => opening[p].name \in Names
                         /\ store[p] # None => store[p].name \in Names
  BY DEF SteadyInv, IndexTypes
<1>8. Found'
  <2>1. Retired' = Retired
    BY <1>2 DEF Retired
  <2>2. ASSUME NEW p \in Openers, p # o
        PROVE  /\ opening'[p] # None /\ index'[opening'[p].name] = None =>
                    opening'[p].name = Base /\ Retired
               /\ store'[p] # None /\ index'[store'[p].name] = None =>
                    store'[p].name = Base /\ Retired
    BY <1>1, <1>5, <1>7, <2>2 DEF SteadyInv, Found
  <2>3. store'[o] # None /\ index'[store'[o].name] = None => store'[o].name = Base /\ Retired
    BY <1>1, <1>6 DEF SteadyInv, Found
  <2>. QED
    BY <1>5, <2>1, <2>2, <2>3 DEF Found
<1>9. Steady'
  <2>1. \A p \in Openers : store'[p] # None => opening'[p] = None
    BY <1>5 DEF SteadyInv, Steady
  <2>2. "migrate" \in Openers
    BY DEF Openers
  <2>3. /\ opening'["migrate"] # None => opening'["migrate"].name = Shadow
        /\ store'["migrate"] # None => store'["migrate"].name = Shadow
    BY <1>1, <1>5, <1>6, <2>2 DEF SteadyInv, Steady
  <2>4. store["migrate"] # None => store'["migrate"] # None
    BY <1>3, <1>5, <2>2
  <2>. QED
    BY <1>2, <2>1, <2>3, <2>4 DEF SteadyInv, Steady
<1>. QED
  BY <1>4, <1>8, <1>9 DEF SteadyInv

\* Steps that leave the stores, and keep every index that is there.
LEMMA KeepsSteady ==
  ASSUME SteadyInv, IndexTypes', UNCHANGED <<opening, store>>,
         \A i \in Names : index'[i] = None => index[i] = None,
         Retired => Retired',
         mode' # "live" \/ backfill' # << >> \/ filled' # "no" => store["migrate"] # None
  PROVE  SteadyInv'
<1>1. \A p \in Openers : /\ opening[p] # None => opening[p].name \in Names
                         /\ store[p] # None => store[p].name \in Names
  BY DEF SteadyInv, IndexTypes
<1>2. Found'
  BY <1>1 DEF SteadyInv, Found
<1>3. Steady'
  BY DEF SteadyInv, Steady
<1>. QED
  BY <1>2, <1>3 DEF SteadyInv

LEMMA RetireSteady ==
  ASSUME SteadyInv, Retire
  PROVE  SteadyInv'
<1>1. /\ index' = [index EXCEPT ![Base] = None]
      /\ store' = [store EXCEPT !["load"] = None]
      /\ UNCHANGED <<tags, opening, embedder, overlapped, pointer, conversation, mode, loading,
                     backfill, filled, acked, faults>>
      /\ Retired /\ Retired'
      /\ \A o \in {"migrate", "api"} : store[o] # None => store[o].name # Base
  BY DEF Retire, writers, Retired
<1>2. Base \in Names /\ Openers = {"load", "migrate", "api"}
  BY DEF Names, Openers
<1>3. IndexTypes'
  BY <1>1, <1>2 DEF SteadyInv, IndexTypes
<1>4. /\ \A i \in Names \ {Base} : index'[i] = index[i]
      /\ store'["load"] = None /\ store'["migrate"] = store["migrate"] /\ store'["api"] = store["api"]
  BY <1>1, <1>2 DEF SteadyInv, IndexTypes
<1>5. \A p \in Openers : /\ opening[p] # None => opening[p].name \in Names
                         /\ store[p] # None => store[p].name \in Names
  BY DEF SteadyInv, IndexTypes
<1>6. \A p \in Openers : store'[p] # None => store'[p] = store[p]
  BY <1>2, <1>4
<1>7. Found'
  BY <1>1, <1>4, <1>5, <1>6 DEF SteadyInv, Found
<1>8. Steady'
  BY <1>1, <1>4, <1>6 DEF SteadyInv, Steady
<1>. QED
  BY <1>3, <1>7, <1>8 DEF SteadyInv

LEMMA RestartSteady ==
  ASSUME SteadyInv, NEW m \in Models, Restart(m)
  PROVE  SteadyInv'
<1>1. /\ embedder' = m
      /\ store' = [store EXCEPT !["api"] = None]
      /\ opening' = [opening EXCEPT !["api"] = None]
      /\ UNCHANGED <<tags, index, overlapped, pointer, conversation, mode, loading,
                     backfill, filled, acked, faults>>
  BY DEF Restart, writers
<1>2. IndexTypes'
  BY <1>1 DEF SteadyInv, IndexTypes
<1>3. \A p \in Openers : /\ store'[p] = IF p = "api" THEN None ELSE store[p]
                         /\ opening'[p] = IF p = "api" THEN None ELSE opening[p]
  BY <1>1 DEF SteadyInv, IndexTypes
<1>4. Found'
  BY <1>1, <1>3 DEF SteadyInv, Found, Retired
<1>5. Steady'
  <2>1. "migrate" \in Openers
    BY DEF Openers
  <2>. QED
    BY <1>1, <1>3, <2>1 DEF SteadyInv, Steady
<1>. QED
  BY <1>2, <1>4, <1>5 DEF SteadyInv

-----------------------------------------------------------------------------
(* The steps, by what they do to the stores.                               *)

Opens(o, n, m) ==
  /\ Begin(o, n, m)
  /\ ~(n = Base /\ Retired)
  /\ o = "migrate" => n = Shadow

LEMMA AllOpens ==
  ASSUME SteadyInv, OpenLive \/ OpenShadow \/ StartApi
  PROVE  \E o \in Openers, n \in Names, m \in Models : Opens(o, n, m)
<1>1. /\ Base \in Names /\ Shadow \in Names /\ Old \in Models /\ New \in Models
      /\ {"load", "migrate", "api"} = Openers
  BY DEF Names, Models, Openers
<1>2. CASE OpenLive
  <2>1. Opens("load", Base, Old)
    BY <1>2 DEF OpenLive, Opens, Retired
  <2>. QED
    BY <1>1, <2>1
<1>3. CASE OpenShadow
  <2>1. Opens("migrate", Shadow, New)
    BY <1>3, NamesAssumption DEF OpenShadow, Opens
  <2>. QED
    BY <1>1, <2>1
<1>4. CASE StartApi
  <2>. DEFINE n == IF pointer = None THEN Base ELSE pointer
  <2>1. n \in Names /\ ~(n = Base /\ Retired) /\ embedder \in Models
    BY <1>1, <1>4, NamesAssumption DEF StartApi, SteadyInv, IndexTypes, Retired
  <2>2. Opens("api", n, embedder)
    BY <1>4, <2>1 DEF StartApi, Opens
  <2>. QED
    BY <1>1, <2>1, <2>2
<1>. QED
  BY <1>2, <1>3, <1>4

\* What is left of an upsert after one of its stores.
LEMMA RouteFacts ==
  ASSUME NEW r \in Routes
  PROVE  /\ Head(r) \in Openers
         /\ Len(r) = 1 => r \in {<<"load">>, <<"migrate">>} /\ Head(r) = r[1]
         /\ Len(r) # 1 => Head(r) = "load" /\ Tail(r) = <<"migrate">>
         /\ <<"migrate">> # <<"load">> /\ <<"load", "migrate">> # <<"load">>
<1>1. /\ Len(<<"load">>) = 1 /\ Len(<<"migrate">>) = 1 /\ Len(<<"load", "migrate">>) = 2
      /\ Head(<<"load">>) = "load" /\ Head(<<"migrate">>) = "migrate"
      /\ Head(<<"load", "migrate">>) = "load" /\ Tail(<<"load", "migrate">>) = <<"migrate">>
  OBVIOUS
<1>2. {"load", "migrate"} \subseteq Openers
  BY DEF Openers
<1>3. <<"load">>[1] = "load" /\ <<"migrate">>[1] = "migrate"
  OBVIOUS
<1>4. <<"migrate">> # <<"load">> /\ <<"load", "migrate">> # <<"load">>
  BY <1>1, <1>3
<1>5. CASE r = <<"load">>
  BY <1>1, <1>2, <1>3, <1>4, <1>5
<1>6. CASE r = <<"load", "migrate">>
  BY <1>1, <1>2, <1>4, <1>6
<1>7. CASE r = <<"migrate">>
  BY <1>1, <1>2, <1>3, <1>4, <1>7
<1>. QED
  BY <1>5, <1>6, <1>7 DEF Routes

LEMMA JobFacts ==
  ASSUME NEW job \in [conv : Conversations, stores : Routes], NEW r
  PROVE  [job EXCEPT !.stores = r] = [conv |-> job.conv, stores |-> r]
OBVIOUS

LEMMA DeliverFacts ==
  ASSUME SteadyInv, NEW c \in Conversations, Deliver(c)
  PROVE  /\ loading' # << >> /\ loading'[1].conv = c
         /\ loading'[1] \in [conv : Conversations, stores : Routes]
         /\ loading'[1].stores = <<"load">> => mode = "live"
         /\ loading = << >>
<1>. DEFINE stores1 == CASE mode = "live" -> <<"load">>
                         [] mode = "dual" -> <<"load", "migrate">>
                         [] mode = "new" -> <<"migrate">>
<1>1. loading = << >> /\ loading' = <<[conv |-> c, stores |-> stores1]>>
  BY DEF Deliver
<1>2. stores1 \in Routes /\ (stores1 = <<"load">> => mode = "live")
  <2>1. mode \in {"live", "dual", "new"}
    BY DEF SteadyInv, IndexTypes
  <2>. QED
    BY <2>1 DEF Routes
<1>. HIDE DEF stores1
<1>3. loading'[1] = [conv |-> c, stores |-> stores1]
  BY <1>1
<1>. QED
  BY <1>1, <1>2, <1>3

LEMMA LoadingFacts ==
  ASSUME SteadyInv, NEW returned \in BOOLEAN, Upsert(returned)
  PROVE  LET job == loading[1]
         IN  /\ loading # << >>
             /\ job.conv \in Conversations /\ job.stores \in Routes
             /\ UpsertBatch(Head(job.stores), {job.conv}, returned)
             /\ IF returned /\ Len(job.stores) # 1
                THEN /\ loading' # << >>
                     /\ loading'[1] = [conv |-> job.conv, stores |-> <<"migrate">>]
                ELSE loading' = << >>
             /\ acked' = IF returned /\ Len(job.stores) = 1 THEN acked \cup {job.conv} ELSE acked
<1>. DEFINE job == loading[1]
            r == job.stores
<1>1. /\ loading # << >>
      /\ UpsertBatch(Head(r), {job.conv}, returned)
      /\ loading' = IF returned /\ Len(r) # 1 THEN <<[job EXCEPT !.stores = Tail(r)]>> ELSE << >>
      /\ acked' = IF returned /\ Len(r) = 1 THEN acked \cup {job.conv} ELSE acked
  BY DEF Upsert
<1>2. job \in [conv : Conversations, stores : Routes]
  BY <1>1 DEF SteadyInv, IndexTypes
<1>3. job = [conv |-> job.conv, stores |-> r] /\ job.conv \in Conversations /\ r \in Routes
  BY <1>2
<1>4. CASE returned /\ Len(r) # 1
  <2>1. Tail(r) = <<"migrate">>
    BY <1>3, <1>4, RouteFacts
  <2>2. [job EXCEPT !.stores = Tail(r)] = [conv |-> job.conv, stores |-> <<"migrate">>]
    BY <1>2, <2>1, JobFacts
  <2>3. loading' = <<[conv |-> job.conv, stores |-> <<"migrate">>]>>
    BY <1>1, <1>4, <2>2
  <2>4. loading' # << >> /\ loading'[1] = [conv |-> job.conv, stores |-> <<"migrate">>]
    BY <2>3
  <2>. QED
    BY <1>1, <1>3, <1>4, <2>4
<1>5. CASE ~(returned /\ Len(r) # 1)
  BY <1>1, <1>3, <1>5
<1>. QED
  BY <1>4, <1>5

LEMMA NextSteady == SteadyInv /\ [Next]_vars => SteadyInv'
<1>. SUFFICES ASSUME SteadyInv, [Next]_vars PROVE SteadyInv'
  OBVIOUS
<1>0. /\ mode # "live" \/ backfill # << >> \/ filled # "no" => store["migrate"] # None
      /\ IndexTypes
  BY DEF SteadyInv, Steady
<1>1. CASE OpenLive \/ OpenShadow \/ StartApi
  BY <1>1, AllOpens, BeginSteady DEF Opens
<1>2. ASSUME NEW o \in Openers, Decide(o) PROVE SteadyInv'
  BY <1>2, DecideSteady
<1>3. ASSUME NEW c \in Conversations, Deliver(c) PROVE SteadyInv'
  <2>1. /\ UNCHANGED <<tags, index, opening, store, embedder, overlapped, pointer, mode,
                       backfill, filled, faults>>
        /\ conversation' = conversation \cup {c}
    BY <1>3 DEF Deliver, stores
  <2>2. IndexTypes'
    BY <1>0, <1>3, <2>1, DeliverFacts DEF IndexTypes
  <2>. QED
    BY <1>0, <2>1, <2>2, KeepsSteady DEF Retired
<1>4. ASSUME NEW returned \in BOOLEAN, Upsert(returned) PROVE SteadyInv'
  <2>. DEFINE o == Head(loading[1].stores)
  <2>1. UNCHANGED <<tags, opening, store, embedder, overlapped, pointer, conversation, mode,
                    backfill, filled>>
    BY <1>4 DEF Upsert
  <2>2. /\ o \in Openers /\ {loading[1].conv} \in SUBSET Conversations
        /\ UpsertBatch(o, {loading[1].conv}, returned)
        /\ loading' # << >> => loading'[1] \in [conv : Conversations, stores : Routes]
    <3>1. /\ loading[1].conv \in Conversations /\ loading[1].stores \in Routes
          /\ UpsertBatch(o, {loading[1].conv}, returned)
          /\ loading' # << >> =>
               loading'[1] = [conv |-> loading[1].conv, stores |-> <<"migrate">>]
      BY <1>4, LoadingFacts
    <3>2. <<"migrate">> \in Routes /\ o \in Openers
      BY <3>1, RouteFacts DEF Routes
    <3>. QED
      BY <3>1, <3>2
  <2>. HIDE DEF o
  <2>3. /\ index' \in [Names -> Indexes \cup {None}] /\ faults' \in Nat
        /\ \A i \in Names : index'[i] = None => index[i] = None
    BY <2>2, UpsertKeeps
  <2>4. IndexTypes'
    BY <1>0, <2>1, <2>2, <2>3 DEF IndexTypes
  <2>. QED
    BY <1>0, <2>1, <2>3, <2>4, KeepsSteady DEF Retired
<1>5. CASE SwitchWriter
  <2>1. /\ UNCHANGED <<tags, index, opening, store, embedder, overlapped, pointer,
                       conversation, loading, backfill, filled, faults>>
        /\ mode' \in {"dual", "new"} /\ store["migrate"] # None
        /\ mode = "new" => mode' = "new"
    BY <1>0, <1>5 DEF SwitchWriter, stores
  <2>2. IndexTypes'
    BY <1>0, <2>1 DEF IndexTypes
  <2>. QED
    BY <2>1, <2>2, KeepsSteady DEF Retired
<1>6. CASE BackfillStart
  <2>1. /\ UNCHANGED <<tags, index, opening, store, embedder, overlapped, pointer, mode,
                       conversation, loading, filled, faults>>
        /\ backfill'[1] = [left |-> conversation, dual |-> mode # "live"]
        /\ store["migrate"] # None
    BY <1>6 DEF BackfillStart, stores
  <2>2. IndexTypes'
    BY <1>0, <2>1 DEF IndexTypes
  <2>. QED
    BY <2>1, <2>2, KeepsSteady DEF Retired
<1>7. CASE BackfillDone
  <2>1. /\ UNCHANGED <<tags, index, opening, store, embedder, overlapped, pointer, mode,
                       conversation, loading, faults>>
        /\ backfill # << >> /\ backfill' = << >> /\ filled' \in {"yes", "gap"}
    BY <1>7 DEF BackfillDone, stores
  <2>2. IndexTypes'
    BY <1>0, <2>1 DEF IndexTypes
  <2>. QED
    BY <1>0, <2>1, <2>2, KeepsSteady DEF Retired
<1>8. CASE CutOver
  <2>1. /\ UNCHANGED <<tags, index, opening, store, embedder, overlapped, mode,
                       conversation, loading, backfill, filled, faults>>
        /\ pointer' \in {"torn", Shadow} /\ (pointer = Shadow => pointer' = Shadow)
    BY <1>8, NamesAssumption DEF CutOver, stores, writers
  <2>2. IndexTypes'
    BY <1>0, <2>1 DEF IndexTypes
  <2>. QED
    BY <1>0, <2>1, <2>2, KeepsSteady DEF Retired
<1>9. CASE Retire
  BY <1>9, RetireSteady
<1>10. ASSUME NEW a \in Accounts, NEW returned \in BOOLEAN, BackfillBatch(a, returned)
       PROVE  SteadyInv'
  <2>. DEFINE cs == Of(a) \cap backfill[1].left
  <2>1. /\ UNCHANGED <<tags, opening, store, embedder, overlapped, pointer, conversation, mode,
                       loading, filled>>
        /\ backfill # << >> /\ UpsertBatch("migrate", cs, returned)
        /\ backfill' = IF returned THEN <<[backfill[1] EXCEPT !.left = @ \ Of(a)]>> ELSE << >>
    BY <1>10 DEF BackfillBatch
  <2>2. cs \in SUBSET Conversations /\ "migrate" \in Openers
    BY DEF Of, Openers
  <2>3. /\ index' \in [Names -> Indexes \cup {None}] /\ faults' \in Nat
        /\ \A i \in Names : index'[i] = None => index[i] = None
    BY <2>1, <2>2, UpsertKeeps
  <2>4. backfill' # << >> => backfill'[1] \in [left : SUBSET Conversations, dual : BOOLEAN]
    BY <1>0, <2>1 DEF IndexTypes
  <2>5. IndexTypes'
    BY <1>0, <2>1, <2>3, <2>4 DEF IndexTypes
  <2>. QED
    BY <1>0, <2>1, <2>3, <2>5, KeepsSteady DEF Retired
<1>11. ASSUME NEW a \in Accounts, Offboard(a) PROVE SteadyInv'
  <2>1. /\ UNCHANGED <<tags, opening, store, embedder, overlapped, pointer, mode, loading,
                       backfill, filled, faults>>
        /\ conversation' = conversation \ Of(a)
    BY <1>11 DEF Offboard
  <2>2. /\ index' \in [Names -> Indexes \cup {None}]
        /\ \A i \in Names : index'[i] = None => index[i] = None
    BY <1>11, OffboardFacts, NamesAssumption
  <2>3. IndexTypes'
    BY <1>0, <2>1, <2>2 DEF IndexTypes
  <2>. QED
    BY <1>0, <2>1, <2>2, <2>3, KeepsSteady DEF Retired
<1>12. ASSUME NEW m \in Models, Restart(m) PROVE SteadyInv'
  BY <1>12, RestartSteady
<1>13. CASE UNCHANGED vars
  <2>1. UNCHANGED <<tags, index, opening, store, embedder, overlapped, pointer, mode,
                    conversation, loading, backfill, filled, faults>>
    BY <1>13 DEF vars, stores, writers
  <2>2. IndexTypes'
    BY <1>0, <2>1 DEF IndexTypes
  <2>. QED
    BY <1>0, <2>1, <2>2, KeepsSteady DEF Retired
<1>. QED
  BY <1>1, <1>2, <1>3, <1>4, <1>5, <1>6, <1>7, <1>8, <1>9, <1>10, <1>11, <1>12, <1>13 DEF Next

-----------------------------------------------------------------------------
(* One model per index.  What says which model an index holds is its tag,  *)
(* or its record if the service returns no tags: what an open has read of  *)
(* it is still so when it decides, and every store and every vector of the *)
(* index agree with it.                                                    *)

\* What an open reads is what decides, and no other open decides meanwhile.
Sure == tags \/ (faults = 0 /\ ~overlapped)

Mark(n) == IF tags THEN index[n].tag ELSE index[n].record

MarksAgree ==
  /\ \A o \in Openers : opening[o] # None /\ index[opening[o].name] # None =>
       opening[o].recorded = Mark(opening[o].name)
  /\ \A o \in Openers : Reachable(o) => store[o].model = Mark(store[o].name)
  /\ \A n \in Names : index[n] # None =>
       \A c \in Conversations : index[n].vector[c] \in {None, Mark(n)}

OneOpenAtATime ==
  \A o, p \in Openers : opening[o] # None /\ opening[p] # None /\ o # p =>
    opening[o].name # opening[p].name

MarkInv == Sure => MarksAgree /\ (~tags => OneOpenAtATime)

LEMMA InitMark == Init => MarkInv
BY DEF Init, MarkInv, MarksAgree, OneOpenAtATime, Reachable

LEMMA NamesOfStores ==
  ASSUME SteadyInv, NEW o \in Openers
  PROVE  /\ opening[o] # None => opening[o].name \in Names /\ opening[o].model \in Models
         /\ store[o] # None => store[o].name \in Names /\ store[o].model \in Models
BY DEF SteadyInv, IndexTypes

\* Steps that open nothing and leave the marks.
LEMMA KeepsMark ==
  ASSUME SteadyInv, MarkInv, tags' = tags, Sure' => Sure,
         \A o \in Openers : opening'[o] \in {None, opening[o]} /\ store'[o] \in {None, store[o]},
         \A n \in Names : index'[n] # None =>
           /\ index[n] # None
           /\ index'[n].tag = index[n].tag /\ index'[n].record = index[n].record
           /\ Sure => \A c \in Conversations :
                index'[n].vector[c] \in {None, Mark(n), index[n].vector[c]}
  PROVE  MarkInv'
<1>. SUFFICES ASSUME Sure' PROVE MarksAgree' /\ (~tags => OneOpenAtATime')
  BY DEF MarkInv
<1>1. MarksAgree /\ (~tags => OneOpenAtATime)
  BY DEF MarkInv
<1>2. \A n \in Names : index'[n] # None => index[n] # None /\ Mark(n)' = Mark(n)
  BY DEF Mark
<1>3. ASSUME NEW o \in Openers, opening'[o] # None
      PROVE  opening'[o] = opening[o] /\ opening[o].name \in Names
  BY <1>3, NamesOfStores
<1>4. ASSUME NEW o \in Openers, store'[o] # None
      PROVE  store'[o] = store[o] /\ store[o].name \in Names
  BY <1>4, NamesOfStores
<1>5. \A n \in Names : index'[n] # None =>
        \A c \in Conversations : index'[n].vector[c] \in {None, Mark(n)'}
  BY <1>1, <1>2 DEF MarksAgree
<1>6. MarksAgree'
  BY <1>1, <1>2, <1>3, <1>4, <1>5 DEF MarksAgree, Reachable
<1>7. ~tags => OneOpenAtATime'
  BY <1>1, <1>3 DEF OneOpenAtATime
<1>. QED
  BY <1>6, <1>7

LEMMA OpensMark ==
  ASSUME SteadyInv, MarkInv,
         NEW o \in Openers, NEW n \in Names, NEW m \in Models, Opens(o, n, m)
  PROVE  MarkInv'
<1>1. PICK seen \in Indexes, recorded \in Models \cup {None} :
        /\ index' = [index EXCEPT ![n] = seen]
        /\ index[n] # None => seen = index[n]
        /\ index[n] = None => \A c \in Conversations : seen.vector[c] = None
        /\ opening' = [opening EXCEPT ![o] = [name |-> n, model |-> m, recorded |-> recorded]]
        /\ tags => recorded = seen.tag
        /\ ~tags /\ faults' = 0 => faults = 0 /\ recorded = seen.record
        /\ overlapped' = (overlapped \/ OpenedElsewhere(o, n))
  BY BeginFacts DEF Opens
<1>2. /\ UNCHANGED <<tags, store>>
      /\ ~(n = Base /\ Retired)
  BY DEF Opens, Begin
<1>. SUFFICES ASSUME Sure' PROVE MarksAgree' /\ (~tags => OneOpenAtATime')
  BY <1>2 DEF MarkInv
<1>3. /\ Sure
      /\ recorded = IF tags THEN seen.tag ELSE seen.record
      /\ ~tags => ~OpenedElsewhere(o, n)
  BY <1>1, <1>2 DEF Sure
<1>4. MarksAgree /\ (~tags => OneOpenAtATime)
  BY <1>3 DEF MarkInv
<1>5. /\ index'[n] = seen /\ \A i \in Names \ {n} : index'[i] = index[i]
      /\ opening'[o] = [name |-> n, model |-> m, recorded |-> recorded]
      /\ \A p \in Openers \ {o} : opening'[p] = opening[p]
  BY <1>1 DEF SteadyInv, IndexTypes
<1>6. opening'[o].name = n /\ opening'[o].recorded = Mark(n)'
  BY <1>2, <1>3, <1>5 DEF Mark
<1>7. \A i \in Names : index[i] # None => index'[i] = index[i] /\ Mark(i)' = Mark(i)
  BY <1>1, <1>2, <1>5 DEF Mark
\* Nobody had an index that was not there.
<1>8. \A p \in Openers : /\ opening[p] # None /\ opening[p].name = n => index[n] # None
                         /\ store[p] # None /\ store[p].name = n => index[n] # None
  BY <1>2 DEF SteadyInv, Found
<1>9. \A p \in Openers : opening'[p] # None /\ index'[opening'[p].name] # None =>
        opening'[p].recorded = Mark(opening[p].name)'
  <2>1. ASSUME NEW p \in Openers, p # o, opening'[p] # None, index'[opening'[p].name] # None
        PROVE  opening'[p].recorded = Mark(opening[p].name)'
    BY <1>4, <1>5, <1>7, <1>8, <2>1, NamesOfStores DEF MarksAgree
  <2>. QED
    BY <1>6, <2>1
<1>10. \A p \in Openers : Reachable(p)' => store[p].model = Mark(store[p].name)'
  BY <1>2, <1>4, <1>5, <1>7, <1>8, NamesOfStores DEF MarksAgree, Reachable
<1>11. \A i \in Names : index'[i] # None =>
         \A c \in Conversations : index'[i].vector[c] \in {None, Mark(i)'}
  BY <1>1, <1>4, <1>5, <1>7 DEF MarksAgree
<1>12. ~tags => OneOpenAtATime'
  BY <1>3, <1>4, <1>5, <1>6 DEF OneOpenAtATime, OpenedElsewhere
<1>. QED
  BY <1>2, <1>9, <1>10, <1>11, <1>12 DEF MarksAgree

LEMMA DecideMark ==
  ASSUME SteadyInv, MarkInv, NEW o \in Openers, Decide(o)
  PROVE  MarkInv'
<1>. DEFINE n == opening[o].name
            m == opening[o].model
            claimed == opening[o].recorded = None /\ index[n] # None
            accepted == opening[o].recorded = m \/ claimed
<1>1. /\ opening[o] # None /\ n \in Names /\ m \in Models
      /\ ~claimed => UNCHANGED index
      /\ claimed => /\ index[n] \in Indexes
                    /\ index'[n].record = m /\ index'[n].tag = index[n].tag
                    /\ index'[n].vector = index[n].vector
                    /\ \A i \in Names \ {n} : index'[i] = index[i]
      /\ opening' = [opening EXCEPT ![o] = None]
      /\ store' = [store EXCEPT ![o] = IF accepted THEN [name |-> n, model |-> m] ELSE None]
  BY DecideFacts
<1>2. /\ UNCHANGED <<tags, overlapped, faults>> /\ Sure' = Sure
      /\ None \notin Models
  BY NamesAssumption DEF Decide, Sure, Models
<1>. SUFFICES ASSUME Sure PROVE MarksAgree' /\ (~tags => OneOpenAtATime')
  BY <1>2 DEF MarkInv
<1>3. MarksAgree /\ (~tags => OneOpenAtATime)
  BY DEF MarkInv
<1>4. /\ opening'[o] = None /\ \A p \in Openers \ {o} : opening'[p] = opening[p]
      /\ store'[o] # None => accepted /\ store'[o].name = n /\ store'[o].model = m
      /\ \A p \in Openers \ {o} : store'[p] = store[p]
  BY <1>1 DEF SteadyInv, IndexTypes
<1>5. ~tags => OneOpenAtATime'
  BY <1>3, <1>4 DEF OneOpenAtATime
<1>6. CASE ~claimed
  <2>1. \A i \in Names : index'[i] = index[i] /\ Mark(i)' = Mark(i)
    BY <1>1, <1>2, <1>6 DEF Mark
  <2>2. store'[o] # None /\ index[n] # None => m = Mark(n)
    BY <1>1, <1>3, <1>4, <1>6 DEF MarksAgree
  <2>3. \A p \in Openers : opening'[p] # None /\ index'[opening'[p].name] # None =>
          opening'[p].recorded = Mark(opening[p].name)'
    BY <1>3, <1>4, <2>1, NamesOfStores DEF MarksAgree
  <2>4. \A p \in Openers : Reachable(p)' => store'[p].model = Mark(store[p].name)'
    <3>1. ASSUME NEW p \in Openers, p # o, Reachable(p)'
          PROVE  store'[p].model = Mark(store[p].name)'
      BY <1>3, <1>4, <2>1, <3>1, NamesOfStores DEF MarksAgree, Reachable
    <3>2. Reachable(o)' => store'[o].model = Mark(store[o].name)'
      BY <1>1, <1>4, <2>1, <2>2 DEF Reachable
    <3>. QED
      BY <3>1, <3>2
  <2>5. \A i \in Names : index'[i] # None =>
          \A c \in Conversations : index'[i].vector[c] \in {None, Mark(i)'}
    BY <1>3, <2>1 DEF MarksAgree
  <2>. QED
    BY <1>5, <2>3, <2>4, <2>5 DEF MarksAgree
\* The index is nobody's yet: it has no vectors, and nobody else has it open.
<1>7. CASE claimed
  <2>1. Mark(n) = None /\ ~tags
    BY <1>1, <1>2, <1>3, <1>7 DEF MarksAgree, Mark, Indexes
  <2>2. \A i \in Names : IF i = n THEN Mark(i)' = m
                        ELSE index'[i] = index[i] /\ Mark(i)' = Mark(i)
    BY <1>1, <1>2, <1>7, <2>1 DEF Mark
  <2>3. \A p \in Openers \ {o} : opening[p] # None => opening[p].name # n
    BY <1>1, <1>3, <2>1 DEF OneOpenAtATime
  <2>4. \A p \in Openers : store[p] # None => store[p].name # n
    BY <1>2, <1>3, <1>7, <2>1, NamesOfStores DEF MarksAgree, Reachable
  <2>5. \A p \in Openers : opening'[p] # None /\ index'[opening'[p].name] # None =>
          opening'[p].recorded = Mark(opening[p].name)'
    BY <1>3, <1>4, <2>2, <2>3, NamesOfStores DEF MarksAgree
  <2>6. \A p \in Openers : Reachable(p)' => store'[p].model = Mark(store[p].name)'
    <3>1. ASSUME NEW p \in Openers, p # o, Reachable(p)'
          PROVE  store'[p].model = Mark(store[p].name)'
      BY <1>3, <1>4, <2>2, <2>4, <3>1, NamesOfStores DEF MarksAgree, Reachable
    <3>2. Reachable(o)' => store'[o].model = Mark(store[o].name)'
      BY <1>1, <1>4, <2>2 DEF Reachable
    <3>. QED
      BY <3>1, <3>2
  <2>7. \A i \in Names : index'[i] # None =>
          \A c \in Conversations : index'[i].vector[c] \in {None, Mark(i)'}
    <3>1. \A c \in Conversations : index'[n].vector[c] = None
      BY <1>1, <1>3, <1>7, <2>1 DEF MarksAgree
    <3>. QED
      BY <1>3, <2>2, <3>1 DEF MarksAgree
  <2>. QED
    BY <1>5, <2>5, <2>6, <2>7 DEF MarksAgree
<1>. QED
  BY <1>6, <1>7

LEMMA UpsertMark ==
  ASSUME SteadyInv, MarkInv, NEW o \in Openers, NEW cs \in SUBSET Conversations,
         NEW returned \in BOOLEAN, UpsertBatch(o, cs, returned),
         UNCHANGED <<tags, opening, store, overlapped>>
  PROVE  MarkInv'
<1>1. /\ UNCHANGED index \/ (Reachable(o) /\ index' = Written(o, cs))
      /\ faults' = 0 => faults = 0
  BY UpsertFacts
<1>2. Sure' => Sure
  BY <1>1 DEF Sure
<1>3. CASE UNCHANGED index
  BY <1>2, <1>3, KeepsMark
<1>4. CASE Reachable(o) /\ index' = Written(o, cs)
  <2>. DEFINE n == store[o].name
  <2>1. /\ n \in Names /\ index'[n].tag = index[n].tag /\ index'[n].record = index[n].record
        /\ \A c \in Conversations :
             index'[n].vector[c] = IF c \in cs THEN store[o].model ELSE index[n].vector[c]
        /\ \A i \in Names \ {n} : index'[i] = index[i]
    BY <1>4, WrittenFacts
  <2>2. Sure => store[o].model = Mark(n)
    BY <1>4 DEF MarkInv, MarksAgree
  <2>3. index[n] # None
    BY <1>4 DEF Reachable
  <2>. HIDE DEF n
  <2>4. \A i \in Names : index'[i] # None =>
           /\ index[i] # None
           /\ index'[i].tag = index[i].tag /\ index'[i].record = index[i].record
           /\ Sure => \A c \in Conversations :
                index'[i].vector[c] \in {None, Mark(i), index[i].vector[c]}
    BY <2>1, <2>2, <2>3
  <2>. QED
    BY <1>2, <2>4, KeepsMark
<1>. QED
  BY <1>1, <1>3, <1>4

LEMMA NextMark == SteadyInv /\ MarkInv /\ [Next]_vars => MarkInv'
<1>. SUFFICES ASSUME SteadyInv, MarkInv, [Next]_vars PROVE MarkInv'
  OBVIOUS
<1>1. CASE OpenLive \/ OpenShadow \/ StartApi
  BY <1>1, AllOpens, OpensMark
<1>2. ASSUME NEW o \in Openers, Decide(o) PROVE MarkInv'
  BY <1>2, DecideMark
<1>3. ASSUME NEW returned \in BOOLEAN, Upsert(returned) PROVE MarkInv'
  <2>1. /\ loading[1].conv \in Conversations /\ loading[1].stores \in Routes
        /\ UpsertBatch(Head(loading[1].stores), {loading[1].conv}, returned)
    BY <1>3, LoadingFacts
  <2>2. Head(loading[1].stores) \in Openers /\ {loading[1].conv} \in SUBSET Conversations
    BY <2>1, RouteFacts
  <2>. QED
    BY <1>3, <2>1, <2>2, UpsertMark DEF Upsert
<1>4. ASSUME NEW a \in Accounts, NEW returned \in BOOLEAN, BackfillBatch(a, returned)
      PROVE  MarkInv'
  <2>1. Of(a) \cap backfill[1].left \in SUBSET Conversations /\ "migrate" \in Openers
    BY DEF Of, Openers
  <2>. QED
    BY <1>4, <2>1, UpsertMark DEF BackfillBatch
<1>5. CASE UNCHANGED <<tags, index, opening, store, overlapped, faults>>
  BY <1>5, KeepsMark DEF Sure
<1>6. CASE Retire
  <2>1. /\ index' = [index EXCEPT ![Base] = None]
        /\ store' = [store EXCEPT !["load"] = None]
        /\ UNCHANGED <<tags, opening, overlapped, faults>>
    BY <1>6 DEF Retire
  <2>2. /\ \A i \in Names : index'[i] \in {None, index[i]}
        /\ \A o \in Openers : store'[o] \in {None, store[o]}
    BY <2>1 DEF SteadyInv, IndexTypes
  <2>. QED
    BY <2>1, <2>2, KeepsMark DEF Sure
<1>7. ASSUME NEW a \in Accounts, Offboard(a) PROVE MarkInv'
  <2>1. \A i \in Names : index'[i] # None =>
          /\ index[i] # None
          /\ index'[i].tag = index[i].tag /\ index'[i].record = index[i].record
          /\ \A c \in Conversations : index'[i].vector[c] \in {None, index[i].vector[c]}
    BY <1>7, OffboardFacts
  <2>. QED
    BY <1>7, <2>1, KeepsMark DEF Offboard, Sure
<1>8. ASSUME NEW m \in Models, Restart(m) PROVE MarkInv'
  <2>1. /\ store' = [store EXCEPT !["api"] = None]
        /\ opening' = [opening EXCEPT !["api"] = None]
        /\ UNCHANGED <<tags, index, overlapped, faults>>
    BY <1>8 DEF Restart
  <2>2. \A o \in Openers : opening'[o] \in {None, opening[o]} /\ store'[o] \in {None, store[o]}
    BY <2>1 DEF SteadyInv, IndexTypes
  <2>. QED
    BY <2>1, <2>2, KeepsMark DEF Sure
<1>9. ASSUME NEW c \in Conversations, Deliver(c) PROVE UNCHANGED <<stores, faults>>
  BY <1>9 DEF Deliver
<1>10. CASE SwitchWriter \/ BackfillStart \/ BackfillDone \/ CutOver \/ UNCHANGED vars
  BY <1>5, <1>10 DEF SwitchWriter, BackfillStart, BackfillDone, CutOver, vars, stores
<1>. QED
  BY <1>1, <1>2, <1>3, <1>4, <1>5, <1>6, <1>7, <1>8, <1>9, <1>10 DEF Next, stores

\* However opens, restarts and writers interleave, no store searches or writes
\* an index with vectors of another model (ensure_index).
THEOREM ModelsNeverMix == Spec => []OneModelPerIndex
<1>1. SteadyInv /\ MarkInv => OneModelPerIndex
  BY NamesOfStores DEF MarkInv, MarksAgree, Sure, OneModelPerIndex, Reachable
<1>. QED
  BY <1>1, InitSteady, NextSteady, InitMark, NextMark, PTL DEF Spec

-----------------------------------------------------------------------------
(* What is offboarded stays gone.  An offboarding that crosses nothing is  *)
(* of the only index there is, and leaves no vector of the tenant behind;  *)
(* nor is any under way, or in the source of truth.                        *)

LeftAlone(c) == AccountOf[c] \in offboarded \ crossed

GoneInv ==
  /\ \A c \in conversation : AccountOf[c] \notin offboarded
  /\ loading # << >> => ~LeftAlone(loading[1].conv)
  /\ backfill # << >> => \A c \in backfill[1].left : ~LeftAlone(c)
  /\ OffboardedStaysGone

LEMMA InitGone == Init => GoneInv
BY DEF Init, GoneInv, OffboardedStaysGone

LEMMA UpsertGone ==
  ASSUME SteadyInv, OffboardedStaysGone, NEW o \in Openers, NEW cs \in SUBSET Conversations,
         NEW returned \in BOOLEAN, UpsertBatch(o, cs, returned), \A c \in cs : ~LeftAlone(c),
         UNCHANGED <<offboarded, crossed>>
  PROVE  OffboardedStaysGone'
<1>1. UNCHANGED index \/ (Reachable(o) /\ index' = Written(o, cs))
  BY UpsertFacts
<1>2. CASE UNCHANGED index
  BY <1>2 DEF OffboardedStaysGone
<1>3. CASE Reachable(o) /\ index' = Written(o, cs)
  <2>. DEFINE n == store[o].name
  <2>1. /\ n \in Names
        /\ \A c \in Conversations :
             index'[n].vector[c] = IF c \in cs THEN store[o].model ELSE index[n].vector[c]
        /\ \A i \in Names \ {n} : index'[i] = index[i]
    BY <1>3, WrittenFacts
  <2>2. index[n] # None
    BY <1>3 DEF Reachable
  <2>. QED
    BY <2>1, <2>2 DEF OffboardedStaysGone, LeftAlone
<1>. QED
  BY <1>1, <1>2, <1>3

LEMMA OffboardGone ==
  ASSUME SteadyInv, GoneInv, NEW a \in Accounts, Offboard(a)
  PROVE  GoneInv'
<1>. DEFINE n == IF pointer = Shadow THEN Shadow ELSE Base
            busy == \/ \A m \in Names : index[m] # None
                    \/ loading # << >> /\ loading[1].conv \in Of(a)
                    \/ backfill # << >> /\ backfill[1].left \cap Of(a) # {}
<1>1. /\ a \notin offboarded
      /\ crossed' = IF busy THEN crossed \cup {a} ELSE crossed
      /\ offboarded' = offboarded \cup {a}
      /\ conversation' = conversation \ Of(a)
      /\ UNCHANGED <<loading, backfill>>
  BY DEF Offboard
<1>2. /\ n \in Names /\ index[n] # None
      /\ \A c \in Conversations :
           index'[n].vector[c] = IF c \in Of(a) THEN None ELSE index[n].vector[c]
      /\ \A i \in Names \ {n} : index'[i] = index[i]
  BY OffboardFacts
<1>3. \A c \in Conversations : c \in Of(a) <=> AccountOf[c] = a
  BY DEF Of
<1>4. \A c : LeftAlone(c)' => LeftAlone(c) \/ (~busy /\ AccountOf[c] = a)
  BY <1>1 DEF LeftAlone
<1>5. IndexTypes
  BY DEF SteadyInv
<1>6. \A c \in conversation' : AccountOf[c] \notin offboarded'
  BY <1>1, <1>3, <1>5 DEF GoneInv, IndexTypes
<1>7. loading' # << >> => ~LeftAlone(loading[1].conv)'
  BY <1>1, <1>3, <1>4, <1>5 DEF GoneInv, IndexTypes
<1>8. backfill' # << >> => \A c \in backfill'[1].left : ~LeftAlone(c)'
  BY <1>1, <1>3, <1>4, <1>5 DEF GoneInv, IndexTypes
\* Not busy, there is one index, and its vectors of the tenant are deleted.
<1>9. ASSUME NEW i \in Names, index'[i] # None, NEW c \in Conversations, LeftAlone(c)'
      PROVE  index'[i].vector[c] = None
  <2>1. LeftAlone(c) /\ index[i] # None => index[i].vector[c] = None
    BY DEF GoneInv, OffboardedStaysGone, LeftAlone
  <2>2. CASE i = n
    BY <1>2, <1>3, <1>4, <1>9, <2>1, <2>2
  <2>3. CASE i # n
    <3>1. index'[i] = index[i]
      BY <1>2, <2>3
    <3>2. busy
      BY <1>2, <1>9, <2>3, <3>1 DEF Names
    <3>. QED
      BY <1>4, <1>9, <2>1, <3>1, <3>2
  <2>. QED
    BY <2>2, <2>3
<1>10. OffboardedStaysGone'
  BY <1>9 DEF OffboardedStaysGone, LeftAlone
<1>. QED
  BY <1>6, <1>7, <1>8, <1>10 DEF GoneInv

LEMMA NextGone == SteadyInv /\ GoneInv /\ [Next]_vars => GoneInv'
<1>. SUFFICES ASSUME SteadyInv, GoneInv, [Next]_vars PROVE GoneInv'
  OBVIOUS
<1>0. OffboardedStaysGone /\ IndexTypes
  BY DEF GoneInv, SteadyInv
\* Steps that leave the source of truth and the tenants, and write no vector.
<1>1. ASSUME UNCHANGED <<conversation, offboarded, crossed>>,
             UNCHANGED loading \/ loading' = << >>,
             UNCHANGED backfill \/ backfill' = << >>,
             \A n \in Names : index'[n] # None =>
               \A c \in Conversations :
                 \/ index'[n].vector[c] = None
                 \/ index[n] # None /\ index'[n].vector[c] = index[n].vector[c]
      PROVE  GoneInv'
  <2>1. OffboardedStaysGone'
    BY <1>0, <1>1 DEF OffboardedStaysGone
  <2>. QED
    BY <1>1, <2>1 DEF GoneInv, LeftAlone
<1>2. ASSUME NEW o \in Openers, NEW n \in Names, NEW m \in Models, Opens(o, n, m)
      PROVE  GoneInv'
  <2>1. PICK seen \in Indexes, recorded \in Models \cup {None} :
          /\ index' = [index EXCEPT ![n] = seen]
          /\ index[n] # None => seen = index[n]
          /\ index[n] = None => \A c \in Conversations : seen.vector[c] = None
    BY <1>2, BeginFacts DEF Opens
  <2>2. index'[n] = seen /\ \A i \in Names \ {n} : index'[i] = index[i]
    BY <1>0, <2>1 DEF IndexTypes
  <2>. QED
    BY <1>1, <1>2, <2>1, <2>2 DEF Opens, Begin, writers, tenants
<1>3. ASSUME NEW o \in Openers, Decide(o) PROVE GoneInv'
  <2>1. \A n \in Names : \/ index'[n] = index[n]
                         \/ index[n] # None /\ index'[n].vector = index[n].vector
    BY <1>3, DecideFacts
  <2>. QED
    BY <1>1, <1>3, <2>1 DEF Decide, writers, tenants
<1>4. ASSUME NEW c \in Conversations, Deliver(c) PROVE GoneInv'
  <2>1. /\ conversation' = conversation \cup {c} /\ AccountOf[c] \notin offboarded
        /\ loading'[1].conv = c
        /\ UNCHANGED <<index, backfill, offboarded, crossed>>
    BY <1>4, DeliverFacts DEF Deliver, stores, tenants
  <2>. QED
    BY <1>0, <2>1 DEF GoneInv, LeftAlone, OffboardedStaysGone
<1>5. ASSUME NEW returned \in BOOLEAN, Upsert(returned) PROVE GoneInv'
  <2>1. /\ loading # << >>
        /\ loading[1].conv \in Conversations /\ loading[1].stores \in Routes
        /\ UpsertBatch(Head(loading[1].stores), {loading[1].conv}, returned)
        /\ loading' # << >> =>
             loading'[1] = [conv |-> loading[1].conv, stores |-> <<"migrate">>]
    BY <1>5, LoadingFacts
  <2>2. UNCHANGED <<conversation, backfill, offboarded, crossed>>
    BY <1>5 DEF Upsert, tenants
  <2>3. Head(loading[1].stores) \in Openers
    BY <2>1, RouteFacts
  <2>4. OffboardedStaysGone'
    BY <1>0, <2>1, <2>2, <2>3, UpsertGone DEF GoneInv
  <2>5. loading' # << >> => loading'[1].conv = loading[1].conv
    BY <2>1
  <2>. QED
    BY <2>1, <2>2, <2>4, <2>5 DEF GoneInv, LeftAlone
<1>6. CASE BackfillStart
  <2>1. /\ backfill' = <<[left |-> conversation, dual |-> mode # "live"]>>
        /\ UNCHANGED <<index, conversation, loading, offboarded, crossed>>
    BY <1>6 DEF BackfillStart, stores, tenants
  <2>2. backfill'[1].left = conversation
    BY <2>1
  <2>. QED
    BY <2>1, <2>2 DEF GoneInv, LeftAlone, OffboardedStaysGone
<1>7. ASSUME NEW a \in Accounts, NEW returned \in BOOLEAN, BackfillBatch(a, returned)
      PROVE  GoneInv'
  <2>. DEFINE cs == Of(a) \cap backfill[1].left
  <2>1. /\ UNCHANGED <<conversation, loading, offboarded, crossed>>
        /\ backfill # << >> /\ UpsertBatch("migrate", cs, returned)
        /\ backfill' = IF returned THEN <<[backfill[1] EXCEPT !.left = @ \ Of(a)]>> ELSE << >>
    BY <1>7 DEF BackfillBatch, tenants
  <2>2. cs \in SUBSET Conversations /\ "migrate" \in Openers /\ \A c \in cs : ~LeftAlone(c)
    BY <2>1 DEF Of, Openers, GoneInv
  <2>3. backfill' # << >> => backfill'[1].left \subseteq backfill[1].left
    BY <1>0, <2>1 DEF IndexTypes
  <2>. HIDE DEF cs
  <2>4. OffboardedStaysGone'
    BY <1>0, <2>1, <2>2, UpsertGone
  <2>. QED
    BY <2>1, <2>3, <2>4 DEF GoneInv, LeftAlone
<1>8. CASE SwitchWriter \/ CutOver \/ UNCHANGED vars
  <2>1. UNCHANGED <<index, conversation, loading, backfill, offboarded, crossed>>
    BY <1>8 DEF SwitchWriter, CutOver, vars, stores, writers, tenants
  <2>. QED
    BY <2>1 DEF GoneInv, LeftAlone, OffboardedStaysGone
<1>9. CASE BackfillDone
  <2>1. UNCHANGED <<index, conversation, loading, offboarded, crossed>> /\ backfill' = << >>
    BY <1>9 DEF BackfillDone, stores, tenants
  <2>. QED
    BY <2>1 DEF GoneInv, LeftAlone, OffboardedStaysGone
<1>10. CASE Retire
  <2>1. /\ index' = [index EXCEPT ![Base] = None]
        /\ UNCHANGED <<conversation, loading, backfill, offboarded, crossed>>
    BY <1>10 DEF Retire, writers, tenants
  <2>2. \A n \in Names : index'[n] # None => index'[n] = index[n]
    BY <1>0, <2>1 DEF IndexTypes
  <2>. QED
    BY <1>1, <2>1, <2>2
<1>11. ASSUME NEW a \in Accounts, Offboard(a) PROVE GoneInv'
  BY <1>11, OffboardGone
<1>12. ASSUME NEW m \in Models, Restart(m) PROVE GoneInv'
  <2>1. UNCHANGED <<index, conversation, loading, backfill, offboarded, crossed>>
    BY <1>12 DEF Restart, writers, tenants
  <2>. QED
    BY <2>1 DEF GoneInv, LeftAlone, OffboardedStaysGone
<1>. QED
  BY <1>2, <1>3, <1>4, <1>5, <1>6, <1>7, <1>8, <1>9, <1>10, <1>11, <1>12, AllOpens DEF Next

\* The vectors of an offboarded tenant do not come back, unless a writer, a
\* migration or another index was beside the deletion (delete_account).
THEOREM GoneStaysGone == Spec => []OffboardedStaysGone
<1>1. GoneInv => OffboardedStaysGone
  BY DEF GoneInv
<1>. QED
  BY <1>1, InitSteady, NextSteady, InitGone, NextGone, PTL DEF Spec

-----------------------------------------------------------------------------
(* What the cut-over keeps.  An upsert that began before dual writing did  *)
(* goes to the live index only and may return at any time later, but its   *)
(* conversation is in the source of truth by then: a backfill that begins  *)
(* with dual writing reads it, and until its batch is written it is left.  *)

Staying(c) == AccountOf[c] \notin offboarded

\* Acknowledged, or about to be by the live index alone.
Promised(c) ==
  \/ c \in acked
  \/ loading # << >> /\ loading[1].conv = c /\ loading[1].stores = <<"load">>

Kept(c) == index[Shadow].vector[c] # None

Backfilling == backfill # << >> /\ backfill[1].dual

KeepInv ==
  /\ acked \subseteq Conversations
  /\ \A c \in acked : Staying(c) => c \in conversation
  /\ loading # << >> /\ Staying(loading[1].conv) => loading[1].conv \in conversation
  /\ Backfilling \/ filled = "yes" => mode # "live"
  /\ Backfilling =>
       \A c \in Conversations : Promised(c) /\ Staying(c) => c \in backfill[1].left \/ Kept(c)
  /\ filled = "yes" => \A c \in Conversations : Promised(c) /\ Staying(c) => Kept(c)

LEMMA InitKeep == Init => KeepInv
BY DEF Init, KeepInv, Promised, Backfilling

\* The shadow index is there, and the migration writes to it.
LEMMA ShadowThere ==
  ASSUME SteadyInv, mode # "live"
  PROVE  /\ Reachable("migrate") /\ store["migrate"].name = Shadow
         /\ store["migrate"].model # None
         /\ Shadow \in Names /\ index[Shadow] # None
<1>1. /\ "migrate" \in Openers /\ store["migrate"] # None /\ store["migrate"].name = Shadow
      /\ Shadow \in Names
  BY DEF SteadyInv, Steady, Openers, Names
<1>2. index[Shadow] # None
  BY <1>1, NamesAssumption DEF SteadyInv, Found
<1>3. store["migrate"].model # None
  BY <1>1, NamesOfStores, NamesAssumption DEF Models
<1>. QED
  BY <1>1, <1>2, <1>3 DEF Reachable

\* Steps that promise nothing, leave the progress of the migration and keep the
\* vectors of the shadow index.
LEMMA KeepsKept ==
  ASSUME SteadyInv, KeepInv,
         UNCHANGED <<conversation, mode, backfill, filled, acked, offboarded>>,
         UNCHANGED loading \/ loading' = << >>,
         mode # "live" => \A c \in Conversations : Kept(c) => Kept(c)'
  PROVE  KeepInv'
<1>1. \A c \in Conversations : Promised(c)' => Promised(c)
  BY DEF Promised
<1>. QED
  BY <1>1 DEF KeepInv, Staying, Backfilling

\* No upsert loses a vector, and one of the migration that returned has written.
LEMMA UpsertKept ==
  ASSUME SteadyInv, NEW o \in Openers, NEW cs \in SUBSET Conversations,
         NEW returned \in BOOLEAN, UpsertBatch(o, cs, returned)
  PROVE  /\ \A c \in Conversations : Kept(c) => Kept(c)'
         /\ mode # "live" /\ o = "migrate" /\ returned => \A c \in cs : Kept(c)'
<1>1. /\ UNCHANGED index \/ (Reachable(o) /\ index' = Written(o, cs))
      /\ returned => Reachable(o) /\ index' = Written(o, cs)
  BY UpsertFacts
<1>2. CASE UNCHANGED index /\ ~returned
  BY <1>2 DEF Kept
<1>3. CASE Reachable(o) /\ index' = Written(o, cs)
  <2>. DEFINE n == store[o].name
  <2>1. /\ n \in Names /\ store[o].model \in Models
        /\ \A c \in Conversations :
             index'[n].vector[c] = IF c \in cs THEN store[o].model ELSE index[n].vector[c]
        /\ \A i \in Names \ {n} : index'[i] = index[i]
    BY <1>3, WrittenFacts
  <2>2. store[o].model # None /\ Shadow \in Names
    BY <2>1, NamesAssumption DEF Models, Names
  <2>3. mode # "live" /\ o = "migrate" => n = Shadow
    BY ShadowThere
  <2>. HIDE DEF n
  <2>. QED
    BY <2>1, <2>2, <2>3 DEF Kept
<1>. QED
  BY <1>1, <1>2, <1>3

LEMMA DeliverKeep ==
  ASSUME SteadyInv, KeepInv, NEW c \in Conversations, Deliver(c)
  PROVE  KeepInv'
<1>1. /\ conversation' = conversation \cup {c} /\ loading = << >>
      /\ loading' # << >> /\ loading'[1].conv = c
      /\ loading'[1].stores = <<"load">> => mode = "live"
      /\ UNCHANGED <<index, mode, backfill, filled, acked, offboarded>>
  BY DeliverFacts DEF Deliver, stores, tenants
<1>2. \A d \in Conversations : Promised(d)' => Promised(d) \/ (mode = "live" /\ d = c)
  BY <1>1 DEF Promised
<1>. QED
  BY <1>1, <1>2 DEF KeepInv, Staying, Backfilling, Kept

LEMMA UpsertKeep ==
  ASSUME SteadyInv, KeepInv, NEW returned \in BOOLEAN, Upsert(returned)
  PROVE  KeepInv'
<1>. DEFINE c == loading[1].conv
            r == loading[1].stores
<1>1. /\ loading # << >> /\ c \in Conversations /\ r \in Routes
      /\ UpsertBatch(Head(r), {c}, returned)
      /\ IF returned /\ Len(r) # 1
         THEN loading' # << >> /\ loading'[1] = [conv |-> c, stores |-> <<"migrate">>]
         ELSE loading' = << >>
      /\ acked' = IF returned /\ Len(r) = 1 THEN acked \cup {c} ELSE acked
  BY LoadingFacts
<1>2. UNCHANGED <<conversation, mode, backfill, filled, offboarded>>
  BY DEF Upsert, tenants
<1>3. /\ Head(r) \in Openers /\ <<"migrate">> # <<"load">>
      /\ Len(r) = 1 => r = <<"load">> \/ (r = <<"migrate">> /\ Head(r) = "migrate")
  BY <1>1, RouteFacts
<1>4. {c} \in SUBSET Conversations
  BY <1>1
<1>5. /\ \A d \in Conversations : Kept(d) => Kept(d)'
      /\ mode # "live" /\ Head(r) = "migrate" /\ returned => \A d \in {c} : Kept(d)'
  BY <1>1, <1>3, <1>4, UpsertKept
<1>6. \A d \in Conversations :
        Promised(d)' => Promised(d) \/ (d = c /\ (mode # "live" => Kept(d)'))
  <2>1. CASE returned /\ Len(r) # 1
    BY <1>1, <1>3, <2>1 DEF Promised
  <2>2. CASE returned /\ Len(r) = 1
    <3>1. CASE r = <<"load">>
      BY <1>1, <2>2, <3>1 DEF Promised
    <3>2. CASE Head(r) = "migrate"
      BY <1>1, <1>5, <2>2, <3>2 DEF Promised
    <3>. QED
      BY <1>3, <2>2, <3>1, <3>2
  <2>3. CASE ~returned
    BY <1>1, <2>3 DEF Promised
  <2>. QED
    BY <2>1, <2>2, <2>3
<1>7. acked' \subseteq acked \cup {c} /\ (loading' # << >> => loading'[1].conv = c)
  BY <1>1
<1>. HIDE DEF c, r
<1>8. /\ acked' \subseteq Conversations
      /\ \A d \in acked' : Staying(d)' => d \in conversation'
      /\ loading' # << >> /\ Staying(loading[1].conv)' => loading'[1].conv \in conversation'
  BY <1>1, <1>2, <1>7 DEF KeepInv, Staying, c
<1>9. Backfilling' \/ filled' = "yes" => mode # "live"
  BY <1>2 DEF KeepInv, Backfilling
<1>10. Backfilling' => \A d \in Conversations :
         Promised(d)' /\ Staying(d)' => d \in backfill'[1].left \/ Kept(d)'
  BY <1>2, <1>5, <1>6, <1>9 DEF KeepInv, Staying, Backfilling
<1>11. filled' = "yes" => \A d \in Conversations : Promised(d)' /\ Staying(d)' => Kept(d)'
  BY <1>2, <1>5, <1>6, <1>9 DEF KeepInv, Staying
<1>. QED
  BY <1>2, <1>8, <1>9, <1>10, <1>11 DEF KeepInv

LEMMA BackfillBatchKeep ==
  ASSUME SteadyInv, KeepInv, NEW a \in Accounts, NEW returned \in BOOLEAN,
         BackfillBatch(a, returned)
  PROVE  KeepInv'
<1>. DEFINE cs == Of(a) \cap backfill[1].left
<1>1. /\ UNCHANGED <<conversation, loading, mode, filled, acked, offboarded>>
      /\ backfill # << >> /\ UpsertBatch("migrate", cs, returned)
      /\ backfill' = IF returned THEN <<[backfill[1] EXCEPT !.left = @ \ Of(a)]>> ELSE << >>
  BY DEF BackfillBatch, tenants
<1>2. cs \in SUBSET Conversations /\ "migrate" \in Openers
  BY DEF Of, Openers
<1>3. backfill[1] \in [left : SUBSET Conversations, dual : BOOLEAN]
  BY <1>1 DEF SteadyInv, IndexTypes
<1>4. IF returned THEN /\ backfill'[1].left = backfill[1].left \ Of(a)
                       /\ backfill'[1].dual = backfill[1].dual
      ELSE backfill' = << >>
  BY <1>1, <1>3
<1>5. /\ \A c \in Conversations : Kept(c) => Kept(c)'
      /\ mode # "live" /\ returned => \A c \in cs : Kept(c)'
  BY <1>1, <1>2, UpsertKept
<1>6. \A c \in Conversations : Promised(c)' <=> Promised(c)
  BY <1>1 DEF Promised
<1>7. /\ Backfilling' => Backfilling /\ returned
      /\ Backfilling \/ filled = "yes" => mode # "live"
  BY <1>1, <1>4 DEF Backfilling, KeepInv
<1>8. Backfilling' => \A c \in Conversations :
        Promised(c)' /\ Staying(c)' => c \in backfill'[1].left \/ Kept(c)'
  BY <1>1, <1>4, <1>5, <1>6, <1>7 DEF KeepInv, Staying
<1>. QED
  BY <1>1, <1>5, <1>6, <1>7, <1>8 DEF KeepInv, Staying

LEMMA OffboardKeep ==
  ASSUME SteadyInv, KeepInv, NEW a \in Accounts, Offboard(a)
  PROVE  KeepInv'
<1>1. /\ offboarded' = offboarded \cup {a}
      /\ conversation' = conversation \ Of(a)
      /\ UNCHANGED <<loading, mode, backfill, filled, acked>>
  BY DEF Offboard
<1>2. \A c \in Conversations : c \in Of(a) <=> AccountOf[c] = a
  BY DEF Of
<1>3. \A c \in Conversations : Staying(c)' => Staying(c) /\ c \notin Of(a)
  BY <1>1, <1>2 DEF Staying
<1>4. ASSUME mode # "live", NEW c \in Conversations, Kept(c), Staying(c)'
      PROVE  Kept(c)'
  <2>. DEFINE n == IF pointer = Shadow THEN Shadow ELSE Base
  <2>1. /\ n \in Names
        /\ \A d \in Conversations :
             index'[n].vector[d] = IF d \in Of(a) THEN None ELSE index[n].vector[d]
        /\ \A i \in Names \ {n} : index'[i] = index[i]
    BY OffboardFacts
  <2>2. Shadow \in Names
    BY DEF Names
  <2>. HIDE DEF n
  <2>. QED
    BY <1>3, <1>4, <2>1, <2>2 DEF Kept
<1>5. \A c \in Conversations : Promised(c)' <=> Promised(c)
  BY <1>1 DEF Promised
<1>6. IndexTypes
  BY DEF SteadyInv
<1>7. loading # << >> => loading[1].conv \in Conversations
  BY <1>6 DEF IndexTypes
<1>8. /\ \A c \in acked' : Staying(c)' => c \in conversation'
      /\ loading' # << >> /\ Staying(loading[1].conv)' => loading'[1].conv \in conversation'
  BY <1>1, <1>3, <1>7 DEF KeepInv, Staying
<1>. QED
  BY <1>1, <1>3, <1>4, <1>5, <1>8 DEF KeepInv, Backfilling

LEMMA NextKeep == SteadyInv /\ KeepInv /\ [Next]_vars => KeepInv'
<1>. SUFFICES ASSUME SteadyInv, KeepInv, [Next]_vars PROVE KeepInv'
  OBVIOUS
<1>0. IndexTypes
  BY DEF SteadyInv
<1>1. ASSUME NEW o \in Openers, NEW n \in Names, NEW m \in Models, Opens(o, n, m)
      PROVE  KeepInv'
  <2>1. PICK seen \in Indexes, recorded \in Models \cup {None} :
          /\ index' = [index EXCEPT ![n] = seen]
          /\ index[n] # None => seen = index[n]
    BY <1>1, BeginFacts DEF Opens
  <2>2. \A i \in Names : index[i] # None => index'[i] = index[i]
    BY <1>0, <2>1 DEF IndexTypes
  <2>3. mode # "live" => \A c \in Conversations : Kept(c) => Kept(c)'
    BY <2>2, ShadowThere DEF Kept
  <2>. QED
    BY <1>1, <2>3, KeepsKept DEF Opens, Begin, writers, tenants
<1>2. ASSUME NEW o \in Openers, Decide(o) PROVE KeepInv'
  <2>1. \A n \in Names : index'[n] = index[n] \/ index'[n].vector = index[n].vector
    BY <1>2, DecideFacts
  <2>2. Shadow \in Names
    BY DEF Names
  <2>3. \A c \in Conversations : Kept(c) => Kept(c)'
    BY <2>1, <2>2 DEF Kept
  <2>. QED
    BY <1>2, <2>3, KeepsKept DEF Decide, writers, tenants
<1>3. ASSUME NEW c \in Conversations, Deliver(c) PROVE KeepInv'
  BY <1>3, DeliverKeep
<1>4. ASSUME NEW returned \in BOOLEAN, Upsert(returned) PROVE KeepInv'
  BY <1>4, UpsertKeep
<1>5. CASE SwitchWriter
  <2>1. /\ UNCHANGED <<index, conversation, loading, backfill, filled, acked, offboarded>>
        /\ mode' # "live"
    BY <1>5 DEF SwitchWriter, stores, tenants
  <2>. QED
    BY <2>1 DEF KeepInv, Promised, Staying, Kept, Backfilling
<1>6. CASE BackfillStart
  <2>1. /\ backfill' = <<[left |-> conversation, dual |-> mode # "live"]>>
        /\ UNCHANGED <<index, conversation, loading, mode, filled, acked, offboarded>>
    BY <1>6 DEF BackfillStart, stores, tenants
  <2>2. backfill'[1].left = conversation /\ backfill'[1].dual = (mode # "live")
    BY <2>1
  <2>3. \A c \in Conversations : Promised(c)' /\ Staying(c)' =>
          Promised(c) /\ Staying(c) /\ c \in conversation
    BY <2>1 DEF KeepInv, Promised, Staying
  <2>. QED
    BY <2>1, <2>2, <2>3 DEF KeepInv, Staying, Kept, Backfilling
<1>7. CASE BackfillDone
  <2>1. /\ UNCHANGED <<index, conversation, loading, mode, acked, offboarded>>
        /\ backfill # << >> /\ backfill[1].left = {} /\ backfill' = << >>
        /\ filled' = IF backfill[1].dual \/ filled = "yes" THEN "yes" ELSE "gap"
    BY <1>7 DEF BackfillDone, stores, tenants
  <2>2. filled' = "yes" => Backfilling \/ filled = "yes"
    BY <2>1 DEF Backfilling
  <2>. QED
    BY <2>1, <2>2 DEF KeepInv, Promised, Staying, Kept, Backfilling
<1>8. CASE CutOver \/ UNCHANGED vars
  <2>1. UNCHANGED <<index, conversation, loading, mode, backfill, filled, acked, offboarded>>
    BY <1>8 DEF CutOver, vars, stores, writers, tenants
  <2>. QED
    BY <2>1, KeepsKept DEF Kept
<1>9. CASE Retire
  <2>1. /\ index' = [index EXCEPT ![Base] = None]
        /\ UNCHANGED <<conversation, loading, mode, backfill, filled, acked, offboarded>>
    BY <1>9 DEF Retire, writers, tenants
  <2>2. index'[Shadow] = index[Shadow]
    BY <1>0, <2>1, NamesAssumption DEF IndexTypes, Names
  <2>. QED
    BY <2>1, <2>2, KeepsKept DEF Kept
<1>10. ASSUME NEW a \in Accounts, NEW returned \in BOOLEAN, BackfillBatch(a, returned)
       PROVE  KeepInv'
  BY <1>10, BackfillBatchKeep
<1>11. ASSUME NEW a \in Accounts, Offboard(a) PROVE KeepInv'
  BY <1>11, OffboardKeep
<1>12. ASSUME NEW m \in Models, Restart(m) PROVE KeepInv'
  BY <1>12, KeepsKept DEF Restart, writers, tenants, Kept
<1>. QED
  BY <1>1, <1>2, <1>3, <1>4, <1>5, <1>6, <1>7, <1>8, <1>9, <1>10, <1>11, <1>12, AllOpens
     DEF Next

\* After the cut-over the index has every conversation, of a tenant still there,
\* that was ever acknowledged, if a backfill begun with dual writing completed.
THEOREM CutOverKeeps == Spec => []CutOverKeepsAll
<1>1. KeepInv => CutOverKeepsAll
  BY DEF KeepInv, CutOverKeepsAll, Promised, Staying, Kept
<1>. QED
  BY <1>1, InitSteady, NextSteady, InitKeep, NextKeep, PTL DEF Spec


-----------------------------------------------------------------------------
(* The templates.  The server holds templates the lint let through, and    *)
(* the same ones until it restarts; so what a call binds is of the         *)
(* declarations the agent was told.                                        *)

LEMMA GreatestIndex ==
  ASSUME NEW n \in Nat, NEW S \in SUBSET (1..n), S # {}
  PROVE  \E x \in S : \A y \in S : y <= x
<1>. DEFINE T == {n - x : x \in S}
<1>1. T \in SUBSET Nat /\ T # {}
  OBVIOUS
<1>2. IsWellFoundedOn(OpToRel(<, Nat), Nat)
  BY NatLessThanWellFounded
<1>3. PICK t \in T : \A u \in T : <<u, t>> \notin OpToRel(<, Nat)
  <2>. HIDE DEF T
  <2>. QED
    BY <1>1, <1>2, WFMin
<1>4. \A u \in T : ~(u < t)
  BY <1>1, <1>3 DEF OpToRel
<1>5. PICK x \in S : t = n - x
  OBVIOUS
<1>6. \A y \in S : ~(n - y < n - x)
  BY <1>4, <1>5
<1>7. \A y \in S : y \in Int
  OBVIOUS
<1>. QED
  BY <1>6, <1>7

LEMMA DeclaredFacts ==
  ASSUME NEW t \in Authored
  PROVE  /\ \A p \in Range(t.params) : p \in Parameters /\ p.name \in ParamNames(t)
         /\ \A n \in ParamNames(t) :
              Declared(t, n) \in Range(t.params) /\ Declared(t, n).name = n
<1>1. t.params \in Seq(Parameters)
  BY TemplateAssumption DEF Templates
<1>2. /\ DOMAIN t.params = 1..Len(t.params) /\ Len(t.params) \in Nat
      /\ \A i \in DOMAIN t.params : t.params[i] \in Parameters
  <2>. HIDE DEF Parameters
  <2>. QED
    BY <1>1
<1>3. \A p : p \in Range(t.params) <=> \E i \in DOMAIN t.params : p = t.params[i]
  BY DEF Range
<1>4. ASSUME NEW n \in ParamNames(t)
      PROVE  Declared(t, n) \in Range(t.params) /\ Declared(t, n).name = n
  <2>. DEFINE of == {i \in DOMAIN t.params : t.params[i].name = n}
  <2>1. of \in SUBSET (1..Len(t.params)) /\ of # {}
    BY <1>2, <1>3 DEF ParamNames
  <2>2. \E i \in of : \A j \in of : j <= i
    <3>. HIDE DEF of
    <3>. QED
      BY <1>2, <2>1, GreatestIndex
  <2>3. \E i \in of : Declared(t, n) = t.params[i]
    BY <2>2 DEF Declared
  <2>. QED
    BY <1>3, <2>3
<1>. QED
  BY <1>2, <1>3, <1>4 DEF ParamNames

LEMMA LoadedFacts ==
  ASSUME directory \in [TemplateFiles -> Authored \cup {Nothing}], Loadable
  PROVE  \A n \in DOMAIN Loaded : Loaded[n] \in Authored /\ Valid(Loaded[n])
<1>. DEFINE all == {directory[f] : f \in TemplateFiles} \ {Nothing}
<1>1. \A t \in all : t \in Authored /\ Valid(t)
  BY DEF Loadable
<1>2. SUFFICES ASSUME NEW n \in {t.name : t \in all}
               PROVE  Loaded[n] \in Authored /\ Valid(Loaded[n])
  BY DEF Loaded
<1>3. Loaded[n] = CHOOSE t \in all : t.name = n
  BY DEF Loaded
<1>4. \E t \in all : t.name = n
  OBVIOUS
<1>. HIDE DEF all
<1>5. Loaded[n] \in all
  BY <1>3, <1>4
<1>. QED
  BY <1>1, <1>5

Given == [json : STRING, reads : STRING, n : Int]

\* A value that is accepted is of the declared type or a NaN, and is checked.
LEMMA AcceptedFacts ==
  ASSUME NEW p \in Parameters, p.type \in ParamTypes, NEW given \in Given,
         NEW v \in Accepted(p, given)
  PROVE  /\ v \in Values
         /\ \/ v.type = "nan"
            \/ /\ v.type = p.type
               /\ p.choices # Nothing => \E c \in p.choices : c.n = v.n
               /\ p.low # Nothing => p.low.n <= v.n
               /\ p.high # Nothing => v.n <= p.high.n
<1>1. PICK as \in {p.type, "nan"} : v = Value(as, given.n)
  BY DEF Accepted, Coerced
<1>2. v \in Values /\ v.type = as /\ v.n = given.n
  <2>1. given.n \in Int /\ as \in ParamTypes \cup {"nan"}
    BY DEF Given
  <2>. QED
    BY <1>1, <2>1 DEF Value, Values
<1>3. \/ v.type = "nan"
      \/ /\ p.choices # Nothing => \E c \in p.choices : c.n = v.n
         /\ p.low # Nothing => v.n >= p.low.n
         /\ p.high # Nothing => v.n <= p.high.n
  BY DEF Accepted, InBounds, Same
<1>4. p.low # Nothing => p.low.n \in Int
  BY DEF Parameters, Values
<1>. QED
  BY <1>1, <1>2, <1>3, <1>4 DEF Given

\* A value passed as the declaration has it is accepted, if its constraints are
\* of the parameter's type.
LEMMA NaturalAccepted ==
  ASSUME NEW p \in Parameters, p.type \in ParamTypes, NEW given \in Given, Natural(p, given),
         \A c \in ({p.low, p.high} \cup (IF p.choices = Nothing THEN {} ELSE p.choices)) \ {Nothing} :
           Like(Value(p.type, 0), c)
  PROVE  Accepted(p, given) # {}
<1>. DEFINE v == Value(p.type, given.n)
<1>1. v \in Coerced(p.type, given)
  <2>1. \/ p.type = "int" /\ given.json = "int" /\ given.reads = "int"
        \/ p.type = "float" /\ given.json = "float" /\ given.reads = "float"
        \/ p.type = "str" /\ given.json = "str"
        \/ p.type = "date" /\ given.json = "str" /\ given.reads = "date"
        \/ p.type = "bool" /\ given.json = "bool" /\ given.reads = "bool"
    BY DEF Natural, ParamTypes
  <2>. QED
    BY <2>1 DEF Coerced
<1>2. v.type = p.type /\ v.n = given.n /\ Value(p.type, 0).type = p.type
  BY DEF Value
<1>3. \A c : Like(Value(p.type, 0), c) => Like(v, c)
  BY <1>2 DEF Like
<1>4. p.choices # Nothing => \E c \in p.choices : Same(v, c)
  <2>. SUFFICES ASSUME p.choices # Nothing PROVE \E c \in p.choices : Same(v, c)
    OBVIOUS
  <2>1. p.choices \subseteq Values
    BY DEF Parameters
  <2>2. PICK c \in p.choices : c.n = given.n
    BY DEF Natural
  <2>3. c # Nothing /\ Like(v, c)
    BY <1>3, <2>1, TemplateAssumption
  <2>. QED
    BY <1>2, <2>2, <2>3 DEF Same
<1>5. InBounds(v, p.low, p.high)
  BY <1>2, <1>3 DEF InBounds, Natural
<1>. QED
  BY <1>1, <1>4, <1>5 DEF Accepted


LEMMA BindingFacts ==
  ASSUME NEW t \in Authored, Valid(t), NEW args \in Arguments, ~BindRefuses(t, args),
         NEW n \in ParamNames(t)
  PROVE  LET p == Declared(t, n)
             v == Bound(t, args)[n]
         IN  /\ p \in Range(t.params) /\ p.name = n
             /\ Omitted(p, args) => ~p.required /\ v = p.default
             /\ ~Omitted(p, args) =>
                  /\ v \in Values
                  /\ \/ v.type = "nan"
                     \/ /\ v.type = p.type
                        /\ p.choices # Nothing => \E c \in p.choices : c.n = v.n
                        /\ p.low # Nothing => p.low.n <= v.n
                        /\ p.high # Nothing => v.n <= p.high.n
<1>1. PICK p : p = Declared(t, n)
  OBVIOUS
<1>2. PICK v : v = Bound(t, args)[n]
  OBVIOUS
<1>3. p \in Range(t.params) /\ p.name = n /\ p \in Parameters
  BY <1>1, DeclaredFacts
<1>4. v \in Binding(p, args)
  <2>1. v = CHOOSE w \in Binding(p, args) : TRUE
    BY <1>1, <1>2 DEF Bound
  <2>2. Binding(p, args) # {}
    BY <1>3 DEF BindRefuses
  <2>. QED
    BY <2>1, <2>2
<1>5. CASE Omitted(p, args)
  BY <1>1, <1>2, <1>3, <1>4, <1>5 DEF Binding
<1>6. CASE ~Omitted(p, args)
  <2>1. v \in Accepted(p, args[n])
    BY <1>3, <1>4, <1>6 DEF Binding
  <2>2. args[n] \in Given /\ p.type \in ParamTypes
    <3>1. n \in DOMAIN args
      BY <1>3, <1>6 DEF Omitted
    <3>2. args[n] \in Given
      BY <3>1, TemplateAssumption DEF Given
    <3>. QED
      BY <1>3, <3>2 DEF Valid
  <2>3. /\ v \in Values
        /\ \/ v.type = "nan"
           \/ /\ v.type = p.type
              /\ p.choices # Nothing => \E c \in p.choices : c.n = v.n
              /\ p.low # Nothing => p.low.n <= v.n
              /\ p.high # Nothing => v.n <= p.high.n
    BY <1>3, <2>1, <2>2, AcceptedFacts
  <2>. QED
    BY <1>1, <1>2, <1>3, <1>6, <2>3
<1>. QED
  BY <1>5, <1>6

LEMMA SoundIsNotRefused ==
  ASSUME NEW t \in Authored, Valid(t), NEW args \in Arguments, Sound(t), AsDescribed(t, args)
  PROVE  ~BindRefuses(t, args)
<1>. SUFFICES ASSUME NEW p \in Range(t.params) PROVE Binding(p, args) # {}
  BY DEF BindRefuses, AsDescribed
<1>1. p \in Parameters /\ p.type \in ParamTypes
  <2>1. p \in Parameters
    BY DeclaredFacts
  <2>. QED
    BY <2>1 DEF Valid
<1>2. CASE Omitted(p, args)
  BY <1>2 DEF AsDescribed, Binding
<1>3. CASE ~Omitted(p, args)
  <2>1. args[p.name] \in Given
    BY <1>3, TemplateAssumption DEF Omitted, Given
  <2>2. Natural(p, args[p.name])
    BY <1>3 DEF AsDescribed
  <2>3. Accepted(p, args[p.name]) # {}
    BY <1>1, <2>1, <2>2, NaturalAccepted DEF Sound
  <2>. QED
    BY <1>3, <2>3 DEF Binding
<1>. QED
  BY <1>2, <1>3

LEMMA NothingListed == SetToSeq({}) = << >>
<1>1. Cardinality({}) = 0
  BY FS_EmptySet
<1>2. << >> \in [1..0 -> {}] /\ IsInjective(<< >>)
  BY DEF IsInjective
<1>3. SetToSeq({}) \in [1..0 -> {}]
  BY <1>1, <1>2 DEF SetToSeq
<1>. QED
  BY <1>3

\* Nor does an engine fail: every NULL is cast, and without comments there is a
\* value for each marker.
LEMMA SoundIsNoDefect ==
  ASSUME NEW t \in Authored, Valid(t), NEW args \in Arguments, Sound(t), ~BindRefuses(t, args)
  PROVE  ~EngineFails(t, Bound(t, args))
<1>1. ~TrinoFails(t)
  <2>1. SetToSeq(t.commented \ {"%"}) = << >>
    <3>1. t.commented \ {"%"} = {}
      BY DEF Sound
    <3>. QED
      BY <3>1, NothingListed
  <2>2. t.uses \in Seq(STRING)
    BY TemplateAssumption DEF Templates
  <2>3. Markers(t) = t.uses
    <3>1. \A s \in Seq(STRING) : s \o << >> = s
      OBVIOUS
    <3>. QED
      BY <2>1, <2>2, <3>1 DEF Markers
  <2>4. Range(t.uses) = ParamNames(t)
    BY DEF Valid
  <2>. QED
    BY <2>3, <2>4 DEF TrinoFails
<1>2. ~PostgresFails(t, Bound(t, args))
  <2>. SUFFICES ASSUME NEW n \in ParamNames(t), n \notin t.casts
                PROVE  Bound(t, args)[n] # Nothing
    BY DEF PostgresFails, Sound
  <2>1. CASE Omitted(Declared(t, n), args)
    BY <2>1, BindingFacts DEF Sound
  <2>2. CASE ~Omitted(Declared(t, n), args)
    BY <2>2, BindingFacts, TemplateAssumption
  <2>. QED
    BY <2>1, <2>2
<1>. QED
  BY <1>1, <1>2 DEF EngineFails


Outcomes == {"none", "unknown", "refused", "defect", "error of the data", "rows"}

\* A call has its type; while it goes on, the server has the template it was told
\* of, and what is bound is that template's binding of the arguments.
CallTypes ==
  /\ DOMAIN call = DOMAIN NoCall
  /\ call = [f \in DOMAIN call |-> call[f]]
  /\ call.pc \in {"idle", "found", "described", "bound", "ended"}
  /\ call.pc # "ended" => call.outcome = "none"

CallBinds ==
  /\ call.pc \in {"found", "described", "bound"} => served # << >>
  /\ call.pc = "found" /\ call.current => call.name \in DOMAIN served[1]
  /\ call.pc \in {"described", "bound"} =>
       call.name \in DOMAIN served[1] /\ call.told = served[1][call.name]
  /\ call.pc = "bound" =>
       /\ call.args \in Arguments /\ ~BindRefuses(call.told, call.args)
       /\ call.bound = Bound(call.told, call.args)

TemplateInv ==
  /\ directory \in [TemplateFiles -> Authored \cup {Nothing}]
  /\ served # << >> => \A n \in DOMAIN served[1] : served[1][n] \in Authored /\ Valid(served[1][n])
  /\ CallTypes /\ CallBinds
  /\ CallsAsDeclared

LEMMA InitTemplate == TemplatesInit => TemplateInv
BY DEF TemplatesInit, TemplateInv, CallTypes, CallBinds, CallsAsDeclared, NoCall


LEMMA EndedFacts ==
  ASSUME CallTypes, NEW outcome
  PROVE  LET e == Ended(outcome)
         IN  /\ DOMAIN e = DOMAIN call /\ e = [f \in DOMAIN e |-> e[f]]
             /\ e.pc = "ended" /\ e.outcome = outcome
             /\ \A f \in DOMAIN call \ {"pc", "outcome"} : e[f] = call[f]
<1>1. "pc" \in DOMAIN call /\ "outcome" \in DOMAIN call
  BY DEF CallTypes, NoCall
<1>. DEFINE d == [call EXCEPT !.pc = "ended"]
            e == [d EXCEPT !.outcome = outcome]
<1>2. /\ DOMAIN d = DOMAIN call /\ d = [f \in DOMAIN d |-> d[f]] /\ d.pc = "ended"
      /\ \A f \in DOMAIN call \ {"pc"} : d[f] = call[f]
  BY <1>1
<1>3. Ended(outcome) = e
  BY <1>1 DEF Ended
<1>. HIDE DEF d
<1>4. /\ DOMAIN e = DOMAIN call /\ e = [f \in DOMAIN e |-> e[f]]
      /\ e.pc = "ended" /\ e.outcome = outcome
      /\ \A f \in DOMAIN call \ {"pc", "outcome"} : e[f] = call[f]
  BY <1>1, <1>2
<1>. HIDE DEF e
<1>. QED
  BY <1>3, <1>4

\* A step that leaves the server what it has, and moves the call on without an
\* outcome.
LEMMA MovesCall ==
  ASSUME TemplateInv, UNCHANGED directory,
         served' # << >> => \A n \in DOMAIN served'[1] :
                              served'[1][n] \in Authored /\ Valid(served'[1][n]),
         CallTypes', CallBinds', call'.pc # "ended"
  PROVE  TemplateInv'
BY DEF TemplateInv, CallTypes, CallsAsDeclared

LEMMA SearchTemplate == ASSUME TemplateInv, Search PROVE TemplateInv'
<1>1. PICK n : call' = [call EXCEPT !.pc = "found", !.name = n,
                          !.current = n \in DOMAIN Service[1] /\ Service[1][n] = indexed[n]]
  BY DEF Search
<1>2. served' # << >> /\ served' = Service /\ UNCHANGED <<directory, indexed>>
  BY DEF Search
<1>3. served = << >> /\ Loadable => \A m \in DOMAIN Loaded : Loaded[m] \in Authored /\ Valid(Loaded[m])
  BY LoadedFacts DEF TemplateInv
<1>4. \A m \in DOMAIN served'[1] : served'[1][m] \in Authored /\ Valid(served'[1][m])
  <2>1. CASE served = << >> /\ Loadable
    <3>1. served'[1] = Loaded
      BY <1>2, <2>1 DEF Service
    <3>. QED
      BY <1>3, <2>1, <3>1
  <2>2. CASE ~(served = << >> /\ Loadable)
    BY <1>2, <2>2 DEF Service, TemplateInv
  <2>. QED
    BY <2>1, <2>2
<1>5. PICK c : c = (n \in DOMAIN Service[1] /\ Service[1][n] = indexed[n])
  OBVIOUS
<1>6. /\ DOMAIN call' = DOMAIN call /\ call' = [f \in DOMAIN call' |-> call'[f]]
      /\ call'.pc = "found" /\ call'.name = n /\ call'.current = c
      /\ call'.outcome = call.outcome
  BY <1>1, <1>5 DEF TemplateInv, CallTypes, NoCall
<1>7. CallTypes'
  BY <1>6 DEF TemplateInv, CallTypes, Search
<1>8. CallBinds'
  BY <1>2, <1>5, <1>6 DEF CallBinds
<1>. QED
  BY <1>2, <1>4, <1>6, <1>7, <1>8, MovesCall

LEMMA DescribeTemplate == ASSUME TemplateInv, Describe PROVE TemplateInv'
<1>1. /\ call.pc = "found" /\ UNCHANGED <<directory, served>>
      /\ CallTypes /\ served # << >> /\ call.outcome = "none"
  BY DEF Describe, TemplateInv, CallTypes, CallBinds
<1>2. CASE call.name \in DOMAIN served[1]
  <2>1. call' = [call EXCEPT !.pc = "described", !.told = served[1][call.name]]
    BY <1>2 DEF Describe
  <2>2. /\ DOMAIN call' = DOMAIN call /\ call' = [f \in DOMAIN call' |-> call'[f]]
        /\ call'.pc = "described" /\ call'.told = served[1][call.name]
        /\ call'.name = call.name /\ call'.outcome = call.outcome
    BY <2>1 DEF TemplateInv, CallTypes, NoCall
  <2>3. CallTypes' /\ CallBinds'
    BY <1>1, <1>2, <2>2 DEF CallTypes, CallBinds
  <2>. QED
    BY <1>1, <2>2, <2>3, MovesCall DEF TemplateInv
<1>3. CASE call.name \notin DOMAIN served[1]
  <2>1. call' = Ended("unknown")
    BY <1>3 DEF Describe
  <2>2. /\ DOMAIN call' = DOMAIN call /\ call' = [f \in DOMAIN call' |-> call'[f]]
        /\ call'.pc = "ended" /\ call'.outcome = "unknown" /\ call'.current = call.current
    BY <1>1, <2>1, EndedFacts DEF CallTypes, NoCall
  <2>3. ~call.current
    BY <1>1, <1>3 DEF TemplateInv, CallBinds
  <2>4. CallTypes' /\ CallBinds'
    BY <1>1, <2>2 DEF CallTypes, CallBinds
  <2>. QED
    BY <1>1, <2>2, <2>3, <2>4 DEF TemplateInv, CallsAsDeclared
<1>. QED
  BY <1>2, <1>3


\* The arguments are checked against what the agent was told.
LEMMA RunCall == ASSUME TemplateInv, RunTemplate PROVE TemplateInv'
<1>1. /\ call.pc = "described" /\ UNCHANGED <<directory, served>>
      /\ CallTypes /\ served # << >> /\ call.outcome = "none"
      /\ call.name \in DOMAIN served[1] /\ call.told = served[1][call.name]
      /\ call.told \in Authored /\ Valid(call.told)
  BY DEF RunTemplate, TemplateInv, CallTypes, CallBinds
<1>2. PICK args \in Arguments :
        call' = IF BindRefuses(call.told, args)
                THEN [Ended("refused") EXCEPT !.args = args]
                ELSE [call EXCEPT !.pc = "bound", !.args = args, !.bound = Bound(call.told, args)]
  BY <1>1 DEF RunTemplate
<1>3. CASE BindRefuses(call.told, args)
  <2>1. PICK e : e = Ended("refused")
    OBVIOUS
  <2>2. /\ DOMAIN e = DOMAIN call /\ e = [f \in DOMAIN e |-> e[f]]
        /\ e.pc = "ended" /\ e.outcome = "refused" /\ e.told = call.told
        /\ DOMAIN call = DOMAIN NoCall
    BY <1>1, <2>1, EndedFacts DEF CallTypes, NoCall
  <2>3. call' = [e EXCEPT !.args = args]
    BY <1>2, <1>3, <2>1
  <2>4. /\ DOMAIN call' = DOMAIN call /\ call' = [f \in DOMAIN call' |-> call'[f]]
        /\ call'.pc = "ended" /\ call'.outcome = "refused" /\ call'.told = call.told
        /\ call'.args = args
    BY <2>2, <2>3 DEF NoCall
  <2>5. ~(Sound(call.told) /\ AsDescribed(call.told, args))
    BY <1>1, <1>3, SoundIsNotRefused
  <2>6. CallTypes' /\ CallBinds'
    BY <1>1, <2>4 DEF CallTypes, CallBinds
  <2>7. CallsAsDeclared'
    BY <2>4, <2>5 DEF CallsAsDeclared
  <2>. QED
    BY <1>1, <2>6, <2>7 DEF TemplateInv
<1>4. CASE ~BindRefuses(call.told, args)
  <2>1. PICK b : b = Bound(call.told, args)
    OBVIOUS
  <2>2. call' = [call EXCEPT !.pc = "bound", !.args = args, !.bound = b]
    BY <1>2, <1>4, <2>1
  <2>3. /\ DOMAIN call' = DOMAIN call /\ call' = [f \in DOMAIN call' |-> call'[f]]
        /\ call'.pc = "bound" /\ call'.told = call.told /\ call'.name = call.name
        /\ call'.args = args /\ call'.bound = b /\ call'.outcome = call.outcome
    BY <1>1, <2>2 DEF CallTypes, NoCall
  <2>4. CallTypes' /\ CallBinds'
    BY <1>1, <1>4, <2>1, <2>3 DEF CallTypes, CallBinds
  <2>. QED
    BY <1>1, <2>3, <2>4, MovesCall DEF TemplateInv
<1>. QED
  BY <1>3, <1>4

LEMMA ExecuteCall == ASSUME TemplateInv, Execute PROVE TemplateInv'
<1>. DEFINE t == call.told
<1>1. /\ call.pc = "bound" /\ UNCHANGED <<directory, served>>
      /\ CallTypes /\ served # << >>
      /\ t = served[1][call.name] /\ t \in Authored /\ Valid(t)
      /\ call.args \in Arguments /\ ~BindRefuses(t, call.args)
      /\ call.bound = Bound(t, call.args)
  BY DEF Execute, TemplateInv, CallBinds
<1>2. ASSUME NEW outcome \in {"error of the data", "defect"}, call' = Ended(outcome),
             outcome = "defect" => ~(Sound(t) /\ AsDescribed(t, call.args))
      PROVE  TemplateInv'
  <2>1. /\ DOMAIN call' = DOMAIN call /\ call' = [f \in DOMAIN call' |-> call'[f]]
        /\ call'.pc = "ended" /\ call'.outcome = outcome
        /\ call'.told = t /\ call'.args = call.args
    <3>1. PICK e : e = Ended(outcome)
      OBVIOUS
    <3>2. /\ DOMAIN e = DOMAIN call /\ e = [f \in DOMAIN e |-> e[f]]
          /\ e.pc = "ended" /\ e.outcome = outcome
          /\ \A f \in DOMAIN call \ {"pc", "outcome"} : e[f] = call[f]
      BY <1>1, <3>1, EndedFacts
    <3>3. e.told = t /\ e.args = call.args
      BY <1>1, <3>2 DEF CallTypes, NoCall
    <3>. QED
      BY <1>2, <3>1, <3>2, <3>3
  <2>2. CallTypes' /\ CallBinds'
    BY <1>1, <2>1 DEF CallTypes, CallBinds
  <2>3. CallsAsDeclared'
    BY <1>2, <2>1 DEF CallsAsDeclared
  <2>. QED
    BY <1>1, <2>2, <2>3 DEF TemplateInv
<1>3. CASE EngineFails(t, call.bound) /\ call' = Ended("defect")
  BY <1>1, <1>2, <1>3, SoundIsNoDefect
<1>4. ASSUME NEW n \in ResultRows, NEW fetched,
             fetched = IF n > t.maxRows + 1 THEN t.maxRows + 1 ELSE n,
             call' = [Ended("rows") EXCEPT
                        !.size = n,
                        !.rows = IF fetched > t.maxRows THEN t.maxRows ELSE fetched,
                        !.more = fetched > t.maxRows]
      PROVE  TemplateInv'
  <2>1. PICK e : e = Ended("rows")
    OBVIOUS
  <2>2. PICK rows : rows = IF fetched > t.maxRows THEN t.maxRows ELSE fetched
    OBVIOUS
  <2>3. PICK more : more = (fetched > t.maxRows)
    OBVIOUS
  <2>4. /\ DOMAIN e = DOMAIN call /\ e = [f \in DOMAIN e |-> e[f]]
        /\ e.pc = "ended" /\ e.outcome = "rows" /\ e.told = t /\ e.args = call.args
        /\ e.bound = call.bound
        /\ DOMAIN call = DOMAIN NoCall
    BY <1>1, <2>1, EndedFacts DEF CallTypes, NoCall
  <2>5. call' = [e EXCEPT !.size = n, !.rows = rows, !.more = more]
    BY <1>4, <2>1, <2>2, <2>3
  <2>6. /\ DOMAIN call' = DOMAIN call /\ call' = [f \in DOMAIN call' |-> call'[f]]
        /\ call'.pc = "ended" /\ call'.outcome = "rows" /\ call'.told = t
        /\ call'.args = call.args /\ call'.bound = call.bound
        /\ call'.size = n /\ call'.rows = rows /\ call'.more = more
    BY <2>4, <2>5 DEF NoCall
  <2>7. more \/ rows = n
    <3>1. t.maxRows \in Int /\ n \in Nat
      BY <1>1, TemplateAssumption DEF Templates
    <3>2. fetched > t.maxRows \/ rows = n
      BY <1>4, <2>2, <3>1
    <3>. QED
      BY <2>3, <3>2
  <2>8. CallTypes' /\ CallBinds'
    BY <1>1, <2>6 DEF CallTypes, CallBinds
  <2>9. ASSUME NEW m \in ParamNames(t)
        PROVE  LET p == Declared(t, m)
                   v == call.bound[m]
               IN  IF Omitted(p, call.args) THEN v = p.default
                   ELSE \/ v.type = "nan"
                        \/ /\ v.type = p.type
                           /\ p.choices # Nothing => \E c \in p.choices : c.n = v.n
                           /\ p.low # Nothing => p.low.n <= v.n
                           /\ p.high # Nothing => v.n <= p.high.n
    BY <1>1, <2>9, BindingFacts
  <2>10. CallsAsDeclared'
    BY <2>6, <2>7, <2>9 DEF CallsAsDeclared
  <2>. QED
    BY <1>1, <2>8, <2>10 DEF TemplateInv
<1>. QED
  BY <1>1, <1>2, <1>3, <1>4 DEF Execute

LEMMA NextTemplate == TemplateInv /\ [TemplatesNext]_templateVars => TemplateInv'
<1>. SUFFICES ASSUME TemplateInv, [TemplatesNext]_templateVars PROVE TemplateInv'
  OBVIOUS
<1>1. ASSUME UNCHANGED <<served, call>>,
             directory' \in [TemplateFiles -> Authored \cup {Nothing}]
      PROVE  TemplateInv'
  BY <1>1 DEF TemplateInv, CallTypes, CallBinds, CallsAsDeclared
<1>2. ASSUME NEW f \in TemplateFiles, Edit(f) PROVE TemplateInv'
  BY <1>1, <1>2 DEF Edit, TemplateInv
<1>3. CASE SyncTemplates \/ UNCHANGED templateVars
  BY <1>1, <1>3 DEF SyncTemplates, templateVars, TemplateInv
<1>4. CASE RestartServer
  <2>1. served' = << >> /\ call' = NoCall /\ directory' = directory
    BY <1>4 DEF RestartServer
  <2>. QED
    BY <2>1 DEF TemplateInv, CallTypes, CallBinds, CallsAsDeclared, NoCall
<1>. QED
  BY <1>2, <1>3, <1>4, SearchTemplate, DescribeTemplate, RunCall, ExecuteCall DEF TemplatesNext

\* Whatever files are written, synced and loaded between the steps of an agent,
\* what it calls as it was told is neither refused nor a defect, and what the
\* engine gets and the agent is given is as the declaration says.
THEOREM CallsAreAsDeclared == TemplatesSpec => []CallsAsDeclared
<1>1. TemplateInv => CallsAsDeclared
  BY DEF TemplateInv
<1>. QED
  BY <1>1, InitTemplate, NextTemplate, PTL DEF TemplatesSpec
=============================================================================
