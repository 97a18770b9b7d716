---------------------------- MODULE IcebergTable ----------------------------
(***************************************************************************)
(* The Iceberg table of impressions (iceberg_deployment): batches of a     *)
(* stream merged into it, rows erased, a key column renamed, and beside    *)
(* the writes the maintenance: compaction, expiry of snapshots, removal of *)
(* orphan files, rollback (upserts.py, maintenance.py, time_travel.py,     *)
(* schema_evolution.py).                                                   *)
(*                                                                         *)
(* A write puts its file first and commits a snapshot afterwards, which    *)
(* fails when another was committed meanwhile; it may die in between.  The *)
(* stream resumes at its last committed offset and merges again what came  *)
(* after it.                                                               *)
(***************************************************************************)
EXTENDS Integers, Sequences, FiniteSets

CONSTANTS
  Batches,       \* the stream: sequences of rows with an id, an event, a value
  RetainLast,    \* expire_snapshots: retain_last
  MaxSnapshots,  \* bound: snapshots committed
  MaxWrites,     \* bound: files written
  MaxStreamDeaths  \* bound

VARIABLES
  renamed,    \* TRUE once event_type has another name
  snapshots,  \* those not expired: id, line of descent, rows, files
  current,    \* the id of the table's snapshot
  latest,     \* the id given last
  storage,    \* the files there are
  writes,     \* the writes in progress: kind, erased id, base, rows, files, own file
  offset,     \* batches whose offset is committed
  position,   \* batches merged, counted from the offset the stream resumed at
  files,      \* number of files written so far
  reached,    \* highest position so far (history)
  erased,     \* ids rows were deleted of (history)
  returned,   \* TRUE once the table was rolled back (history)
  crashes

table == <<snapshots, current, latest>>
stream == <<offset, position, reached>>
past == <<erased, returned, crashes>>
tableVars == <<renamed, table, storage, writes, files, stream, past>>

\* The rows of one batch have distinct keys.
ASSUME BatchesAssumption ==
  /\ Len(Batches) \in Nat /\ DOMAIN Batches = 1 .. Len(Batches)
  /\ \A b \in DOMAIN Batches : \A i, j \in DOMAIN Batches[b] :
       /\ Batches[b][i].id = Batches[b][j].id
       /\ Batches[b][i].event = Batches[b][j].event
       => i = j

Current == CHOOSE s \in snapshots : s.id = current

TableInit ==
  /\ renamed = FALSE
  /\ snapshots = {[id |-> 0, line |-> {0}, rows |-> {}, files |-> {}]}
  /\ current = 0 /\ latest = 0 /\ storage = {} /\ writes = {}
  /\ offset = 0 /\ position = 0 /\ files = 0
  /\ reached = 0 /\ erased = {} /\ returned = FALSE /\ crashes = 0

-----------------------------------------------------------------------------
(* Writes                                                                  *)

\* build_merge_sql: ON the merge keys the table has under these names.
Matches(row, source) == row.id = source.id /\ (renamed \/ row.event = source.event)

\* A row as the table holds it: `in' tells apart rows that are otherwise alike.
Inserted(batch, i) == [id |-> batch[i].id, event |-> batch[i].event,
                       value |-> batch[i].value, in |-> <<files + 1, i>>]

\* Variant of Merge: every row of the batch is inserted.
InsertAll(rows, batch) == rows \cup {Inserted(batch, i) : i \in DOMAIN batch}

\* A source row updates the rows it matches, and is inserted when it matches none.
Merge(rows, batch) ==
  LET hit(row) == {i \in DOMAIN batch : Matches(row, batch[i])}
      updated(row) == [Inserted(batch, CHOOSE i \in hit(row) : TRUE) EXCEPT !.in = row.in]
  IN  {row \in rows : hit(row) = {}}
      \cup {updated(row) : row \in {r \in rows : hit(r) # {}}}
      \cup {Inserted(batch, i) : i \in {n \in DOMAIN batch :
                                          \A row \in rows : ~Matches(row, batch[n])}}

\* Two source rows for one row of the table: the statement raises.
Ambiguous(rows, batch) ==
  \E row \in rows : \E i, j \in DOMAIN batch :
    i # j /\ Matches(row, batch[i]) /\ Matches(row, batch[j])

\* A write begins on the current snapshot: a new file, beside those it keeps.
Write(kind, id, rows, kept) ==
  /\ files < MaxWrites
  /\ files' = files + 1
  /\ storage' = storage \cup {files + 1}
  /\ writes' = writes \cup {[kind |-> kind, id |-> id, base |-> current, rows |-> rows,
                             files |-> kept \cup {files + 1}, own |-> files + 1]}
  /\ UNCHANGED <<renamed, table, stream, past>>

\* upsert: the stream merges its batches one after the other.
Upsert ==
  /\ position < Len(Batches)
  /\ \A w \in writes : w.kind # "upsert"
  /\ ~Ambiguous(Current.rows, Batches[position + 1])
  /\ Write("upsert", {}, Merge(Current.rows, Batches[position + 1]), Current.files)

DeleteWhere(id) ==
  /\ \E row \in Current.rows : row.id = id
  /\ Write("delete", {id}, {row \in Current.rows : row.id # id}, Current.files)

Compact ==
  /\ Cardinality(Current.files) > 1
  /\ Write("compact", {}, Current.rows, {})

\* The commit of a write: refused when the table is no longer what it began on.
CommitWrite(w) ==
  /\ writes' = writes \ {w}
  /\ IF w.base = current
     THEN /\ latest < MaxSnapshots
          /\ snapshots' = snapshots \cup
               {[id |-> latest + 1, line |-> Current.line \cup {latest + 1},
                 rows |-> w.rows, files |-> w.files]}
          /\ current' = latest + 1 /\ latest' = latest + 1
          /\ position' = IF w.kind = "upsert" THEN position + 1 ELSE position
          /\ erased' = erased \cup w.id
     ELSE UNCHANGED <<snapshots, current, latest, position, erased>>
  /\ reached' = IF position' > reached THEN position' ELSE reached
  /\ UNCHANGED <<renamed, storage, offset, files, returned, crashes>>

\* The stream's own step; no batch is in progress.
CommitOffset ==
  /\ \A w \in writes : w.kind # "upsert"
  /\ offset # position /\ offset' = position
  /\ UNCHANGED <<renamed, table, storage, writes, files, position, reached, past>>

\* The stream dies, its write uncommitted; it comes back at the offset.
Crash ==
  /\ crashes < MaxStreamDeaths /\ crashes' = crashes + 1
  /\ writes' = {w \in writes : w.kind # "upsert"} /\ position' = offset
  /\ UNCHANGED <<renamed, table, storage, files, offset, reached, erased, returned>>

\* rename_column of event_type: metadata only, no snapshot.
RenameKey ==
  /\ ~renamed /\ renamed' = TRUE
  /\ UNCHANGED <<table, storage, writes, files, stream, past>>

-----------------------------------------------------------------------------
(* Maintenance                                                             *)

\* expire_snapshots: those before a cutoff, but for the last RetainLast of the
\* table's history; a snapshot rolled back is not of it.
Expired(cutoff) ==
  {s \in snapshots : /\ s.id < cutoff /\ s.id # current
                     /\ s.id \in Current.line =>
                          Cardinality({n \in Current.line : n > s.id}) >= RetainLast}

\* Variant of Unreferenced: the table's own files are all that is kept.
NotOfTheTable(gone) == (UNION {s.files : s \in gone}) \ Current.files

\* The files of the snapshots that go which no remaining one lists.
Unreferenced(gone) ==
  (UNION {s.files : s \in gone}) \ (UNION {s.files : s \in snapshots \ gone})

ExpireSnapshots(cutoff) ==
  /\ Expired(cutoff) # {}
  /\ snapshots' = snapshots \ Expired(cutoff)
  /\ storage' = storage \ Unreferenced(Expired(cutoff))
  /\ UNCHANGED <<renamed, current, latest, writes, files, stream, past>>

\* Variant of Recent: a cutoff of the moment.
NothingRecent == {}

\* Files too young for remove_orphan_files: its cutoff is days old, so that no
\* write in progress began before it.
Recent == {w.own : w \in writes}

\* remove_orphan_files: what no snapshot lists and is old enough.
RemoveOrphans ==
  LET orphans == storage \ ((UNION {s.files : s \in snapshots}) \cup Recent)
  IN  /\ orphans # {} /\ storage' = storage \ orphans
      /\ UNCHANGED <<renamed, table, writes, files, stream, past>>

\* rollback_to_snapshot: to one the table descends from.
RollbackTo(id) ==
  /\ id # current /\ id \in Current.line \cap {s.id : s \in snapshots}
  /\ current' = id /\ returned' = TRUE
  /\ UNCHANGED <<renamed, snapshots, latest, storage, writes, files, stream, erased, crashes>>

TableNext ==
  \/ Upsert \/ Compact \/ CommitOffset \/ Crash \/ RenameKey \/ RemoveOrphans
  \/ \E id \in {r.id : r \in Current.rows} : DeleteWhere(id)
  \/ \E w \in writes : CommitWrite(w)
  \/ \E cutoff \in 1 .. latest + 1 : ExpireSnapshots(cutoff)
  \/ \E id \in Current.line : RollbackTo(id)

TableSpec == TableInit /\ [][TableNext]_tableVars

-----------------------------------------------------------------------------
(* Properties                                                              *)

\* upserts.py:10-12.  However often the stream died and replayed its tail,
\* beside compactions that raced with it, the table holds every key of the
\* batches once, with the value of the last batch that carried it - as long as
\* the key columns keep their names and nothing was rolled back; what was
\* erased is not claimed.
ReplayConverges ==
  LET merged == UNION {{b} \X DOMAIN Batches[b] : b \in 1 .. reached}
      source(p) == Batches[p[1]][p[2]]
      later(p) == \E q \in merged : /\ q[1] > p[1] /\ source(q).id = source(p).id
                                    /\ source(q).event = source(p).event
  IN  ~renamed /\ ~returned /\ position = reached =>
        \A p \in merged : source(p).id \notin erased /\ ~later(p) =>
          LET held == {r \in Current.rows : /\ r.id = source(p).id
                                           /\ r.event = source(p).event}
          IN  Cardinality(held) = 1 /\ \A r \in held : r.value = source(p).value

\* maintenance.py:74 and :99.  Every snapshot that can still be read or rolled
\* back to has all its files, whatever was compacted, rolled back, expired and
\* cleaned up, and whichever writes were in progress while it was.
FilesExist == \A s \in snapshots : s.files \subseteq storage
=============================================================================
