--------------------------- MODULE DataPathProofs ---------------------------
(***************************************************************************)
(* Paths of data beside the batch pipeline: no snapshot of the Iceberg     *)
(* table loses a file, and replays converge on its rows (IcebergTable);    *)
(* the serverless pipeline never puts older rows back, and counts what it  *)
(* wrote (ServerlessPipeline); no row waits long in the realtime consumer  *)
(* (FlushDeadline); the counts of captured changes are exact (CdcCounts);  *)
(* what the realtime API answers are counts of the rows stored             *)
(* (AnalyticsStore).                                                       *)
(***************************************************************************)
EXTENDS ServerlessPipeline, IcebergTable, FlushDeadline, CdcCounts, AnalyticsStore, TLAPS,
        FiniteSetTheorems, WellFoundedInduction

-----------------------------------------------------------------------------
(* Files of the Iceberg table.  A write in progress keeps files of the     *)
(* snapshot it began on.  Those may be expired and their files removed     *)
(* meanwhile, but not while that snapshot is the table's: then the commit  *)
(* is refused.  Its own file is in no snapshot yet, so no expiry removes   *)
(* it, and too young for the removal of orphans.                           *)

FilesInv ==
  /\ current \in {s.id : s \in snapshots}
  /\ latest \in Nat /\ files \in Nat
  /\ \A s \in snapshots : s.id \in 0..latest /\ s.files \subseteq 1..files
  /\ \A s, t \in snapshots : s.id = t.id => s = t
  /\ \A w \in writes : w.base \in 0..latest /\ w.own \in w.files /\ w.own \in 1..files
  /\ \A w, v \in writes : w.own = v.own => w = v
  /\ \A w \in writes : w.own \in storage
  /\ \A w \in writes, s \in snapshots : w.own \notin s.files
  /\ \A w \in writes, s \in snapshots : s.id = w.base => w.files \subseteq s.files \cup {w.own}
  /\ FilesExist

LEMMA InitFiles == TableInit => FilesInv
BY DEF TableInit, FilesInv, FilesExist

\* There is one current snapshot.
LEMMA CurrentFacts ==
  ASSUME FilesInv
  PROVE  /\ Current \in snapshots /\ Current.id = current
         /\ \A s \in snapshots : s.id = current => s = Current
<1>1. PICK s \in snapshots : s.id = current
  BY DEF FilesInv
<1>2. Current \in snapshots /\ Current.id = current
  BY <1>1 DEF Current
<1>. QED
  BY <1>2 DEF FilesInv

LEMMA WriteFiles ==
  ASSUME FilesInv, NEW kind, NEW id, NEW rows, NEW kept \in SUBSET Current.files,
         Write(kind, id, rows, kept)
  PROVE  FilesInv'
<1>. DEFINE w == [kind |-> kind, id |-> id, base |-> current, rows |-> rows,
                  files |-> kept \cup {files + 1}, own |-> files + 1]
<1>1. /\ files' = files + 1
      /\ storage' = storage \cup {files + 1}
      /\ writes' = writes \cup {w}
      /\ UNCHANGED <<snapshots, current, latest>>
  BY DEF Write, table
<1>2. /\ w.base = current /\ w.files = kept \cup {files + 1} /\ w.own = files + 1
      /\ Current \in snapshots /\ current \in 0..latest
      /\ \A s \in snapshots : s.id = current => s = Current
  BY CurrentFacts DEF FilesInv
<1>. HIDE DEF w
<1>3. files \in Nat /\ latest \in Nat
  BY DEF FilesInv
<1>4. \A s \in snapshots : s.files \subseteq 1..files /\ files + 1 \notin s.files
  BY <1>3 DEF FilesInv
<1>5. kept \subseteq 1..files
  BY <1>2, <1>4
<1>6. \A v \in writes : v.own \in 1..files /\ v.own # files + 1
  BY <1>3 DEF FilesInv
<1>7. \A s \in snapshots' : s.id \in 0..latest' /\ s.files \subseteq 1..files'
  BY <1>1, <1>3 DEF FilesInv
<1>8. \A v \in writes' : v.base \in 0..latest' /\ v.own \in v.files /\ v.own \in 1..files'
  BY <1>1, <1>2, <1>3 DEF FilesInv
<1>9. \A v, u \in writes' : v.own = u.own => v = u
  BY <1>1, <1>2, <1>6 DEF FilesInv
<1>10. \A v \in writes', s \in snapshots' : v.own \notin s.files
  BY <1>1, <1>2, <1>4 DEF FilesInv
<1>11. \A v \in writes', s \in snapshots' :
         s.id = v.base => v.files \subseteq s.files \cup {v.own}
  BY <1>1, <1>2 DEF FilesInv
<1>12. FilesExist' /\ \A v \in writes' : v.own \in storage'
  BY <1>1, <1>2 DEF FilesInv, FilesExist
<1>. QED
  BY <1>1, <1>3, <1>7, <1>8, <1>9, <1>10, <1>11, <1>12 DEF FilesInv

LEMMA CommitFiles ==
  ASSUME FilesInv, NEW w \in writes, CommitWrite(w)
  PROVE  FilesInv'
<1>. DEFINE s0 == [id |-> latest + 1, line |-> Current.line \cup {latest + 1},
                   rows |-> w.rows, files |-> w.files]
<1>1. writes' = writes \ {w} /\ UNCHANGED <<storage, files>>
  BY DEF CommitWrite
<1>2. CASE w.base # current
  <2>1. UNCHANGED <<snapshots, current, latest>>
    BY <1>2 DEF CommitWrite
  <2>. QED
    BY <1>1, <2>1 DEF FilesInv, FilesExist
<1>3. CASE w.base = current
  <2>1. /\ snapshots' = snapshots \cup {s0}
        /\ current' = latest + 1 /\ latest' = latest + 1
    BY <1>3 DEF CommitWrite
  <2>2. s0.id = latest + 1 /\ s0.files = w.files
    OBVIOUS
  <2>. HIDE DEF s0
  <2>3. latest \in Nat /\ files \in Nat
    BY DEF FilesInv
  <2>4. w.files \subseteq Current.files \cup {w.own} /\ Current \in snapshots
    BY <1>3, CurrentFacts DEF FilesInv
  <2>5. w.files \subseteq storage /\ w.files \subseteq 1..files
    BY <2>4 DEF FilesInv, FilesExist
  <2>6. \A v \in writes' : v.own \notin w.files
    BY <1>1, <2>4 DEF FilesInv
  <2>7. \A s \in snapshots : s.id # latest + 1
    BY <2>3 DEF FilesInv
  <2>8. \A v \in writes : v.base # latest + 1
    BY <2>3 DEF FilesInv
  <2>9. \A s \in snapshots' : s.id \in 0..latest' /\ s.files \subseteq 1..files'
    BY <1>1, <2>1, <2>2, <2>3, <2>5 DEF FilesInv
  <2>10. \A s, t \in snapshots' : s.id = t.id => s = t
    BY <2>1, <2>2, <2>7 DEF FilesInv
  <2>11. \A v \in writes' : v.base \in 0..latest' /\ v.own \in v.files /\ v.own \in 1..files'
    BY <1>1, <2>1, <2>3 DEF FilesInv
  <2>12. \A v \in writes', s \in snapshots' : v.own \notin s.files
    BY <1>1, <2>1, <2>2, <2>6 DEF FilesInv
  <2>13. \A v \in writes', s \in snapshots' :
           s.id = v.base => v.files \subseteq s.files \cup {v.own}
    BY <1>1, <2>1, <2>2, <2>8 DEF FilesInv
  <2>14. FilesExist'
    BY <1>1, <2>1, <2>2, <2>5 DEF FilesInv, FilesExist
  <2>15. current' \in {s.id : s \in snapshots'}
    BY <2>1, <2>2
  <2>. QED
    BY <1>1, <2>1, <2>3, <2>9, <2>10, <2>11, <2>12, <2>13, <2>14, <2>15 DEF FilesInv
<1>. QED
  BY <1>2, <1>3

LEMMA ExpireFiles ==
  ASSUME FilesInv, NEW cutoff, ExpireSnapshots(cutoff)
  PROVE  FilesInv'
<1>. DEFINE gone == Expired(cutoff)
<1>1. /\ snapshots' = snapshots \ gone
      /\ storage' = storage \ Unreferenced(gone)
      /\ UNCHANGED <<current, latest, writes, files>>
  BY DEF ExpireSnapshots
<1>2. gone \subseteq snapshots /\ Current \notin gone
  BY CurrentFacts DEF Expired
<1>. HIDE DEF gone
<1>3. ASSUME NEW s \in snapshots', NEW f \in s.files PROVE f \in storage'
  <2>1. f \in storage
    BY <1>1 DEF FilesInv, FilesExist
  <2>2. f \notin Unreferenced(gone)
    <3>. DEFINE lost == UNION {t.files : t \in gone}
                kept == UNION {t.files : t \in snapshots \ gone}
    <3>1. f \in kept
      BY <1>1
    <3>2. Unreferenced(gone) = lost \ kept
      BY DEF Unreferenced
    <3>. HIDE DEF lost, kept
    <3>. QED
      BY <3>1, <3>2
  <2>. QED
    BY <1>1, <2>1, <2>2
<1>4. \A w \in writes : w.own \in storage'
  BY <1>1, <1>2 DEF FilesInv, Unreferenced
<1>5. current' \in {s.id : s \in snapshots'}
  BY <1>1, <1>2, CurrentFacts
<1>. QED
  BY <1>1, <1>3, <1>4, <1>5 DEF FilesInv, FilesExist

LEMMA NextFiles == FilesInv /\ [TableNext]_tableVars => FilesInv'
<1>. SUFFICES ASSUME FilesInv, [TableNext]_tableVars PROVE FilesInv'
  OBVIOUS
<1>1. CASE Upsert
  BY <1>1, WriteFiles DEF Upsert
<1>2. CASE Compact
  BY <1>2, WriteFiles DEF Compact
<1>3. ASSUME NEW id, DeleteWhere(id) PROVE FilesInv'
  BY <1>3, WriteFiles DEF DeleteWhere
<1>4. ASSUME NEW w \in writes, CommitWrite(w) PROVE FilesInv'
  BY <1>4, CommitFiles
<1>5. ASSUME NEW cutoff, ExpireSnapshots(cutoff) PROVE FilesInv'
  BY <1>5, ExpireFiles
<1>6. CASE RemoveOrphans
  <2>. DEFINE listed == UNION {s.files : s \in snapshots}
  <2>1. /\ storage' = storage \ (storage \ (listed \cup Recent))
        /\ UNCHANGED <<snapshots, current, latest, writes, files>>
    BY <1>6 DEF RemoveOrphans, table
  <2>2. \A w \in writes : w.own \in storage'
    <3>1. \A w \in writes : w.own \in Recent /\ w.own \in storage
      BY DEF FilesInv, Recent
    <3>. HIDE DEF listed
    <3>. QED
      BY <2>1, <3>1
  <2>3. FilesExist'
    BY <2>1 DEF FilesInv, FilesExist
  <2>. QED
    BY <2>1, <2>2, <2>3 DEF FilesInv
<1>7. ASSUME NEW id, RollbackTo(id) PROVE FilesInv'
  <2>1. /\ current' \in {s.id : s \in snapshots}
        /\ UNCHANGED <<snapshots, latest, storage, writes, files>>
    BY <1>7 DEF RollbackTo
  <2>. QED
    BY <2>1 DEF FilesInv, FilesExist
<1>8. CASE Crash
  <2>1. /\ writes' \subseteq writes
        /\ UNCHANGED <<snapshots, current, latest, storage, files>>
    BY <1>8 DEF Crash, table
  <2>. QED
    BY <2>1 DEF FilesInv, FilesExist
<1>9. CASE CommitOffset \/ RenameKey \/ UNCHANGED tableVars
  <2>1. UNCHANGED <<snapshots, current, latest, storage, writes, files>>
    BY <1>9 DEF CommitOffset, RenameKey, tableVars, table
  <2>. QED
    BY <2>1 DEF FilesInv, FilesExist
<1>. QED
  BY <1>1, <1>2, <1>3, <1>4, <1>5, <1>6, <1>7, <1>8, <1>9 DEF TableNext

\* Whatever is compacted, erased, rolled back, expired and cleaned up, and
\* whichever writes are in progress meanwhile, every snapshot there is has its
\* files (expire_snapshots, remove_orphan_files).
THEOREM NoFileLost == TableSpec => []FilesExist
<1>1. FilesInv => FilesExist
  BY DEF FilesInv
<1>. QED
  BY <1>1, InitFiles, NextFiles, PTL DEF TableSpec

-----------------------------------------------------------------------------
(* Rows of the Iceberg table.  Of a set of rows into which batches were    *)
(* merged, up to the last-th once and, now, up to the n-th again: no two   *)
(* rows have one key, every key of the batches has a row, unless its id    *)
(* was erased, and a key no later batch carries has the value of the one   *)
(* that does.  A replayed merge keeps this, and so do the other writes,    *)
(* which are only committed on the snapshot they began on.                 *)

SameKey(r, s) == r.id = s.id /\ r.event = s.event

Later(b, i, last) ==
  \E c \in 1..last : c > b /\ \E j \in DOMAIN Batches[c] : SameKey(Batches[c][j], Batches[b][i])

MergedTable(rows, last, n, gone) ==
  /\ \A r, s \in rows : SameKey(r, s) => r = s
  /\ \A b \in 1..last : \A i \in DOMAIN Batches[b] :
       Batches[b][i].id \notin gone => \E r \in rows : SameKey(r, Batches[b][i])
  /\ \A b \in 1..n : \A i \in DOMAIN Batches[b] :
       Batches[b][i].id \notin gone /\ ~Later(b, i, last) =>
         \A r \in rows : SameKey(r, Batches[b][i]) => r.value = Batches[b][i].value

Furthest(n) == IF n > reached THEN n ELSE reached

StreamTypes ==
  /\ reached \in Nat /\ position \in 0..reached /\ offset \in 0..position

WriteRows(w) ==
  IF w.kind = "upsert"
  THEN w.id = {} /\ MergedTable(w.rows, Furthest(position + 1), position + 1, erased)
  ELSE MergedTable(w.rows, reached, position, erased \cup w.id)

MergedInv ==
  /\ FilesInv /\ StreamTypes
  /\ ~renamed /\ ~returned =>
       /\ MergedTable(Current.rows, reached, position, erased)
       /\ \A w \in writes : w.base = current => WriteRows(w)

LEMMA MergeKeeps ==
  ASSUME NEW rows, NEW last \in Nat, NEW n \in 0..last, NEW gone, ~renamed,
         MergedTable(rows, last, n, gone), n + 1 \in DOMAIN Batches,
         NEW next \in {last, n + 1}, last <= next, n + 1 <= next
  PROVE  MergedTable(Merge(rows, Batches[n + 1]), next, n + 1, gone)
<1>. DEFINE batch == Batches[n + 1]
            hit(r) == {i \in DOMAIN batch : SameKey(r, batch[i])}
            up(r) == [Inserted(batch, CHOOSE i \in hit(r) : TRUE) EXCEPT !.in = r.in]
            ins(i) == Inserted(batch, i)
            fresh == {i \in DOMAIN batch : \A r \in rows : ~SameKey(r, batch[i])}
            new == Merge(rows, batch)
<1>1. \A i, j \in DOMAIN batch : SameKey(batch[i], batch[j]) => i = j
  BY BatchesAssumption DEF SameKey
<1>2. new = {r \in rows : hit(r) = {}} \cup {up(r) : r \in {s \in rows : hit(s) # {}}}
            \cup {ins(i) : i \in fresh}
  BY DEF Merge, Matches, SameKey
<1>3. ASSUME NEW r \in rows, hit(r) # {}
      PROVE  \E i \in DOMAIN batch : /\ SameKey(r, batch[i]) /\ SameKey(up(r), r)
                                     /\ up(r).value = batch[i].value
  <2>1. PICK i \in hit(r) : i = CHOOSE j \in hit(r) : TRUE
    BY <1>3
  <2>2. up(r).id = batch[i].id /\ up(r).event = batch[i].event /\ up(r).value = batch[i].value
    BY <2>1 DEF Inserted
  <2>. QED
    BY <2>1, <2>2 DEF SameKey
<1>4. \A i \in DOMAIN batch : SameKey(ins(i), batch[i]) /\ ins(i).value = batch[i].value
  BY DEF Inserted, SameKey
<1>5. \A r, s, t : SameKey(r, s) /\ SameKey(s, t) => SameKey(r, t) /\ SameKey(s, r)
  BY DEF SameKey
<1>. HIDE DEF up, ins, new
\* A row is kept, updated or inserted.
<1>6. ASSUME NEW r \in new
      PROVE  \/ r \in rows /\ \A i \in DOMAIN batch : ~SameKey(r, batch[i])
             \/ \E s \in rows : /\ r = up(s) /\ SameKey(r, s)
                               /\ \E i \in DOMAIN batch : SameKey(s, batch[i]) /\ r.value = batch[i].value
             \/ \E i \in DOMAIN batch : /\ r = ins(i) /\ SameKey(r, batch[i])
                                        /\ r.value = batch[i].value
                                        /\ \A s \in rows : ~SameKey(s, batch[i])
  BY <1>2, <1>3, <1>4
<1>7. ASSUME NEW r \in new, NEW s \in new, SameKey(r, s) PROVE r = s
  <2>1. \A x, y \in rows : SameKey(x, y) => x = y
    BY DEF MergedTable
  <2>2. CASE r \in rows /\ \A i \in DOMAIN batch : ~SameKey(r, batch[i])
    <3>. HIDE DEF batch
    <3>. QED
      BY <1>6, <1>7, <2>1, <2>2 DEF SameKey
  <2>3. CASE \E x \in rows : r = up(x) /\ SameKey(r, x) /\ \E i \in DOMAIN batch : SameKey(x, batch[i])
    <3>1. PICK x \in rows : r = up(x) /\ SameKey(r, x) /\ \E i \in DOMAIN batch : SameKey(x, batch[i])
      BY <2>3
    <3>. HIDE DEF batch
    <3>2. CASE s \in rows /\ \A i \in DOMAIN batch : ~SameKey(s, batch[i])
      BY <1>7, <2>1, <3>1, <3>2 DEF SameKey
    <3>3. CASE \E y \in rows : s = up(y) /\ SameKey(s, y)
      BY <1>7, <2>1, <3>1, <3>3 DEF SameKey
    <3>4. CASE \E i \in DOMAIN batch : SameKey(s, batch[i]) /\ \A y \in rows : ~SameKey(y, batch[i])
      BY <1>7, <3>1, <3>4 DEF SameKey
    <3>. QED
      BY <1>6, <3>2, <3>3, <3>4
  <2>4. CASE \E i \in DOMAIN batch : r = ins(i) /\ SameKey(r, batch[i])
                                  /\ \A x \in rows : ~SameKey(x, batch[i])
    <3>1. PICK i \in DOMAIN batch : r = ins(i) /\ SameKey(r, batch[i])
                                  /\ \A x \in rows : ~SameKey(x, batch[i])
      BY <2>4
    <3>2. s \notin rows /\ ~ \E y \in rows : SameKey(s, y)
      BY <1>7, <3>1 DEF SameKey
    <3>3. PICK j \in DOMAIN batch : s = ins(j) /\ SameKey(s, batch[j])
      BY <1>6, <3>2
    <3>4. i = j
      BY <1>1, <1>7, <3>1, <3>3 DEF SameKey
    <3>. QED
      BY <3>1, <3>3, <3>4
  <2>. QED
    BY <1>6, <2>2, <2>3, <2>4
<1>8. ASSUME NEW r \in rows PROVE \E s \in new : SameKey(s, r)
  <2>1. CASE hit(r) = {}
    BY <1>2, <2>1 DEF SameKey
  <2>2. CASE hit(r) # {}
    <3>1. up(r) \in new /\ SameKey(up(r), r)
      BY <1>2, <1>3, <2>2
    <3>. QED
      BY <3>1
  <2>. QED
    BY <2>1, <2>2
<1>9. ASSUME NEW i \in DOMAIN batch PROVE \E s \in new : SameKey(s, batch[i])
  <2>1. CASE i \in fresh
    BY <1>2, <1>4, <2>1
  <2>2. CASE i \notin fresh
    BY <1>5, <1>8, <2>2
  <2>. QED
    BY <2>1, <2>2
<1>10. ASSUME NEW b \in 1..next, NEW i \in DOMAIN Batches[b], Batches[b][i].id \notin gone
       PROVE  \E r \in new : SameKey(r, Batches[b][i])
  <2>1. b \in 1..last \/ b = n + 1
    OBVIOUS
  <2>2. CASE b \in 1..last
    <3>1. PICK r \in rows : SameKey(r, Batches[b][i])
      BY <1>10, <2>2 DEF MergedTable
    <3>. QED
      BY <1>5, <1>8, <3>1
  <2>3. CASE b = n + 1
    BY <1>9, <2>3
  <2>. QED
    BY <2>1, <2>2, <2>3
<1>11. ASSUME NEW b \in 1..n + 1, NEW i \in DOMAIN Batches[b],
              Batches[b][i].id \notin gone, ~Later(b, i, next),
              NEW r \in new, SameKey(r, Batches[b][i])
       PROVE  r.value = Batches[b][i].value
  <2>1. CASE b = n + 1
    <3>1. i \in DOMAIN batch /\ SameKey(r, batch[i])
      BY <1>11, <2>1
    <3>2. \E j \in DOMAIN batch : SameKey(r, batch[j]) /\ r.value = batch[j].value
      <4>. HIDE DEF batch
      <4>. QED
        BY <1>6, <3>1 DEF SameKey
    <3>3. r.value = batch[i].value
      <4>. HIDE DEF batch
      <4>. QED
        BY <1>1, <3>1, <3>2 DEF SameKey
    <3>. QED
      BY <2>1, <3>3
  <2>2. CASE b # n + 1
    <3>1. b \in 1..n /\ n + 1 \in 1..next /\ n + 1 > b
      BY <2>2
    <3>2. \A j \in DOMAIN batch : ~SameKey(batch[j], Batches[b][i])
      BY <1>11, <3>1 DEF Later
    <3>3. ~Later(b, i, last)
      BY <1>11 DEF Later
    <3>4. r \in rows
      <4>1. \A j \in DOMAIN batch : ~SameKey(r, batch[j])
        <5>1. SameKey(r, Batches[b][i])
          BY <1>11
        <5>. HIDE DEF batch
        <5>. QED
          BY <3>2, <5>1 DEF SameKey
      <4>. HIDE DEF batch
      <4>. QED
        BY <1>6, <4>1 DEF SameKey
    <3>. QED
      BY <1>11, <3>1, <3>3, <3>4 DEF MergedTable
  <2>. QED
    BY <2>1, <2>2
<1>. QED
  BY <1>7, <1>10, <1>11 DEF MergedTable, new

LEMMA InitMerged == TableInit => MergedInv
<1>. SUFFICES ASSUME TableInit PROVE MergedInv
  OBVIOUS
<1>1. Current = [id |-> 0, line |-> {0}, rows |-> {}, files |-> {}]
  BY DEF TableInit, Current
<1>. QED
  BY <1>1, InitFiles DEF TableInit, MergedInv, StreamTypes, MergedTable

\* Fewer batches merged again, with the same rows.
LEMMA MergedLess ==
  ASSUME NEW rows, NEW last, NEW n \in Nat, NEW k \in 0..n, NEW gone, MergedTable(rows, last, n, gone)
  PROVE  MergedTable(rows, last, k, gone)
<1>1. 1..k \subseteq 1..n
  OBVIOUS
<1>. QED
  BY <1>1 DEF MergedTable

LEMMA MergedErased ==
  ASSUME NEW rows, NEW last, NEW n, NEW gone, NEW id, MergedTable(rows, last, n, gone)
  PROVE  MergedTable({r \in rows : r.id # id}, last, n, gone \cup {id})
<1>. DEFINE left == {r \in rows : r.id # id}
<1>1. \A r, s \in left : SameKey(r, s) => r = s
  BY DEF MergedTable
<1>2. ASSUME NEW b \in 1..last, NEW i \in DOMAIN Batches[b], Batches[b][i].id \notin gone \cup {id}
      PROVE  \E r \in left : SameKey(r, Batches[b][i])
  <2>1. PICK r \in rows : SameKey(r, Batches[b][i])
    BY <1>2 DEF MergedTable
  <2>. QED
    BY <1>2, <2>1 DEF SameKey
<1>3. \A b \in 1..n : \A i \in DOMAIN Batches[b] :
        Batches[b][i].id \notin gone \cup {id} /\ ~Later(b, i, last) =>
          \A r \in left : SameKey(r, Batches[b][i]) => r.value = Batches[b][i].value
  BY DEF MergedTable
<1>. QED
  BY <1>1, <1>2, <1>3 DEF MergedTable

\* A write that begins, with rows as it should commit them.
LEMMA WriteMerged ==
  ASSUME MergedInv, NEW kind, NEW id, NEW rows, NEW kept \in SUBSET Current.files,
         Write(kind, id, rows, kept),
         ~renamed /\ ~returned =>
           IF kind = "upsert"
           THEN id = {} /\ MergedTable(rows, Furthest(position + 1), position + 1, erased)
           ELSE MergedTable(rows, reached, position, erased \cup id)
  PROVE  MergedInv'
<1>. DEFINE w == [kind |-> kind, id |-> id, base |-> current, rows |-> rows,
                  files |-> kept \cup {files + 1}, own |-> files + 1]
<1>1. /\ writes' = writes \cup {w}
      /\ UNCHANGED <<renamed, snapshots, current, offset, position, reached, erased, returned>>
  BY DEF Write, table, stream, past
<1>2. FilesInv' /\ Current' = Current
  BY <1>1, WriteFiles DEF MergedInv, Current
<1>3. ~renamed /\ ~returned => WriteRows(w)
  BY DEF WriteRows
<1>4. \A v : WriteRows(v)' = WriteRows(v)
  BY <1>1 DEF WriteRows, Furthest
<1>5. w.base = current
  OBVIOUS
<1>. HIDE DEF w
<1>6. ~renamed /\ ~returned => \A v \in writes' : v.base = current => WriteRows(v)
  BY <1>1, <1>3 DEF MergedInv
<1>7. ~renamed' /\ ~returned' => MergedTable(Current'.rows, reached', position', erased')
  BY <1>1, <1>2 DEF MergedInv
<1>. QED
  BY <1>1, <1>2, <1>4, <1>6, <1>7 DEF MergedInv, StreamTypes

LEMMA UpsertMerged == ASSUME MergedInv, Upsert PROVE MergedInv'
<1>1. position < Len(Batches) /\ Write("upsert", {}, Merge(Current.rows, Batches[position + 1]), Current.files)
  BY DEF Upsert
<1>2. position \in 0..reached /\ reached \in Nat /\ position + 1 \in DOMAIN Batches
  BY <1>1, BatchesAssumption DEF MergedInv, StreamTypes
<1>3. /\ Furthest(position + 1) \in {reached, position + 1}
      /\ reached <= Furthest(position + 1) /\ position + 1 <= Furthest(position + 1)
  BY <1>2 DEF Furthest
<1>4. ASSUME ~renamed, ~returned
      PROVE  MergedTable(Merge(Current.rows, Batches[position + 1]), Furthest(position + 1),
                    position + 1, erased)
  <2>1. MergedTable(Current.rows, reached, position, erased)
    BY <1>4 DEF MergedInv
  <2>. QED
    BY <1>2, <1>3, <1>4, <2>1, MergeKeeps
<1>. QED
  BY <1>1, <1>4, WriteMerged

LEMMA DeleteMerged == ASSUME MergedInv, NEW id, DeleteWhere(id) PROVE MergedInv'
<1>1. Write("delete", {id}, {row \in Current.rows : row.id # id}, Current.files)
  BY DEF DeleteWhere
<1>2. ~renamed /\ ~returned =>
        MergedTable({row \in Current.rows : row.id # id}, reached, position, erased \cup {id})
  BY MergedErased DEF MergedInv
<1>. QED
  BY <1>1, <1>2, WriteMerged

LEMMA CompactMerged == ASSUME MergedInv, Compact PROVE MergedInv'
<1>. DEFINE none == {}
<1>1. Write("compact", none, Current.rows, none) /\ none \in SUBSET Current.files
  BY DEF Compact
<1>2. erased \cup none = erased
  OBVIOUS
<1>. HIDE DEF none
<1>3. ~renamed /\ ~returned => MergedTable(Current.rows, reached, position, erased \cup none)
  BY <1>2 DEF MergedInv
<1>. QED
  BY <1>1, <1>3, WriteMerged

LEMMA CommitMerged == ASSUME MergedInv, NEW w \in writes, CommitWrite(w) PROVE MergedInv'
<1>1. /\ writes' = writes \ {w} /\ UNCHANGED <<renamed, offset, returned>> /\ FilesInv'
      /\ reached' = IF position' > reached THEN position' ELSE reached
  BY CommitFiles DEF CommitWrite, MergedInv
<1>2. CASE w.base # current
  <2>1. UNCHANGED <<snapshots, current, position, erased>>
    BY <1>2 DEF CommitWrite
  <2>2. reached' = reached /\ Current' = Current
    BY <1>1, <2>1 DEF MergedInv, StreamTypes, Current
  <2>3. \A v : WriteRows(v)' = WriteRows(v)
    BY <2>1, <2>2 DEF WriteRows, Furthest
  <2>. QED
    BY <1>1, <2>1, <2>2, <2>3 DEF MergedInv, StreamTypes
<1>3. CASE w.base = current
  <2>. DEFINE s0 == [id |-> latest + 1, line |-> Current.line \cup {latest + 1},
                     rows |-> w.rows, files |-> w.files]
  <2>1. /\ snapshots' = snapshots \cup {s0} /\ current' = latest + 1
        /\ position' = IF w.kind = "upsert" THEN position + 1 ELSE position
        /\ erased' = erased \cup w.id
    BY <1>3 DEF CommitWrite
  <2>2. s0.id = latest + 1 /\ s0.rows = w.rows
    OBVIOUS
  <2>. HIDE DEF s0
  <2>3. latest \in Nat /\ \A s \in snapshots : s.id \in 0..latest
    BY DEF MergedInv, FilesInv
  <2>4. \A s \in snapshots' : s.id = latest + 1 => s = s0
    BY <2>1, <2>3
  <2>5. Current' = s0
    BY <2>1, <2>2, <2>4 DEF Current
  <2>6. \A v \in writes' : v.base # current'
    BY <1>1, <2>1, <2>3 DEF MergedInv, FilesInv
  <2>7. ASSUME ~renamed, ~returned PROVE MergedTable(w.rows, reached', position', erased')
    <3>1. WriteRows(w)
      BY <1>3, <2>7 DEF MergedInv
    <3>2. CASE w.kind = "upsert"
      <4>1. position' = position + 1 /\ reached' = Furthest(position + 1) /\ w.id = {}
        BY <1>1, <2>1, <3>1, <3>2 DEF WriteRows, Furthest
      <4>2. erased' = erased
        BY <2>1, <4>1
      <4>. QED
        BY <3>1, <3>2, <4>1, <4>2 DEF WriteRows
    <3>3. CASE w.kind # "upsert"
      <4>1. position' = position /\ reached' = reached
        BY <1>1, <2>1, <3>3 DEF MergedInv, StreamTypes
      <4>. QED
        BY <2>1, <3>1, <3>3, <4>1 DEF WriteRows
    <3>. QED
      BY <3>2, <3>3
  <2>8. StreamTypes'
    BY <1>1, <2>1 DEF MergedInv, StreamTypes
  <2>. QED
    BY <1>1, <2>2, <2>5, <2>6, <2>7, <2>8 DEF MergedInv
<1>. QED
  BY <1>2, <1>3

LEMMA ExpireMerged == ASSUME MergedInv, NEW cutoff, ExpireSnapshots(cutoff) PROVE MergedInv'
<1>1. /\ snapshots' = snapshots \ Expired(cutoff)
      /\ UNCHANGED <<renamed, current, writes, offset, position, reached, erased, returned>>
      /\ FilesInv'
  BY ExpireFiles DEF ExpireSnapshots, MergedInv, stream, past
<1>2. Current \in snapshots /\ Current.id = current /\ \A s \in snapshots : s.id = current => s = Current
  BY CurrentFacts DEF MergedInv
<1>3. Current \in snapshots' /\ \A s \in snapshots' : s.id = current' => s = Current
  BY <1>1, <1>2 DEF Expired
<1>4. Current' = Current
  <2>1. Current' = CHOOSE s \in snapshots' : s.id = current'
    BY DEF Current
  <2>. HIDE DEF Current
  <2>. QED
    BY <1>1, <1>2, <1>3, <2>1
<1>5. \A v : WriteRows(v)' = WriteRows(v)
  BY <1>1 DEF WriteRows, Furthest
<1>. QED
  BY <1>1, <1>4, <1>5 DEF MergedInv, StreamTypes

LEMMA CrashMerged == ASSUME MergedInv, Crash, FilesInv' PROVE MergedInv'
<1>1. /\ writes' = {w \in writes : w.kind # "upsert"} /\ position' = offset
      /\ UNCHANGED <<renamed, snapshots, current, offset, reached, erased, returned>>
  BY DEF Crash, table
<1>2. position \in Nat /\ position' \in 0..position /\ Current' = Current
  BY <1>1 DEF MergedInv, StreamTypes, Current
<1>3. ASSUME ~renamed, ~returned, NEW w \in writes', w.base = current PROVE WriteRows(w)'
  <2>1. MergedTable(w.rows, reached, position, erased \cup w.id)
    BY <1>1, <1>3 DEF MergedInv, WriteRows
  <2>2. MergedTable(w.rows, reached, position', erased \cup w.id)
    BY <1>2, <2>1, MergedLess
  <2>. QED
    BY <1>1, <2>2 DEF WriteRows
<1>4. ~renamed /\ ~returned => MergedTable(Current.rows, reached, position', erased)
  BY <1>2, MergedLess DEF MergedInv
<1>. QED
  BY <1>1, <1>2, <1>3, <1>4 DEF MergedInv, StreamTypes

LEMMA NextMerged == MergedInv /\ [TableNext]_tableVars => MergedInv'
<1>. SUFFICES ASSUME MergedInv, [TableNext]_tableVars PROVE MergedInv'
  OBVIOUS
<1>0. FilesInv'
  BY NextFiles DEF MergedInv
<1>1. CASE Upsert
  BY <1>1, UpsertMerged
<1>2. CASE Compact
  BY <1>2, CompactMerged
<1>3. ASSUME NEW id, DeleteWhere(id) PROVE MergedInv'
  BY <1>3, DeleteMerged
<1>4. ASSUME NEW w \in writes, CommitWrite(w) PROVE MergedInv'
  BY <1>4, CommitMerged
<1>5. ASSUME NEW cutoff, ExpireSnapshots(cutoff) PROVE MergedInv'
  BY <1>5, ExpireMerged
<1>6. CASE Crash
  BY <1>0, <1>6, CrashMerged
<1>7. CASE RenameKey
  BY <1>0, <1>7 DEF RenameKey, MergedInv, StreamTypes, stream
<1>8. ASSUME NEW id, RollbackTo(id) PROVE MergedInv'
  BY <1>0, <1>8 DEF RollbackTo, MergedInv, StreamTypes, stream
<1>9. CASE CommitOffset \/ RemoveOrphans \/ UNCHANGED tableVars
  <2>1. /\ UNCHANGED <<renamed, snapshots, current, writes, position, reached, erased, returned>>
        /\ offset' \in {offset, position}
    BY <1>9 DEF CommitOffset, RemoveOrphans, tableVars, table, stream, past
  <2>2. Current' = Current /\ \A v : WriteRows(v)' = WriteRows(v)
    BY <2>1 DEF Current, WriteRows, Furthest
  <2>. QED
    BY <1>0, <2>1, <2>2 DEF MergedInv, StreamTypes
<1>. QED
  BY <1>1, <1>2, <1>3, <1>4, <1>5, <1>6, <1>7, <1>8, <1>9 DEF TableNext

\* However often the stream dies and merges its tail again, and whichever other
\* writes are refused or committed meanwhile, the table has every key of the
\* batches once, with the last value (upserts.py, build_merge_sql).
THEOREM ReplaysConverge == TableSpec => []ReplayConverges
<1>1. ASSUME MergedInv PROVE ReplayConverges
  <2>. DEFINE merged == UNION {{b} \X DOMAIN Batches[b] : b \in 1..reached}
              source(p) == Batches[p[1]][p[2]]
              later(p) == \E q \in merged : /\ q[1] > p[1] /\ source(q).id = source(p).id
                                            /\ source(q).event = source(p).event
              held(p) == {r \in Current.rows : r.id = source(p).id /\ r.event = source(p).event}
  <2>1. SUFFICES ASSUME ~renamed, ~returned, position = reached,
                        NEW p \in merged, source(p).id \notin erased, ~later(p)
                 PROVE  Cardinality(held(p)) = 1 /\ \A r \in held(p) : r.value = source(p).value
    BY DEF ReplayConverges
  <2>2. PICK b \in 1..reached, i \in DOMAIN Batches[p[1]] : p = <<b, i>>
    OBVIOUS
  <2>3. i \in DOMAIN Batches[b] /\ source(p) = Batches[b][i]
    BY <2>2
  <2>4. ~Later(b, i, reached)
    <3>1. SUFFICES ASSUME NEW c \in 1..reached, c > b, NEW j \in DOMAIN Batches[c],
                          SameKey(Batches[c][j], Batches[b][i])
                   PROVE  FALSE
      BY DEF Later
    <3>2. <<c, j>> \in merged
      OBVIOUS
    <3>. QED
      BY <2>1, <2>2, <2>3, <3>1, <3>2 DEF SameKey
  <2>5. MergedTable(Current.rows, reached, reached, erased)
    BY <1>1, <2>1 DEF MergedInv
  <2>6. \A r : r \in held(p) <=> r \in Current.rows /\ SameKey(r, Batches[b][i])
    BY <2>3 DEF SameKey
  <2>7. PICK r \in Current.rows : SameKey(r, Batches[b][i])
    BY <2>1, <2>3, <2>5 DEF MergedTable
  <2>8. \A x, y \in Current.rows : SameKey(x, y) => x = y
    BY <2>5 DEF MergedTable
  <2>9. held(p) = {r}
    BY <2>6, <2>7, <2>8 DEF SameKey
  <2>10. r.value = Batches[b][i].value
    BY <2>1, <2>3, <2>4, <2>5, <2>7 DEF MergedTable
  <2>. QED
    BY <2>3, <2>9, <2>10, FS_Singleton
<1>. QED
  BY <1>1, InitMerged, NextMerged, PTL DEF TableSpec

-----------------------------------------------------------------------------
(* Least and greatest numbers.                                             *)

LEMMA LeastOfNats ==
  ASSUME NEW T \in SUBSET Nat, T # {}
  PROVE  \E x \in T : \A y \in T : x <= y
<1>1. IsWellFoundedOn(OpToRel(<, Nat), Nat)
  BY NatLessThanWellFounded
<1>2. PICK x \in T : \A y \in T : <<y, x>> \notin OpToRel(<, Nat)
  BY <1>1, WFMin
<1>3. \A y \in T : ~ (y < x)
  BY <1>2 DEF OpToRel
<1>. QED
  BY <1>3

LEMMA GreatestUpTo ==
  ASSUME NEW n \in Nat, NEW S \in SUBSET (0..n), S # {}
  PROVE  \E x \in S : \A y \in S : y <= x
<1>. DEFINE T == {n - x : x \in S}
<1>1. \A x \in S : n - x \in Nat
  OBVIOUS
<1>2. T \in SUBSET Nat /\ T # {}
  BY <1>1
<1>3. PICK t \in T : \A u \in T : t <= u
  BY <1>2, LeastOfNats
<1>4. PICK x \in S : t = n - x
  BY <1>3
<1>5. \A y \in S : n - x <= n - y
  BY <1>3, <1>4
<1>6. \A y \in S : y \in Nat
  OBVIOUS
<1>7. \A y \in S : y <= x
  <2>. TAKE y \in S
  <2>1. x \in Nat /\ y \in Nat /\ n - x <= n - y
    BY <1>5, <1>6
  <2>. HIDE DEF T
  <2>. QED
    BY <2>1
<1>. QED
  BY <1>7

-----------------------------------------------------------------------------
(* The serverless pipeline.  One run of the Glue job at a time: what it    *)
(* reads is the newest landing of its object, and no other run replaces    *)
(* the partition before it does.  From there on an execution knows that    *)
(* the partition has its rows or newer ones, or is emptied by a run that   *)
(* is not its own; that the crawl it waits for began after they were       *)
(* written; and at last that they are cataloged, unless it was emptied     *)
(* when that crawl listed it.                                              *)

Phases == {"check", "crawl", "crawling", "queued", "read", "write", "land", "recrawl",
           "recrawling", "verify"} \cup Ended
Executions ==
  [at : Phases, attempts : Int, reads : Nat, reran : BOOLEAN, counted : Nat, emptied : Nat]

\* An invocation of landings that were announced.
Names(i, number) ==
  /\ i \in [records : Seq(Nat), next : Nat, left : Int]
  /\ i.next \in 1..Len(i.records)
  /\ \A j \in 1..Len(i.records) : i.records[j] \in 1..number

LandingTypes ==
  /\ landed \in Seq([key : Keys, content : Contents])
  /\ Len(landed) <= MaxLandings
  /\ announced \in 0..Len(landed)
  /\ \A i \in invocations : Names(i, announced)

ExecutionTypes ==
  /\ DOMAIN execution = Landings /\ execution = [l \in Landings |-> execution[l]]
  /\ \A l \in Started : /\ l \in DOMAIN landed
                        /\ execution[l] = <<execution[l][1]>>
                        /\ execution[l][1] \in Executions

ProcessedTypes ==
  /\ processed \in [Keys -> Nat] /\ emptiedBy \in [Keys -> Nat]
  /\ \A k \in Keys : processed[k] # 0 =>
       processed[k] \in DOMAIN landed /\ landed[processed[k]].key = k

OneRun == \A l, m \in Running : l = m

Key(l) == landed[l].key
Reads(l) == execution[l][1].reads

Emptied(l) == execution[l][1].emptied
Reported(l) == execution[l][1].counted

HasRead(l) ==
  At(l) \in {"write", "land", "recrawl", "recrawling", "verify", "done"} =>
    Reads(l) \in DOMAIN landed /\ landed[Reads(l)].key = Key(l)

ReadNewest(l) == At(l) \in {"write", "land"} => processed[Key(l)] <= Reads(l)

\* Another execution's run had emptied the partition when l crawled it or counted.
MetEmptied(l) == Emptied(l) \notin {0, l}

HasWritten(l) ==
  At(l) \in {"recrawl", "recrawling", "verify"} /\ landed[Reads(l)].content = "rows" =>
    /\ processed[Key(l)] >= Reads(l) /\ emptiedBy[Key(l)] # l
    /\ At(l) = "recrawling" =>
         \/ Key(l) \in cataloged
         \/ crawler # << >> /\ Key(l) \in crawler[1]
         \/ MetEmptied(l)
    /\ At(l) = "verify" => Key(l) \in cataloged \/ MetEmptied(l)

HasCounted(l) ==
  At(l) = "done" /\ landed[Reads(l)].content = "rows" =>
    Reported(l) >= Reads(l) \/ (Reported(l) = 0 /\ MetEmptied(l))

Progress(l) == HasRead(l) /\ ReadNewest(l) /\ HasWritten(l) /\ HasCounted(l)

CountInv ==
  /\ LandingTypes /\ ExecutionTypes /\ ProcessedTypes
  /\ OneRun
  /\ \A l \in Started : Progress(l)

LEMMA InitCount == AwsInit => CountInv
<1>. SUFFICES ASSUME AwsInit PROVE CountInv
  OBVIOUS
<1>1. Started = {}
  BY DEF AwsInit, Started
<1>. QED
  BY <1>1, RunsAssumption
  DEF AwsInit, CountInv, LandingTypes, ExecutionTypes, ProcessedTypes, OneRun, Running

\* The newest landing of an object that has landed.
LEMMA NewestFacts ==
  ASSUME LandingTypes, NEW l \in DOMAIN landed
  PROVE  /\ Newest(landed[l].key) \in DOMAIN landed
         /\ landed[Newest(landed[l].key)].key = landed[l].key
         /\ \A m \in DOMAIN landed : landed[m].key = landed[l].key => m <= Newest(landed[l].key)
<1>. DEFINE S == {m \in DOMAIN landed : landed[m].key = landed[l].key}
<1>1. Len(landed) \in Nat /\ DOMAIN landed = 1..Len(landed)
  BY DEF LandingTypes
<1>2. S \in SUBSET (0..Len(landed)) /\ l \in S
  BY <1>1
<1>3. PICK x \in S : \A y \in S : y <= x
  BY <1>1, <1>2, GreatestUpTo
<1>4. /\ x \in DOMAIN landed /\ landed[x].key = landed[l].key
      /\ \A m \in DOMAIN landed : landed[m].key = landed[l].key => m <= x
  BY <1>3
<1>. QED
  BY <1>4 DEF Newest

-----------------------------------------------------------------------------
(* What a step does to an execution.                                       *)

Becomes(l, r) == r \in Executions /\ execution' = [execution EXCEPT ![l] = <<r>>]

LEMMA BecomesFacts ==
  ASSUME ExecutionTypes, NEW l \in Landings, l \in DOMAIN landed, NEW r, Becomes(l, r),
         landed' = landed
  PROVE  /\ ExecutionTypes' /\ Started' = Started \cup {l}
         /\ At(l)' = r.at /\ Reads(l)' = r.reads /\ execution'[l][1] = r
         /\ Emptied(l)' = r.emptied /\ Reported(l)' = r.counted
         /\ \A m \in Started : m # l => execution'[m] = execution[m]
<1>1. Started \subseteq Landings
  BY DEF Started
<1>2. /\ DOMAIN execution' = Landings
      /\ execution'[l] = <<r>>
      /\ \A m \in Landings : m # l => execution'[m] = execution[m]
      /\ execution' = [m \in Landings |-> execution'[m]]
  BY DEF Becomes, ExecutionTypes
<1>3. <<r>> # << >> /\ <<r>>[1] = r
  OBVIOUS
<1>4. Started' = Started \cup {l}
  BY <1>2, <1>3 DEF Started
<1>5. \A m \in Started' : /\ m \in DOMAIN landed
                          /\ execution'[m] = <<execution'[m][1]>>
                          /\ execution'[m][1] \in Executions
  <2>1. ASSUME NEW m \in Started, m # l
        PROVE  /\ m \in DOMAIN landed
               /\ execution'[m] = <<execution'[m][1]>>
               /\ execution'[m][1] \in Executions
    BY <1>1, <1>2, <2>1 DEF ExecutionTypes
  <2>2. /\ execution'[l] = <<execution'[l][1]>>
        /\ execution'[l][1] \in Executions
    BY <1>2, <1>3 DEF Becomes
  <2>. QED
    BY <1>4, <2>1, <2>2
<1>. QED
  BY <1>1, <1>2, <1>3, <1>4, <1>5 DEF ExecutionTypes, At, Reads, Emptied, Reported

LEMMA MoveFacts ==
  ASSUME ExecutionTypes, NEW l \in Started, NEW state \in Phases, Move(l, state)
  PROVE  \E r : /\ Becomes(l, r) /\ r.at = state
                /\ r.reads = Reads(l) /\ r.counted = Reported(l) /\ r.emptied = Emptied(l)
<1>1. PICK e \in Executions : e = execution[l][1]
  BY DEF ExecutionTypes
<1>. DEFINE d == [e EXCEPT !.at = state]
            r == [d EXCEPT !.attempts = MaxStartAttempts]
<1>2. /\ d \in Executions /\ d.at = state
      /\ d.reads = e.reads /\ d.counted = e.counted /\ d.emptied = e.emptied
  BY DEF Executions
<1>3. [e EXCEPT !.at = state, !.attempts = MaxStartAttempts] = r
  BY DEF Executions
<1>4. execution' = [execution EXCEPT ![l] = <<r>>]
  BY <1>1, <1>3 DEF Move
<1>. HIDE DEF d
<1>5. /\ r \in Executions /\ r.at = state
      /\ r.reads = e.reads /\ r.counted = e.counted /\ r.emptied = e.emptied
  BY <1>2, RunsAssumption DEF Executions
<1>. HIDE DEF r
<1>. QED
  BY <1>1, <1>4, <1>5 DEF Becomes, Reads, Emptied, Reported

\* One field of an execution, or more, by the long way of writing it.
LEMMA UpdateFacts ==
  ASSUME ExecutionTypes, NEW l \in Started, NEW r \in Executions,
         execution' = [execution EXCEPT ![l] = [execution[l] EXCEPT ![1] = r]]
  PROVE  Becomes(l, r)
<1>1. execution[l] = <<execution[l][1]>>
  BY DEF ExecutionTypes
<1>2. [<<execution[l][1]>> EXCEPT ![1] = r] = <<r>>
  OBVIOUS
<1>. QED
  BY <1>1, <1>2 DEF Becomes

LEMMA RefusedFacts ==
  ASSUME ExecutionTypes, NEW l \in Started, Refused(l)
  PROVE  \E r : /\ Becomes(l, r) /\ r.at \in {At(l), "failed"}
                /\ r.reads = Reads(l) /\ r.counted = Reported(l) /\ r.emptied = Emptied(l)
<1>. DEFINE e == execution[l][1]
            r == [e EXCEPT !.attempts = @ - 1]
<1>1. e \in Executions
  BY DEF ExecutionTypes
<1>2. CASE e.attempts > 0
  <2>1. execution' = [execution EXCEPT ![l] = [execution[l] EXCEPT ![1] = r]]
    BY <1>1, <1>2 DEF Refused, ExecutionTypes, Started
  <2>2. /\ r \in Executions /\ r.at = At(l)
        /\ r.reads = e.reads /\ r.counted = e.counted /\ r.emptied = e.emptied
    BY <1>1 DEF Executions, At
  <2>. HIDE DEF r
  <2>3. Becomes(l, r)
    BY <2>1, <2>2, UpdateFacts
  <2>. QED
    BY <2>2, <2>3 DEF Reads, Emptied, Reported
<1>3. CASE ~(e.attempts > 0)
  <2>1. Move(l, "failed") /\ "failed" \in Phases
    BY <1>3 DEF Refused, Phases, Ended
  <2>. QED
    BY <2>1, MoveFacts
<1>. QED
  BY <1>2, <1>3

-----------------------------------------------------------------------------
(* What a step does to the progress of the executions it is not about, and *)
(* when it keeps the invariant.                                            *)

LEMMA KeepsProgress ==
  ASSUME NEW m, m \in DOMAIN landed, landed[m].key \in Keys,
         execution'[m] = execution[m],
         DOMAIN landed \subseteq DOMAIN landed',
         \A i \in DOMAIN landed : landed'[i] = landed[i],
         processed \in [Keys -> Nat], processed' \in [Keys -> Nat],
         \A k \in Keys : processed'[k] >= processed[k],
         At(m) \in {"write", "land"} => processed' = processed,
         \A k \in Keys : emptiedBy'[k] \in {emptiedBy[k], 0} \/ emptiedBy'[k] # m,
         cataloged \subseteq cataloged',
         crawler = << >> \/ crawler' = crawler \/ crawler[1] \subseteq cataloged',
         \A i \in DOMAIN landed : i \in Nat /\ i # 0,
         Progress(m)
  PROVE  Progress(m)'
<1>0. m \in Nat /\ m # 0
  OBVIOUS
<1>1. /\ At(m)' = At(m) /\ Reads(m)' = Reads(m) /\ Key(m)' = Key(m)
      /\ Emptied(m)' = Emptied(m) /\ Reported(m)' = Reported(m)
      /\ MetEmptied(m)' = MetEmptied(m)
  BY DEF At, Reads, Key, Emptied, Reported, MetEmptied
<1>2. HasRead(m)'
  BY <1>1 DEF HasRead, Progress
<1>3. ReadNewest(m)'
  BY <1>1 DEF ReadNewest, Progress
<1>4. HasCounted(m)'
  BY <1>1 DEF HasCounted, HasRead, Progress
<1>5. HasWritten(m)'
  <2>1. SUFFICES ASSUME At(m) \in {"recrawl", "recrawling", "verify"},
                        landed[Reads(m)].content = "rows"
                 PROVE  /\ processed'[Key(m)] >= Reads(m) /\ emptiedBy'[Key(m)] # m
                        /\ At(m) = "recrawling" =>
                             \/ Key(m) \in cataloged'
                             \/ crawler' # << >> /\ Key(m) \in crawler'[1]
                             \/ MetEmptied(m)
                        /\ At(m) = "verify" => Key(m) \in cataloged' \/ MetEmptied(m)
    BY <1>1 DEF HasWritten, HasRead, Progress
  <2>2. /\ Reads(m) \in Nat /\ processed[Key(m)] >= Reads(m)
        /\ emptiedBy[Key(m)] # m /\ Key(m) \in Keys
    BY <2>1 DEF HasRead, HasWritten, Progress, Key
  <2>3. processed'[Key(m)] >= Reads(m)
    <3>1. processed[Key(m)] \in Nat /\ processed'[Key(m)] \in Nat
          /\ processed'[Key(m)] >= processed[Key(m)]
      BY <2>2
    <3>. QED
      BY <2>2, <3>1
  <2>4. emptiedBy'[Key(m)] # m
    BY <1>0, <2>2
  <2>5. /\ At(m) = "recrawling" =>
             \/ Key(m) \in cataloged
             \/ crawler # << >> /\ Key(m) \in crawler[1]
             \/ MetEmptied(m)
        /\ At(m) = "verify" => Key(m) \in cataloged \/ MetEmptied(m)
    BY <2>1 DEF HasWritten, Progress
  <2>. QED
    BY <2>3, <2>4, <2>5
<1>. QED
  BY <1>2, <1>3, <1>4, <1>5 DEF Progress

LEMMA LandedFacts ==
  ASSUME LandingTypes
  PROVE  /\ DOMAIN landed = 1..Len(landed) /\ Len(landed) \in Nat
         /\ \A i \in DOMAIN landed : i \in Landings /\ i \in Nat /\ i # 0 /\ landed[i].key \in Keys
<1>. DEFINE Landing == [key : Keys, content : Contents]
<1>0. landed \in Seq(Landing) /\ Len(landed) <= MaxLandings
  BY DEF LandingTypes
<1>2. \A i \in DOMAIN landed : landed[i].key \in Keys
  <2>1. \A i \in DOMAIN landed : landed[i] \in Landing
    <3>. HIDE DEF Landing
    <3>. QED
      BY <1>0
  <2>. QED
    BY <2>1
<1>. HIDE DEF Landing
<1>1. DOMAIN landed = 1..Len(landed) /\ Len(landed) \in Nat /\ Len(landed) <= MaxLandings
  BY <1>0
<1>3. \A i \in DOMAIN landed : i \in Landings /\ i \in Nat /\ i # 0
  BY <1>1, RunsAssumption DEF Landings
<1>. QED
  BY <1>1, <1>2, <1>3

LEMMA ExecutionStep ==
  ASSUME CountInv, NEW l \in Landings, l \in DOMAIN landed, NEW r, Becomes(l, r),
         landed' = landed, LandingTypes', ProcessedTypes',
         \A k \in Keys : processed'[k] >= processed[k],
         \A m \in Started : m # l /\ At(m) \in {"write", "land"} => processed' = processed,
         \A k \in Keys : emptiedBy'[k] \in {emptiedBy[k], 0, l},
         cataloged' = cataloged, crawler' = crawler \/ crawler = << >>,
         r.at \in {"read", "write", "land"} => l \in Running \/ Running = {},
         Progress(l)'
  PROVE  CountInv'
<1>1. ExecutionTypes /\ LandingTypes /\ ProcessedTypes
  BY DEF CountInv
<1>2. /\ ExecutionTypes' /\ Started' = Started \cup {l} /\ At(l)' = r.at
      /\ \A m \in Started : m # l => execution'[m] = execution[m]
  BY <1>1, BecomesFacts
<1>3. ASSUME NEW m \in Started, m # l PROVE Progress(m)'
  <2>1. Progress(m) /\ m \in DOMAIN landed
    BY <1>1 DEF CountInv, ExecutionTypes
  <2>. QED
    BY <1>1, <1>2, <1>3, <2>1, LandedFacts, KeepsProgress DEF ProcessedTypes
<1>4. Running' \subseteq Running \cup {l}
      /\ (l \in Running' => r.at \in {"read", "write", "land"})
  BY <1>2 DEF Running, At
<1>5. OneRun'
  <2>. SUFFICES ASSUME NEW m \in Running', NEW n \in Running' PROVE m = n
    BY DEF OneRun
  <2>1. CASE l \in Running' /\ Running = {}
    BY <1>4, <2>1
  <2>2. CASE l \in Running' /\ l \in Running
    BY <1>4, <2>2 DEF CountInv, OneRun
  <2>3. CASE l \notin Running'
    BY <1>4, <2>3 DEF CountInv, OneRun
  <2>. QED
    BY <1>4, <2>1, <2>2, <2>3
<1>6. \A m \in Started' : Progress(m)'
  BY <1>2, <1>3
<1>. QED
  BY <1>2, <1>5, <1>6 DEF CountInv

\* A step that only moves an execution on.
LEMMA MovesOn ==
  ASSUME CountInv, NEW l \in Started, NEW r, Becomes(l, r),
         r.reads = Reads(l), r.counted = Reported(l),
         UNCHANGED <<landed, announced, invocations, cataloged, processed, emptiedBy>>,
         crawler' = crawler \/ crawler = << >>,
         \/ /\ r.emptied = Emptied(l)
            /\ \/ r.at \in {At(l), "failed", "crawl", "crawling", "queued"}
               \/ r.at = "read" /\ (l \in Running \/ Running = {})
               \/ At(l) = "recrawling" /\ r.at = "verify" /\ crawler = << >>
         \/ /\ At(l) = "recrawl" /\ r.at = "recrawling"
            /\ r.emptied = emptiedBy[Key(l)]
            /\ processed[Key(l)] # 0 /\ emptiedBy[Key(l)] = 0 =>
                 crawler' # << >> /\ Key(l) \in crawler'[1]
  PROVE  CountInv'
<1>1. ExecutionTypes /\ LandingTypes /\ ProcessedTypes /\ Progress(l)
  BY DEF CountInv
<1>2. l \in Landings /\ l \in DOMAIN landed
  BY <1>1 DEF Started, ExecutionTypes
<1>3. /\ At(l)' = r.at /\ Reads(l)' = Reads(l) /\ Key(l)' = Key(l)
      /\ Reported(l)' = Reported(l) /\ Emptied(l)' = r.emptied
      /\ r.emptied = Emptied(l) => MetEmptied(l)' = MetEmptied(l)
  BY <1>1, <1>2, BecomesFacts DEF Key, MetEmptied
<1>4. LandingTypes' /\ ProcessedTypes' /\ \A k \in Keys : processed'[k] >= processed[k]
  BY <1>1 DEF LandingTypes, ProcessedTypes
<1>5. l \in Running => At(l) \in {"read", "write", "land"}
  BY DEF Running
<1>6. Progress(l)'
  <2>1. HasRead(l)'
    BY <1>1, <1>3 DEF Progress, HasRead
  <2>2. ReadNewest(l)'
    BY <1>1, <1>3 DEF Progress, ReadNewest
  <2>3. HasCounted(l)'
    BY <1>1, <1>3 DEF Progress, HasCounted
  <2>4. HasWritten(l)'
    <3>. SUFFICES ASSUME r.at \in {"recrawl", "recrawling", "verify"},
                         landed[Reads(l)].content = "rows"
                  PROVE  /\ processed[Key(l)] >= Reads(l) /\ emptiedBy[Key(l)] # l
                         /\ r.at = "recrawling" =>
                              \/ Key(l) \in cataloged
                              \/ crawler' # << >> /\ Key(l) \in crawler'[1]
                              \/ MetEmptied(l)'
                         /\ r.at = "verify" => Key(l) \in cataloged \/ MetEmptied(l)'
      BY <1>3 DEF HasWritten
    <3>1. At(l) \in {"recrawl", "recrawling", "verify"}
      OBVIOUS
    <3>2. processed[Key(l)] >= Reads(l) /\ emptiedBy[Key(l)] # l
      BY <1>1, <3>1 DEF Progress, HasWritten
    <3>3. processed[Key(l)] # 0
      <4>1. Reads(l) \in DOMAIN landed /\ DOMAIN landed = 1..Len(landed) /\ Len(landed) \in Nat
        BY <1>1, <3>1, LandedFacts DEF Progress, HasRead
      <4>2. Key(l) \in Keys
        BY <1>1, <1>2, LandedFacts DEF Key
      <4>3. processed[Key(l)] \in Nat
        BY <1>1, <4>2 DEF ProcessedTypes
      <4>. QED
        BY <3>2, <4>1, <4>3
    <3>4. CASE r.at = "recrawl"
      BY <3>2, <3>4
    <3>5. CASE r.at = "recrawling" /\ At(l) = "recrawl"
      BY <1>3, <3>2, <3>3, <3>5 DEF MetEmptied
    <3>6. CASE r.at = "recrawling" /\ At(l) = "recrawling"
      BY <1>1, <1>3, <3>1, <3>2, <3>6 DEF Progress, HasWritten
    <3>7. CASE r.at = "verify"
      BY <1>1, <1>3, <3>1, <3>2, <3>7 DEF Progress, HasWritten
    <3>. QED
      BY <3>1, <3>4, <3>5, <3>6, <3>7
  <2>. QED
    BY <2>1, <2>2, <2>3, <2>4 DEF Progress
<1>7. r.at \in {"read", "write", "land"} => l \in Running \/ Running = {}
  BY DEF Running
<1>. QED
  BY <1>2, <1>4, <1>6, <1>7, ExecutionStep

-----------------------------------------------------------------------------
(* The steps of an execution.                                              *)

LEMMA CheckCount ==
  ASSUME CountInv, NEW l \in Landings, CheckEncoding(l) PROVE CountInv'
<1>1. l \in Started /\ At(l) = "check" /\ ExecutionTypes
  BY DEF CheckEncoding, CountInv
<1>2. PICK s \in {"failed", "crawl"} : Move(l, s)
  BY DEF CheckEncoding
<1>3. s \in Phases
  BY DEF Phases, Ended
<1>4. PICK r : /\ Becomes(l, r) /\ r.at = s
               /\ r.reads = Reads(l) /\ r.counted = Reported(l) /\ r.emptied = Emptied(l)
  BY <1>1, <1>2, <1>3, MoveFacts
<1>. QED
  BY <1>1, <1>4, MovesOn DEF CheckEncoding, NotCalling

LEMMA CrawlCount ==
  ASSUME CountInv, NEW l \in Landings, RunGlueCrawler(l) PROVE CountInv'
<1>1. l \in Started /\ At(l) = "crawl" /\ ExecutionTypes
  BY DEF RunGlueCrawler, CountInv
<1>2. PICK s \in {"failed", "crawling"} : Move(l, s)
  BY DEF RunGlueCrawler
<1>3. s \in Phases
  BY DEF Phases, Ended
<1>4. PICK r : /\ Becomes(l, r) /\ r.at = s
               /\ r.reads = Reads(l) /\ r.counted = Reported(l) /\ r.emptied = Emptied(l)
  BY <1>1, <1>2, <1>3, MoveFacts
<1>. QED
  BY <1>1, <1>4, MovesOn DEF RunGlueCrawler, NotCalling

LEMMA ReadyCount ==
  ASSUME CountInv, NEW l \in Landings, CrawlerReady(l) PROVE CountInv'
<1>1. l \in Started /\ At(l) \in {"crawling", "recrawling"} /\ ExecutionTypes
  BY DEF CrawlerReady, CountInv
<1>2. PICK s \in {"queued", "verify"} : Move(l, s) /\ (s = "verify" => At(l) = "recrawling")
  BY <1>1 DEF CrawlerReady
<1>3. s \in Phases
  BY DEF Phases
<1>4. PICK r : /\ Becomes(l, r) /\ r.at = s
               /\ r.reads = Reads(l) /\ r.counted = Reported(l) /\ r.emptied = Emptied(l)
  BY <1>1, <1>2, <1>3, MoveFacts
<1>. QED
  BY <1>1, <1>2, <1>4, MovesOn DEF CrawlerReady, NotCalling

LEMMA RecrawlFacts ==
  ASSUME ExecutionTypes, LandingTypes, ProcessedTypes, NEW l \in Started, Recrawls(l)
  PROVE  \E r : /\ Becomes(l, r) /\ r.at = "recrawling" /\ r.reads = Reads(l)
                /\ r.counted = Reported(l) /\ r.emptied = emptiedBy[Key(l)]
<1>1. Key(l) \in Keys
  BY LandedFacts DEF ExecutionTypes, Key
<1>2. PICK n \in Nat : n = emptiedBy[Key(l)]
  BY <1>1 DEF ProcessedTypes
<1>3. PICK e \in Executions : e = execution[l][1]
  BY DEF ExecutionTypes
<1>4. "recrawling" \in Phases
  BY DEF Phases
<1>. DEFINE d == [e EXCEPT !.at = "recrawling"]
            r == [d EXCEPT !.emptied = n]
<1>5. d \in Executions /\ d.at = "recrawling" /\ d.reads = e.reads /\ d.counted = e.counted
  BY <1>4 DEF Executions
<1>6. [e EXCEPT !.at = "recrawling", !.emptied = n] = r
  BY DEF Executions
<1>7. execution' = [execution EXCEPT ![l] = <<r>>]
  BY <1>2, <1>3, <1>6 DEF Recrawls, Key
<1>. HIDE DEF d
<1>8. /\ r \in Executions /\ r.at = "recrawling" /\ r.emptied = n
      /\ r.reads = e.reads /\ r.counted = e.counted
  BY <1>2, <1>5 DEF Executions
<1>. HIDE DEF r
<1>. QED
  BY <1>2, <1>3, <1>7, <1>8 DEF Becomes, Reads, Reported

LEMMA RecrawlCount ==
  ASSUME CountInv, NEW l \in Landings, RecrawlProcessed(l) PROVE CountInv'
<1>1. l \in Started /\ At(l) = "recrawl" /\ ExecutionTypes
  BY DEF RecrawlProcessed, CountInv
<1>2. CASE crawler = << >>
  <2>1. Recrawls(l)
    BY <1>2 DEF RecrawlProcessed
  <2>2. PICK r : /\ Becomes(l, r) /\ r.at = "recrawling" /\ r.reads = Reads(l)
                 /\ r.counted = Reported(l) /\ r.emptied = emptiedBy[Key(l)]
    BY <1>1, <2>1, RecrawlFacts DEF CountInv
  <2>3. Key(l) \in Keys
    BY <1>1, LandedFacts DEF Key, CountInv, ExecutionTypes
  <2>4. processed[Key(l)] # 0 /\ emptiedBy[Key(l)] = 0 =>
          crawler' # << >> /\ Key(l) \in crawler'[1]
    BY <1>2, <2>3 DEF RecrawlProcessed, Crawl
  <2>. QED
    BY <1>1, <1>2, <2>2, <2>4, MovesOn DEF RecrawlProcessed, NotCalling
<1>3. CASE crawler # << >>
  <2>1. PICK r : /\ Becomes(l, r) /\ r.at \in {At(l), "failed"}
                 /\ r.reads = Reads(l) /\ r.counted = Reported(l) /\ r.emptied = Emptied(l)
    BY <1>1, <1>3, RefusedFacts DEF RecrawlProcessed
  <2>. QED
    BY <1>1, <1>3, <2>1, MovesOn DEF RecrawlProcessed, NotCalling
<1>. QED
  BY <1>2, <1>3

LEMMA AthenaCount ==
  ASSUME CountInv, NEW l \in Landings, AthenaFails(l) PROVE CountInv'
<1>1. l \in Started /\ ExecutionTypes /\ Move(l, "failed") /\ "failed" \in Phases
  BY DEF AthenaFails, CountInv, Phases, Ended
<1>2. PICK r : /\ Becomes(l, r) /\ r.at = "failed"
               /\ r.reads = Reads(l) /\ r.counted = Reported(l) /\ r.emptied = Emptied(l)
  BY <1>1, MoveFacts
<1>. QED
  BY <1>1, <1>2, MovesOn DEF AthenaFails

\* With one run at a time, a start that is not refused is the only run.
LEMMA RunCount ==
  ASSUME MaxConcurrentRuns = 1, CountInv, NEW l \in Landings, RunGlueETL(l)
  PROVE  CountInv'
<1>1. l \in Started /\ At(l) = "queued" /\ ExecutionTypes
  BY DEF RunGlueETL, CountInv
<1>2. CASE Cardinality(Running) < MaxConcurrentRuns
  <2>1. IsFiniteSet(Landings)
    BY RunsAssumption, FS_Interval DEF Landings
  <2>2. IsFiniteSet(Running)
    BY <2>1, FS_Subset DEF Running, Started
  <2>3. Running = {}
    BY <1>2, <2>2, FS_EmptySet, FS_CardinalityType
  <2>4. Move(l, "read") /\ "read" \in Phases
    BY <1>2 DEF RunGlueETL, Phases
  <2>5. PICK r : /\ Becomes(l, r) /\ r.at = "read"
                 /\ r.reads = Reads(l) /\ r.counted = Reported(l) /\ r.emptied = Emptied(l)
    BY <1>1, <2>4, MoveFacts
  <2>. QED
    BY <1>1, <2>3, <2>5, MovesOn DEF RunGlueETL, NotCalling
<1>3. CASE ~(Cardinality(Running) < MaxConcurrentRuns)
  <2>1. PICK r : /\ Becomes(l, r) /\ r.at \in {At(l), "failed"}
                 /\ r.reads = Reads(l) /\ r.counted = Reported(l) /\ r.emptied = Emptied(l)
    BY <1>1, <1>3, RefusedFacts DEF RunGlueETL
  <2>. QED
    BY <1>1, <2>1, MovesOn DEF RunGlueETL, NotCalling
<1>. QED
  BY <1>2, <1>3

LEMMA ReadFacts ==
  ASSUME ExecutionTypes, LandingTypes, NEW l \in Started, ReadRaw(l)
  PROVE  \E r : Becomes(l, r) /\ r.at = "write" /\ r.reads = Newest(landed[l].key)
<1>1. PICK n \in DOMAIN landed : n = Newest(landed[l].key)
  BY NewestFacts DEF ExecutionTypes
<1>2. PICK e \in Executions : e = execution[l][1]
  BY DEF ExecutionTypes
<1>3. n \in Nat /\ "write" \in Phases
  BY <1>1, LandedFacts DEF Phases
<1>. DEFINE d == [e EXCEPT !.at = "write"]
            r == [d EXCEPT !.reads = n]
<1>4. d \in Executions /\ d.at = "write"
  BY <1>3 DEF Executions
<1>5. [e EXCEPT !.at = "write", !.reads = n] = r
  BY DEF Executions
<1>6. execution' = [execution EXCEPT ![l] = <<r>>]
  BY <1>1, <1>2, <1>5 DEF ReadRaw
<1>. HIDE DEF d
<1>7. r \in Executions /\ r.at = "write" /\ r.reads = n
  BY <1>3, <1>4 DEF Executions
<1>. HIDE DEF r
<1>. QED
  BY <1>1, <1>6, <1>7 DEF Becomes

LEMMA ReadCount ==
  ASSUME CountInv, NEW l \in Landings, ReadRaw(l) PROVE CountInv'
<1>1. l \in Started /\ At(l) = "read" /\ ExecutionTypes /\ LandingTypes /\ ProcessedTypes
  BY DEF ReadRaw, CountInv
<1>2. l \in DOMAIN landed /\ l \in Running /\ Key(l) \in Keys
  BY <1>1, LandedFacts DEF ExecutionTypes, Running, Key
<1>3. PICK n \in DOMAIN landed :
        /\ n = Newest(landed[l].key) /\ landed[n].key = landed[l].key
        /\ \A m \in DOMAIN landed : landed[m].key = landed[l].key => m <= n
  BY <1>1, <1>2, NewestFacts
<1>4. PICK r : Becomes(l, r) /\ r.at = "write" /\ r.reads = n
  BY <1>1, <1>3, ReadFacts
<1>5. n \in Nat
  BY <1>1, LandedFacts
<1>6. /\ UNCHANGED <<landed, announced, invocations, cataloged, processed, emptiedBy, crawler>>
      /\ LandingTypes' /\ ProcessedTypes'
      /\ \A k \in Keys : processed'[k] >= processed[k]
  BY <1>1 DEF ReadRaw, NotCalling, LandingTypes, ProcessedTypes
<1>7. At(l)' = "write" /\ Reads(l)' = n
  BY <1>1, <1>2, <1>4, <1>6, BecomesFacts DEF Started
<1>8. processed[Key(l)] <= n
  <2>1. processed[Key(l)] \in Nat
    BY <1>1, <1>2 DEF ProcessedTypes
  <2>2. processed[Key(l)] # 0 => processed[Key(l)] \in DOMAIN landed
                                 /\ landed[processed[Key(l)]].key = Key(l)
    BY <1>1, <1>2 DEF ProcessedTypes
  <2>. QED
    BY <1>3, <1>5, <2>1, <2>2 DEF Key
<1>9. Progress(l)'
  BY <1>3, <1>6, <1>7, <1>8 DEF Progress, HasRead, ReadNewest, HasWritten, HasCounted, Key
<1>. QED
  BY <1>2, <1>4, <1>6, <1>9, ExecutionStep DEF Started, Running

\* The rows a run lands are no older than those the partition has or had.
LEMMA LandFacts ==
  ASSUME CountInv, NEW l \in Started, At(l) = "land", landed' = landed, Land(l)
  PROVE  /\ ProcessedTypes' /\ \A k \in Keys : processed'[k] >= processed[k]
         /\ \A k \in Keys : emptiedBy'[k] \in {emptiedBy[k], 0}
         /\ \A k \in Keys : k # Key(l) => processed'[k] = processed[k]
                                         /\ emptiedBy'[k] = emptiedBy[k]
         /\ processed'[Key(l)] = Reads(l) /\ emptiedBy'[Key(l)] = 0
         /\ \A m \in Started : m # l => At(m) \notin {"write", "land"}
<1>1. /\ Reads(l) \in DOMAIN landed /\ landed[Reads(l)].key = Key(l)
      /\ processed[Key(l)] <= Reads(l) /\ ProcessedTypes
  BY DEF CountInv, Progress, HasRead, ReadNewest
<1>2. /\ Reads(l) \in Nat /\ Key(l) \in Keys
      /\ processed \in [Keys -> Nat] /\ \A k \in Keys : processed[k] \in Nat
      /\ emptiedBy \in [Keys -> Nat]
  BY <1>1, LandedFacts DEF CountInv, ProcessedTypes
<1>3. /\ processed' = [processed EXCEPT ![Key(l)] = Reads(l)]
      /\ emptiedBy' = [emptiedBy EXCEPT ![Key(l)] = 0]
  BY DEF Land, Key, Reads
<1>4. processed' \in [Keys -> Nat] /\ emptiedBy' \in [Keys -> Nat]
  BY <1>2, <1>3
<1>5. /\ \A k \in Keys : k # Key(l) => processed'[k] = processed[k]
                                     /\ emptiedBy'[k] = emptiedBy[k]
      /\ processed'[Key(l)] = Reads(l) /\ emptiedBy'[Key(l)] = 0
  BY <1>2, <1>3
<1>6. \A k \in Keys : processed'[k] >= processed[k]
  BY <1>1, <1>2, <1>5
<1>7. \A k \in Keys : processed'[k] # 0 => processed'[k] \in DOMAIN landed
                                           /\ landed[processed'[k]].key = k
  BY <1>1, <1>5 DEF ProcessedTypes
<1>8. \A m \in Started : m # l => At(m) \notin {"write", "land"}
  BY DEF CountInv, OneRun, Running
<1>. QED
  BY <1>4, <1>5, <1>6, <1>7, <1>8 DEF ProcessedTypes

LEMMA RemoveCount ==
  ASSUME CountInv, NEW l \in Landings, RemoveFiles(l) PROVE CountInv'
<1>1. /\ l \in Started /\ At(l) = "write" /\ ExecutionTypes /\ LandingTypes /\ ProcessedTypes
      /\ Progress(l)
  BY DEF RemoveFiles, CountInv
<1>2. l \in DOMAIN landed /\ l \in Running /\ Key(l) \in Keys /\ l \in Nat
  BY <1>1, LandedFacts DEF ExecutionTypes, Running, Key
<1>3. UNCHANGED <<landed, announced, invocations, crawler, cataloged, processed>>
  BY DEF RemoveFiles, NotCalling
<1>4. LandingTypes' /\ \A k \in Keys : processed'[k] >= processed[k]
  BY <1>1, <1>3 DEF LandingTypes, ProcessedTypes
<1>5. PICK s \in {"land", "recrawl"} :
        /\ Move(l, s)
        /\ \/ s = "land" /\ emptiedBy' = [emptiedBy EXCEPT ![Key(l)] = l]
           \/ s = "recrawl" /\ emptiedBy' = emptiedBy /\ landed[Reads(l)].content # "rows"
  BY DEF RemoveFiles, Key, Reads
<1>6. s \in Phases
  BY DEF Phases
<1>7. PICK r : /\ Becomes(l, r) /\ r.at = s
               /\ r.reads = Reads(l) /\ r.counted = Reported(l) /\ r.emptied = Emptied(l)
  BY <1>1, <1>5, <1>6, MoveFacts
<1>8. ProcessedTypes' /\ \A k \in Keys : emptiedBy'[k] \in {emptiedBy[k], 0, l}
  BY <1>1, <1>2, <1>3, <1>5 DEF ProcessedTypes
<1>9. At(l)' = s /\ Reads(l)' = Reads(l) /\ Key(l)' = Key(l)
  BY <1>1, <1>2, <1>3, <1>7, BecomesFacts DEF Key
<1>10. Progress(l)'
  <2>1. CASE s = "land"
    BY <1>1, <1>3, <1>9, <2>1 DEF Progress, HasRead, ReadNewest, HasWritten, HasCounted
  <2>2. CASE s = "recrawl" /\ landed[Reads(l)].content # "rows"
    BY <1>1, <1>3, <1>9, <2>2 DEF Progress, HasRead, ReadNewest, HasWritten, HasCounted
  <2>. QED
    BY <1>5, <2>1, <2>2
<1>. QED
  BY <1>1, <1>2, <1>3, <1>4, <1>7, <1>8, <1>10, ExecutionStep

LEMMA LandCount ==
  ASSUME CountInv, NEW l \in Landings, LandFiles(l) PROVE CountInv'
<1>1. /\ l \in Started /\ At(l) = "land" /\ ExecutionTypes /\ LandingTypes
      /\ Move(l, "recrawl") /\ "recrawl" \in Phases /\ Land(l)
      /\ UNCHANGED <<landed, announced, invocations, crawler, cataloged>>
  BY DEF LandFiles, CountInv, Phases, NotCalling
<1>2. l \in DOMAIN landed /\ l \in Nat /\ l # 0
  BY <1>1, LandedFacts DEF ExecutionTypes
<1>3. PICK r : /\ Becomes(l, r) /\ r.at = "recrawl"
               /\ r.reads = Reads(l) /\ r.counted = Reported(l) /\ r.emptied = Emptied(l)
  BY <1>1, MoveFacts
<1>4. At(l)' = "recrawl" /\ Reads(l)' = Reads(l) /\ Key(l)' = Key(l)
  BY <1>1, <1>2, <1>3, BecomesFacts DEF Key
<1>5. LandingTypes'
  BY <1>1 DEF LandingTypes
<1>6. HasRead(l) /\ Reads(l) \in Nat
  BY <1>1, LandedFacts DEF CountInv, Progress, HasRead
<1>7. processed'[Key(l)] = Reads(l) /\ emptiedBy'[Key(l)] = 0
  BY <1>1, LandFacts
<1>8. Progress(l)'
  BY <1>1, <1>2, <1>4, <1>6, <1>7
  DEF Progress, HasRead, ReadNewest, HasWritten, HasCounted
<1>9. /\ ProcessedTypes' /\ \A k \in Keys : processed'[k] >= processed[k]
      /\ \A k \in Keys : emptiedBy'[k] \in {emptiedBy[k], 0, l}
      /\ \A m \in Started : m # l => At(m) \notin {"write", "land"}
  BY <1>1, LandFacts
<1>. QED
  BY <1>1, <1>2, <1>3, <1>5, <1>8, <1>9, ExecutionStep

LEMMA FailsCount ==
  ASSUME CountInv, NEW l \in Landings, GlueRunFails(l) PROVE CountInv'
<1>1. l \in Running /\ l \in Started /\ ExecutionTypes /\ LandingTypes /\ ProcessedTypes
  BY DEF GlueRunFails, CountInv, Running
<1>2. l \in DOMAIN landed
  BY <1>1 DEF ExecutionTypes
<1>3. PICK e \in Executions : e = execution[l][1]
  BY <1>1 DEF ExecutionTypes
<1>4. PICK x \in {"failed", "read"} : x = IF e.reran THEN "failed" ELSE "read"
  OBVIOUS
<1>5. x \in Phases
  BY DEF Phases, Ended
<1>. DEFINE d == [e EXCEPT !.at = x]
            r == [d EXCEPT !.reran = TRUE]
<1>6. d \in Executions /\ d.at = x
  BY <1>5 DEF Executions
<1>7. [e EXCEPT !.at = x, !.reran = TRUE] = r
  BY DEF Executions
<1>8. execution' = [execution EXCEPT ![l] = <<r>>]
  BY <1>3, <1>4, <1>7 DEF GlueRunFails
<1>. HIDE DEF d
<1>9. r \in Executions /\ r.at = x
  BY <1>6 DEF Executions
<1>. HIDE DEF r
<1>10. Becomes(l, r)
  BY <1>8, <1>9 DEF Becomes
<1>11. UNCHANGED <<landed, announced, invocations, crawler, cataloged>>
  BY DEF GlueRunFails
<1>12. At(l)' = x
  BY <1>1, <1>2, <1>9, <1>10, <1>11, BecomesFacts DEF Started
<1>13. UNCHANGED <<processed, emptiedBy>> \/ (At(l) = "land" /\ Land(l))
  BY DEF GlueRunFails
<1>14. /\ LandingTypes' /\ ProcessedTypes'
       /\ \A k \in Keys : processed'[k] >= processed[k]
       /\ \A k \in Keys : emptiedBy'[k] \in {emptiedBy[k], 0, l}
       /\ \A m \in Started : m # l /\ At(m) \in {"write", "land"} => processed' = processed
  <2>1. LandingTypes'
    BY <1>1, <1>11 DEF LandingTypes
  <2>2. CASE UNCHANGED <<processed, emptiedBy>>
    BY <1>1, <1>11, <2>1, <2>2 DEF ProcessedTypes
  <2>3. CASE At(l) = "land" /\ Land(l)
    BY <1>1, <1>11, <2>1, <2>3, LandFacts
  <2>. QED
    BY <1>13, <2>2, <2>3
<1>15. Progress(l)'
  BY <1>12 DEF Progress, HasRead, ReadNewest, HasWritten, HasCounted
<1>. QED
  BY <1>1, <1>2, <1>10, <1>11, <1>14, <1>15, ExecutionStep

There(k) == k \in cataloged /\ emptiedBy[k] = 0

LEMMA VerifyFacts ==
  ASSUME ExecutionTypes, LandingTypes, ProcessedTypes, NEW l \in Started, VerifyInAthena(l)
  PROVE  \E r : /\ Becomes(l, r) /\ r.at = "done" /\ r.reads = Reads(l)
                /\ r.counted = IF There(Key(l)) THEN processed[Key(l)] ELSE 0
                /\ r.emptied = IF emptiedBy[Key(l)] # 0 THEN emptiedBy[Key(l)] ELSE Emptied(l)
<1>1. Key(l) \in Keys
  BY LandedFacts DEF ExecutionTypes, Key
<1>2. PICK e \in Executions : e = execution[l][1]
  BY DEF ExecutionTypes
<1>3. processed[Key(l)] \in Nat /\ emptiedBy[Key(l)] \in Nat /\ e.emptied \in Nat
  BY <1>1 DEF ProcessedTypes, Executions
<1>4. PICK n \in Nat : n = IF There(Key(l)) THEN processed[Key(l)] ELSE 0
  BY <1>3
<1>5. PICK c \in Nat : c = IF emptiedBy[Key(l)] # 0 THEN emptiedBy[Key(l)] ELSE e.emptied
  BY <1>3
<1>6. "done" \in Phases
  BY DEF Phases, Ended
<1>. DEFINE d == [e EXCEPT !.at = "done"]
            f == [d EXCEPT !.counted = n]
            r == [f EXCEPT !.emptied = c]
<1>7. d \in Executions /\ d.at = "done" /\ d.reads = e.reads
  BY <1>6 DEF Executions
<1>8. [e EXCEPT !.at = "done", !.counted = n, !.emptied = c] = r
  BY DEF Executions
<1>9. execution' = [execution EXCEPT
        ![l] = <<[e EXCEPT !.at = "done", !.counted = n, !.emptied = c]>>]
  BY <1>2, <1>4, <1>5 DEF VerifyInAthena, Key, There
<1>10. execution' = [execution EXCEPT ![l] = <<r>>]
  BY <1>8, <1>9
<1>. HIDE DEF d
<1>11. f \in Executions /\ f.at = "done" /\ f.counted = n /\ f.reads = e.reads
  BY <1>7 DEF Executions
<1>. HIDE DEF f
<1>12. /\ r \in Executions /\ r.at = "done" /\ r.counted = n /\ r.reads = e.reads
       /\ r.emptied = c
  BY <1>11 DEF Executions
<1>. HIDE DEF r
<1>. QED
  BY <1>2, <1>4, <1>5, <1>10, <1>12 DEF Becomes, Reads, Emptied

LEMMA VerifyCount ==
  ASSUME CountInv, NEW l \in Landings, VerifyInAthena(l) PROVE CountInv'
<1>1. l \in Started /\ At(l) = "verify" /\ ExecutionTypes /\ LandingTypes /\ ProcessedTypes
  BY DEF VerifyInAthena, CountInv
<1>2. l \in DOMAIN landed /\ Key(l) \in Keys
  BY <1>1, LandedFacts DEF ExecutionTypes, Key
<1>3. PICK r : /\ Becomes(l, r) /\ r.at = "done" /\ r.reads = Reads(l)
               /\ r.counted = IF There(Key(l)) THEN processed[Key(l)] ELSE 0
               /\ r.emptied = IF emptiedBy[Key(l)] # 0 THEN emptiedBy[Key(l)] ELSE Emptied(l)
  BY <1>1, VerifyFacts
<1>4. PICK n, c : /\ n = IF There(Key(l)) THEN processed[Key(l)] ELSE 0
                  /\ c = IF emptiedBy[Key(l)] # 0 THEN emptiedBy[Key(l)] ELSE Emptied(l)
  OBVIOUS
<1>5. /\ UNCHANGED <<landed, announced, invocations, crawler, cataloged, processed, emptiedBy>>
      /\ LandingTypes' /\ ProcessedTypes'
      /\ \A k \in Keys : processed'[k] >= processed[k]
  BY <1>1 DEF VerifyInAthena, NotCalling, LandingTypes, ProcessedTypes
<1>6. /\ At(l)' = "done" /\ Reads(l)' = Reads(l) /\ Key(l)' = Key(l)
      /\ Reported(l)' = n /\ Emptied(l)' = c
  BY <1>1, <1>2, <1>3, <1>4, <1>5, BecomesFacts DEF Started, Key
<1>7. Progress(l)
  BY <1>1 DEF CountInv
<1>8. landed[Reads(l)].content = "rows" => n >= Reads(l) \/ (n = 0 /\ c \notin {0, l})
  BY <1>1, <1>4, <1>7 DEF Progress, HasWritten, MetEmptied, There
<1>9. HasRead(l)'
  BY <1>1, <1>5, <1>6, <1>7 DEF Progress, HasRead
<1>10. Progress(l)'
  BY <1>5, <1>6, <1>8, <1>9
  DEF Progress, ReadNewest, HasWritten, HasCounted, MetEmptied
<1>. QED
  BY <1>1, <1>2, <1>3, <1>5, <1>10, ExecutionStep DEF Started

-----------------------------------------------------------------------------
(* The steps of the trigger and of the crawler.                            *)

\* A step that starts no execution and moves none.
LEMMA StaysCount ==
  ASSUME CountInv, LandingTypes', UNCHANGED <<execution, processed, emptiedBy>>,
         DOMAIN landed \subseteq DOMAIN landed',
         \A i \in DOMAIN landed : landed'[i] = landed[i],
         cataloged \subseteq cataloged',
         crawler = << >> \/ crawler' = crawler \/ crawler[1] \subseteq cataloged'
  PROVE  CountInv'
<1>1. ExecutionTypes /\ LandingTypes /\ ProcessedTypes
  BY DEF CountInv
<1>2. Started' = Started /\ \A l \in Started : At(l)' = At(l)
  BY DEF Started, At
<1>3. ExecutionTypes' /\ OneRun'
  BY SMTT(30), <1>1, <1>2 DEF CountInv, ExecutionTypes, OneRun, Running
<1>4. ProcessedTypes' /\ \A k \in Keys : processed'[k] >= processed[k]
  <2>1. \A k \in Keys : processed[k] \in Nat
    BY <1>1 DEF ProcessedTypes
  <2>. QED
    BY <1>1, <2>1 DEF ProcessedTypes
<1>5. ASSUME NEW l \in Started PROVE Progress(l)'
  <2>1. Progress(l) /\ l \in DOMAIN landed
    BY <1>1 DEF CountInv, ExecutionTypes
  <2>. QED
    BY <1>1, <1>4, <2>1, LandedFacts, KeepsProgress DEF ProcessedTypes
<1>. QED
  BY <1>2, <1>3, <1>4, <1>5 DEF CountInv

LEMMA PutCount ==
  ASSUME CountInv, NEW k \in Keys, NEW content \in Contents, Put(k, content)
  PROVE  CountInv'
<1>. DEFINE Landing == [key : Keys, content : Contents]
            x == [key |-> k, content |-> content]
<1>1. /\ landed \in Seq(Landing) /\ Len(landed) <= MaxLandings /\ announced \in 0..Len(landed)
      /\ Len(landed) < MaxLandings /\ landed' = Append(landed, x) /\ x \in Landing
      /\ UNCHANGED <<announced, invocations, execution, crawler, cataloged, processed,
                   emptiedBy>>
  BY DEF CountInv, LandingTypes, Put
<1>. HIDE DEF x, Landing
<1>2. /\ landed' \in Seq(Landing) /\ Len(landed') = Len(landed) + 1
      /\ Len(landed) \in Nat
      /\ \A i \in DOMAIN landed : landed'[i] = landed[i]
      /\ DOMAIN landed \subseteq DOMAIN landed'
  BY <1>1
<1>3. Len(landed') <= MaxLandings /\ announced' \in 0..Len(landed')
  BY <1>1, <1>2, RunsAssumption
<1>4. LandingTypes'
  BY <1>1, <1>2, <1>3 DEF CountInv, LandingTypes, Landing
<1>. QED
  BY <1>1, <1>2, <1>4, StaysCount

LEMMA CrawlEndsCount == ASSUME CountInv, CrawlEnds PROVE CountInv'
<1>1. /\ cataloged' = cataloged \cup crawler[1]
      /\ UNCHANGED <<landed, announced, invocations, execution, processed, emptiedBy>>
  BY DEF CrawlEnds, NotCalling
<1>2. LandingTypes'
  BY <1>1 DEF CountInv, LandingTypes
<1>. QED
  BY <1>1, <1>2, StaysCount

LEMMA RepeatNames ==
  ASSUME NEW i, NEW number, Names(i, number)
  PROVE  /\ Names([i EXCEPT !.next = 1, !.left = @ - 1], number)
         /\ i.next < Len(i.records) => Names([i EXCEPT !.next = @ + 1], number)
<1>. DEFINE a == [i EXCEPT !.next = 1, !.left = @ - 1]
            b == [i EXCEPT !.next = @ + 1]
<1>1. Len(i.records) \in Nat /\ i.next \in Nat /\ i.next >= 1 /\ i.next <= Len(i.records)
  BY DEF Names
<1>2. a = [records |-> i.records, next |-> 1, left |-> i.left - 1]
  <2>. DEFINE d == [i EXCEPT !.next = 1]
  <2>1. a = [d EXCEPT !.left = i.left - 1]
    BY DEF Names
  <2>2. d = [records |-> i.records, next |-> 1, left |-> i.left]
    BY DEF Names
  <2>. HIDE DEF a, d
  <2>. QED
    BY <2>1, <2>2
<1>3. b = [records |-> i.records, next |-> i.next + 1, left |-> i.left]
  BY DEF Names
<1>. HIDE DEF a, b
<1>4. Names(a, number)
  BY <1>1, <1>2 DEF Names
<1>5. i.next < Len(i.records) => Names(b, number)
  BY <1>1, <1>3 DEF Names
<1>. QED
  BY <1>4, <1>5 DEF a, b

LEMMA InvocationStep ==
  ASSUME LandingTypes, NEW i \in invocations, Raise(i) \/ Proceed(i),
         UNCHANGED <<landed, announced>>
  PROVE  LandingTypes'
<1>1. Names(i, announced)
  BY DEF LandingTypes
<1>2. \A j \in invocations' : Names(j, announced)
  <2>1. CASE Raise(i)
    BY <1>1, <2>1, RepeatNames DEF Raise, LandingTypes
  <2>2. CASE Proceed(i)
    BY <1>1, <2>2, RepeatNames DEF Proceed, LandingTypes
  <2>. QED
    BY <2>1, <2>2
<1>. QED
  BY <1>2 DEF LandingTypes

\* A landing that is announced is one of those there are, and stays it.
LEMMA AnnouncedStep ==
  ASSUME LandingTypes, NEW n \in 0..2, announced + n <= Len(landed),
         announced' = announced + n, landed' = landed,
         NEW i, Names(i, announced'), invocations' = invocations \cup {i}
  PROVE  LandingTypes'
<1>1. announced \in Nat /\ announced' \in 0..Len(landed)
  BY LandedFacts DEF LandingTypes
<1>2. ASSUME NEW j \in invocations PROVE Names(j, announced')
  BY SMTT(30), <1>1 DEF LandingTypes, Names
<1>. QED
  BY <1>1, <1>2 DEF LandingTypes

LEMMA AnnounceCount == ASSUME CountInv, NEW n \in 1..2, Announce(n) PROVE CountInv'
<1>. DEFINE s == [j \in 1..n |-> announced + j]
            i == [records |-> s, next |-> 1, left |-> Attempts]
<1>1. /\ LandingTypes /\ announced \in Nat /\ announced + n <= Len(landed)
      /\ announced' = announced + n /\ invocations' = invocations \cup {i}
      /\ UNCHANGED <<landed, execution, crawler, cataloged, processed, emptiedBy>>
  BY LandedFacts DEF CountInv, LandingTypes, Announce
<1>2. s \in Seq(Nat) /\ Len(s) = n /\ \A j \in 1..n : s[j] = announced + j
  BY <1>1
<1>. HIDE DEF s
<1>3. Names(i, announced')
  BY <1>1, <1>2 DEF Names, Attempts
<1>. HIDE DEF i
<1>4. LandingTypes'
  BY <1>1, <1>3, AnnouncedStep
<1>. QED
  BY <1>1, <1>4, StaysCount

LEMMA AgainCount == ASSUME CountInv, NEW l \in Landings, AnnounceAgain(l) PROVE CountInv'
<1>. DEFINE s == <<l>>
            i == [records |-> s, next |-> 1, left |-> Attempts]
<1>1. /\ LandingTypes /\ announced \in 0..Len(landed) /\ l \in Nat /\ l >= 1 /\ l <= announced
      /\ invocations' = invocations \cup {i}
      /\ UNCHANGED <<landed, announced, execution, crawler, cataloged, processed, emptiedBy>>
  BY RunsAssumption DEF CountInv, LandingTypes, AnnounceAgain, Landings
<1>2. s \in Seq(Nat) /\ Len(s) = 1 /\ s[1] = l
  BY <1>1
<1>. HIDE DEF s
<1>3. announced \in Nat /\ announced <= Len(landed) /\ l \in 1..announced
  BY <1>1, LandedFacts
<1>4. Names(i, announced)
  <2>1. \A j \in 1..Len(s) : s[j] \in 1..announced
    BY <1>2, <1>3
  <2>2. i \in [records : Seq(Nat), next : Nat, left : Int] /\ i.next = 1 /\ i.records = s
    BY <1>2 DEF Attempts
  <2>3. i.next \in 1..Len(i.records)
    BY <1>2, <2>2
  <2>4. \A j \in 1..Len(i.records) : i.records[j] \in 1..announced
    BY <2>1, <2>2
  <2>. HIDE DEF i
  <2>. QED
    BY <2>2, <2>3, <2>4 DEF Names
<1>. HIDE DEF i
<1>5. LandingTypes'
  BY <1>1, <1>3, <1>4, AnnouncedStep
<1>. QED
  BY <1>1, <1>5, StaysCount

LEMMA StartCount ==
  ASSUME CountInv, NEW i \in invocations, StartExecution(i) PROVE CountInv'
<1>. DEFINE l == i.records[i.next]
            r == [at |-> "check", attempts |-> MaxStartAttempts, reads |-> 0,
                  reran |-> FALSE, counted |-> 0, emptied |-> 0]
<1>1. /\ ExecutionTypes /\ LandingTypes /\ ProcessedTypes
      /\ UNCHANGED <<landed, announced, crawler, cataloged, processed, emptiedBy>>
      /\ Raise(i) \/ Proceed(i)
  BY DEF CountInv, StartExecution
<1>2. LandingTypes'
  BY <1>1, InvocationStep
<1>3. l \in DOMAIN landed /\ l \in Landings
  <2>1. l \in 1..announced /\ announced \in 0..Len(landed)
    BY <1>1 DEF LandingTypes, Names
  <2>. HIDE DEF l
  <2>. QED
    BY <1>1, <2>1, LandedFacts
<1>4. CASE execution[l] # << >>
  <2>1. UNCHANGED execution
    BY <1>4 DEF StartExecution
  <2>. QED
    BY <1>1, <1>2, <2>1, StaysCount
<1>5. CASE execution[l] = << >>
  <2>1. execution' = [execution EXCEPT ![l] = <<r>>]
    BY <1>5 DEF StartExecution
  <2>2. r \in Executions /\ r.at = "check"
    BY RunsAssumption DEF Executions, Phases
  <2>. HIDE DEF l, r
  <2>3. PICK m : m = l
    OBVIOUS
  <2>4. Becomes(m, r)
    BY <2>1, <2>2, <2>3 DEF Becomes
  <2>5. At(m)' = "check"
    BY <1>1, <1>3, <2>2, <2>3, <2>4, BecomesFacts
  <2>6. Progress(m)'
    BY <2>5 DEF Progress, HasRead, ReadNewest, HasWritten, HasCounted
  <2>7. ProcessedTypes' /\ \A k \in Keys : processed'[k] >= processed[k]
    BY <1>1 DEF ProcessedTypes
  <2>. QED
    BY <1>1, <1>2, <1>3, <2>2, <2>3, <2>4, <2>6, <2>7, ExecutionStep
<1>. QED
  BY <1>4, <1>5

LEMMA ThrottledCount ==
  ASSUME CountInv, NEW i \in invocations, StartThrottled(i) PROVE CountInv'
<1>1. /\ Raise(i) /\ LandingTypes
      /\ UNCHANGED <<landed, announced, execution, crawler, cataloged, processed, emptiedBy>>
  BY DEF StartThrottled, CountInv
<1>2. LandingTypes'
  BY <1>1, InvocationStep
<1>. QED
  BY <1>1, <1>2, StaysCount

LEMMA NextCount ==
  ASSUME MaxConcurrentRuns = 1, CountInv, [AwsNext]_awsVars
  PROVE  CountInv'
<1>1. ASSUME NEW k \in Keys, NEW content \in Contents, Put(k, content) PROVE CountInv'
  BY <1>1, PutCount
<1>2. ASSUME NEW n \in 1..2, Announce(n) PROVE CountInv'
  BY <1>2, AnnounceCount
<1>3. ASSUME NEW i \in invocations, StartExecution(i) \/ StartThrottled(i) PROVE CountInv'
  BY <1>3, StartCount, ThrottledCount
<1>4. CASE CrawlEnds
  BY <1>4, CrawlEndsCount
<1>5. ASSUME NEW l \in Landings,
             \/ AnnounceAgain(l) \/ CheckEncoding(l) \/ RunGlueCrawler(l) \/ CrawlerReady(l)
             \/ RunGlueETL(l) \/ ReadRaw(l) \/ RemoveFiles(l) \/ LandFiles(l)
             \/ GlueRunFails(l)
             \/ RecrawlProcessed(l) \/ VerifyInAthena(l) \/ AthenaFails(l)
      PROVE CountInv'
  BY <1>5, AgainCount, CheckCount, CrawlCount, ReadyCount, RunCount, ReadCount, RemoveCount,
     LandCount, FailsCount, RecrawlCount, VerifyCount, AthenaCount
<1>6. CASE UNCHANGED awsVars
  <2>1. UNCHANGED <<landed, announced, invocations, execution, crawler, cataloged, processed,
                   emptiedBy>>
    BY <1>6 DEF awsVars
  <2>2. LandingTypes'
    BY <2>1 DEF CountInv, LandingTypes
  <2>. QED
    BY <2>1, <2>2, StaysCount
<1>. QED
  BY <1>1, <1>2, <1>3, <1>4, <1>5, <1>6 DEF AwsNext

LEMMA NeverBackStep ==
  ASSUME CountInv, AwsNext
  PROVE  \A k \in Keys : processed'[k] >= processed[k]
<1>1. CASE UNCHANGED processed
  BY <1>1 DEF CountInv, ProcessedTypes
<1>2. ASSUME NEW l \in Landings, LandFiles(l)
      PROVE  \A k \in Keys : processed'[k] >= processed[k]
  BY <1>2, LandFacts DEF LandFiles, NotCalling
<1>3. ASSUME NEW l \in Landings, GlueRunFails(l)
      PROVE  \A k \in Keys : processed'[k] >= processed[k]
  <2>1. CASE processed' = processed
    BY <1>1, <2>1
  <2>2. CASE At(l) = "land" /\ Land(l)
    BY <1>3, <2>2, LandFacts DEF GlueRunFails, Running
  <2>. QED
    BY <1>3, <2>1, <2>2 DEF GlueRunFails
<1>. QED
  BY <1>1, <1>2, <1>3
  DEF AwsNext, NotCalling, Put, Announce, AnnounceAgain, StartExecution, StartThrottled,
      CrawlEnds, CheckEncoding, RunGlueCrawler, CrawlerReady, RunGlueETL, ReadRaw,
      RemoveFiles, RecrawlProcessed, VerifyInAthena, AthenaFails

\* When the Glue job runs once at a time, as its definition says, no partition
\* is given the rows of an earlier landing of its object than those it has or
\* last had, whatever executions overlap and runs are repeated or die between
\* removing files and writing them (etl_job.py, MaxConcurrentRuns).
THEOREM NeverBack ==
  ASSUME MaxConcurrentRuns = 1
  PROVE  AwsSpec => ProcessedNeverBack
<1>1. CountInv /\ [AwsNext]_awsVars => CountInv'
  BY NextCount
<1>2. CountInv /\ [AwsNext]_awsVars => [\A k \in Keys : processed'[k] >= processed[k]]_awsVars
  BY NeverBackStep
<1>. QED
  BY <1>1, <1>2, InitCount, PTL DEF AwsSpec, ProcessedNeverBack

\* Then the count an execution ends with is over its rows or newer ones, in a
\* partition that is cataloged, whoever's crawl it waited for; or it is none, and
\* then another execution's run had removed the partition's files, never its own
\* (athena_lineage).
THEOREM CountIsOfItsRows ==
  ASSUME MaxConcurrentRuns = 1
  PROVE  AwsSpec => []CountsWhatItWrote
<1>1. CountInv /\ [AwsNext]_awsVars => CountInv'
  BY NextCount
<1>2. CountInv => CountsWhatItWrote
  BY DEF CountInv, Progress, HasCounted, Reads, Reported, Emptied, MetEmptied,
         CountsWhatItWrote
<1>. QED
  BY <1>1, <1>2, InitCount, PTL DEF AwsSpec

-----------------------------------------------------------------------------
(* A landing that comes alone.  While no call fails, the only execution    *)
(* under way is that of the latest landing, which is announced once; so    *)
(* it is never refused, reads its own landing, and leaves it cataloged.    *)

Latest == Len(landed)

\* The rows of the newest landing of k are in the table and cataloged.
Settled(k) ==
  landed[Newest(k)].content = "rows" => processed[k] = Newest(k) /\ emptiedBy[k] = 0
                                          /\ k \in cataloged

\* How far the execution of the latest landing is.
Proceeds(l) ==
  /\ At(l) = "failed" => landed[l].content = "binary"
  /\ At(l) \in {"write", "land", "recrawl", "recrawling", "verify", "done"} => Reads(l) = l
  /\ At(l) \in {"recrawling", "verify"} => Emptied(l) = 0
  /\ At(l) = "done" /\ landed[l].content = "rows" =>
       processed[Key(l)] = l /\ Key(l) \in cataloged

Alone ==
  /\ \A l \in Started : l # Latest => At(l) \in Ended
  /\ crawler # << >> => Latest \in Started /\ At(Latest) \in {"crawling", "recrawling"}
  /\ \/ announced = Latest - 1 /\ invocations = {} /\ Latest \notin Started
     \/ /\ announced = Latest /\ Latest \notin Started
        /\ invocations = {[records |-> <<Latest>>, next |-> 1, left |-> Attempts]}
     \/ announced = Latest /\ invocations = {} /\ (Latest = 0 \/ Latest \in Started)
  /\ \A l \in DOMAIN landed : Key(l) # Key(Latest) => Settled(Key(l))
  /\ \A k \in Keys : emptiedBy[k] # 0 => Latest \in Started /\ At(Latest) = "land"
                                         /\ k = Key(Latest)
  /\ Latest \in Started => Proceeds(Latest)

AloneInv ==
  /\ callFaults \in Nat
  /\ ~overlaps /\ callFaults = 0 => Alone

LEMMA LatestFacts ==
  ASSUME CountInv
  PROVE  /\ Latest \in Nat /\ DOMAIN landed = 1..Latest
         /\ \A l \in DOMAIN landed : Key(l) = Key(Latest) => Newest(Key(l)) = Latest
         /\ \A l \in DOMAIN landed : Newest(Key(l)) \in DOMAIN landed
                                     /\ Key(Newest(Key(l))) = Key(l)
         /\ \A l \in Started : l \in DOMAIN landed /\ l \in Landings /\ Key(l) \in Keys
<1>1. LandingTypes /\ ExecutionTypes
  BY DEF CountInv
<1>2. Latest \in Nat /\ DOMAIN landed = 1..Latest
  BY <1>1, LandedFacts DEF Latest
<1>3. ASSUME NEW l \in DOMAIN landed PROVE /\ Newest(Key(l)) \in DOMAIN landed
                                           /\ Key(Newest(Key(l))) = Key(l)
                                           /\ Key(l) = Key(Latest) => Newest(Key(l)) = Latest
  <2>1. Latest \in DOMAIN landed
    BY <1>2
  <2>. QED
    BY <1>1, <1>2, <2>1, NewestFacts DEF Key
<1>. QED
  BY <1>1, <1>2, <1>3, LandedFacts DEF ExecutionTypes, Key

LEMMA AloneProcessed == CountInv /\ AloneInv => LandedAloneIsProcessed
<1>. SUFFICES ASSUME CountInv, Alone, ~UnderWay, NEW l \in DOMAIN landed
              PROVE  Settled(Key(l))
  BY DEF AloneInv, LandedAloneIsProcessed, Settled, Key
<1>1. Latest \in Started
  <2>1. Latest \in Nat /\ Latest # 0 /\ invocations = {} /\ ~(announced < Latest)
    BY LatestFacts DEF UnderWay, Latest
  <2>2. \/ announced = Latest - 1
        \/ \E i : invocations = {i}
        \/ Latest \in Started
    BY <2>1 DEF Alone
  <2>3. announced # Latest - 1 /\ \A i : invocations # {i}
    BY <2>1
  <2>. QED
    BY <2>2, <2>3
<1>2. At(Latest) \in Ended
  BY <1>1 DEF UnderWay
<1>3. CASE Key(l) = Key(Latest)
  <2>1. Latest \in DOMAIN landed /\ Key(Latest) \in Keys
    BY <1>1, LatestFacts
  <2>2. emptiedBy[Key(Latest)] = 0
    BY <1>2, <2>1 DEF Alone, Ended
  <2>. QED
    BY <1>1, <1>2, <1>3, <2>2, LatestFacts DEF Alone, Proceeds, Settled, Ended
<1>4. CASE Key(l) # Key(Latest)
  BY <1>4 DEF Alone
<1>. QED
  BY <1>3, <1>4

\* An execution under way is that of the latest landing, which was announced.
LEMMA OnlyLatest ==
  ASSUME CountInv, Alone, NEW l \in Started, At(l) \notin Ended
  PROVE  /\ l = Latest /\ Latest # 0 /\ announced = Latest /\ invocations = {}
         /\ Proceeds(l)
         /\ At(l) \notin {"crawling", "recrawling"} => crawler = << >>
         /\ At(l) # "land" => \A k \in Keys : emptiedBy[k] = 0
<1>1. l = Latest
  BY DEF Alone
<1>2. Latest # 0
  BY <1>1, LatestFacts
<1>. QED
  BY <1>1, <1>2 DEF Alone

LEMMA AloneStep ==
  ASSUME CountInv, Alone, NEW l \in Started, NEW r, Becomes(l, r),
         l = Latest, announced = Latest, invocations = {},
         UNCHANGED <<landed, announced, invocations>>,
         cataloged \subseteq cataloged', processed' \in [Keys -> Nat],
         \A k \in Keys : k # Key(l) => processed'[k] = processed[k],
         \A k \in Keys : emptiedBy'[k] # 0 => k = Key(l) /\ r.at = "land",
         crawler' # << >> => r.at \in {"crawling", "recrawling"},
         r.at = "failed" => landed[l].content = "binary",
         r.at \in {"write", "land", "recrawl", "recrawling", "verify", "done"} => r.reads = l,
         r.at \in {"recrawling", "verify"} => r.emptied = 0,
         r.at = "done" /\ landed[l].content = "rows" =>
           processed'[Key(l)] = l /\ Key(l) \in cataloged'
  PROVE  Alone'
<1>1. ExecutionTypes /\ l \in Landings /\ l \in DOMAIN landed
  BY LatestFacts DEF CountInv
<1>2. /\ Started' = Started /\ At(l)' = r.at /\ Reads(l)' = r.reads
      /\ Emptied(l)' = r.emptied
      /\ \A m \in Started : m # l => execution'[m] = execution[m]
  <2>1. /\ Started' = Started \cup {l} /\ At(l)' = r.at /\ Reads(l)' = r.reads
        /\ Emptied(l)' = r.emptied
        /\ \A m \in Started : m # l => execution'[m] = execution[m]
    BY <1>1, BecomesFacts
  <2>2. Started \cup {l} = Started
    OBVIOUS
  <2>. QED
    BY <2>1, <2>2, Zenon
<1>3. Latest' = Latest /\ \A k : Newest(k)' = Newest(k)
  BY DEF Latest, Newest
<1>4. \A m \in Started : m # l => At(m)' \in Ended
  BY <1>2 DEF Alone, At
<1>5. \A m \in DOMAIN landed : Key(m) # Key(Latest) => Settled(Key(m))'
  <2>. SUFFICES ASSUME NEW m \in DOMAIN landed, Key(m) # Key(Latest) PROVE Settled(Key(m))'
    OBVIOUS
  <2>1. Key(m) \in Keys
    BY LandedFacts DEF CountInv, Key
  <2>2. /\ Settled(Key(m)) /\ processed'[Key(m)] = processed[Key(m)]
        /\ emptiedBy'[Key(m)] = 0
    BY <2>1 DEF Alone
  <2>3. Key(m)' = Key(m) /\ Newest(Key(m))' = Newest(Key(m))
    BY DEF Key, Newest
  <2>. QED
    BY <2>2, <2>3 DEF Settled
<1>6. Proceeds(l)'
  <2>1. Key(l)' = Key(l)
    BY DEF Key
  <2>. QED
    BY <1>2, <2>1 DEF Proceeds
<1>7. Key(Latest)' = Key(Latest) /\ \A m : Key(m)' = Key(m)
  BY <1>3 DEF Key, Latest
<1>8. \A k \in Keys : emptiedBy'[k] # 0 => Latest' \in Started' /\ At(Latest)' = "land"
                                         /\ k = Key(Latest)'
  BY <1>2, <1>3, <1>7 DEF At
<1>. QED
  BY <1>2, <1>3, <1>4, <1>5, <1>6, <1>7, <1>8 DEF Alone

LEMMA CheckAlone ==
  ASSUME CountInv, Alone, NEW l \in Landings, CheckEncoding(l) PROVE Alone'
<1>1. l \in Started /\ At(l) = "check" /\ ExecutionTypes /\ ProcessedTypes
  BY DEF CheckEncoding, CountInv
<1>2. /\ l = Latest /\ announced = Latest /\ invocations = {} /\ crawler = << >>
      /\ Newest(Key(l)) = l /\ \A k \in Keys : emptiedBy[k] = 0
  BY <1>1, OnlyLatest, LatestFacts DEF Ended
<1>3. PICK s \in {"failed", "crawl"} :
        Move(l, s) /\ (s = "failed" => landed[l].content = "binary")
  BY <1>2 DEF CheckEncoding, Key
<1>4. s \in Phases
  BY DEF Phases, Ended
<1>5. PICK r : Becomes(l, r) /\ r.at = s
  BY <1>1, <1>3, <1>4, MoveFacts
<1>. QED
  BY <1>1, <1>2, <1>3, <1>5, AloneStep DEF CheckEncoding, NotCalling, ProcessedTypes

LEMMA CrawlAlone ==
  ASSUME CountInv, Alone, NEW l \in Landings, RunGlueCrawler(l) PROVE Alone'
<1>1. l \in Started /\ At(l) = "crawl" /\ ExecutionTypes /\ ProcessedTypes
  BY DEF RunGlueCrawler, CountInv
<1>2. /\ l = Latest /\ announced = Latest /\ invocations = {} /\ crawler = << >>
      /\ \A k \in Keys : emptiedBy[k] = 0
  BY <1>1, OnlyLatest DEF Ended
<1>3. Move(l, "crawling") /\ "crawling" \in Phases
  BY <1>2 DEF RunGlueCrawler, Phases
<1>4. PICK r : Becomes(l, r) /\ r.at = "crawling"
  BY <1>1, <1>3, MoveFacts
<1>. QED
  BY <1>1, <1>2, <1>4, AloneStep DEF RunGlueCrawler, NotCalling, ProcessedTypes

LEMMA ReadyAlone ==
  ASSUME CountInv, Alone, NEW l \in Landings, CrawlerReady(l) PROVE Alone'
<1>1. l \in Started /\ At(l) \in {"crawling", "recrawling"} /\ ExecutionTypes /\ ProcessedTypes
  BY DEF CrawlerReady, CountInv
<1>2. /\ l = Latest /\ announced = Latest /\ invocations = {} /\ Proceeds(l)
      /\ \A k \in Keys : emptiedBy[k] = 0
  BY <1>1, OnlyLatest DEF Ended
<1>3. PICK s \in {"queued", "verify"} : Move(l, s) /\ (s = "verify" => At(l) = "recrawling")
  BY <1>1 DEF CrawlerReady
<1>4. s \in Phases
  BY DEF Phases
<1>5. PICK r : Becomes(l, r) /\ r.at = s /\ r.reads = Reads(l) /\ r.emptied = Emptied(l)
  BY <1>1, <1>3, <1>4, MoveFacts
<1>6. s = "verify" => r.reads = l /\ r.emptied = 0
  BY <1>2, <1>3, <1>5 DEF Proceeds
<1>. QED
  BY <1>1, <1>2, <1>5, <1>6, AloneStep DEF CrawlerReady, NotCalling, ProcessedTypes

LEMMA RunAlone ==
  ASSUME MaxConcurrentRuns = 1, CountInv, Alone, NEW l \in Landings, RunGlueETL(l)
  PROVE  Alone'
<1>1. l \in Started /\ At(l) = "queued" /\ ExecutionTypes /\ ProcessedTypes
  BY DEF RunGlueETL, CountInv
<1>2. /\ l = Latest /\ announced = Latest /\ invocations = {} /\ crawler = << >>
      /\ \A k \in Keys : emptiedBy[k] = 0
  BY <1>1, OnlyLatest DEF Ended
<1>3. Running = {}
  BY <1>1, <1>2 DEF Running, Alone, Ended
<1>4. Move(l, "read") /\ "read" \in Phases
  BY <1>3, FS_EmptySet DEF RunGlueETL, Phases
<1>5. PICK r : Becomes(l, r) /\ r.at = "read"
  BY <1>1, <1>4, MoveFacts
<1>. QED
  BY <1>1, <1>2, <1>5, AloneStep DEF RunGlueETL, NotCalling, ProcessedTypes

LEMMA ReadAlone ==
  ASSUME CountInv, Alone, NEW l \in Landings, ReadRaw(l) PROVE Alone'
<1>1. l \in Started /\ At(l) = "read" /\ ExecutionTypes /\ LandingTypes /\ ProcessedTypes
  BY DEF ReadRaw, CountInv
<1>2. /\ l = Latest /\ announced = Latest /\ invocations = {} /\ crawler = << >>
      /\ Newest(Key(l)) = l /\ \A k \in Keys : emptiedBy[k] = 0
  BY <1>1, OnlyLatest, LatestFacts DEF Ended
<1>3. PICK r : Becomes(l, r) /\ r.at = "write" /\ r.reads = l
  BY <1>1, <1>2, ReadFacts DEF Key
<1>. QED
  BY <1>1, <1>2, <1>3, AloneStep DEF ReadRaw, NotCalling, ProcessedTypes

LEMMA RemoveAlone ==
  ASSUME CountInv, Alone, NEW l \in Landings, RemoveFiles(l) PROVE Alone'
<1>1. l \in Started /\ At(l) = "write" /\ ExecutionTypes /\ ProcessedTypes
  BY DEF RemoveFiles, CountInv
<1>2. /\ l = Latest /\ announced = Latest /\ invocations = {} /\ crawler = << >>
      /\ Reads(l) = l /\ \A k \in Keys : emptiedBy[k] = 0
  BY <1>1, OnlyLatest DEF Ended, Proceeds
<1>3. PICK s \in {"land", "recrawl"} :
        /\ Move(l, s)
        /\ \/ s = "land" /\ emptiedBy' = [emptiedBy EXCEPT ![Key(l)] = l]
           \/ s = "recrawl" /\ emptiedBy' = emptiedBy
  BY DEF RemoveFiles, Key
<1>4. s \in Phases
  BY DEF Phases
<1>5. PICK r : Becomes(l, r) /\ r.at = s /\ r.reads = l
  BY <1>1, <1>2, <1>3, <1>4, MoveFacts
<1>6. \A k \in Keys : emptiedBy'[k] # 0 => k = Key(l) /\ s = "land"
  BY <1>1, <1>2, <1>3 DEF ProcessedTypes
<1>. QED
  BY <1>1, <1>2, <1>5, <1>6, AloneStep DEF RemoveFiles, NotCalling, ProcessedTypes

LEMMA LandAlone ==
  ASSUME CountInv, Alone, NEW l \in Landings, LandFiles(l) PROVE Alone'
<1>1. /\ l \in Started /\ At(l) = "land" /\ ExecutionTypes /\ ProcessedTypes
      /\ Move(l, "recrawl") /\ "recrawl" \in Phases /\ Land(l)
      /\ UNCHANGED <<landed, announced, invocations, crawler, cataloged>>
  BY DEF LandFiles, CountInv, Phases, NotCalling
<1>2. /\ l = Latest /\ announced = Latest /\ invocations = {} /\ crawler = << >>
      /\ Reads(l) = l
  BY <1>1, OnlyLatest DEF Ended, Proceeds
<1>3. PICK r : Becomes(l, r) /\ r.at = "recrawl" /\ r.reads = l
  BY <1>1, <1>2, MoveFacts
<1>4. /\ processed' \in [Keys -> Nat]
      /\ \A k \in Keys : k # Key(l) => processed'[k] = processed[k]
                                      /\ emptiedBy'[k] = emptiedBy[k]
      /\ emptiedBy'[Key(l)] = 0
  BY <1>1, LandFacts DEF ProcessedTypes
<1>5. \A k \in Keys : emptiedBy'[k] = 0
  BY <1>2, <1>4 DEF Alone
<1>. QED
  BY <1>1, <1>2, <1>3, <1>4, <1>5, AloneStep

LEMMA RecrawlAlone ==
  ASSUME CountInv, Alone, NEW l \in Landings, RecrawlProcessed(l) PROVE Alone'
<1>1. l \in Started /\ At(l) = "recrawl" /\ ExecutionTypes /\ ProcessedTypes
  BY DEF RecrawlProcessed, CountInv
<1>2. /\ l = Latest /\ announced = Latest /\ invocations = {} /\ crawler = << >>
      /\ Reads(l) = l /\ \A k \in Keys : emptiedBy[k] = 0
  BY <1>1, OnlyLatest DEF Ended, Proceeds
<1>3. Recrawls(l) /\ Key(l) \in Keys
  BY <1>1, <1>2, LatestFacts DEF RecrawlProcessed
<1>4. PICK r : Becomes(l, r) /\ r.at = "recrawling" /\ r.reads = l /\ r.emptied = 0
  BY <1>1, <1>2, <1>3, RecrawlFacts DEF CountInv
<1>. QED
  BY <1>1, <1>2, <1>4, AloneStep DEF RecrawlProcessed, NotCalling, ProcessedTypes

LEMMA VerifyAlone ==
  ASSUME CountInv, Alone, NEW l \in Landings, VerifyInAthena(l) PROVE Alone'
<1>1. l \in Started /\ At(l) = "verify" /\ ExecutionTypes /\ LandingTypes /\ ProcessedTypes
  BY DEF VerifyInAthena, CountInv
<1>2. /\ l = Latest /\ announced = Latest /\ invocations = {} /\ crawler = << >>
      /\ Reads(l) = l /\ Emptied(l) = 0 /\ \A k \in Keys : emptiedBy[k] = 0
  BY <1>1, OnlyLatest DEF Ended, Proceeds
<1>3. PICK r : Becomes(l, r) /\ r.at = "done" /\ r.reads = l
  BY <1>1, <1>2, VerifyFacts
<1>4. landed[l].content = "rows" => processed[Key(l)] = l /\ Key(l) \in cataloged
  <2>. SUFFICES ASSUME landed[l].content = "rows"
                PROVE  processed[Key(l)] = l /\ Key(l) \in cataloged
    OBVIOUS
  <2>1. processed[Key(l)] >= l /\ Key(l) \in cataloged
    BY <1>1, <1>2 DEF CountInv, Progress, HasWritten, MetEmptied
  <2>2. Key(l) \in Keys /\ l \in Nat /\ l # 0
    BY <1>1, <1>2, LatestFacts
  <2>3. processed[Key(l)] \in Nat
    BY <1>1, <2>2 DEF ProcessedTypes
  <2>4. processed[Key(l)] <= l
    BY <1>1, <1>2, <2>1, <2>2, <2>3, LatestFacts DEF ProcessedTypes
  <2>. QED
    BY <2>1, <2>2, <2>3, <2>4
<1>. QED
  BY <1>1, <1>2, <1>3, <1>4, AloneStep DEF VerifyInAthena, NotCalling, ProcessedTypes

\* A step of the trigger or of the crawler, which moves no execution.
LEMMA StaysAlone ==
  ASSUME CountInv, Alone, UNCHANGED <<landed, execution, processed, emptiedBy>>,
         cataloged \subseteq cataloged', crawler' \in {crawler, << >>},
         \/ UNCHANGED <<announced, invocations>>
         \/ /\ announced' = Latest /\ Latest \notin Started
            /\ invocations' = {[records |-> <<Latest>>, next |-> 1, left |-> Attempts]}
  PROVE  Alone'
<1>1. /\ Started' = Started /\ Latest' = Latest
      /\ \A l : At(l)' = At(l) /\ Reads(l)' = Reads(l) /\ Key(l)' = Key(l)
                /\ Emptied(l)' = Emptied(l) /\ Newest(l)' = Newest(l)
  BY DEF Started, Latest, At, Reads, Emptied, Key, Newest
<1>2. \A l \in Started : l # Latest => At(l)' \in Ended
  BY <1>1 DEF Alone
<1>3. crawler' # << >> => Latest \in Started /\ At(Latest)' \in {"crawling", "recrawling"}
  BY <1>1 DEF Alone
<1>4. ASSUME NEW l \in DOMAIN landed, Key(l) # Key(Latest) PROVE Settled(Key(l))'
  <2>1. Settled(Key(l)) /\ Key(l)' = Key(l) /\ Newest(Key(l))' = Newest(Key(l))
    BY <1>1, <1>4 DEF Alone, Newest
  <2>. QED
    BY <2>1 DEF Settled
<1>5. Latest \in Started => Proceeds(Latest)'
  BY <1>1 DEF Alone, Proceeds, Latest
<1>6. Key(Latest)' = Key(Latest)
  BY DEF Key, Latest
<1>7. \A k \in Keys : emptiedBy'[k] # 0 => Latest' \in Started' /\ At(Latest)' = "land"
                                         /\ k = Key(Latest)'
  BY <1>1, <1>6 DEF Alone, At, Latest
<1>. QED
  BY <1>1, <1>2, <1>3, <1>4, <1>5, <1>6, <1>7 DEF Alone

LEMMA AnnounceAlone ==
  ASSUME CountInv, Alone, NEW n \in 1..2, Announce(n) PROVE Alone'
<1>1. announced + n <= Latest /\ Latest \in Nat
  BY LatestFacts DEF Announce, Latest
<1>2. announced = Latest - 1 /\ invocations = {} /\ Latest \notin Started /\ n = 1
  BY <1>1 DEF Alone
<1>3. [j \in 1..n |-> announced + j] = <<Latest>> /\ announced + n = Latest
  BY <1>1, <1>2
<1>. HIDE DEF Latest
<1>4. /\ announced' = Latest
      /\ invocations' = {[records |-> <<Latest>>, next |-> 1, left |-> Attempts]}
  BY <1>2, <1>3 DEF Announce
<1>. QED
  BY <1>2, <1>4, StaysAlone DEF Announce

\* The latest landing's execution has not been started before.
LEMMA StartAlone ==
  ASSUME CountInv, Alone, NEW i \in invocations, StartExecution(i) PROVE Alone'
<1>. DEFINE r == [at |-> "check", attempts |-> MaxStartAttempts, reads |-> 0,
                  reran |-> FALSE, counted |-> 0, emptied |-> 0]
<1>1. /\ announced = Latest /\ Latest \notin Started
      /\ i = [records |-> <<Latest>>, next |-> 1, left |-> Attempts]
      /\ invocations = {i}
  BY DEF Alone
<1>2. i.records = <<Latest>> /\ i.next = 1 /\ Len(i.records) = 1 /\ i.records[i.next] = Latest
  BY <1>1
<1>3. Latest \in DOMAIN landed /\ Latest \in Landings
  <2>1. Latest \in 1..Latest
    BY <1>1, <1>2 DEF CountInv, LandingTypes, Names
  <2>. QED
    BY <2>1, LatestFacts, LandedFacts DEF CountInv
<1>4. execution[Latest] = << >>
  BY <1>1, <1>3 DEF Started
<1>5. /\ UNCHANGED <<landed, announced, crawler, cataloged, processed, emptiedBy>>
      /\ execution' = [execution EXCEPT ![Latest] = <<r>>] /\ Proceed(i)
  BY <1>2, <1>4 DEF StartExecution
<1>6. invocations' = {}
  BY <1>1, <1>2, <1>5 DEF Proceed
<1>7. r \in Executions /\ r.at = "check"
  BY RunsAssumption DEF Executions, Phases
<1>. HIDE DEF r
<1>8. PICK l \in Landings : l = Latest
  BY <1>3
<1>9. /\ Started' = Started \cup {l} /\ At(l)' = "check"
      /\ \A m \in Started : m # l => execution'[m] = execution[m]
  BY <1>3, <1>5, <1>7, <1>8, BecomesFacts DEF CountInv, Becomes
<1>10. Latest' = Latest /\ (\A k : Newest(k)' = Newest(k)) /\ \A m : Key(m)' = Key(m)
  BY <1>5 DEF Latest, Newest, Key
<1>11. \A m \in Started' : m # Latest => At(m)' \in Ended
  BY <1>8, <1>9 DEF Alone, At
<1>12. ASSUME NEW m \in DOMAIN landed, Key(m) # Key(Latest) PROVE Settled(Key(m))'
  <2>1. Settled(Key(m)) /\ Key(m)' = Key(m)
    BY <1>10, <1>12 DEF Alone
  <2>2. Newest(Key(m))' = Newest(Key(m))
    BY <1>5, <2>1 DEF Newest
  <2>. QED
    BY <1>5, <2>1, <2>2 DEF Settled
<1>13. Key(Latest)' = Key(Latest) /\ Proceeds(Latest)'
  <2>1. At(Latest)' = "check"
    BY <1>8, <1>9, <1>10 DEF At
  <2>. QED
    BY <1>5, <1>10, <2>1 DEF Key, Proceeds
<1>14. crawler' = << >> /\ \A k \in Keys : emptiedBy'[k] = 0
  BY <1>1, <1>5 DEF Alone
<1>. QED
  BY <1>1, <1>5, <1>6, <1>8, <1>9, <1>10, <1>11, <1>12, <1>13, <1>14 DEF Alone

\* A landing after the one before is through: nothing is under way.
LEMMA PutAlone ==
  ASSUME CountInv, AloneInv, Alone, ~overlaps, callFaults = 0, ~UnderWay,
         NEW k \in Keys, NEW content \in Contents, Put(k, content)
  PROVE  Alone'
<1>1. /\ landed' = Append(landed, [key |-> k, content |-> content])
      /\ UNCHANGED <<announced, invocations, execution, crawler, cataloged, processed,
                   emptiedBy>>
  BY DEF Put
<1>2. /\ Latest' = Latest + 1 /\ DOMAIN landed' = 1..Latest + 1
      /\ Latest \in Nat /\ DOMAIN landed = 1..Latest
      /\ \A m \in 1..Latest : landed'[m] = landed[m] /\ Key(m)' = Key(m)
      /\ landed'[Latest + 1].key = k
  <2>1. landed \in Seq([key : Keys, content : Contents])
    BY DEF CountInv, LandingTypes
  <2>2. /\ Len(landed') = Len(landed) + 1 /\ DOMAIN landed' = 1..Len(landed) + 1
        /\ \A m \in 1..Len(landed) : landed'[m] = landed[m]
        /\ landed'[Len(landed) + 1].key = k
    BY <1>1, <2>1
  <2>. QED
    BY <2>2, LatestFacts DEF Latest, Key
<1>3. Key(Latest)' = k
  BY <1>2 DEF Key, Latest
<1>4. /\ \A l \in Started : At(l) \in Ended
      /\ announced = Latest /\ invocations = {} /\ crawler = << >>
      /\ \A j \in Keys : emptiedBy[j] = 0
  <2>1. ~(announced < Latest) /\ announced \in 0..Latest
    BY LatestFacts DEF UnderWay, Latest, CountInv, LandingTypes
  <2>2. invocations = {} /\ \A l \in Started : At(l) \in Ended
    BY DEF UnderWay
  <2>3. crawler = << >> /\ \A j \in Keys : emptiedBy[j] = 0
    BY <2>2 DEF Alone, Ended
  <2>. QED
    BY <1>2, <2>1, <2>2, <2>3
<1>5. Started' = Started /\ (\A l : At(l)' = At(l)) /\ Latest + 1 \notin Started
  BY <1>1, <1>2, LatestFacts DEF Started, At
<1>6. ASSUME NEW l \in DOMAIN landed', Key(l)' # k PROVE Settled(Key(l))'
  <2>1. l \in DOMAIN landed /\ Key(l)' = Key(l)
    BY <1>2, <1>6 DEF Key
  <2>2. Settled(Key(l))
    BY <2>1, AloneProcessed DEF LandedAloneIsProcessed, Settled, Key
  <2>3. Newest(Key(l))' = Newest(Key(l))
    <3>. DEFINE n == Newest(Key(l))
    <3>1. /\ n \in DOMAIN landed /\ landed[n].key = Key(l)
          /\ \A m \in DOMAIN landed : landed[m].key = Key(l) => m <= n
      BY <2>1, NewestFacts DEF CountInv, Key
    <3>2. /\ n \in DOMAIN landed' /\ landed'[n].key = Key(l)
          /\ \A m \in DOMAIN landed' : landed'[m].key = Key(l) => m <= n /\ n \in Nat /\ m \in Nat
      BY <1>2, <1>6, <2>1, <3>1
    <3>. HIDE DEF n
    <3>3. PICK K : K = Key(l) /\ K = Key(l)'
      BY <2>1
    <3>4. (CHOOSE m \in DOMAIN landed' :
             /\ landed'[m].key = K
             /\ \A j \in DOMAIN landed' : landed'[j].key = K => j <= m) = n
      BY <3>2, <3>3
    <3>. QED
      BY <3>3, <3>4 DEF Newest, n
  <2>4. landed'[Newest(Key(l))] = landed[Newest(Key(l))]
    BY <1>2, <2>1, LatestFacts
  <2>. QED
    BY <1>1, <2>1, <2>2, <2>3, <2>4 DEF Settled
<1>. QED
  BY <1>1, <1>2, <1>3, <1>4, <1>5, <1>6 DEF Alone

LEMMA NextAlone ==
  ASSUME MaxConcurrentRuns = 1, CountInv, AloneInv, [AwsNext]_awsVars
  PROVE  AloneInv'
<1>1. callFaults' \in Nat /\ (callFaults' = 0 => callFaults' = callFaults)
  <2>1. callFaults' = callFaults \/ callFaults' = callFaults + 1
    BY DEF AwsNext, NotCalling, Put, Announce, AnnounceAgain, StartExecution,
           StartThrottled, CrawlEnds, CheckEncoding, RunGlueCrawler, CrawlerReady, RunGlueETL,
           ReadRaw, RemoveFiles, LandFiles, GlueRunFails, RecrawlProcessed, VerifyInAthena,
           AthenaFails, awsVars
  <2>. QED
    BY <2>1 DEF AloneInv
<1>. SUFFICES ASSUME ~overlaps', callFaults' = 0 PROVE Alone'
  BY <1>1 DEF AloneInv
<1>2. ~overlaps
  <2>1. overlaps' = overlaps \/ \E k \in Keys, content \in Contents : Put(k, content)
    BY DEF AwsNext, NotCalling, Announce, AnnounceAgain, StartExecution,
           StartThrottled, CrawlEnds, CheckEncoding, RunGlueCrawler, CrawlerReady, RunGlueETL,
           ReadRaw, RemoveFiles, LandFiles, GlueRunFails, RecrawlProcessed, VerifyInAthena,
           AthenaFails, awsVars
  <2>2. ASSUME NEW k, NEW content, Put(k, content) PROVE ~overlaps
    BY <2>2 DEF Put
  <2>. QED
    BY <2>1, <2>2
<1>3. Alone /\ callFaults = 0
  BY <1>1, <1>2 DEF AloneInv
<1>4. ASSUME NEW k \in Keys, NEW content \in Contents, Put(k, content) PROVE Alone'
  <2>1. ~UnderWay
    BY <1>4 DEF Put
  <2>. QED
    BY <1>2, <1>3, <1>4, <2>1, PutAlone
<1>5. ASSUME NEW n \in 1..2, Announce(n) PROVE Alone'
  BY <1>3, <1>5, AnnounceAlone
<1>6. ASSUME NEW i \in invocations, StartExecution(i) PROVE Alone'
  BY <1>3, <1>6, StartAlone
<1>7. CASE CrawlEnds
  BY <1>3, <1>7, StaysAlone DEF CrawlEnds, NotCalling
<1>8. ASSUME NEW l \in Landings,
             \/ CheckEncoding(l) \/ RunGlueCrawler(l) \/ CrawlerReady(l) \/ RunGlueETL(l)
             \/ ReadRaw(l) \/ RemoveFiles(l) \/ LandFiles(l) \/ RecrawlProcessed(l)
             \/ VerifyInAthena(l)
      PROVE  Alone'
  BY <1>3, <1>8, CheckAlone, CrawlAlone, ReadyAlone, RunAlone, ReadAlone, RemoveAlone,
     LandAlone, RecrawlAlone, VerifyAlone
<1>9. \A l, i : ~AnnounceAgain(l) /\ ~StartThrottled(i) /\ ~GlueRunFails(l) /\ ~AthenaFails(l)
  BY <1>1, <1>3 DEF AnnounceAgain, StartThrottled, GlueRunFails, AthenaFails
<1>10. CASE UNCHANGED awsVars
  BY <1>3, <1>10, StaysAlone DEF awsVars
<1>. QED
  BY <1>4, <1>5, <1>6, <1>7, <1>8, <1>9, <1>10 DEF AwsNext

\* When every landing comes after the one before is through and no call fails,
\* the newest rows of every object end up in the table and cataloged
\* (main.yaml): the one state machine needs no retry then.
THEOREM AloneIsProcessed ==
  ASSUME MaxConcurrentRuns = 1
  PROVE  AwsSpec => []LandedAloneIsProcessed
<1>1. AwsInit => CountInv /\ AloneInv
  <2>. SUFFICES ASSUME AwsInit PROVE AloneInv
    BY InitCount
  <2>1. Started = {} /\ Latest = 0 /\ DOMAIN landed = {}
    BY DEF AwsInit, Started, Latest
  <2>. QED
    BY <2>1 DEF AwsInit, AloneInv, Alone
<1>2. CountInv /\ [AwsNext]_awsVars => CountInv'
  BY NextCount
<1>3. CountInv /\ AloneInv /\ [AwsNext]_awsVars => AloneInv'
  BY NextAlone
<1>4. CountInv /\ AloneInv => LandedAloneIsProcessed
  BY AloneProcessed
<1>. QED
  BY <1>1, <1>2, <1>3, <1>4, PTL DEF AwsSpec

-----------------------------------------------------------------------------
(* The timed loop of the realtime consumer: the bound on a buffered row's  *)
(* wait, for every batch size, interval and poll timeout.  What makes it   *)
(* inductive is the clock of the last flush: it is ahead of the interval   *)
(* only by the records read since, each at most one poll timeout after the *)
(* one before (ClockInv).                                                  *)

ClockInv ==
  /\ reading \in BOOLEAN
  /\ buffered \in 0..BatchSize
  /\ age \in Nat
  /\ skipped \in 0..MaxSkipped
  /\ sinceFlush \in Nat
  /\ idle \in 0..PollTimeout
  /\ reading => buffered < BatchSize
  /\ ~reading /\ buffered < BatchSize => idle = PollTimeout
  /\ ~reading /\ buffered = BatchSize => idle = 0
  /\ buffered = 0 => age = 0
  /\ age <= sinceFlush
  /\ sinceFlush <= FlushInterval + (buffered + skipped) * PollTimeout + idle

\* The bound of ClockInv is within WorstWait.
LEMMA ClockBound == ClockInv => age <= WorstWait
<1> SUFFICES ASSUME ClockInv PROVE age <= WorstWait
  OBVIOUS
<1> USE TimingAssumption DEF ClockInv, WorstWait
<1> DEFINE rows == buffered + skipped
<1>1. rows \in Nat /\ rows <= BatchSize + MaxSkipped
  OBVIOUS
<1>2. CASE buffered = BatchSize
  <2>1. rows * PollTimeout <= (BatchSize + MaxSkipped) * PollTimeout
    BY <1>1
  <2> QED  BY <1>2, <2>1
<1>3. CASE buffered < BatchSize
  <2>1. rows + 1 <= BatchSize + MaxSkipped
    BY <1>3
  <2>2. (rows + 1) * PollTimeout <= (BatchSize + MaxSkipped) * PollTimeout
    BY <1>1, <2>1
  <2>3. rows * PollTimeout + PollTimeout = (rows + 1) * PollTimeout
    BY <1>1
  <2> QED  BY <2>2, <2>3
<1> QED  BY <1>2, <1>3

\* At the start nothing is buffered and the clock is new.
LEMMA ClockInit == Init => ClockInv
  BY TimingAssumption DEF Init, ClockInv

\* The clock stays within its bound, step by step. The product is kept out of
\* the provers' sight: w and v stand for the time the records read before
\* and after the step may have taken.
LEMMA ClockNext == ClockInv /\ [Next]_vars => ClockInv'
<1> SUFFICES ASSUME ClockInv, [Next]_vars PROVE ClockInv'
  OBVIOUS
<1> DEFINE w == (buffered + skipped) * PollTimeout
           v == (buffered' + skipped') * PollTimeout
<1>1. /\ reading \in BOOLEAN
      /\ buffered \in 0..BatchSize
      /\ skipped \in 0..MaxSkipped
      /\ age \in Nat /\ sinceFlush \in Nat /\ idle \in 0..PollTimeout
      /\ reading => buffered < BatchSize
      /\ ~reading /\ buffered < BatchSize => idle = PollTimeout
      /\ ~reading /\ buffered = BatchSize => idle = 0
      /\ buffered = 0 => age = 0
      /\ age <= sinceFlush
      /\ sinceFlush <= FlushInterval + w + idle
  BY DEF ClockInv
<1>2. w \in Nat
  BY <1>1, TimingAssumption
<1>3. buffered' + skipped' = buffered + skipped => v = w
  OBVIOUS
<1>4. buffered' + skipped' = buffered + skipped + 1 => v = w + PollTimeout
  BY <1>1, TimingAssumption
<1>5. buffered' + skipped' = 0 => v = 0
  BY TimingAssumption
<1> SUFFICES /\ reading' \in BOOLEAN
             /\ buffered' \in 0..BatchSize
             /\ skipped' \in 0..MaxSkipped
             /\ age' \in Nat /\ sinceFlush' \in Nat /\ idle' \in 0..PollTimeout
             /\ reading' => buffered' < BatchSize
             /\ ~reading' /\ buffered' < BatchSize => idle' = PollTimeout
             /\ ~reading' /\ buffered' = BatchSize => idle' = 0
             /\ buffered' = 0 => age' = 0
             /\ age' <= sinceFlush'
             /\ sinceFlush' <= FlushInterval + v + idle'
  BY DEF ClockInv
<1> HIDE DEF w, v
<1> USE TimingAssumption
<1>6. CASE Read
  <2> DEFINE more == buffered' < BatchSize
  <2> HIDE DEF more
  <2>1. reading' = more
    BY <1>6 DEF Read, more
  <2>2. more \in BOOLEAN
    BY SMT DEF more
  <2>3. reading' <=> more
    BY <2>1, Zenon
  <2>4. reading' \in BOOLEAN /\ (reading' <=> more)
    BY <2>1, <2>2, <2>3, Zenon
  <2>5. /\ reading
        /\ buffered' = buffered + 1
        /\ idle' = 0 /\ age' = age
        /\ skipped' = skipped /\ sinceFlush' = sinceFlush
    BY <1>6 DEF Read
  <2>6. buffered' \in 0..BatchSize
    BY <1>1, <2>5
  <2>7. ~reading' => buffered' = BatchSize
    BY <2>4, <2>6 DEF more
  <2>8. v = w + PollTimeout
    BY <1>1, <1>4, <2>5
  <2>9. sinceFlush' <= FlushInterval + v + idle'
    BY <1>1, <1>2, <2>5, <2>8
  <2> QED  BY <1>1, <2>4, <2>5, <2>6, <2>7, <2>9 DEF more
<1>7. CASE ReadMalformed
  <2>1. /\ reading /\ reading' = reading /\ reading' \in BOOLEAN
        /\ skipped < MaxSkipped /\ skipped' = skipped + 1
        /\ buffered' = buffered /\ age' = age
        /\ idle' = 0 /\ sinceFlush' = sinceFlush
    BY <1>1, <1>7 DEF ReadMalformed
  <2>2. v = w + PollTimeout
    BY <1>1, <1>4, <2>1
  <2> QED  BY <1>1, <1>2, <2>1, <2>2
<1>8. CASE Timeout
  <2>1. /\ reading /\ idle = PollTimeout
        /\ ~reading' /\ reading' \in BOOLEAN
        /\ buffered' = buffered /\ skipped' = skipped /\ age' = age
        /\ sinceFlush' = sinceFlush /\ idle' = idle
    BY <1>8 DEF Timeout
  <2> QED  BY <1>1, <1>2, <1>3, <2>1
<1>9. CASE Flush
  <2>1. /\ reading' /\ reading' \in BOOLEAN
        /\ buffered' = 0 /\ skipped' = 0 /\ age' = 0
        /\ sinceFlush' = 0 /\ idle' = 0
    BY <1>9 DEF Flush
  <2>2. v = 0
    BY <1>5, <2>1
  <2> QED  BY <1>1, <2>1, <2>2
<1>10. CASE NoFlush
  <2>1. /\ reading' /\ reading' \in BOOLEAN
        /\ buffered < BatchSize /\ buffered' = buffered
        /\ age' = age /\ idle' = 0
    BY <1>10 DEF NoFlush
  <2>2. CASE buffered = 0
    <3>1. sinceFlush' = 0 /\ skipped' = 0 /\ age = 0
      BY <1>10, <2>2, <1>1 DEF NoFlush
    <3>2. v = 0
      BY <1>5, <2>1, <2>2, <3>1
    <3> QED  BY <1>1, <2>1, <3>1, <3>2
  <2>3. CASE buffered # 0
    <3>1. /\ sinceFlush' = sinceFlush /\ sinceFlush < FlushInterval
          /\ skipped' = skipped
      BY <1>10, <2>3 DEF NoFlush
    <3> QED  BY <1>1, <1>2, <1>3, <2>1, <3>1
  <2> QED  BY <2>2, <2>3
<1>11. CASE Tick
  <2>1. /\ reading /\ reading' = reading
        /\ idle < PollTimeout /\ idle' = idle + 1
        /\ buffered' = buffered /\ skipped' = skipped
        /\ sinceFlush' = sinceFlush + 1
        /\ age' = IF buffered > 0 THEN age + 1 ELSE 0
    BY <1>11 DEF Tick
  <2> QED  BY <1>1, <1>2, <1>3, <2>1
<1>12. CASE UNCHANGED vars
  BY <1>1, <1>3, <1>12 DEF vars
<1> QED  BY <1>6, <1>7, <1>8, <1>9, <1>10, <1>11, <1>12 DEF Next

\* A buffered row never waits longer than the flush interval and one poll
\* timeout for every record of its batch.
THEOREM WaitIsBounded == Spec => []WaitBounded
<1>1. ClockInv => WaitBounded
  BY ClockBound DEF WaitBounded
<1> QED  BY <1>1, ClockInit, ClockNext, PTL DEF Spec

-----------------------------------------------------------------------------
(* The counts of changes.  What the job has read of the topic, at its      *)
(* offset or at its checkpoint's, tells what it holds of each minute that  *)
(* is not over.  The topic repeats changes but skips none, so a change the *)
(* job has not read comes after all those it has; and if no counted change *)
(* is later than those before it by the disorder the watermark allows, no  *)
(* minute is over before its changes are read.                             *)

\* The changes of minute m, and the places of the first n of the topic with one.
Own(m) == ChangesOf(m, DOMAIN wal)
Sent(m, n) == {i \in 1..n : changes[i] \in Own(m)}

TopicInv ==
  /\ wal \in Wals
  /\ changes \in Seq(Nat) /\ \A i \in 1..Len(changes) : changes[i] \in 1..Len(wal)
  /\ captured \in 0..Len(wal) /\ flushed \in 0..captured
  /\ \A j \in 1..captured : \E i \in 1..Len(changes) : changes[i] = j
  /\ \A i \in 1..Len(changes) : \A j \in 1..changes[i] : \E h \in 1..i : changes[h] = j

\* Some change among the first n has this time.
ReadAt(n, t) == \E i \in 1..n : wal[changes[i]].at = t

Held(m, n) == [count |-> Cardinality(Sent(m, n)),
               impressions |-> {wal[changes[i]].impression : i \in Sent(m, n)}]

JobInv(s) ==
  /\ s = [offset |-> s.offset, newest |-> s.newest, watermark |-> s.watermark, open |-> s.open]
  /\ s.offset \in 0..Len(changes)
  /\ s.newest \in Nat /\ (s.newest = 0 \/ ReadAt(s.offset, s.newest))
  /\ s.watermark \in Int /\ s.watermark >= -Disorder
  /\ s.open = [m \in Minutes |-> s.open[m]]
  /\ \A m \in Minutes :
       s.open[m] = IF Over(m, s.watermark) THEN NoRows ELSE Held(m, s.offset)

ExactRow(m, row) ==
  /\ row.impressions = {wal[i].impression : i \in Own(m)}
  /\ row.count \in Cardinality(Own(m))..Cardinality(Sent(m, Len(changes)))

ExactInv ==
  /\ TopicInv
  /\ \A s \in {window, checkpoint} : JobInv(s)
  /\ counts = [m \in Minutes |-> counts[m]]
  /\ \A m \in Minutes : counts[m] # NoRows => ExactRow(m, counts[m])

LEMMA MinuteEnds ==
  ASSUME NEW t \in Nat
  PROVE  /\ MinuteOf(t) \in Nat /\ (MinuteOf(t) + 1) * Minute - 1 \in Int
         /\ t <= (MinuteOf(t) + 1) * Minute - 1
<1>1. Minute \in Nat /\ Minute > 0
  BY MinuteAssumption
<1>2. t \div Minute \in Int /\ t % Minute \in 0..Minute-1 /\ t = Minute * (t \div Minute) + (t % Minute)
  BY <1>1
<1>. QED
  BY <1>1, <1>2 DEF MinuteOf

LEMMA WalFacts ==
  ASSUME TopicInv
  PROVE  /\ Len(wal) \in Nat /\ DOMAIN wal = 1..Len(wal)
         /\ \A i \in 1..Len(wal) : wal[i].at \in Nat /\ MinuteOf(wal[i].at) \in Minutes
         /\ Len(changes) \in Nat /\ DOMAIN changes = 1..Len(changes)
<1>1. wal \in Wals /\ Len(wal) \in Nat /\ DOMAIN wal = 1..Len(wal)
      /\ \A i \in 1..Len(wal) : wal[i].at \in Nat
  BY WalsAssumption DEF TopicInv
<1>2. ASSUME NEW i \in 1..Len(wal) PROVE MinuteOf(wal[i].at) \in Minutes
  <2>1. wal[i] \in UNION {{w[j] : j \in DOMAIN w} : w \in Wals}
    BY <1>1
  <2>. QED
    BY <2>1 DEF Minutes
<1>3. Len(changes) \in Nat /\ DOMAIN changes = 1..Len(changes)
  BY DEF TopicInv
<1>. QED
  BY <1>1, <1>2, <1>3

\* No minute is over at the start.
LEMMA NoneOver == \A m \in Minutes : TopicInv => ~Over(m, -Disorder)
<1>1. ASSUME NEW m \in Minutes, TopicInv PROVE ~Over(m, -Disorder)
  <2>1. PICK w \in Wals : \E i \in DOMAIN w : m = MinuteOf(w[i].at)
    BY DEF Minutes
  <2>2. m \in Nat
    BY <2>1, MinuteEnds, WalsAssumption
  <2>3. Minute \in Nat /\ Minute >= 1 /\ Disorder \in Nat \ {0}
    BY MinuteAssumption
  <2>4. PICK x \in Int : x = (m + 1) * Minute /\ x >= 1
    BY <2>2, <2>3
  <2>5. Over(m, -Disorder) <=> -Disorder >= x - 1
    BY <2>4 DEF Over
  <2>6. \A d \in Nat \ {0} : ~ (-d >= x - 1)
    BY <2>4
  <2>. QED
    BY <2>2, <2>3, <2>5, <2>6
<1>. QED
  BY <1>1

LEMMA InitExact == CdcInit => ExactInv
<1>. SUFFICES ASSUME CdcInit PROVE ExactInv
  OBVIOUS
<1>1. TopicInv
  <2>1. Len(wal) \in Nat /\ wal \in Wals
    BY WalsAssumption DEF CdcInit
  <2>. QED
    BY <2>1 DEF CdcInit, TopicInv
<1>2. \A m : Sent(m, 0) = {} /\ Held(m, 0) = NoRows
  <2>1. \A m : Sent(m, 0) = {}
    BY DEF Sent
  <2>. QED
    BY <2>1, FS_EmptySet DEF Held, NoRows
<1>3. JobInv(window)
  BY <1>1, <1>2, NoneOver, MinuteAssumption, WalFacts DEF CdcInit, JobInv
<1>. QED
  BY <1>1, <1>3 DEF CdcInit, ExactInv

\* The topic grows.
LEMMA TopicGrows ==
  ASSUME TopicInv, wal' = wal, Len(changes) <= Len(changes'), Len(changes') \in Nat,
         \A i \in 1..Len(changes) : changes'[i] = changes[i]
  PROVE  /\ \A m : Own(m)' = Own(m)
         /\ \A m, n : n \in 0..Len(changes) => Sent(m, n)' = Sent(m, n) /\ Held(m, n)' = Held(m, n)
         /\ \A m : Cardinality(Sent(m, Len(changes))) <= Cardinality(Sent(m, Len(changes)))'
<1>1. \A m : Own(m)' = Own(m)
  BY DEF Own, ChangesOf
<1>2. Len(changes) \in Nat
  BY WalFacts
<1>3. ASSUME NEW m, NEW n \in 0..Len(changes) PROVE Sent(m, n)' = Sent(m, n)
  <2>1. \A i \in 1..n : i \in 1..Len(changes)
    BY <1>2
  <2>. QED
    BY <1>1, <2>1 DEF Sent
<1>4. ASSUME NEW m, NEW n \in 0..Len(changes) PROVE Held(m, n)' = Held(m, n)
  <2>1. Sent(m, n)' = Sent(m, n) /\ \A i \in Sent(m, n) : i \in 1..Len(changes)
    BY <1>2, <1>3 DEF Sent
  <2>. QED
    BY <2>1 DEF Held
<1>5. ASSUME NEW m
      PROVE  Cardinality(Sent(m, Len(changes))) <= Cardinality(Sent(m, Len(changes)))'
  <2>. DEFINE S == Sent(m, Len(changes))
              T == {i \in 1..Len(changes') : changes'[i] \in Own(m)}
  <2>1. S \subseteq T
    BY <1>2 DEF Sent
  <2>2. IsFiniteSet(1..Len(changes')) /\ T \subseteq 1..Len(changes')
    <3>1. 1 \in Int /\ Len(changes') \in Int
      OBVIOUS
    <3>. QED
      BY <3>1, FS_Interval
  <2>3. IsFiniteSet(T)
    BY <2>2, FS_Subset
  <2>4. Cardinality(S) <= Cardinality(T)
    BY <2>1, <2>3, FS_Subset
  <2>5. Sent(m, Len(changes))' = T
    BY <1>1 DEF Sent
  <2>. QED
    BY <2>4, <2>5
<1>. QED
  BY <1>1, <1>3, <1>4, <1>5

LEMMA JobStays ==
  ASSUME TopicInv, wal' = wal, Len(changes) <= Len(changes'), Len(changes') \in Nat,
         \A i \in 1..Len(changes) : changes'[i] = changes[i],
         NEW s, JobInv(s)
  PROVE  JobInv(s)'
<1>1. Len(changes) \in Nat /\ s.offset \in 0..Len(changes) /\ s.offset \in 0..Len(changes')
  BY WalFacts DEF JobInv
<1>2. \A i \in 1..s.offset : i \in 1..Len(changes)
  BY <1>1
<1>3. \A m : Held(m, s.offset)' = Held(m, s.offset)
  BY <1>1, TopicGrows
<1>4. ReadAt(s.offset, s.newest) => ReadAt(s.offset, s.newest)'
  BY <1>2 DEF ReadAt
<1>. QED
  BY <1>1, <1>3, <1>4 DEF JobInv

\* What was counted stays exact.
LEMMA ExactStays ==
  ASSUME TopicInv, wal' = wal, Len(changes) <= Len(changes'), Len(changes') \in Nat,
         \A i \in 1..Len(changes) : changes'[i] = changes[i],
         NEW m, NEW row, ExactRow(m, row)
  PROVE  ExactRow(m, row)'
<1>1. Own(m)' = Own(m)
      /\ Cardinality(Sent(m, Len(changes))) <= Cardinality(Sent(m, Len(changes)))'
  BY TopicGrows
<1>. DEFINE low == Cardinality(Own(m))
            high == Cardinality(Sent(m, Len(changes)))
            top == Cardinality(Sent(m, Len(changes)))'
<1>2. low \in Nat /\ high \in Nat /\ top \in Nat
  <2>1. Len(wal) \in Nat /\ Len(changes) \in Nat /\ DOMAIN wal = 1..Len(wal)
    BY WalFacts
  <2>2. Own(m) \subseteq 1..Len(wal) /\ Sent(m, Len(changes)) \subseteq 1..Len(changes)
        /\ Sent(m, Len(changes))' \subseteq 1..Len(changes')
    BY <2>1 DEF Own, ChangesOf, Sent
  <2>3. IsFiniteSet(1..Len(wal)) /\ IsFiniteSet(1..Len(changes)) /\ IsFiniteSet(1..Len(changes'))
    <3>1. \A k \in Nat : IsFiniteSet(1..k)
      <4>. TAKE k \in Nat
      <4>1. 1 \in Int /\ k \in Int
        OBVIOUS
      <4>. QED
        BY <4>1, FS_Interval
    <3>2. Len(changes') \in Nat
      OBVIOUS
    <3>. QED
      BY <2>1, <3>1, <3>2, Zenon
  <2>4. IsFiniteSet(Own(m)) /\ IsFiniteSet(Sent(m, Len(changes)))
        /\ IsFiniteSet(Sent(m, Len(changes))')
    BY <2>2, <2>3, FS_Subset
  <2>. QED
    BY <2>4, FS_CardinalityType
<1>3. row.count \in low..high
  BY DEF ExactRow
<1>. HIDE DEF low, high, top
<1>4. row.count \in low..top
  BY <1>1, <1>2, <1>3 DEF high, top
<1>5. {wal'[i].impression : i \in Own(m)} = {wal[i].impression : i \in Own(m)}
  OBVIOUS
<1>. QED
  BY <1>1, <1>4, <1>5 DEF ExactRow, low, top

LEMMA TopicStep ==
  ASSUME ExactInv, TopicInv', wal' = wal, Len(changes) <= Len(changes'), Len(changes') \in Nat,
         \A i \in 1..Len(changes) : changes'[i] = changes[i],
         UNCHANGED <<window, checkpoint, counts>>
  PROVE  ExactInv'
BY JobStays, ExactStays DEF ExactInv

LEMMA CaptureExact == ASSUME ExactInv, Capture PROVE ExactInv'
<1>1. /\ captured < Len(wal) /\ captured' = captured + 1
      /\ changes' = Append(changes, captured + 1)
      /\ UNCHANGED <<wal, flushed, window, checkpoint, counts>>
  BY DEF Capture
<1>2. /\ TopicInv /\ wal \in Wals /\ changes \in Seq(Nat) /\ Len(wal) \in Nat
      /\ \A i \in 1..Len(changes) : changes[i] \in 1..Len(wal)
      /\ captured \in 0..Len(wal) /\ captured \in Nat /\ flushed \in 0..captured
      /\ \A j \in 1..captured : \E i \in 1..Len(changes) : changes[i] = j
      /\ \A i \in 1..Len(changes) : \A j \in 1..changes[i] : \E h \in 1..i : changes[h] = j
  BY WalFacts DEF ExactInv, TopicInv
<1>. DEFINE n == Len(changes)
<1>3. /\ n \in Nat /\ changes' \in Seq(Nat) /\ Len(changes') = n + 1
      /\ \A i \in 1..n : changes'[i] = changes[i]
      /\ changes'[n + 1] = captured + 1
  BY <1>1, <1>2
<1>. HIDE DEF n
<1>4. \A i \in 1..n + 1 : changes'[i] \in 1..Len(wal)
  BY <1>1, <1>2, <1>3 DEF n
<1>5. captured' \in 0..Len(wal) /\ flushed' \in 0..captured'
  BY <1>1, <1>2
<1>6. \A j \in 1..captured + 1 : \E i \in 1..n + 1 : changes'[i] = j
  <2>1. ASSUME NEW j \in 1..captured + 1, j # captured + 1
        PROVE  \E i \in 1..n + 1 : changes'[i] = j
    <3>1. j \in 1..captured
      BY <1>2, <2>1
    <3>2. PICK i \in 1..n : changes[i] = j
      BY <1>2, <3>1 DEF n
    <3>. QED
      BY <1>3, <3>2
  <2>2. n + 1 \in 1..n + 1
    BY <1>3
  <2>. QED
    BY <1>3, <2>1, <2>2
<1>7. ASSUME NEW i \in 1..n + 1, NEW j \in 1..changes'[i]
      PROVE  \E h \in 1..i : changes'[h] = j
  <2>1. CASE i = n + 1
    BY <1>3, <1>6, <2>1
  <2>2. CASE i # n + 1
    <3>1. i \in 1..n
      BY <1>3, <2>2
    <3>2. PICK h \in 1..i : changes[h] = j
      BY <1>2, <1>3, <3>1 DEF n
    <3>3. h \in 1..n
      BY <1>3, <3>1, <3>2
    <3>. QED
      BY <1>3, <3>2, <3>3
  <2>. QED
    BY <2>1, <2>2
<1>8. TopicInv'
  BY <1>1, <1>2, <1>3, <1>4, <1>5, <1>6, <1>7 DEF TopicInv
<1>. QED
  BY <1>1, <1>3, <1>8, TopicStep DEF n

LEMMA OffsetsExact ==
  ASSUME ExactInv, FlushOffsets \/ RestartConnector PROVE ExactInv'
<1>1. /\ UNCHANGED <<wal, changes, window, checkpoint, counts>>
      /\ captured' \in {captured, flushed} /\ flushed' \in {captured, flushed}
      /\ captured' = captured \/ flushed' = flushed
      /\ captured' = flushed \/ flushed' = captured
  BY DEF FlushOffsets, RestartConnector
<1>2. TopicInv /\ Len(changes) \in Nat /\ Len(wal) \in Nat
  BY WalFacts DEF ExactInv
<1>3. captured' \in 0..Len(wal) /\ flushed' \in 0..captured' /\ captured' <= captured
      /\ captured \in Nat /\ captured' \in Nat
  BY <1>1, <1>2 DEF TopicInv
<1>4. \A j \in 1..captured' : j \in 1..captured
  BY <1>3
<1>5. TopicInv'
  BY SMTT(30), <1>1, <1>2, <1>3, <1>4 DEF TopicInv
<1>. QED
  BY <1>1, <1>2, <1>5, TopicStep

-----------------------------------------------------------------------------
(* The steps of the job.                                                   *)

\* One more place of the topic.
LEMMA SentStep ==
  ASSUME TopicInv, NEW n \in Nat, n < Len(changes), NEW m
  PROVE  LET change == wal[changes[n + 1]]
         IN  IF MinuteOf(change.at) = m /\ change.op # "d"
             THEN Held(m, n + 1) = [count |-> Held(m, n).count + 1,
                                    impressions |-> Held(m, n).impressions \cup {change.impression}]
             ELSE Held(m, n + 1) = Held(m, n)
<1>. DEFINE change == wal[changes[n + 1]]
<1>1. n + 1 \in 1..Len(changes) /\ 1..n + 1 = 1..n \cup {n + 1} /\ n + 1 \notin 1..n
  BY WalFacts
<1>2. changes[n + 1] \in DOMAIN wal
  BY <1>1, WalFacts DEF TopicInv
<1>3. changes[n + 1] \in Own(m) <=> MinuteOf(change.at) = m /\ change.op # "d"
  BY <1>2 DEF Own, ChangesOf
<1>4. CASE changes[n + 1] \in Own(m)
  <2>1. Sent(m, n + 1) = Sent(m, n) \cup {n + 1} /\ n + 1 \notin Sent(m, n)
    BY <1>1, <1>4 DEF Sent
  <2>2. IsFiniteSet(Sent(m, n))
    <3>1. IsFiniteSet(1..n) /\ Sent(m, n) \subseteq 1..n
      BY FS_Interval DEF Sent
    <3>. QED
      BY <3>1, FS_Subset
  <2>3. Cardinality(Sent(m, n + 1)) = Cardinality(Sent(m, n)) + 1
    BY <2>1, <2>2, FS_AddElement
  <2>4. {wal[changes[i]].impression : i \in Sent(m, n + 1)}
          = {wal[changes[i]].impression : i \in Sent(m, n)} \cup {change.impression}
    BY <2>1
  <2>5. /\ Held(m, n).count = Cardinality(Sent(m, n))
        /\ Held(m, n).impressions = {wal[changes[i]].impression : i \in Sent(m, n)}
    BY DEF Held
  <2>. HIDE DEF change
  <2>6. Held(m, n + 1) = [count |-> Held(m, n).count + 1,
                          impressions |-> Held(m, n).impressions \cup {change.impression}]
    BY <2>3, <2>4, <2>5 DEF Held
  <2>. QED
    BY <1>3, <1>4, <2>6 DEF change
<1>5. CASE changes[n + 1] \notin Own(m)
  <2>1. Sent(m, n + 1) = Sent(m, n)
    BY <1>1, <1>5 DEF Sent
  <2>. QED
    BY <1>3, <1>5, <2>1 DEF Held
<1>. QED
  BY <1>4, <1>5

LEMMA AggregateExact == ASSUME ExactInv, Aggregate PROVE ExactInv'
<1>. DEFINE n == window.offset
            change == wal[changes[n + 1]]
            m0 == MinuteOf(change.at)
            counts_in == Counted(change) /\ ~Over(m0, window.watermark)
            newest == IF change.at > window.newest THEN change.at ELSE window.newest
            open == [window.open EXCEPT
                      ![m0] = IF counts_in
                              THEN [count |-> @.count + 1,
                                    impressions |-> @.impressions \cup {change.impression}]
                              ELSE @]
<1>1. TopicInv /\ JobInv(window)
  BY DEF ExactInv
<1>2. n < Len(changes) /\ UNCHANGED <<wal, captured, flushed, changes, checkpoint, counts>>
  BY DEF Aggregate
<1>3. window' = [offset |-> n + 1, newest |-> newest, watermark |-> window.watermark, open |-> open]
  <2>1. window = [offset |-> n, newest |-> window.newest, watermark |-> window.watermark,
                  open |-> window.open]
    BY <1>1 DEF JobInv
  <2>2. PICK w, o, x, t, c : /\ w = window /\ o = window.open /\ x = newest
                             /\ t = window.watermark /\ c = counts_in
    OBVIOUS
  <2>3. window' = [w EXCEPT !.offset = n + 1, !.newest = x,
                            !.open = [w.open EXCEPT ![m0] = IF c
                              THEN [count |-> @.count + 1,
                                    impressions |-> @.impressions \cup {change.impression}]
                              ELSE @]]
    BY <2>2 DEF Aggregate
  <2>. QED
    BY <2>1, <2>2, <2>3
<1>4. n \in Nat /\ n + 1 \in 0..Len(changes) /\ n + 1 \in 1..Len(changes)
  BY <1>1, <1>2, WalFacts DEF JobInv
<1>5. change.at \in Nat /\ m0 \in Minutes
  BY <1>1, <1>4, WalFacts DEF TopicInv
<1>6. newest \in Nat /\ (newest = 0 \/ ReadAt(n + 1, newest))
  <2>1. window.newest \in Nat /\ (window.newest = 0 \/ ReadAt(n, window.newest))
    BY <1>1 DEF JobInv
  <2>2. 1..n \subseteq 1..n + 1 /\ n + 1 \in 1..n + 1
    BY <1>4
  <2>3. ReadAt(n + 1, change.at)
    BY <2>2 DEF ReadAt
  <2>4. ReadAt(n, window.newest) => ReadAt(n + 1, window.newest)
    BY <2>2 DEF ReadAt
  <2>. HIDE DEF change
  <2>. QED
    BY <1>5, <2>1, <2>3, <2>4
<1>7. ASSUME NEW m \in Minutes
      PROVE  open[m] = IF Over(m, window.watermark) THEN NoRows ELSE Held(m, n + 1)
  <2>1. /\ window.open = [k \in Minutes |-> window.open[k]]
        /\ window.open[m] = IF Over(m, window.watermark) THEN NoRows ELSE Held(m, n)
    BY <1>1 DEF JobInv
  <2>2. IF MinuteOf(change.at) = m /\ change.op # "d"
        THEN Held(m, n + 1) = [count |-> Held(m, n).count + 1,
                               impressions |-> Held(m, n).impressions \cup {change.impression}]
        ELSE Held(m, n + 1) = Held(m, n)
    BY <1>1, <1>2, <1>4, SentStep
  <2>3. open[m] = IF m = m0 /\ counts_in
                  THEN [count |-> window.open[m].count + 1,
                        impressions |-> window.open[m].impressions \cup {change.impression}]
                  ELSE window.open[m]
    BY <1>5, <2>1
  <2>4. counts_in <=> change.op # "d" /\ ~Over(m0, window.watermark)
    BY DEF Counted
  <2>. HIDE DEF change, counts_in, open
  <2>5. CASE m # m0
    BY <2>1, <2>2, <2>3, <2>5
  <2>6. CASE m = m0
    BY <2>1, <2>2, <2>3, <2>4, <2>6
  <2>. QED
    BY <2>5, <2>6
<1>8. open = [m \in Minutes |-> open[m]]
  BY <1>1, <1>5 DEF JobInv
<1>9. window.watermark \in Int /\ window.watermark >= -Disorder
  BY <1>1 DEF JobInv
<1>. HIDE DEF newest, open, change
<1>10. JobInv(window')
  BY <1>3, <1>4, <1>6, <1>7, <1>8, <1>9 DEF JobInv
<1>11. \A s : JobInv(s) => JobInv(s)'
  BY <1>1, <1>2, JobStays, WalFacts
<1>12. TopicInv'
  BY <1>1, <1>2 DEF TopicInv
<1>13. \A m, row : ExactRow(m, row) => ExactRow(m, row)'
  BY <1>1, <1>2, ExactStays, WalFacts
<1>14. \A s \in {window', checkpoint'} : JobInv(s)'
  BY <1>2, <1>10, <1>11 DEF ExactInv
<1>. QED
  BY <1>2, <1>12, <1>13, <1>14 DEF ExactInv

\* When the watermark passes a minute, all its changes have been read.
LEMMA ClosedIsRead ==
  ASSUME WithinDisorder, TopicInv, NEW s, JobInv(s), s.newest - Disorder > s.watermark,
         NEW m \in Minutes, Over(m, s.newest - Disorder), NEW j \in Own(m)
  PROVE  \E h \in 1..s.offset : changes[h] = j
<1>1. /\ s.newest \in Nat /\ s.watermark \in Int /\ s.watermark >= -Disorder
      /\ Disorder \in Nat /\ s.offset \in 0..Len(changes) /\ Len(changes) \in Nat
  BY WalFacts, MinuteAssumption DEF JobInv
<1>2. ReadAt(s.offset, s.newest)
  BY <1>1 DEF JobInv
<1>3. PICK i \in 1..s.offset : wal[changes[i]].at = s.newest
  BY <1>2 DEF ReadAt
<1>4. i \in 1..Len(changes) /\ changes[i] \in 1..Len(wal) /\ changes[i] \in Nat
  <2>1. i \in 1..Len(changes)
    BY <1>1
  <2>2. changes[i] \in 1..Len(wal)
    BY <2>1 DEF TopicInv
  <2>. QED
    BY <2>1, <2>2
<1>5. /\ j \in DOMAIN wal /\ j \in 1..Len(wal) /\ j \in Nat /\ wal[j].op # "d"
      /\ MinuteOf(wal[j].at) = m /\ wal[j].at \in Nat
  BY WalFacts DEF Own, ChangesOf
<1>6. wal[j].at <= s.newest - Disorder
  <2>1. PICK x \in Int : x = (m + 1) * Minute - 1 /\ wal[j].at <= x
    BY <1>5, MinuteEnds
  <2>2. s.newest - Disorder >= x
    BY <2>1 DEF Over
  <2>. QED
    BY <1>1, <1>5, <2>1, <2>2
<1>7. j <= changes[i]
  <2>1. SUFFICES ASSUME changes[i] < j PROVE FALSE
    BY <1>4, <1>5
  <2>2. wal[changes[i]].at - wal[j].at < Disorder
    BY <1>4, <1>5, <2>1, WalFacts DEF WithinDisorder, Counted, TopicInv
  <2>. QED
    BY <1>1, <1>3, <1>5, <1>6, <2>2
<1>8. j \in 1..changes[i]
  BY <1>4, <1>5, <1>7
<1>9. PICK h \in 1..i : changes[h] = j
  BY <1>4, <1>8 DEF TopicInv
<1>10. h \in 1..s.offset
  BY <1>1, <1>3
<1>. QED
  BY <1>9, <1>10

\* Then what the job holds of the minute is exact.
LEMMA ReadIsExact ==
  ASSUME TopicInv, NEW n \in 0..Len(changes), NEW m,
         \A j \in Own(m) : \E h \in 1..n : changes[h] = j
  PROVE  ExactRow(m, Held(m, n))
<1>. DEFINE S == Sent(m, n)
            T == Own(m)
            f == [i \in S |-> changes[i]]
<1>1. \A i \in S : changes[i] \in T
  BY DEF Sent
<1>2. \A j \in T : \E i \in S : changes[i] = j
  BY DEF Sent
<1>3. {wal[changes[i]].impression : i \in S} = {wal[j].impression : j \in T}
  BY <1>1, <1>2
<1>4. Len(changes) \in Nat /\ Len(wal) \in Nat /\ DOMAIN wal = 1..Len(wal) /\ n \in Nat
  BY WalFacts
<1>5. S \subseteq Sent(m, Len(changes)) /\ Sent(m, Len(changes)) \subseteq 1..Len(changes)
  BY <1>4 DEF Sent
<1>6. IsFiniteSet(Sent(m, Len(changes))) /\ IsFiniteSet(S)
  <2>1. IsFiniteSet(1..Len(changes))
    BY <1>4, FS_Interval
  <2>2. IsFiniteSet(Sent(m, Len(changes)))
    BY <1>5, <2>1, FS_Subset
  <2>. QED
    BY <1>5, <2>2, FS_Subset
<1>7. f \in Surjection(S, T)
  <2>. HIDE DEF S, T
  <2>. QED
    BY <1>1, <1>2 DEF Surjection
<1>8. IsFiniteSet(T) /\ Cardinality(T) <= Cardinality(S)
  <2>. HIDE DEF f, S, T
  <2>. QED
    BY <1>6, <1>7, FS_Surjection
<1>9. Cardinality(S) <= Cardinality(Sent(m, Len(changes)))
  BY <1>5, <1>6, FS_Subset
<1>10. /\ Cardinality(S) \in Nat /\ Cardinality(T) \in Nat
       /\ Cardinality(Sent(m, Len(changes))) \in Nat
  BY <1>6, <1>8, FS_CardinalityType
<1>11. Cardinality(S) \in Cardinality(T)..Cardinality(Sent(m, Len(changes)))
  <2>. HIDE DEF S, T
  <2>. QED
    BY <1>8, <1>9, <1>10
<1>. QED
  BY <1>3, <1>11 DEF ExactRow, Held

\* A later watermark closes what an earlier one does.
LEMMA OverStays ==
  ASSUME NEW m \in Minutes, TopicInv, NEW w \in Int, NEW v \in Int, w <= v, Over(m, w)
  PROVE  Over(m, v)
<1>1. PICK u \in Wals : \E i \in DOMAIN u : m = MinuteOf(u[i].at)
  BY DEF Minutes
<1>2. PICK x \in Int : x = (m + 1) * Minute - 1
  BY <1>1, MinuteEnds, WalsAssumption
<1>. QED
  BY <1>2 DEF Over

LEMMA EmitExact == ASSUME WithinDisorder, ExactInv, Emit PROVE ExactInv'
<1>. DEFINE wm == window.newest - Disorder
            closing == {m \in Minutes : Over(m, wm) /\ window.open[m] # NoRows}
            open == [m \in Minutes |-> IF m \in closing THEN NoRows ELSE window.open[m]]
<1>1. TopicInv /\ JobInv(window) /\ wm > window.watermark
  BY DEF ExactInv, Emit
<1>2. /\ counts' = [m \in Minutes |-> IF m \in closing THEN window.open[m] ELSE counts[m]]
      /\ UNCHANGED <<wal, captured, flushed, changes, checkpoint>>
  BY DEF Emit
<1>3. window' = [offset |-> window.offset, newest |-> window.newest, watermark |-> wm, open |-> open]
  <2>1. window = [offset |-> window.offset, newest |-> window.newest,
                  watermark |-> window.watermark, open |-> window.open]
    BY <1>1 DEF JobInv
  <2>2. window' = [window EXCEPT !.watermark = wm, !.open = open]
    BY DEF Emit
  <2>3. PICK w, x, o : w = window /\ x = wm /\ o = open
    OBVIOUS
  <2>. HIDE DEF wm, open
  <2>. QED
    BY <2>1, <2>2, <2>3
<1>4. wm \in Int /\ wm >= -Disorder /\ window.watermark \in Int /\ window.offset \in 0..Len(changes)
  BY <1>1, MinuteAssumption DEF JobInv
<1>5. ASSUME NEW m \in Minutes
      PROVE  open[m] = IF Over(m, wm) THEN NoRows ELSE Held(m, window.offset)
  <2>1. window.open[m] = IF Over(m, window.watermark) THEN NoRows ELSE Held(m, window.offset)
    BY <1>1 DEF JobInv
  <2>2. Over(m, window.watermark) => Over(m, wm)
    BY <1>1, <1>4, OverStays
  <2>. QED
    BY <2>1, <2>2
<1>6. ASSUME NEW m \in closing PROVE ExactRow(m, window.open[m])
  <2>1. m \in Minutes /\ Over(m, wm) /\ window.open[m] = Held(m, window.offset)
    BY <1>1 DEF JobInv
  <2>2. \A j \in Own(m) : \E h \in 1..window.offset : changes[h] = j
    BY <1>1, <2>1, ClosedIsRead
  <2>. QED
    BY <1>1, <1>4, <2>1, <2>2, ReadIsExact
<1>7. open = [m \in Minutes |-> open[m]]
  OBVIOUS
<1>8. \A m \in Minutes : counts'[m] # NoRows => ExactRow(m, counts'[m])
  BY <1>2, <1>6 DEF ExactInv
<1>9. counts' = [m \in Minutes |-> counts'[m]]
  BY <1>2
<1>10. \A m, row : ExactRow(m, row) => ExactRow(m, row)'
  BY <1>1, <1>2, ExactStays, WalFacts
<1>11. TopicInv'
  BY <1>1, <1>2 DEF TopicInv
<1>. HIDE DEF wm, open, closing
<1>12. JobInv(window')
  BY <1>1, <1>3, <1>4, <1>5, <1>7 DEF JobInv
<1>13. \A s : JobInv(s) => JobInv(s)'
  BY <1>1, <1>2, JobStays, WalFacts
<1>14. \A s \in {window', checkpoint'} : JobInv(s)'
  BY <1>2, <1>12, <1>13 DEF ExactInv
<1>. QED
  BY <1>8, <1>9, <1>10, <1>11, <1>14 DEF ExactInv

LEMMA RestartExact ==
  ASSUME ExactInv, TakeCheckpoint \/ RestartJob PROVE ExactInv'
<1>1. UNCHANGED <<wal, captured, flushed, changes, counts>>
  BY DEF TakeCheckpoint, RestartJob
<1>2. TopicInv /\ TopicInv' /\ JobInv(window) /\ JobInv(checkpoint)
  BY <1>1 DEF ExactInv, TopicInv
<1>3. window' \in {window, [checkpoint EXCEPT !.newest = 0]} /\ checkpoint' \in {window, checkpoint}
  BY DEF TakeCheckpoint, RestartJob
<1>4. JobInv([checkpoint EXCEPT !.newest = 0])
  <2>1. [checkpoint EXCEPT !.newest = 0]
          = [offset |-> checkpoint.offset, newest |-> 0, watermark |-> checkpoint.watermark,
             open |-> checkpoint.open]
    BY <1>2 DEF JobInv
  <2>. QED
    BY <1>2, <2>1 DEF JobInv
<1>5. \A s : JobInv(s) => JobInv(s)'
  BY <1>1, <1>2, JobStays, WalFacts
<1>6. \A m, row : ExactRow(m, row) => ExactRow(m, row)'
  BY <1>1, <1>2, ExactStays, WalFacts
<1>7. \A s \in {window', checkpoint'} : JobInv(s)'
  BY <1>2, <1>3, <1>4, <1>5
<1>. QED
  BY <1>1, <1>2, <1>6, <1>7 DEF ExactInv

LEMMA NextExact == WithinDisorder /\ ExactInv /\ [CdcNext]_cdcVars => ExactInv'
<1>. SUFFICES ASSUME WithinDisorder, ExactInv, [CdcNext]_cdcVars PROVE ExactInv'
  OBVIOUS
<1>1. CASE Capture
  BY <1>1, CaptureExact
<1>2. CASE FlushOffsets \/ RestartConnector
  BY <1>2, OffsetsExact
<1>3. CASE Aggregate
  BY <1>3, AggregateExact
<1>4. CASE Emit
  BY <1>4, EmitExact
<1>5. CASE TakeCheckpoint \/ RestartJob
  BY <1>5, RestartExact
<1>6. CASE UNCHANGED cdcVars
  <2>1. UNCHANGED <<wal, captured, flushed, changes, window, checkpoint, counts>>
    BY <1>6 DEF cdcVars
  <2>2. TopicInv' /\ Len(changes) \in Nat
    BY <2>1, WalFacts DEF ExactInv, TopicInv
  <2>. QED
    BY <2>1, <2>2, TopicStep
<1>. QED
  BY <1>1, <1>2, <1>3, <1>4, <1>5, <1>6 DEF CdcNext

\* When no counted change is later than one before it by the disorder the
\* watermark allows, a minute that was written has the impressions of all its
\* changes, each once, and at least as many changes, however often Debezium
\* sends changes again and the job counts again (cdc_sql.py).
THEOREM CountsAreExact ==
  ASSUME WithinDisorder
  PROVE  CdcSpec => []WindowsExact
<1>1. ExactInv => WindowsExact
  <2>. SUFFICES ASSUME ExactInv, NEW m \in Minutes, counts[m] # NoRows
                PROVE  /\ counts[m].impressions = {wal[i].impression : i \in Own(m)}
                       /\ counts[m].count \in
                            Cardinality(Own(m))..Cardinality({i \in DOMAIN changes : changes[i] \in Own(m)})
    BY DEF WindowsExact, Own
  <2>1. ExactRow(m, counts[m]) /\ DOMAIN changes = 1..Len(changes)
    BY WalFacts DEF ExactInv
  <2>. QED
    BY <2>1 DEF ExactRow, Sent
<1>2. ExactInv /\ [CdcNext]_cdcVars => ExactInv'
  BY NextExact
<1>. QED
  BY <1>1, <1>2, InitExact, PTL DEF CdcSpec

-----------------------------------------------------------------------------
(* How much a bag holds.                                                   *)

Stripes(bag, S) == UNION {{i} \X (1..bag[i]) : i \in S}

LEMMA StripesAre ==
  ASSUME NEW S, NEW bag
  PROVE  /\ \A x : x \in Stripes(bag, S) <=> \E i \in S : \E k \in 1..bag[i] : x = <<i, k>>
         /\ Sum(bag, S) = Cardinality(Stripes(bag, S))
BY DEF Stripes, Sum

LEMMA SumFacts ==
  ASSUME NEW S, IsFiniteSet(S), NEW bag, \A i \in S : bag[i] \in Nat
  PROVE  IsFiniteSet(Stripes(bag, S)) /\ Sum(bag, S) \in Nat
<1>. DEFINE T == {{i} \X (1..bag[i]) : i \in S}
            stripe == [i \in S |-> {i} \X (1..bag[i])]
<1>1. stripe \in Surjection(S, T)
  BY DEF Surjection
<1>2. IsFiniteSet(T)
  <2>. HIDE DEF stripe, T
  <2>. QED
    BY <1>1, FS_Surjection
<1>3. \A X \in T : IsFiniteSet(X)
  <2>. SUFFICES ASSUME NEW i \in S PROVE IsFiniteSet({i} \X (1..bag[i]))
    OBVIOUS
  <2>. DEFINE n == bag[i]
  <2>0. n \in Int
    OBVIOUS
  <2>. HIDE DEF n
  <2>1. IsFiniteSet({i})
    BY FS_Singleton
  <2>2. IsFiniteSet(1..n)
    BY <2>0, FS_Interval
  <2>3. IsFiniteSet({i} \X (1..n))
    BY <2>1, <2>2, FS_Product
  <2>. QED
    BY <2>3 DEF n
<1>4. Stripes(bag, S) = UNION T
  BY DEF Stripes
<1>. HIDE DEF T
<1>5. IsFiniteSet(Stripes(bag, S))
  BY <1>2, <1>3, <1>4, FS_UNION
<1>. QED
  BY <1>5, StripesAre, FS_CardinalityType

\* Bags that agree on S hold as much of it.
LEMMA SumSame ==
  ASSUME NEW S, NEW f, NEW g, \A i \in S : f[i] = g[i]
  PROVE  Sum(f, S) = Sum(g, S)
<1>1. Stripes(f, S) = Stripes(g, S)
  BY StripesAre
<1>. QED
  BY <1>1, StripesAre

\* What a bag has none of adds nothing.
LEMMA SumOfSome ==
  ASSUME NEW T, NEW S \in SUBSET T, NEW f, \A i \in T : f[i] \in Nat,
         \A i \in T : i \notin S => f[i] = 0
  PROVE  Sum(f, S) = Sum(f, T)
<1>1. \A x : x \in Stripes(f, S) => x \in Stripes(f, T)
  BY StripesAre
<1>2. ASSUME NEW x, x \in Stripes(f, T) PROVE x \in Stripes(f, S)
  <2>1. PICK i \in T, k \in Int : k \in 1..f[i] /\ x = <<i, k>>
    BY <1>2, StripesAre
  <2>2. f[i] # 0
    BY <2>1
  <2>. QED
    BY <2>1, <2>2, StripesAre
<1>3. Stripes(f, S) = Stripes(f, T)
  BY <1>1, <1>2
<1>. QED
  BY <1>3, StripesAre

LEMMA SumGrows ==
  ASSUME NEW T, IsFiniteSet(T), NEW S \in SUBSET T, NEW f, NEW g,
         \A i \in T : g[i] \in Nat, \A i \in S : f[i] \in Nat /\ f[i] <= g[i]
  PROVE  Sum(f, S) <= Sum(g, T)
<1>1. Stripes(f, S) \in SUBSET Stripes(g, T)
  <2>. SUFFICES ASSUME NEW x, x \in Stripes(f, S) PROVE x \in Stripes(g, T)
    OBVIOUS
  <2>1. PICK i \in S, k \in Int : k \in 1..f[i] /\ x = <<i, k>>
    BY StripesAre
  <2>2. k \in 1..g[i] /\ i \in T
    BY <2>1
  <2>. QED
    BY <2>1, <2>2, StripesAre
<1>2. IsFiniteSet(Stripes(g, T))
  BY SumFacts
<1>3. Cardinality(Stripes(f, S)) <= Cardinality(Stripes(g, T))
  BY <1>1, <1>2, FS_Subset
<1>. QED
  BY <1>3, StripesAre

InGroup(T, group, d) == {i \in T : group[i] = d}

\* Counted group by group, a bag holds as much.
LEMMA SumByGroups ==
  ASSUME NEW T, IsFiniteSet(T), NEW f, \A i \in T : f[i] \in Nat,
         NEW D, IsFiniteSet(D), NEW group, \A i \in T : group[i] \in D,
         NEW tally, \A d \in D : tally[d] = Sum(f, InGroup(T, group, d))
  PROVE  Sum(tally, D) = Sum(f, T)
<1>. DEFINE of(d) == {i \in T : group[i] = d}
            E(d) == Stripes(f, of(d))
            n(d) == tally[d]
<1>1. \A d \in D : IsFiniteSet(E(d)) /\ tally[d] = Cardinality(E(d)) /\ tally[d] \in Nat
  <2>. SUFFICES ASSUME NEW d \in D
                PROVE  IsFiniteSet(E(d)) /\ tally[d] = Cardinality(E(d)) /\ tally[d] \in Nat
    OBVIOUS
  <2>1. of(d) \in SUBSET T /\ \A i \in of(d) : f[i] \in Nat
    OBVIOUS
  <2>2. tally[d] = Sum(f, of(d))
    BY DEF InGroup
  <2>. HIDE DEF of
  <2>3. IsFiniteSet(of(d))
    BY <2>1, FS_Subset
  <2>. QED
    BY <2>1, <2>2, <2>3, SumFacts, StripesAre
<1>2. \A d \in D : \A x : x \in E(d) <=> \E i \in T : \E k \in 1..f[i] : group[i] = d /\ x = <<i, k>>
  <2>. SUFFICES ASSUME NEW d \in D, NEW x
                PROVE  x \in E(d) <=> \E i \in T : \E k \in 1..f[i] : group[i] = d /\ x = <<i, k>>
    OBVIOUS
  <2>1. x \in E(d) <=> \E i \in of(d) : \E k \in 1..f[i] : x = <<i, k>>
    <3>. HIDE DEF of
    <3>. QED
      BY StripesAre
  <2>. QED
    BY <2>1
<1>. HIDE DEF E
<1>3. \A d \in D : \E b : b \in Bijection(1..tally[d], E(d))
  <2>. SUFFICES ASSUME NEW d \in D PROVE \E b : b \in Bijection(1..tally[d], E(d))
    OBVIOUS
  <2>1. ExistsBijection(1..Cardinality(E(d)), E(d))
    BY <1>1, FS_CardinalityType
  <2>. QED
    BY <1>1, <2>1 DEF ExistsBijection
<1>. DEFINE b == [d \in D |-> CHOOSE g : g \in Bijection(1..tally[d], E(d))]
<1>4. \A d \in D : b[d] \in Bijection(1..tally[d], E(d))
  BY <1>3
<1>. HIDE DEF b
<1>5. \A d \in D : /\ \A k \in 1..tally[d] : b[d][k] \in E(d)
                   /\ \A k, l \in 1..tally[d] : b[d][k] = b[d][l] => k = l
                   /\ \A x \in E(d) : \E k \in 1..tally[d] : b[d][k] = x
  BY <1>4 DEF Bijection, Injection, Surjection, IsInjective
<1>. DEFINE A == Stripes(tally, D)
            B == Stripes(f, T)
            m == [x \in A |-> b[x[1]][x[2]]]
<1>6. \A x : x \in A <=> \E d \in D : \E k \in 1..tally[d] : x = <<d, k>>
  BY StripesAre
<1>7. \A x : x \in B <=> \E i \in T : \E k \in 1..f[i] : x = <<i, k>>
  BY StripesAre
<1>. HIDE DEF A, B
<1>8. \A x \in A : x[1] \in D /\ x[2] \in 1..tally[x[1]] /\ x = <<x[1], x[2]>>
  BY <1>6
<1>9. \A x \in A : m[x] \in E(x[1]) /\ m[x] \in B
  BY <1>2, <1>5, <1>7, <1>8
<1>10. \A x, y \in A : m[x] = m[y] => x = y
  <2>. SUFFICES ASSUME NEW x \in A, NEW y \in A, m[x] = m[y] PROVE x = y
    OBVIOUS
  <2>1. PICK i \in T, k \in Int : group[i] = x[1] /\ m[x] = <<i, k>>
    BY <1>2, <1>8, <1>9
  <2>2. PICK j \in T, l \in Int : group[j] = y[1] /\ m[y] = <<j, l>>
    BY <1>2, <1>8, <1>9
  <2>3. x[1] = y[1]
    BY <2>1, <2>2
  <2>4. b[x[1]][x[2]] = b[x[1]][y[2]]
    BY <2>3
  <2>5. x[2] = y[2]
    BY <1>5, <1>8, <2>3, <2>4
  <2>. QED
    BY <1>8, <2>3, <2>5
<1>11. \A y \in B : \E x \in A : m[x] = y
  <2>. SUFFICES ASSUME NEW y \in B PROVE \E x \in A : m[x] = y
    OBVIOUS
  <2>1. PICK i \in T, k \in Int : k \in 1..f[i] /\ y = <<i, k>>
    BY <1>7
  <2>. DEFINE d == group[i]
  <2>2. d \in D /\ y \in E(d)
    BY <1>2, <2>1
  <2>. HIDE DEF d
  <2>3. PICK l \in 1..tally[d] : b[d][l] = y
    BY <1>5, <2>2
  <2>4. <<d, l>> \in A
    BY <1>6, <2>2
  <2>5. m[<<d, l>>] = y
    BY <2>3, <2>4
  <2>. QED
    BY <2>4, <2>5
<1>12. m \in [A -> B]
  BY <1>9
<1>. HIDE DEF m
<1>13. m \in Bijection(A, B)
  BY <1>10, <1>11, <1>12 DEF Bijection, Injection, Surjection, IsInjective
<1>14. IsFiniteSet(A)
  BY <1>1, SumFacts DEF A
<1>15. Cardinality(A) = Cardinality(B)
  BY <1>13, <1>14, FS_Bijection DEF ExistsBijection
<1>. QED
  BY <1>15, StripesAre DEF A, B

-----------------------------------------------------------------------------
(* What the views know of the rows                                         *)

Places == 1..Len(sent)
Event == [account : Accounts, kind : Kinds, slow : BOOLEAN, hour : Int]

StoreTypes ==
  /\ now \in Int /\ sent \in Seq(Event)
  /\ written \in Nat /\ written <= Len(sent) /\ committed \in Nat /\ committed <= written
  /\ raw \in [Places -> Nat] /\ views \in [Views -> [Places -> Nat]]
  /\ attached \in SUBSET Views /\ doubled \in [Views -> SUBSET Nat]

\* The views are rebuilt in one order, and those that are count what comes in.
TodoInv ==
  /\ todo \in {<< >>, <<"platform_daily">>, <<"agent_hourly", "platform_daily">>,
               <<"conversation_daily", "agent_hourly", "platform_daily">>}
  /\ \A v \in Views : Filled(v) => v \in attached

\* A row not written is nowhere; one committed is there until it expires.
RowsInv ==
  \A i \in Places :
    /\ i > written => raw[i] = 0 /\ \A v \in Views : views[v][i] = 0
    /\ i <= committed /\ raw[i] = 0 => sent[i].hour + RawDays * HoursPerDay <= now

\* A rebuilt view has the committed rows that are left, those once that were
\* not inserted again; one not yet rebuilt has nothing but what may be counted
\* twice once it is.
ViewInv ==
  \A v \in Views, i \in Places :
    IF Filled(v)
    THEN /\ i <= committed /\ raw[i] > 0 /\ Selects(v, i) => views[v][i] > 0
         /\ i \notin doubled[v] =>
              raw[i] <= 1 /\ (i <= committed /\ raw[i] > 0 /\ Selects(v, i) => views[v][i] = 1)
    ELSE i \notin doubled[v] => views[v][i] = 0

StoreInv == StoreTypes /\ TodoInv /\ RowsInv /\ ViewInv

LEMMA PlacesAre ==
  ASSUME StoreTypes
  PROVE  /\ Len(sent) \in Nat /\ Places \subseteq Nat /\ DOMAIN sent = Places
         /\ DOMAIN raw = Places
         /\ \A i \in Places : sent[i] \in Event /\ sent[i].hour \in Int /\ raw[i] \in Nat
         /\ \A v \in Views, i \in Places : views[v][i] \in Nat
<1>1. sent \in Seq(Event)
  BY DEF StoreTypes
<1>2. Len(sent) \in Nat /\ DOMAIN sent = Places /\ Places \subseteq Nat
  BY <1>1 DEF Places
<1>3. \A i \in Places : sent[i] \in Event
  BY <1>1 DEF Places
<1>4. \A i \in Places : sent[i].hour \in Int
  BY <1>3 DEF Event
<1>5. \A v \in Views, i \in Places : views[v][i] \in Nat
  BY DEF StoreTypes
<1>. QED
  BY <1>2, <1>3, <1>4, <1>5 DEF StoreTypes

LEMMA StoreStarts == StoreInit => StoreInv
<1>. SUFFICES ASSUME StoreInit PROVE StoreInv
  OBVIOUS
<1>1. Len(sent) = 0 /\ sent \in Seq(Event) /\ Places = {}
  BY DEF StoreInit, Places
<1>2. None = [i \in {} |-> 0]
  BY DEF None
<1>3. StoreTypes
  BY <1>1, <1>2, StoreAssumption DEF StoreInit, StoreTypes
<1>4. TodoInv
  BY DEF StoreInit, TodoInv
<1>. QED
  BY <1>1, <1>3, <1>4 DEF StoreInv, RowsInv, ViewInv

LEMMA HourKeeps == ASSUME StoreInv, HourPasses PROVE StoreInv'
<1>1. now' = now + 1 /\ now \in Int
  BY DEF HourPasses, StoreInv, StoreTypes
<1>2. StoreTypes'
  BY <1>1 DEF HourPasses, StoreInv, StoreTypes, Places
<1>3. TodoInv'
  BY DEF HourPasses, StoreInv, TodoInv, Filled
<1>4. RowsInv'
  <2>1. \A i \in Places : sent[i].hour \in Int
    BY PlacesAre DEF StoreInv
  <2>. DEFINE ttl == RawDays * HoursPerDay
  <2>2. ttl \in Int
    BY StoreAssumption
  <2>3. \A i \in Places : sent[i].hour + ttl <= now => sent[i].hour + ttl <= now'
    <3>. HIDE DEF ttl
    <3>. QED
      BY <1>1, <2>1, <2>2
  <2>. QED
    BY <2>3 DEF HourPasses, StoreInv, RowsInv, Places
<1>5. ViewInv'
  BY DEF HourPasses, StoreInv, ViewInv, Places, Filled, Selects
<1>. QED
  BY <1>2, <1>3, <1>4, <1>5 DEF StoreInv

LEMMA ProduceKeeps ==
  ASSUME StoreInv, NEW c \in Conversations, Produce(c)
  PROVE  StoreInv'
<1>. DEFINE n == Len(sent)
            m == Len(c.events)
            Said == [kind : Kinds, slow : BOOLEAN, hour : Int]
            new == [i \in 1..m |-> [account |-> c.account, kind |-> c.events[i].kind,
                                    slow |-> c.events[i].slow, hour |-> now + c.events[i].hour]]
<1>1. c.account \in Accounts /\ c.events \in Seq(Said)
  BY StoreAssumption DEF IsConversation
<1>2. StoreTypes /\ n \in Nat /\ now \in Int /\ sent \in Seq(Event)
  BY DEF StoreInv, StoreTypes
<1>3. m \in Nat /\ \A i \in 1..m : c.events[i] \in Said
  <2>. HIDE DEF Said
  <2>. QED
    BY <1>1
<1>4. new \in Seq(Event)
  <2>1. \A i \in 1..m : /\ c.events[i].kind \in Kinds /\ c.events[i].slow \in BOOLEAN
                        /\ c.events[i].hour \in Int
    BY <1>3
  <2>. HIDE DEF m
  <2>2. new \in [1..m -> Event]
    BY <1>1, <1>2, <2>1 DEF Event
  <2>. QED
    BY <1>3, <2>2
<1>5. Len(new) = m
  <2>. HIDE DEF m
  <2>. QED
    BY <1>3
<1>6. sent' = sent \o new
  BY DEF Produce
<1>. HIDE DEF new, Said, m
<1>7. /\ sent' \in Seq(Event) /\ Len(sent') = n + m /\ DOMAIN sent' = 1..n + m
      /\ \A i \in Places : sent'[i] = sent[i]
  <2>1. sent \o new \in Seq(Event)
    BY <1>2, <1>4
  <2>2. Len(sent \o new) = n + m
    BY <1>2, <1>4, <1>5
  <2>3. \A i \in 1..n : (sent \o new)[i] = sent[i]
    BY <1>2, <1>4
  <2>. QED
    BY <1>6, <2>1, <2>2, <2>3 DEF Places
<1>. HIDE DEF n
<1>8. /\ Places' = 1..n + m /\ Places = 1..n /\ Places \subseteq Places'
      /\ \A i \in Places' : i \in Int /\ (i \notin Places => i > n)
  BY <1>2, <1>3, <1>7 DEF Places, n
<1>9. /\ raw' = [i \in Places' |-> IF i \in Places THEN raw[i] ELSE 0]
      /\ views' = [v \in Views |-> [i \in Places' |-> IF i \in Places THEN views[v][i] ELSE 0]]
  BY <1>2, <1>7, <1>8, PlacesAre DEF Produce
<1>10. \A i \in Places : raw[i] \in Nat /\ \A v \in Views : views[v][i] \in Nat
  BY <1>2, PlacesAre
<1>11. raw' \in [Places' -> Nat] /\ views' \in [Views -> [Places' -> Nat]]
  BY <1>9, <1>10
<1>12. written \in Nat /\ committed \in Nat /\ committed <= written /\ written <= n
  BY <1>2 DEF StoreTypes, n
<1>13. StoreTypes'
  <2>1. written <= n + m
    BY <1>2, <1>3, <1>12
  <2>. QED
    BY <1>2, <1>7, <1>11, <1>12, <2>1 DEF StoreTypes, Produce
<1>14. TodoInv'
  BY DEF StoreInv, TodoInv, Filled, Produce
<1>15. RowsInv'
  <2>. SUFFICES ASSUME NEW i \in Places'
                PROVE  /\ i > written => raw'[i] = 0 /\ \A v \in Views : views'[v][i] = 0
                       /\ i <= committed /\ raw'[i] = 0 => sent'[i].hour + RawDays * HoursPerDay <= now
    BY DEF RowsInv, Produce
  <2>1. CASE i \in Places
    BY <1>7, <1>9, <2>1 DEF StoreInv, RowsInv
  <2>2. CASE i \notin Places
    <3>1. i > committed /\ i \in Int
      BY <1>2, <1>8, <1>12, <2>2
    <3>. QED
      BY <1>9, <1>12, <2>2, <3>1
  <2>. QED
    BY <2>1, <2>2
<1>16. ViewInv'
  <2>1. \A v \in Views : Filled(v)' = Filled(v) /\ doubled'[v] = doubled[v]
    BY DEF Filled, Produce
  <2>. SUFFICES ASSUME NEW v \in Views, NEW i \in Places'
                PROVE  IF Filled(v)
                       THEN /\ i <= committed /\ raw'[i] > 0 /\ Selects(v, i)' => views'[v][i] > 0
                            /\ i \notin doubled[v] =>
                                 raw'[i] <= 1 /\ (i <= committed /\ raw'[i] > 0 /\ Selects(v, i)' => views'[v][i] = 1)
                       ELSE i \notin doubled[v] => views'[v][i] = 0
    BY <2>1 DEF ViewInv, Produce
  <2>2. CASE i \in Places
    <3>1. Selects(v, i)' = Selects(v, i)
      BY <1>7, <2>2 DEF Selects
    <3>2. raw'[i] = raw[i] /\ views'[v][i] = views[v][i]
      BY <1>8, <1>9, <2>2
    <3>. QED
      BY <2>2, <3>1, <3>2 DEF StoreInv, ViewInv
  <2>3. CASE i \notin Places
    <3>1. raw'[i] = 0 /\ views'[v][i] = 0
      BY <1>9, <2>3
    <3>. QED
      BY <3>1
  <2>. QED
    BY <2>2, <2>3
<1>. QED
  BY <1>13, <1>14, <1>15, <1>16 DEF StoreInv


LEMMA BlockFacts ==
  ASSUME StoreTypes, NEW block \in Blocks
  PROVE  /\ block \subseteq Places /\ Max(block) \in Places /\ committed < Max(block)
         /\ \A i \in Places : i \in block <=> committed < i /\ i <= Max(block)
<1>1. PICK n \in 1..BlockSize : block = committed + 1..committed + n
  BY DEF Blocks
<1>2. block \subseteq Places
  BY PlacesAre DEF Blocks
<1>3. committed \in Nat /\ n \in Nat /\ n >= 1
  BY StoreAssumption DEF StoreTypes
<1>4. \A i \in Int : i \in block <=> committed < i /\ i <= committed + n
  BY <1>1, <1>3
<1>5. committed + n \in block /\ committed + n \in Int
  BY <1>3, <1>4
<1>6. \A y \in block : y \in Int /\ committed + n >= y
  BY <1>1, <1>3
<1>7. Max(block) \in block /\ \A y \in block : Max(block) >= y
  BY <1>5, <1>6 DEF Max
<1>8. Max(block) = committed + n
  BY <1>5, <1>6, <1>7
<1>. QED
  BY <1>2, <1>3, <1>4, <1>5, <1>8, PlacesAre

\* A block is inserted: all views that count it do before it is committed.
LEMMA InsertKeeps ==
  ASSUME StoreInv, NEW block \in Blocks, NEW firing \in SUBSET attached, Insert(block, firing),
         UNCHANGED <<now, sent, attached, todo>>,
         committed' = committed \/ (committed' = Max(block) /\ firing = attached)
  PROVE  StoreInv'
<1>1. /\ block \subseteq Places /\ Max(block) \in Places /\ committed < Max(block)
      /\ \A i \in Places : i \in block <=> committed < i /\ i <= Max(block)
  BY BlockFacts DEF StoreInv
<1>2. /\ DOMAIN sent = Places /\ Places' = Places /\ Places \subseteq Nat /\ Len(sent) \in Nat
      /\ \A i \in Places : raw[i] \in Nat /\ \A v \in Views : views[v][i] \in Nat
  BY PlacesAre DEF StoreInv, Places
<1>3. /\ committed \in Nat /\ written \in Nat /\ committed <= written /\ written <= Len(sent)
      /\ now \in Int /\ sent \in Seq(Event) /\ attached \in SUBSET Views
      /\ doubled \in [Views -> SUBSET Nat]
  BY DEF StoreInv, StoreTypes
<1>4. \A i \in Places : raw'[i] = IF i \in block THEN raw[i] + 1 ELSE raw[i]
  BY <1>2 DEF Insert
<1>5. \A v \in Views, i \in Places :
        views'[v][i] = IF v \in firing /\ i \in block /\ Selects(v, i) THEN views[v][i] + 1 ELSE views[v][i]
  BY <1>2 DEF Insert
<1>6. \A v \in Views : \A i : i \in doubled'[v] <=>
        i \in doubled[v] \/ (i \in block /\ (i <= written \/ (v \in attached /\ ~Filled(v))))
  BY DEF Insert, Filled
<1>7. written' = IF Max(block) > written THEN Max(block) ELSE written
  BY DEF Insert
<1>8. /\ written' \in Nat /\ written' <= Len(sent) /\ committed' \in Nat /\ committed' <= written'
      /\ written <= written' /\ Max(block) <= written'
  <2>. DEFINE top == Max(block)
  <2>1. top \in Nat /\ top <= Len(sent)
    BY <1>1, <1>2 DEF Places
  <2>. QED
    BY <1>2, <1>3, <1>7, <2>1
<1>. DEFINE top == Max(block)
<1>t. top \in Nat
  BY <1>1, <1>2
<1>9. StoreTypes'
  <2>1. \A v \in Views, i \in Places : views'[v][i] \in Nat
    BY <1>2, <1>5
  <2>2. \A i \in Places : raw'[i] \in Nat
    BY <1>2, <1>4
  <2>3. raw' \in [Places -> Nat] /\ views' \in [Views -> [Places -> Nat]]
    BY <1>2, <2>1, <2>2 DEF Insert
  <2>4. doubled' \in [Views -> SUBSET Nat]
    <3>1. block \subseteq Nat
      BY <1>1, <1>2
    <3>. QED
      BY <1>3, <3>1 DEF Insert
  <2>. QED
    BY <1>2, <1>3, <1>8, <2>3, <2>4 DEF StoreTypes
<1>10. TodoInv'
  BY DEF StoreInv, TodoInv, Filled
<1>. HIDE DEF top
<1>11. RowsInv'
  <2>. SUFFICES ASSUME NEW i \in Places
                PROVE  /\ i > written' => raw'[i] = 0 /\ \A v \in Views : views'[v][i] = 0
                       /\ i <= committed' /\ raw'[i] = 0 => sent[i].hour + RawDays * HoursPerDay <= now
    BY <1>2 DEF RowsInv
  <2>1. i \in Nat
    BY <1>2
  <2>2. ASSUME i > written' PROVE raw'[i] = 0 /\ \A v \in Views : views'[v][i] = 0
    <3>1. i \notin block /\ i > written
      BY <1>1, <1>3, <1>8, <1>t, <2>1, <2>2 DEF top
    <3>. QED
      BY <1>4, <1>5, <3>1 DEF StoreInv, RowsInv
  <2>3. ASSUME i <= committed', raw'[i] = 0 PROVE sent[i].hour + RawDays * HoursPerDay <= now
    <3>1. i \notin block /\ raw[i] = 0
      BY <1>2, <1>4, <2>3
    <3>2. i <= committed
      BY <1>1, <1>3, <2>1, <2>3, <3>1
    <3>. QED
      BY <3>1, <3>2 DEF StoreInv, RowsInv
  <2>. QED
    BY <2>2, <2>3
<1>12. ViewInv'
  <2>1. \A v \in Views : Filled(v)' = Filled(v) /\ (Filled(v) => v \in attached)
    BY DEF Filled, StoreInv, TodoInv
  <2>2. \A v \in Views, i \in Places : Selects(v, i)' = Selects(v, i)
    BY DEF Selects
  <2>. SUFFICES ASSUME NEW v \in Views, NEW i \in Places
                PROVE  IF Filled(v)
                       THEN /\ i <= committed' /\ raw'[i] > 0 /\ Selects(v, i) => views'[v][i] > 0
                            /\ i \notin doubled'[v] =>
                                 raw'[i] <= 1 /\ (i <= committed' /\ raw'[i] > 0 /\ Selects(v, i) => views'[v][i] = 1)
                       ELSE i \notin doubled'[v] => views'[v][i] = 0
    BY <1>2, <2>1, <2>2 DEF ViewInv
  <2>3. /\ i \in Nat /\ raw[i] \in Nat /\ views[v][i] \in Nat
        /\ i > written => raw[i] = 0 /\ views[v][i] = 0
    BY <1>2 DEF StoreInv, RowsInv
  <2>4. IF Filled(v)
        THEN /\ i <= committed /\ raw[i] > 0 /\ Selects(v, i) => views[v][i] > 0
             /\ i \notin doubled[v] =>
                  raw[i] <= 1 /\ (i <= committed /\ raw[i] > 0 /\ Selects(v, i) => views[v][i] = 1)
        ELSE i \notin doubled[v] => views[v][i] = 0
    BY DEF StoreInv, ViewInv
  <2>5. CASE i \notin block
    <3>1. raw'[i] = raw[i] /\ views'[v][i] = views[v][i] /\ (i \in doubled'[v] <=> i \in doubled[v])
      BY <1>4, <1>5, <1>6, <2>5
    <3>2. i <= committed' => i <= committed
      BY <1>1, <1>3, <2>3, <2>5
    <3>. QED
      BY <2>4, <3>1, <3>2
  <2>6. CASE i \in block
    <3>1. raw'[i] = raw[i] + 1 /\ (i \notin doubled'[v] => i > written /\ (v \notin attached \/ Filled(v)))
      BY <1>3, <1>4, <1>6, <2>3, <2>6
    <3>2. committed < i
      BY <1>1, <2>6
    <3>3. i <= committed' => firing = attached
      BY <1>3, <2>3, <3>2
    <3>4. CASE Filled(v)
      <4>1. i <= committed' /\ Selects(v, i) => views'[v][i] = views[v][i] + 1
        BY <1>5, <2>1, <2>6, <3>3, <3>4
      <4>. QED
        BY <2>3, <3>1, <3>4, <4>1
    <3>5. CASE ~Filled(v)
      <4>1. i \notin doubled'[v] => v \notin firing /\ views[v][i] = 0
        BY <2>3, <3>1, <3>5
      <4>. QED
        BY <1>5, <3>5, <4>1
    <3>. QED
      BY <3>4, <3>5
  <2>. QED
    BY <2>5, <2>6
<1>. QED
  BY <1>9, <1>10, <1>11, <1>12 DEF StoreInv

LEMMA IngestKeeps == ASSUME StoreInv, IngestBlock \/ IngestUncommitted PROVE StoreInv'
<1>1. CASE IngestBlock
  <2>1. PICK block \in Blocks : Insert(block, attached) /\ committed' = Max(block)
    BY <1>1 DEF IngestBlock
  <2>2. UNCHANGED <<now, sent, attached, todo>>
    BY <1>1 DEF IngestBlock
  <2>. QED
    BY <2>1, <2>2, InsertKeeps
<1>2. CASE IngestUncommitted
  <2>1. PICK block \in Blocks, firing \in SUBSET attached : Insert(block, firing)
    BY <1>2 DEF IngestUncommitted
  <2>2. UNCHANGED <<now, sent, committed, attached, todo>>
    BY <1>2 DEF IngestUncommitted
  <2>. QED
    BY <2>1, <2>2, InsertKeeps
<1>. QED
  BY <1>1, <1>2

LEMMA MergeDayKeeps == ASSUME StoreInv, MergeDay PROVE StoreInv'
<1>1. PICK d \in {DayOf(sent[i].hour) : i \in DOMAIN raw} :
        raw' = [i \in DOMAIN raw |->
          IF DayOf(sent[i].hour) # d \/ raw[i] = 0 THEN raw[i]
          ELSE IF sent[i].hour + RawDays * HoursPerDay <= now THEN 0 ELSE 1]
  BY DEF MergeDay
<1>2. /\ DOMAIN raw = Places /\ Places' = Places /\ Places \subseteq Nat
      /\ \A i \in Places : raw[i] \in Nat
  BY PlacesAre DEF StoreInv, MergeDay, Places
<1>3. \A i \in Places :
        \/ raw'[i] = raw[i]
        \/ raw[i] > 0 /\ raw'[i] = 1
        \/ raw[i] > 0 /\ raw'[i] = 0 /\ sent[i].hour + RawDays * HoursPerDay <= now
  BY <1>1, <1>2
<1>4. raw' \in [Places -> Nat]
  BY <1>1, <1>2, <1>3
<1>5. StoreTypes'
  BY <1>2, <1>4 DEF StoreInv, StoreTypes, MergeDay
<1>6. TodoInv'
  BY DEF StoreInv, TodoInv, Filled, MergeDay
<1>7. RowsInv'
  <2>. SUFFICES ASSUME NEW i \in Places
                PROVE  /\ i > written => raw'[i] = 0 /\ \A v \in Views : views[v][i] = 0
                       /\ i <= committed /\ raw'[i] = 0 => sent[i].hour + RawDays * HoursPerDay <= now
    BY <1>2 DEF RowsInv, MergeDay
  <2>1. /\ i > written => raw[i] = 0 /\ \A v \in Views : views[v][i] = 0
        /\ i <= committed /\ raw[i] = 0 => sent[i].hour + RawDays * HoursPerDay <= now
    BY DEF StoreInv, RowsInv
  <2>. QED
    BY <1>2, <1>3, <2>1
<1>8. ViewInv'
  <2>1. /\ \A v \in Views : Filled(v)' = Filled(v) /\ \A i \in Places : Selects(v, i)' = Selects(v, i)
        /\ UNCHANGED <<committed, doubled, views>>
    BY DEF Filled, Selects, MergeDay
  <2>. SUFFICES ASSUME NEW v \in Views, NEW i \in Places
                PROVE  IF Filled(v)
                       THEN /\ i <= committed /\ raw'[i] > 0 /\ Selects(v, i) => views[v][i] > 0
                            /\ i \notin doubled[v] =>
                                 raw'[i] <= 1 /\ (i <= committed /\ raw'[i] > 0 /\ Selects(v, i) => views[v][i] = 1)
                       ELSE i \notin doubled[v] => views[v][i] = 0
    BY <1>2, <2>1 DEF ViewInv
  <2>2. IF Filled(v)
        THEN /\ i <= committed /\ raw[i] > 0 /\ Selects(v, i) => views[v][i] > 0
             /\ i \notin doubled[v] =>
                  raw[i] <= 1 /\ (i <= committed /\ raw[i] > 0 /\ Selects(v, i) => views[v][i] = 1)
        ELSE i \notin doubled[v] => views[v][i] = 0
    BY DEF StoreInv, ViewInv
  <2>3. raw'[i] \in Nat /\ raw[i] \in Nat /\ (raw'[i] > 0 => raw[i] > 0) /\ (raw[i] <= 1 => raw'[i] <= 1)
    BY <1>2, <1>3
  <2>. QED
    BY <2>2, <2>3
<1>. QED
  BY <1>5, <1>6, <1>7, <1>8 DEF StoreInv

\* The views left to fill, and the first of them.
LEMMA TodoFacts ==
  ASSUME TodoInv, todo # << >>
  PROVE  /\ Head(todo) \in Views /\ Head(todo) \in Range(todo)
         /\ \A v : v \in Range(Tail(todo)) <=> v \in Range(todo) /\ v # Head(todo)
         /\ Tail(todo) \in {<< >>, <<"platform_daily">>, <<"agent_hourly", "platform_daily">>}
<1>. DEFINE a == "conversation_daily"
            b == "agent_hourly"
            c == "platform_daily"
<1>0. \A s : Range(s) = {s[i] : i \in DOMAIN s}
  BY DEF Range
<1>1. CASE todo = <<c>>
  <2>1. Head(todo) = c /\ Tail(todo) = << >> /\ Range(todo) = {c} /\ Range(<< >>) = {}
    BY <1>0, <1>1
  <2>. QED
    BY <2>1 DEF Views
<1>2. CASE todo = <<b, c>>
  <2>1. Head(todo) = b /\ Tail(todo) = <<c>>
    BY <1>2
  <2>2. Range(todo) = {b, c} /\ Range(<<c>>) = {c}
    BY <1>0, <1>2
  <2>. QED
    BY <2>1, <2>2 DEF Views
<1>3. CASE todo = <<a, b, c>>
  <2>1. Head(todo) = a /\ Tail(todo) = <<b, c>>
    BY <1>3
  <2>2. Range(todo) = {a, b, c} /\ Range(<<b, c>>) = {b, c}
    BY <1>0, <1>3
  <2>. QED
    BY <2>1, <2>2 DEF Views
<1>. QED
  BY <1>1, <1>2, <1>3 DEF TodoInv

LEMMA DropKeeps == ASSUME StoreInv, DropViews PROVE StoreInv'
<1>1. todo' = <<"conversation_daily", "agent_hourly", "platform_daily">>
  BY DEF DropViews
<1>2. \A v \in Views : ~Filled(v)'
  BY <1>1 DEF Filled, Range, Views
<1>3. DOMAIN sent = Places /\ Places' = Places
  BY PlacesAre DEF StoreInv, DropViews, Places
<1>4. \A v \in Views, i \in Places : views'[v][i] = 0
  BY <1>3 DEF DropViews
<1>5. StoreTypes'
  BY <1>3 DEF StoreInv, StoreTypes, DropViews
<1>6. TodoInv'
  BY <1>1, <1>2 DEF TodoInv
<1>7. RowsInv'
  BY <1>3, <1>4 DEF StoreInv, RowsInv, DropViews
<1>8. ViewInv'
  BY <1>2, <1>3, <1>4 DEF ViewInv
<1>. QED
  BY <1>5, <1>6, <1>7, <1>8 DEF StoreInv

LEMMA CreateKeeps == ASSUME StoreInv, CreateView PROVE StoreInv'
<1>1. Head(todo) \in Views
  BY TodoFacts DEF StoreInv, CreateView
<1>2. attached' = attached \cup {Head(todo)}
  BY DEF CreateView
<1>3. UNCHANGED <<now, sent, committed, raw, views, todo, written, doubled, Places>>
  BY DEF CreateView, Places
<1>4. \A v \in Views : Filled(v)' = Filled(v) /\ \A i \in Places : Selects(v, i)' = Selects(v, i)
  BY <1>3 DEF Filled, Selects
<1>5. StoreTypes'
  BY <1>1, <1>2, <1>3 DEF StoreInv, StoreTypes
<1>6. TodoInv'
  BY <1>2, <1>3, <1>4 DEF StoreInv, TodoInv
<1>7. RowsInv'
  BY <1>3 DEF StoreInv, RowsInv
<1>8. ViewInv'
  BY <1>3, <1>4 DEF StoreInv, ViewInv
<1>. QED
  BY <1>5, <1>6, <1>7, <1>8 DEF StoreInv

LEMMA BackfillKeeps == ASSUME StoreInv, Backfill PROVE StoreInv'
<1>. DEFINE u == Head(todo)
<1>1. /\ todo # << >> /\ u \in attached /\ todo' = Tail(todo)
      /\ views' = [views EXCEPT ![u] = [i \in DOMAIN sent |-> @[i] + IF Selects(u, i) THEN raw[i] ELSE 0]]
      /\ doubled' = [doubled EXCEPT ![u] = @ \cup {i \in DOMAIN raw : raw[i] > 1}]
      /\ UNCHANGED <<now, sent, committed, raw, attached, written>>
  BY DEF Backfill
<1>2. /\ u \in Views /\ u \in Range(todo)
      /\ \A v : v \in Range(todo') <=> v \in Range(todo) /\ v # u
      /\ todo' \in {<< >>, <<"platform_daily">>, <<"agent_hourly", "platform_daily">>}
  BY <1>1, TodoFacts DEF StoreInv
<1>3. /\ DOMAIN sent = Places /\ DOMAIN raw = Places /\ Places' = Places /\ Places \subseteq Nat
      /\ \A i \in Places : raw[i] \in Nat /\ \A v \in Views : views[v][i] \in Nat
  BY <1>1, PlacesAre DEF StoreInv, Places
<1>. HIDE DEF u
<1>4. \A v \in Views : Filled(v)' <=> Filled(v) \/ v = u
  BY <1>2 DEF Filled
<1>5. ~Filled(u)
  BY <1>2 DEF Filled
<1>6. views \in [Views -> [Places -> Nat]] /\ doubled \in [Views -> SUBSET Nat]
  BY DEF StoreInv, StoreTypes
<1>7. \A i \in Places : views'[u][i] = IF Selects(u, i) THEN views[u][i] + raw[i] ELSE views[u][i]
  BY <1>1, <1>2, <1>3, <1>6
<1>8. \A v \in Views : v # u => views'[v] = views[v] /\ doubled'[v] = doubled[v]
  BY <1>1, <1>6
<1>9. \A i \in Places : i \in doubled'[u] <=> i \in doubled[u] \/ raw[i] > 1
  BY <1>1, <1>2, <1>3, <1>6
<1>10. StoreTypes'
  <2>1. \A i \in Places : views'[u][i] \in Nat
    <3>. SUFFICES ASSUME NEW i \in Places PROVE views'[u][i] \in Nat
      OBVIOUS
    <3>1. raw[i] \in Nat /\ views[u][i] \in Nat
      BY <1>2, <1>3
    <3>. QED
      BY <1>7, <3>1
  <2>2. views'[u] \in [Places -> Nat]
    BY <1>1, <1>2, <1>3, <1>6, <2>1
  <2>3. views' \in [Views -> [Places -> Nat]]
    BY <1>1, <1>6, <1>8, <2>2
  <2>4. doubled' \in [Views -> SUBSET Nat]
    BY <1>1, <1>3, <1>6
  <2>. QED
    BY <1>1, <1>3, <2>3, <2>4 DEF StoreInv, StoreTypes
<1>11. TodoInv'
  BY <1>1, <1>2, <1>4 DEF StoreInv, TodoInv
<1>12. RowsInv'
  <2>1. \A i \in Places : raw[i] = 0 => \A v \in Views : views'[v][i] = views[v][i]
    <3>. SUFFICES ASSUME NEW i \in Places, raw[i] = 0, NEW v \in Views
                  PROVE  views'[v][i] = views[v][i]
      OBVIOUS
    <3>1. views[u][i] \in Nat
      BY <1>2, <1>3
    <3>. QED
      BY <1>7, <1>8, <3>1
  <2>. QED
    BY <1>1, <1>3, <2>1 DEF StoreInv, RowsInv
<1>13. ViewInv'
  <2>. SUFFICES ASSUME NEW v \in Views, NEW i \in Places
                PROVE  IF Filled(v) \/ v = u
                       THEN /\ i <= committed /\ raw[i] > 0 /\ Selects(v, i) => views'[v][i] > 0
                            /\ i \notin doubled'[v] =>
                                 raw[i] <= 1 /\ (i <= committed /\ raw[i] > 0 /\ Selects(v, i) => views'[v][i] = 1)
                       ELSE i \notin doubled'[v] => views'[v][i] = 0
    <3>1. \A v \in Views, i \in Places : Selects(v, i)' = Selects(v, i)
      BY <1>1 DEF Selects
    <3>. QED
      BY <1>1, <1>3, <1>4, <3>1 DEF ViewInv
  <2>1. IF Filled(v)
        THEN /\ i <= committed /\ raw[i] > 0 /\ Selects(v, i) => views[v][i] > 0
             /\ i \notin doubled[v] =>
                  raw[i] <= 1 /\ (i <= committed /\ raw[i] > 0 /\ Selects(v, i) => views[v][i] = 1)
        ELSE i \notin doubled[v] => views[v][i] = 0
    BY DEF StoreInv, ViewInv
  <2>2. CASE v # u
    <3>1. views'[v][i] = views[v][i] /\ doubled'[v] = doubled[v]
      BY <1>8, <2>2
    <3>. QED
      BY <2>1, <2>2, <3>1
  <2>3. CASE v = u
    <3>1. raw[i] \in Nat /\ views[u][i] \in Nat /\ (i \notin doubled[u] => views[u][i] = 0)
      BY <1>2, <1>3, <1>5, <2>1, <2>3
    <3>2. /\ Selects(u, i) => views'[u][i] = views[u][i] + raw[i]
          /\ i \notin doubled'[u] => i \notin doubled[u] /\ ~(raw[i] > 1)
      BY <1>7, <1>9
    <3>3. Selects(u, i) /\ raw[i] > 0 => views'[u][i] > 0
      BY <3>1, <3>2
    <3>4. i \notin doubled'[u] =>
            raw[i] <= 1 /\ (raw[i] > 0 /\ Selects(u, i) => views'[u][i] = 1)
      BY <3>1, <3>2
    <3>. QED
      BY <2>3, <3>3, <3>4
  <2>. QED
    BY <2>2, <2>3
<1>. QED
  BY <1>10, <1>11, <1>12, <1>13 DEF StoreInv

LEMMA StoreKeeps == StoreInv /\ [StoreNext]_storeVars => StoreInv'
<1>. SUFFICES ASSUME StoreInv, [StoreNext]_storeVars PROVE StoreInv'
  OBVIOUS
<1>1. CASE HourPasses
  BY <1>1, HourKeeps
<1>2. ASSUME NEW c \in Conversations, Produce(c) PROVE StoreInv'
  BY <1>2, ProduceKeeps
<1>3. CASE IngestBlock \/ IngestUncommitted
  BY <1>3, IngestKeeps
<1>4. CASE MergeDay
  BY <1>4, MergeDayKeeps
<1>5. CASE DropViews
  BY <1>5, DropKeeps
<1>6. CASE CreateView
  BY <1>6, CreateKeeps
<1>7. CASE Backfill
  BY <1>7, BackfillKeeps
<1>8. CASE UNCHANGED storeVars
  BY <1>8 DEF StoreInv, StoreTypes, TodoInv, RowsInv, ViewInv, Places, Filled, Selects, storeVars
<1>. QED
  BY <1>1, <1>2, <1>3, <1>4, <1>5, <1>6, <1>7, <1>8 DEF StoreNext

-----------------------------------------------------------------------------
(* What the answers show of a bag of rows                                  *)

OnDay(bag, S, d) == {i \in S : bag[i] > 0 /\ DayOf(sent[i].hour) = d}
AtHour(bag, S, h) ==
  {i \in S : bag[i] > 0 /\ sent[i].kind = "agent_response" /\ sent[i].hour = h}

Columns == {"events", "conversations", "resolutions", "escalations", "agent_responses"}
InColumn(c, S) ==
  IF c = "events" THEN S
  ELSE IF c = "conversations" THEN Of("conversation_started", S)
  ELSE IF c = "resolutions" THEN Of("resolution", S)
  ELSE IF c = "escalations" THEN Of("escalation", S)
  ELSE Of("agent_response", S)

LEMMA DayAnswer ==
  ASSUME NEW bag, NEW S
  PROVE  /\ \A d : d \in DOMAIN ByDay(bag, S) <=> \E i \in S : bag[i] > 0 /\ DayOf(sent[i].hour) = d
         /\ \A d \in DOMAIN ByDay(bag, S) :
              /\ DOMAIN ByDay(bag, S)[d] = Columns
              /\ \A c \in Columns : ByDay(bag, S)[d][c] = Sum(bag, InColumn(c, OnDay(bag, S, d)))
         /\ ByDay(bag, S) = [d \in DOMAIN ByDay(bag, S) |->
                               [c \in Columns |-> Sum(bag, InColumn(c, OnDay(bag, S, d)))]]
<1>. DEFINE rows == {i \in S : bag[i] > 0}
            D == {DayOf(sent[i].hour) : i \in rows}
            record(d) == [events |-> Sum(bag, OnDay(bag, S, d)),
                          conversations |-> Sum(bag, Of("conversation_started", OnDay(bag, S, d))),
                          resolutions |-> Sum(bag, Of("resolution", OnDay(bag, S, d))),
                          escalations |-> Sum(bag, Of("escalation", OnDay(bag, S, d))),
                          agent_responses |-> Sum(bag, Of("agent_response", OnDay(bag, S, d)))]
<1>1. \A d : {i \in rows : DayOf(sent[i].hour) = d} = OnDay(bag, S, d)
  BY DEF OnDay
<1>2. ByDay(bag, S) = [d \in D |-> record(d)]
  BY <1>1 DEF ByDay
<1>3. \A d : d \in D <=> \E i \in S : bag[i] > 0 /\ DayOf(sent[i].hour) = d
  OBVIOUS
<1>4. \A d : record(d) = [c \in Columns |-> Sum(bag, InColumn(c, OnDay(bag, S, d)))]
  <2>. SUFFICES ASSUME NEW d
                PROVE  record(d) = [c \in Columns |-> Sum(bag, InColumn(c, OnDay(bag, S, d)))]
    OBVIOUS
  <2>. DEFINE X == OnDay(bag, S, d)
  <2>. HIDE DEF X
  <2>. DEFINE r == [events |-> Sum(bag, X), conversations |-> Sum(bag, Of("conversation_started", X)),
                    resolutions |-> Sum(bag, Of("resolution", X)),
                    escalations |-> Sum(bag, Of("escalation", X)),
                    agent_responses |-> Sum(bag, Of("agent_response", X))]
  <2>1. DOMAIN r = Columns
    BY DEF Columns
  <2>2. \A c \in Columns : r[c] = Sum(bag, InColumn(c, X))
    BY DEF Columns, InColumn
  <2>3. r = [c \in DOMAIN r |-> r[c]]
    OBVIOUS
  <2>4. r = [c \in Columns |-> Sum(bag, InColumn(c, X))]
    <3>. HIDE DEF r
    <3>. QED
      BY <2>1, <2>2, <2>3
  <2>. QED
    BY <2>4 DEF X
<1>. HIDE DEF D, record
<1>5. ByDay(bag, S) = [d \in D |-> [c \in Columns |-> Sum(bag, InColumn(c, OnDay(bag, S, d)))]]
  BY <1>2, <1>4
<1>. QED
  BY <1>3, <1>5

LEMMA HourAnswer ==
  ASSUME NEW bag, NEW S
  PROVE  /\ \A h : h \in DOMAIN ByHour(bag, S) <=> \E i \in S : i \in AtHour(bag, S, h)
         /\ \A h \in DOMAIN ByHour(bag, S) :
              ByHour(bag, S)[h] = [responses |-> Sum(bag, AtHour(bag, S, h)),
                                   slow_responses |-> Sum(bag, {i \in AtHour(bag, S, h) : sent[i].slow})]
         /\ ByHour(bag, S) = [h \in DOMAIN ByHour(bag, S) |->
              [responses |-> Sum(bag, AtHour(bag, S, h)),
               slow_responses |-> Sum(bag, {i \in AtHour(bag, S, h) : sent[i].slow})]]
<1>. DEFINE rows == {i \in S : bag[i] > 0 /\ sent[i].kind = "agent_response"}
            D == {sent[i].hour : i \in rows}
<1>1. \A h : {i \in rows : sent[i].hour = h} = AtHour(bag, S, h)
  BY DEF AtHour
<1>2. ByHour(bag, S) = [h \in D |->
              [responses |-> Sum(bag, AtHour(bag, S, h)),
               slow_responses |-> Sum(bag, {i \in AtHour(bag, S, h) : sent[i].slow})]]
  BY <1>1 DEF ByHour
<1>3. \A h : h \in D <=> \E i \in S : i \in AtHour(bag, S, h)
  BY DEF AtHour
<1>. HIDE DEF D
<1>. QED
  BY <1>2, <1>3

\* Finitely many rows are of finitely many days or hours.
LEMMA FiniteGroups ==
  ASSUME NEW T, IsFiniteSet(T), NEW group, NEW D, \A d : d \in D <=> \E i \in T : group[i] = d
  PROVE  IsFiniteSet(D)
<1>. DEFINE g == [i \in T |-> group[i]]
<1>1. g \in Surjection(T, D)
  BY DEF Surjection
<1>. HIDE DEF g
<1>. QED
  BY <1>1, FS_Surjection

\* Days that hold more rows have no smaller counts.
LEMMA DaysGrow ==
  ASSUME NEW T, IsFiniteSet(T), NEW S \in SUBSET T, NEW f, NEW g,
         \A i \in T : g[i] \in Nat, \A i \in S : f[i] \in Nat /\ f[i] <= g[i]
  PROVE  \A d \in DOMAIN ByDay(f, S) :
           /\ d \in DOMAIN ByDay(g, T)
           /\ \A c \in DOMAIN ByDay(f, S)[d] : ByDay(g, T)[d][c] >= ByDay(f, S)[d][c]
<1>. SUFFICES ASSUME NEW d \in DOMAIN ByDay(f, S)
              PROVE  /\ d \in DOMAIN ByDay(g, T)
                     /\ \A c \in DOMAIN ByDay(f, S)[d] : ByDay(g, T)[d][c] >= ByDay(f, S)[d][c]
  OBVIOUS
<1>1. \A i \in S : f[i] > 0 => g[i] > 0
  OBVIOUS
<1>2. d \in DOMAIN ByDay(g, T)
  <2>1. \E i \in S : f[i] > 0 /\ DayOf(sent[i].hour) = d
    BY DayAnswer
  <2>2. \E i \in T : g[i] > 0 /\ DayOf(sent[i].hour) = d
    BY <1>1, <2>1
  <2>. QED
    BY <2>2, DayAnswer
<1>3. ASSUME NEW c \in Columns PROVE ByDay(g, T)[d][c] >= ByDay(f, S)[d][c]
  <2>. DEFINE F == InColumn(c, OnDay(f, S, d))
              G == InColumn(c, OnDay(g, T, d))
  <2>0. OnDay(f, S, d) \subseteq S /\ OnDay(g, T, d) \subseteq T /\ OnDay(f, S, d) \subseteq OnDay(g, T, d)
    BY <1>1 DEF OnDay
  <2>1. F \in SUBSET S /\ G \in SUBSET T /\ F \in SUBSET G
    BY <2>0 DEF InColumn, Of
  <2>2. ByDay(f, S)[d][c] = Sum(f, F) /\ ByDay(g, T)[d][c] = Sum(g, G)
    BY <1>2, DayAnswer
  <2>. HIDE DEF F, G
  <2>3. IsFiniteSet(G) /\ IsFiniteSet(F)
    <3>1. IsFiniteSet(G)
      BY <2>1, FS_Subset
    <3>. QED
      BY <2>1, <3>1, FS_Subset
  <2>4. (\A i \in G : g[i] \in Nat) /\ (\A i \in F : f[i] \in Nat /\ f[i] <= g[i])
    BY <2>1
  <2>5. Sum(f, F) <= Sum(g, G)
    BY <2>1, <2>3, <2>4, SumGrows
  <2>6. Sum(f, F) \in Nat /\ Sum(g, G) \in Nat
    BY <2>3, <2>4, SumFacts
  <2>. QED
    BY <2>2, <2>5, <2>6
<1>. QED
  BY <1>2, <1>3, DayAnswer

LEMMA HoursGrow ==
  ASSUME NEW S, IsFiniteSet(S), NEW f, NEW g,
         \A i \in S : g[i] \in Nat,
         \A i \in S : sent[i].kind = "agent_response" => f[i] \in Nat /\ f[i] <= g[i]
  PROVE  \A h \in DOMAIN ByHour(f, S) :
           /\ h \in DOMAIN ByHour(g, S)
           /\ \A c \in DOMAIN ByHour(f, S)[h] : ByHour(g, S)[h][c] >= ByHour(f, S)[h][c]
<1>. SUFFICES ASSUME NEW h \in DOMAIN ByHour(f, S)
              PROVE  /\ h \in DOMAIN ByHour(g, S)
                     /\ \A c \in DOMAIN ByHour(f, S)[h] : ByHour(g, S)[h][c] >= ByHour(f, S)[h][c]
  OBVIOUS
<1>. DEFINE F == AtHour(f, S, h)
            G == AtHour(g, S, h)
            Fs == {i \in F : sent[i].slow}
            Gs == {i \in G : sent[i].slow}
<1>1. F \in SUBSET G /\ G \in SUBSET S /\ \A i \in F : f[i] \in Nat /\ f[i] <= g[i]
  BY DEF AtHour
<1>2. Fs \in SUBSET Gs /\ Gs \in SUBSET S /\ \A i \in Fs : f[i] \in Nat /\ f[i] <= g[i]
  BY <1>1
<1>3. h \in DOMAIN ByHour(g, S)
  <2>1. \E i \in S : i \in F
    BY HourAnswer
  <2>. QED
    BY <1>1, <2>1, HourAnswer
<1>4. /\ ByHour(f, S)[h] = [responses |-> Sum(f, F), slow_responses |-> Sum(f, Fs)]
      /\ ByHour(g, S)[h] = [responses |-> Sum(g, G), slow_responses |-> Sum(g, Gs)]
  BY <1>3, HourAnswer
<1>. HIDE DEF F, G, Fs, Gs
<1>5. IsFiniteSet(G) /\ IsFiniteSet(Gs)
  BY <1>1, <1>2, FS_Subset
<1>6. IsFiniteSet(F) /\ IsFiniteSet(Fs)
  BY <1>1, <1>2, <1>5, FS_Subset
<1>7. Sum(f, F) <= Sum(g, G) /\ Sum(f, F) \in Nat /\ Sum(g, G) \in Nat
  <2>1. \A i \in G : g[i] \in Nat
    BY <1>1
  <2>. QED
    BY <1>1, <1>5, <1>6, <2>1, SumGrows, SumFacts
<1>8. Sum(f, Fs) <= Sum(g, Gs) /\ Sum(f, Fs) \in Nat /\ Sum(g, Gs) \in Nat
  <2>1. \A i \in Gs : g[i] \in Nat
    BY <1>2
  <2>. QED
    BY <1>2, <1>5, <1>6, <2>1, SumGrows, SumFacts
<1>. QED
  BY <1>3, <1>4, <1>7, <1>8

\* Rows that are alike answer alike.
LEMMA DaysSame ==
  ASSUME NEW S, NEW f, NEW g, \A i \in S : f[i] = g[i]
  PROVE  ByDay(f, S) = ByDay(g, S)
<1>1. \A d : OnDay(f, S, d) = OnDay(g, S, d) /\ OnDay(f, S, d) \subseteq S
  BY DEF OnDay
<1>2. DOMAIN ByDay(f, S) = DOMAIN ByDay(g, S)
  <2>1. \A d : d \in DOMAIN ByDay(f, S) <=> d \in DOMAIN ByDay(g, S)
    BY DayAnswer
  <2>2. ByDay(f, S) = [d \in DOMAIN ByDay(f, S) |-> ByDay(f, S)[d]]
    BY DEF ByDay
  <2>. QED
    BY <2>1
<1>3. \A d, c : Sum(f, InColumn(c, OnDay(f, S, d))) = Sum(g, InColumn(c, OnDay(g, S, d)))
  <2>. SUFFICES ASSUME NEW d, NEW c
                PROVE  Sum(f, InColumn(c, OnDay(f, S, d))) = Sum(g, InColumn(c, OnDay(g, S, d)))
    OBVIOUS
  <2>. DEFINE X == InColumn(c, OnDay(f, S, d))
  <2>1. \A i \in X : f[i] = g[i]
    BY <1>1 DEF InColumn, Of
  <2>. HIDE DEF X
  <2>2. Sum(f, X) = Sum(g, X)
    BY <2>1, SumSame
  <2>. QED
    BY <1>1, <2>2 DEF X
<1>. DEFINE A == [d \in DOMAIN ByDay(f, S) |-> [c \in Columns |-> Sum(f, InColumn(c, OnDay(f, S, d)))]]
            B == [d \in DOMAIN ByDay(g, S) |-> [c \in Columns |-> Sum(g, InColumn(c, OnDay(g, S, d)))]]
<1>4. A = B
  BY <1>2, <1>3
<1>5. ByDay(f, S) = A /\ ByDay(g, S) = B
  BY DayAnswer
<1>. QED
  BY <1>4, <1>5

LEMMA HoursSame ==
  ASSUME NEW S, NEW f, NEW g, \A i \in S : sent[i].kind = "agent_response" => f[i] = g[i]
  PROVE  ByHour(f, S) = ByHour(g, S)
<1>1. \A h : /\ AtHour(f, S, h) = AtHour(g, S, h)
             /\ \A i \in AtHour(f, S, h) : f[i] = g[i]
  BY DEF AtHour
<1>2. DOMAIN ByHour(f, S) = DOMAIN ByHour(g, S)
  <2>1. \A h : h \in DOMAIN ByHour(f, S) <=> h \in DOMAIN ByHour(g, S)
    BY <1>1, HourAnswer
  <2>. QED
    BY <2>1
<1>3. \A h : /\ Sum(f, AtHour(f, S, h)) = Sum(g, AtHour(g, S, h))
             /\ Sum(f, {i \in AtHour(f, S, h) : sent[i].slow}) = Sum(g, {i \in AtHour(g, S, h) : sent[i].slow})
  <2>. SUFFICES ASSUME NEW h
                PROVE  /\ Sum(f, AtHour(f, S, h)) = Sum(g, AtHour(g, S, h))
                       /\ Sum(f, {i \in AtHour(f, S, h) : sent[i].slow})
                            = Sum(g, {i \in AtHour(g, S, h) : sent[i].slow})
    OBVIOUS
  <2>. DEFINE X == AtHour(f, S, h)
              Y == {i \in X : sent[i].slow}
  <2>1. X = AtHour(g, S, h) /\ (\A i \in X : f[i] = g[i]) /\ \A i \in Y : f[i] = g[i]
    BY <1>1
  <2>2. Sum(f, X) = Sum(g, X) /\ Sum(f, Y) = Sum(g, Y)
    <3>. HIDE DEF X, Y
    <3>. QED
      BY <2>1, SumSame
  <2>. QED
    BY <2>1, <2>2
<1>. DEFINE A == [h \in DOMAIN ByHour(f, S) |->
                    [responses |-> Sum(f, AtHour(f, S, h)),
                     slow_responses |-> Sum(f, {i \in AtHour(f, S, h) : sent[i].slow})]]
            B == [h \in DOMAIN ByHour(g, S) |->
                    [responses |-> Sum(g, AtHour(g, S, h)),
                     slow_responses |-> Sum(g, {i \in AtHour(g, S, h) : sent[i].slow})]]
<1>4. A = B
  BY <1>2, <1>3
<1>5. ByHour(f, S) = A /\ ByHour(g, S) = B
  BY HourAnswer
<1>. QED
  BY <1>4, <1>5


\* The counts of all days, or of all hours, are those of the rows.
LEMMA DayTotals ==
  ASSUME NEW S, IsFiniteSet(S), NEW f, \A i \in S : f[i] \in Nat
  PROVE  /\ Rows(ByDay(f, S), "agent_responses") = Sum(f, Of("agent_response", S))
         /\ IsFiniteSet(DOMAIN ByDay(f, S))
<1>. DEFINE rows == {i \in S : f[i] > 0}
            T == Of("agent_response", rows)
            D == DOMAIN ByDay(f, S)
            group == [i \in S |-> DayOf(sent[i].hour)]
            tally == [d \in D |-> ByDay(f, S)[d]["agent_responses"]]
<1>1. rows \in SUBSET S /\ T \in SUBSET S /\ T \in SUBSET Of("agent_response", S) /\ Of("agent_response", S) \in SUBSET S
  BY DEF Of
<1>2. IsFiniteSet(rows) /\ IsFiniteSet(T) /\ \A i \in T : f[i] \in Nat
  <2>. HIDE DEF rows, T
  <2>. QED
    BY <1>1, FS_Subset
<1>3. \A d : d \in D <=> \E i \in rows : group[i] = d
  BY DayAnswer
<1>4. \A i \in T : group[i] \in D
  <2>1. T \subseteq rows
    BY DEF Of
  <2>. QED
    BY <1>3, <2>1
<1>5. \A d \in D : tally[d] = Sum(f, InGroup(T, group, d))
  <2>. SUFFICES ASSUME NEW d \in D PROVE tally[d] = Sum(f, InGroup(T, group, d))
    OBVIOUS
  <2>1. tally[d] = Sum(f, InColumn("agent_responses", OnDay(f, S, d)))
    BY DayAnswer DEF Columns
  <2>2. InColumn("agent_responses", OnDay(f, S, d)) = InGroup(T, group, d)
    BY DEF InGroup, InColumn, OnDay, Of
  <2>. QED
    BY <2>1, <2>2
<1>6. Rows(ByDay(f, S), "agent_responses") = Sum(tally, D)
  BY DEF Rows
<1>7. \A i \in Of("agent_response", S) : f[i] \in Nat /\ (i \notin T => f[i] = 0)
  BY DEF Of
<1>. HIDE DEF rows, T, D, group, tally
<1>8. IsFiniteSet(D)
  BY <1>2, <1>3, FiniteGroups
<1>9. Sum(tally, D) = Sum(f, T)
  BY <1>2, <1>4, <1>5, <1>8, SumByGroups
<1>10. Sum(f, T) = Sum(f, Of("agent_response", S))
  BY <1>1, <1>7, SumOfSome
<1>. QED
  BY <1>6, <1>8, <1>9, <1>10 DEF D

LEMMA HourTotals ==
  ASSUME NEW S, IsFiniteSet(S), NEW f, \A i \in S : f[i] \in Nat
  PROVE  /\ Rows(ByHour(f, S), "responses") = Sum(f, Of("agent_response", S))
         /\ Rows(ByHour(f, S), "slow_responses")
              = Sum(f, {i \in Of("agent_response", S) : sent[i].slow})
<1>. DEFINE All == Of("agent_response", S)
            Late == {i \in All : sent[i].slow}
            T == {i \in All : f[i] > 0}
            U == {i \in Late : f[i] > 0}
            D == DOMAIN ByHour(f, S)
            group == [i \in S |-> sent[i].hour]
            tally == [h \in D |-> ByHour(f, S)[h]["responses"]]
            slows == [h \in D |-> ByHour(f, S)[h]["slow_responses"]]
<1>1. All \in SUBSET S /\ T \in SUBSET All /\ Late \in SUBSET All /\ U \in SUBSET Late /\ U \in SUBSET T
  BY DEF Of
<1>2. /\ \A i \in All : f[i] \in Nat /\ (i \notin T => f[i] = 0)
      /\ \A i \in Late : f[i] \in Nat /\ (i \notin U => f[i] = 0)
  BY <1>1
<1>3. \A h : h \in D <=> \E i \in T : group[i] = h
  BY HourAnswer DEF AtHour, Of
<1>4. \A h \in D : /\ tally[h] = Sum(f, InGroup(T, group, h))
                   /\ slows[h] = Sum(f, InGroup(U, group, h))
  <2>. SUFFICES ASSUME NEW h \in D
                PROVE  /\ tally[h] = Sum(f, InGroup(T, group, h))
                       /\ slows[h] = Sum(f, InGroup(U, group, h))
    OBVIOUS
  <2>1. /\ tally[h] = Sum(f, AtHour(f, S, h))
        /\ slows[h] = Sum(f, {i \in AtHour(f, S, h) : sent[i].slow})
    <3>1. ByHour(f, S)[h] = [responses |-> Sum(f, AtHour(f, S, h)),
                             slow_responses |-> Sum(f, {i \in AtHour(f, S, h) : sent[i].slow})]
      BY HourAnswer
    <3>. QED
      BY <3>1
  <2>2. /\ AtHour(f, S, h) = InGroup(T, group, h)
        /\ {i \in AtHour(f, S, h) : sent[i].slow} = InGroup(U, group, h)
    BY DEF InGroup, AtHour, Of
  <2>. QED
    BY <2>1, <2>2
<1>5. Rows(ByHour(f, S), "responses") = Sum(tally, D) /\ Rows(ByHour(f, S), "slow_responses") = Sum(slows, D)
  BY DEF Rows
<1>. HIDE DEF All, Late, T, U, D, group, tally, slows
<1>6. IsFiniteSet(T) /\ IsFiniteSet(U) /\ IsFiniteSet(D)
  <2>1. T \in SUBSET S /\ U \in SUBSET S
    BY <1>1
  <2>2. IsFiniteSet(T) /\ IsFiniteSet(U)
    BY <2>1, FS_Subset
  <2>. QED
    BY <1>3, <2>2, FiniteGroups
<1>7. \A i \in T : group[i] \in D /\ f[i] \in Nat
  BY <1>1, <1>2, <1>3
<1>8. \A i \in U : group[i] \in D /\ f[i] \in Nat
  BY <1>1, <1>7
<1>9. Sum(tally, D) = Sum(f, T)
  <2>1. \A h \in D : tally[h] = Sum(f, InGroup(T, group, h))
    BY <1>4
  <2>2. \A i \in T : f[i] \in Nat
    BY <1>7
  <2>3. \A i \in T : group[i] \in D
    BY <1>7
  <2>4. IsFiniteSet(T) /\ IsFiniteSet(D)
    BY <1>6
  <2>. QED
    BY <2>1, <2>2, <2>3, <2>4, SumByGroups
<1>10. Sum(slows, D) = Sum(f, U)
  <2>1. \A h \in D : slows[h] = Sum(f, InGroup(U, group, h))
    BY <1>4
  <2>2. \A i \in U : f[i] \in Nat
    BY <1>8
  <2>3. \A i \in U : group[i] \in D
    BY <1>8
  <2>4. IsFiniteSet(U) /\ IsFiniteSet(D)
    BY <1>6
  <2>. QED
    BY <2>1, <2>2, <2>3, <2>4, SumByGroups
<1>11. Sum(f, T) = Sum(f, All)
  BY <1>1, <1>2, SumOfSome
<1>12. Sum(f, U) = Sum(f, Late)
  BY <1>1, <1>2, SumOfSome
<1>. QED
  BY <1>5, <1>9, <1>10, <1>11, <1>12 DEF All, Late
-----------------------------------------------------------------------------
(* The windows                                                             *)

LEMMA HoursAndDays ==
  /\ HoursPerDay \in Nat \ {0}
  /\ \A d \in Int : d * HoursPerDay \in Int /\ DayOf(d * HoursPerDay) = d
  /\ \A d \in Int : d * HoursPerDay + HoursPerDay = (d + 1) * HoursPerDay
  /\ \A h \in Int : /\ DayOf(h) \in Int /\ DayOf(h) * HoursPerDay <= h
                    /\ h < (DayOf(h) + 1) * HoursPerDay
  /\ \A d, e \in Int : d <= e => d * HoursPerDay <= e * HoursPerDay
<1>1. HoursPerDay \in Nat \ {0}
  BY StoreAssumption
<1>. DEFINE H == HoursPerDay
<1>2. H \in Nat /\ H > 0
  BY <1>1
<1>. HIDE DEF H
<1>3. \A d \in Int : d * H \in Int /\ d * H + H = (d + 1) * H
  BY <1>2
<1>4. ASSUME NEW h \in Int PROVE h \div H \in Int /\ (h \div H) * H <= h /\ h < (h \div H) * H + H
  BY <1>2, Z3
<1>5. \A d, e \in Int : d <= e => d * H <= e * H
  BY <1>2
<1>6. ASSUME NEW d \in Int PROVE (d * H) \div H = d
  <2>. DEFINE q == (d * H) \div H
  <2>1. q \in Int /\ q * H <= d * H /\ d * H < q * H + H
    BY <1>3, <1>4
  <2>2. q * H + H = (q + 1) * H
    BY <1>3, <2>1
  <2>3. ~(q + 1 <= d)
    <3>1. q + 1 <= d => (q + 1) * H <= d * H
      BY <1>5, <2>1
    <3>2. (q + 1) * H \in Int /\ d * H \in Int
      BY <1>3, <2>1
    <3>. HIDE DEF q
    <3>. QED
      BY <2>1, <2>2, <3>1, <3>2
  <2>4. ~(d + 1 <= q)
    <3>1. d + 1 <= q => (d + 1) * H <= q * H
      BY <1>5, <2>1
    <3>2. (d + 1) * H = d * H + H /\ d * H \in Int /\ q * H \in Int
      BY <1>3, <2>1
    <3>. HIDE DEF q
    <3>. QED
      BY <1>2, <2>1, <3>1, <3>2
  <2>. HIDE DEF q
  <2>5. q = d
    BY <2>1, <2>3, <2>4
  <2>. QED
    BY <2>5 DEF q
<1>. QED
  BY <1>1, <1>3, <1>4, <1>5, <1>6 DEF H, DayOf

-----------------------------------------------------------------------------
(* What is answered                                                        *)

LEMMA RowsOfWindow ==
  ASSUME StoreInv, NEW accounts, NEW start, NEW end
  PROVE  /\ Stamped(accounts, start, end) \in SUBSET Places
         /\ IsFiniteSet(Stamped(accounts, start, end))
         /\ IsFiniteSet(Of("agent_response", Stamped(accounts, start, end)))
<1>. DEFINE S == Stamped(accounts, start, end)
            R == Of("agent_response", S)
<1>1. Len(sent) \in Nat /\ S \in SUBSET Places /\ R \in SUBSET S
  BY PlacesAre DEF StoreInv, Stamped, Of
<1>2. IsFiniteSet(Places)
  BY <1>1, FS_Interval DEF Places
<1>. HIDE DEF S, R
<1>3. IsFiniteSet(S)
  BY <1>1, <1>2, FS_Subset
<1>4. IsFiniteSet(R)
  BY <1>1, <1>3, FS_Subset
<1>. QED
  BY <1>1, <1>3, <1>4 DEF S, R

LEMMA ViewFacts ==
  ASSUME StoreInv, NEW v \in Views
  PROVE  /\ \A i \in Places : /\ views[v][i] \in Nat /\ raw[i] \in Nat
                              /\ Merged[i] \in Nat /\ Merged[i] <= raw[i]
                              /\ Filled(v) /\ Selects(v, i) => Merged[i] <= views[v][i]
         /\ \A S \in SUBSET Places : Filled(v) /\ Undisturbed(v, S) =>
              \A i \in S : /\ Selects(v, i) => views[v][i] = raw[i]
                           /\ raw[i] = Merged[i]
<1>1. /\ Places \subseteq Nat /\ DOMAIN sent = Places
      /\ \A i \in Places : raw[i] \in Nat /\ views[v][i] \in Nat
  BY PlacesAre DEF StoreInv
<1>2. \A i \in Places : Merged[i] = IF i <= committed /\ raw[i] > 0 THEN 1 ELSE 0
  BY <1>1 DEF Merged
<1>3. \A i \in Places : Merged[i] \in Nat /\ Merged[i] <= raw[i]
  BY <1>1, <1>2
<1>4. \A i \in Places : Filled(v) /\ Selects(v, i) => Merged[i] <= views[v][i]
  <2>. SUFFICES ASSUME NEW i \in Places, Filled(v), Selects(v, i) PROVE Merged[i] <= views[v][i]
    OBVIOUS
  <2>1. i <= committed /\ raw[i] > 0 => views[v][i] > 0
    BY DEF StoreInv, ViewInv
  <2>. QED
    BY <1>1, <1>2, <2>1
<1>5. ASSUME NEW S \in SUBSET Places, Filled(v), Undisturbed(v, S), NEW i \in S
      PROVE  (Selects(v, i) => views[v][i] = raw[i]) /\ raw[i] = Merged[i]
  <2>1. /\ i \notin doubled[v] =>
             raw[i] <= 1 /\ (i <= committed /\ raw[i] > 0 /\ Selects(v, i) => views[v][i] = 1)
        /\ i > written => raw[i] = 0 /\ views[v][i] = 0
    BY <1>5 DEF StoreInv, ViewInv, RowsInv
  <2>2. i <= written => i <= committed /\ raw[i] > 0 /\ i \notin doubled[v]
    BY <1>5 DEF Undisturbed
  <2>3. i \in Nat /\ written \in Nat /\ raw[i] \in Nat
    BY <1>1 DEF StoreInv, StoreTypes
  <2>4. CASE i <= written
    BY <1>2, <2>1, <2>2, <2>3, <2>4
  <2>5. CASE i > written
    BY <1>2, <2>1, <2>3, <2>5
  <2>. QED
    BY <2>3, <2>4, <2>5
<1>. QED
  BY <1>1, <1>3, <1>4, <1>5

LEMMA DaysFollow ==
  ASSUME StoreInv, NEW v \in Views, v # "agent_hourly", NEW S \in SUBSET Places, IsFiniteSet(S)
  PROVE  Follows(v, S, ByDay(views[v], S), ByDay(Merged, S), ByDay(raw, S))
<1>. SUFFICES ASSUME Filled(v)
              PROVE  /\ \A g \in DOMAIN ByDay(Merged, S) :
                          /\ g \in DOMAIN ByDay(views[v], S)
                          /\ \A c \in DOMAIN ByDay(Merged, S)[g] :
                               ByDay(views[v], S)[g][c] >= ByDay(Merged, S)[g][c]
                     /\ Undisturbed(v, S) => ByDay(views[v], S) = ByDay(raw, S)
  BY DEF Follows
<1>. DEFINE f == Merged
            g == views[v]
            r == raw
<1>1. \A i \in S : Selects(v, i)
  BY DEF Selects
<1>2. \A i \in S : g[i] \in Nat /\ f[i] \in Nat /\ f[i] <= g[i]
  BY <1>1, ViewFacts
<1>3. Undisturbed(v, S) => \A i \in S : g[i] = r[i]
  BY <1>1, ViewFacts
<1>. HIDE DEF f, g, r
<1>4. \A d \in DOMAIN ByDay(f, S) :
        d \in DOMAIN ByDay(g, S) /\ \A c \in DOMAIN ByDay(f, S)[d] : ByDay(g, S)[d][c] >= ByDay(f, S)[d][c]
  <2>1. S \in SUBSET S /\ (\A i \in S : g[i] \in Nat) /\ (\A i \in S : f[i] \in Nat /\ f[i] <= g[i])
    BY <1>2
  <2>. QED
    BY <2>1, DaysGrow
<1>5. Undisturbed(v, S) => ByDay(g, S) = ByDay(r, S)
  BY <1>3, DaysSame
<1>. QED
  BY <1>4, <1>5 DEF f, g, r

LEMMA HoursFollow ==
  ASSUME StoreInv, NEW S \in SUBSET Places, IsFiniteSet(S)
  PROVE  Follows("agent_hourly", S, ByHour(views["agent_hourly"], S), ByHour(Merged, S), ByHour(raw, S))
<1>. DEFINE v == "agent_hourly"
            f == Merged
            g == views[v]
            r == raw
<1>. SUFFICES ASSUME Filled(v)
              PROVE  /\ \A h \in DOMAIN ByHour(f, S) :
                          /\ h \in DOMAIN ByHour(g, S)
                          /\ \A c \in DOMAIN ByHour(f, S)[h] : ByHour(g, S)[h][c] >= ByHour(f, S)[h][c]
                     /\ Undisturbed(v, S) => ByHour(g, S) = ByHour(r, S)
  BY DEF Follows
<1>0. v \in Views
  BY DEF Views
<1>1. \A i \in S : sent[i].kind = "agent_response" => Selects(v, i)
  BY DEF Selects
<1>2. /\ \A i \in S : g[i] \in Nat
      /\ \A i \in S : sent[i].kind = "agent_response" => f[i] \in Nat /\ f[i] <= g[i]
  BY <1>0, <1>1, ViewFacts
<1>3. Undisturbed(v, S) => \A i \in S : sent[i].kind = "agent_response" => g[i] = r[i]
  BY <1>0, <1>1, ViewFacts
<1>. HIDE DEF v, f, g, r
<1>. QED
  BY <1>2, <1>3, HoursGrow, HoursSame

LEMMA ViewsFollow == StoreInv => ViewsFollowRaw
<1>. SUFFICES ASSUME StoreInv, NEW a \in Accounts, NEW d \in {DayOf(sent[i].hour) : i \in DOMAIN sent}
              PROVE  LET start == d * HoursPerDay
                         end == start + HoursPerDay
                         own == Stamped({a}, start, end)
                         all == Stamped(Accounts, start, end)
                     IN  /\ Follows("conversation_daily", own, Mv("conversation_daily", {a}, start, end),
                                    ByDay(Merged, own), Typed({a}, start, end))
                         /\ Follows("platform_daily", all, Platform(start, end),
                                    ByDay(Merged, all), Typed(Accounts, start, end))
                         /\ Follows("agent_hourly", own, ByHour(views["agent_hourly"], own),
                                    ByHour(Merged, own), ByHour(raw, own))
  BY DEF ViewsFollowRaw
<1>. DEFINE start == d * HoursPerDay
            end == start + HoursPerDay
            own == Stamped({a}, start, end)
            all == Stamped(Accounts, start, end)
<1>1. d \in Int
  BY PlacesAre, HoursAndDays DEF StoreInv
<1>2. start \in Int /\ DayOf(start) = d /\ end = (d + 1) * HoursPerDay /\ DayOf(end) = d + 1
  <2>1. d + 1 \in Int /\ start \in Int /\ DayOf(start) = d
    BY <1>1, HoursAndDays
  <2>2. end = (d + 1) * HoursPerDay
    BY <1>1, HoursAndDays
  <2>3. DayOf((d + 1) * HoursPerDay) = d + 1
    BY <2>1, HoursAndDays
  <2>. HIDE DEF start, end
  <2>. QED
    BY <2>1, <2>2, <2>3
<1>3. DayOf(start) * HoursPerDay = start /\ DayOf(end) * HoursPerDay = end
  BY <1>2
<1>. HIDE DEF start, end
<1>4. \A v \in Views : Mv(v, {a}, start, end) = ByDay(views[v], own)
  BY <1>3 DEF Mv
<1>5. Platform(start, end) = ByDay(views["platform_daily"], all)
  BY <1>3 DEF Platform, Mv
<1>6. own \in SUBSET Places /\ IsFiniteSet(own) /\ all \in SUBSET Places /\ IsFiniteSet(all)
  BY RowsOfWindow
<1>7. Typed({a}, start, end) = ByDay(raw, own) /\ Typed(Accounts, start, end) = ByDay(raw, all)
  BY DEF Typed
<1>8. "conversation_daily" \in Views /\ "platform_daily" \in Views
      /\ "conversation_daily" # "agent_hourly" /\ "platform_daily" # "agent_hourly"
  BY DEF Views
<1>. HIDE DEF own, all
<1>9. Follows("conversation_daily", own, Mv("conversation_daily", {a}, start, end),
              ByDay(Merged, own), Typed({a}, start, end))
  BY <1>4, <1>6, <1>7, <1>8, DaysFollow
<1>10. Follows("platform_daily", all, Platform(start, end),
               ByDay(Merged, all), Typed(Accounts, start, end))
  BY <1>5, <1>6, <1>7, <1>8, DaysFollow
<1>11. Follows("agent_hourly", own, ByHour(views["agent_hourly"], own),
               ByHour(Merged, own), ByHour(raw, own))
  BY <1>6, HoursFollow
<1>. QED
  BY <1>9, <1>10, <1>11 DEF start, end, own, all

\* The days of the summary cover the hours looked back on.
LEMMA SummaryCovers ==
  ASSUME StoreInv, NEW a, NEW days \in Nat, NEW hours \in Int, hours <= days * HoursPerDay
  PROVE  LET T == Stamped({a}, (DayOf(now) - days) * HoursPerDay, (DayOf(now) + 1) * HoursPerDay)
         IN  /\ Summary(a, days) = ByDay(views["conversation_daily"], T)
             /\ Stamped({a}, HourWindow(hours).from, HourWindow(hours).until) \subseteq T
<1>. DEFINE H == HoursPerDay
            today == DayOf(now)
            from == (today - days) * H
            until == (today + 1) * H
            T == Stamped({a}, from, until)
            S == Stamped({a}, HourWindow(hours).from, HourWindow(hours).until)
<1>1. now \in Int /\ H \in Nat \ {0}
  BY StoreAssumption DEF StoreInv, StoreTypes
<1>2. today \in Int /\ today * H <= now /\ now < until /\ from \in Int /\ until \in Int /\ today * H \in Int
  BY <1>1, HoursAndDays
<1>. HIDE DEF today
<1>3. DayWindow(days) = Window(from, until)
  <2>1. (today + 1) - (days + 1) = today - days
    BY <1>2
  <2>. QED
    <3>1. DayWindow(days) = Window(((DayOf(now) + 1) - (days + 1)) * H, (DayOf(now) + 1) * H)
      BY DEF DayWindow
    <3>2. ((DayOf(now) + 1) - (days + 1)) * H = from
      BY <2>1 DEF today
    <3>. HIDE DEF from
    <3>. QED
      BY <3>1, <3>2 DEF today
<1>4. DayOf(from) * H = from /\ DayOf(until) * H = until
  <2>1. today - days \in Int /\ today + 1 \in Int
    BY <1>2
  <2>2. DayOf(from) = today - days /\ DayOf(until) = today + 1
    BY <2>1, HoursAndDays
  <2>. QED
    BY <2>2
<1>5. from = today * H - days * H /\ days * H \in Int
  BY <1>1, <1>2
<1>. HIDE DEF from, until
<1>6. Summary(a, days) = ByDay(views["conversation_daily"], T)
  <2>1. DayWindow(days).from = from /\ DayWindow(days).until = until
    BY <1>3 DEF Window
  <2>. QED
    BY <1>4, <2>1 DEF Summary, ConversationSummary, Mv
<1>7. HourWindow(hours).from = now + 1 - hours /\ HourWindow(hours).until = now + 1
  BY DEF HourWindow, Window
<1>8. S \subseteq T
  <2>. SUFFICES ASSUME NEW i \in S PROVE i \in T
    OBVIOUS
  <2>. DEFINE at == sent[i].hour
              span == days * H
              day == today * H
  <2>0. /\ i \in DOMAIN sent /\ sent[i].account \in {a}
        /\ at \in now + 1 - hours..(now + 1) - 1
    BY <1>7 DEF Stamped
  <2>1. at \in Int
    BY <2>0
  <2>2. at >= now + 1 - hours /\ at <= now
    BY <1>1, <2>0
  <2>. HIDE DEF at
  <2>3. span \in Int /\ hours <= span /\ from = day - span /\ day <= now /\ day \in Int
    BY <1>2, <1>5
  <2>. HIDE DEF span, day
  <2>4. from <= at /\ at <= until - 1
    BY <1>1, <1>2, <2>1, <2>2, <2>3
  <2>5. at \in from..until - 1
    BY <1>2, <2>1, <2>4
  <2>. QED
    BY <2>0, <2>5 DEF at, Stamped
<1>. QED
  BY <1>6, <1>8 DEF T, S, from, until, today

LEMMA IntentsKept == StoreInv => IntentsComplete
<1>. SUFFICES ASSUME StoreInv, NEW a \in Tenants, NEW days \in 1..MaxDays
              PROVE  LET w == HourWindow(days * HoursPerDay) IN
                       /\ \A i \in Stamped({a}, w.from, w.until) : i <= committed => raw[i] > 0
                       /\ Filled("conversation_daily") =>
                            Rows(Summary(a, days), "escalations")
                              >= Rows(TopIntents(Merged, a, days), "escalations")
  BY DEF IntentsComplete
<1>. DEFINE w == HourWindow(days * HoursPerDay)
            S == Stamped({a}, w.from, w.until)
            T == Stamped({a}, (DayOf(now) - days) * HoursPerDay, (DayOf(now) + 1) * HoursPerDay)
            v == "conversation_daily"
            g == views[v]
            f == Merged
<1>1. days \in Nat /\ MaxDays \in Nat /\ days <= RawDays /\ RawDays \in Nat /\ now \in Int
  BY StoreAssumption DEF StoreInv, StoreTypes
<1>2. days * HoursPerDay \in Int /\ RawDays * HoursPerDay \in Int
      /\ days * HoursPerDay <= RawDays * HoursPerDay
  BY <1>1, HoursAndDays
<1>3. ASSUME NEW i \in S, i <= committed PROVE raw[i] > 0
  <2>. DEFINE span == days * HoursPerDay
              ttl == RawDays * HoursPerDay
              at == sent[i].hour
  <2>1. i \in DOMAIN sent /\ at \in now + 1 - span..(now + 1) - 1
    <3>1. w.from = now + 1 - span /\ w.until = now + 1
      BY DEF HourWindow, Window
    <3>. HIDE DEF w, span
    <3>. QED
      BY <3>1 DEF Stamped
  <2>2. span \in Int /\ ttl \in Int /\ span <= ttl
    BY <1>2
  <2>3. i \in Places /\ raw[i] \in Nat /\ (raw[i] = 0 => at + ttl <= now)
    BY <1>3, <2>1, PlacesAre DEF StoreInv, RowsInv
  <2>. HIDE DEF span, ttl, at
  <2>4. ~(at + ttl <= now)
    BY <1>1, <2>1, <2>2
  <2>. QED
    BY <2>3, <2>4
<1>4. ASSUME Filled(v)
      PROVE  Rows(Summary(a, days), "escalations") >= Rows(TopIntents(Merged, a, days), "escalations")
  <2>1. Summary(a, days) = ByDay(g, T) /\ S \subseteq T
    <3>. DEFINE hours == days * HoursPerDay
    <3>1. hours \in Int /\ hours <= days * HoursPerDay
      BY <1>2
    <3>. HIDE DEF hours
    <3>2. /\ Summary(a, days) = ByDay(g, T)
          /\ Stamped({a}, HourWindow(hours).from, HourWindow(hours).until) \subseteq T
      BY <1>1, <3>1, SummaryCovers
    <3>. QED
      BY <3>2 DEF hours
  <2>2. TopIntents(Merged, a, days) = ByDay(f, S)
    BY DEF TopIntents, IntentRows
  <2>3. T \in SUBSET Places /\ IsFiniteSet(T) /\ S \in SUBSET T
    BY <2>1, RowsOfWindow
  <2>4. (\A i \in T : g[i] \in Nat) /\ (\A i \in S : f[i] \in Nat /\ f[i] <= g[i])
    <3>1. v \in Views /\ \A i \in Places : Selects(v, i)
      BY DEF Views, Selects
    <3>. QED
      BY <1>4, <2>3, <3>1, ViewFacts
  <2>. HIDE DEF f, g, S, T
  <2>5. IsFiniteSet(S) /\ \A i \in S : f[i] \in Nat
    BY <2>3, <2>4, FS_Subset
  <2>6. IsFiniteSet(DOMAIN ByDay(g, T)) /\ IsFiniteSet(DOMAIN ByDay(f, S))
    BY <2>3, <2>4, <2>5, DayTotals
  <2>7. \A d \in DOMAIN ByDay(f, S) :
          d \in DOMAIN ByDay(g, T) /\ \A c \in DOMAIN ByDay(f, S)[d] : ByDay(g, T)[d][c] >= ByDay(f, S)[d][c]
    BY <2>3, <2>4, DaysGrow
  <2>. DEFINE D == DOMAIN ByDay(f, S)
              E == DOMAIN ByDay(g, T)
              F == [d \in D |-> ByDay(f, S)[d]["escalations"]]
              G == [d \in E |-> ByDay(g, T)[d]["escalations"]]
  <2>8. \A d \in D : F[d] \in Nat
    <3>. SUFFICES ASSUME NEW d \in D PROVE F[d] \in Nat
      OBVIOUS
    <3>. DEFINE X == InColumn("escalations", OnDay(f, S, d))
    <3>1. F[d] = Sum(f, X)
      BY DayAnswer DEF Columns
    <3>2. X \in SUBSET S
      BY DEF InColumn, OnDay, Of
    <3>. HIDE DEF X
    <3>3. IsFiniteSet(X) /\ \A i \in X : f[i] \in Nat
      BY <2>5, <3>2, FS_Subset
    <3>. QED
      BY <3>1, <3>3, SumFacts
  <2>9. \A d \in E : G[d] \in Nat
    <3>. SUFFICES ASSUME NEW d \in E PROVE G[d] \in Nat
      OBVIOUS
    <3>. DEFINE X == InColumn("escalations", OnDay(g, T, d))
    <3>1. G[d] = Sum(g, X)
      BY DayAnswer DEF Columns
    <3>2. X \in SUBSET T
      BY DEF InColumn, OnDay, Of
    <3>. HIDE DEF X
    <3>3. IsFiniteSet(X) /\ \A i \in X : g[i] \in Nat
      BY <2>3, <2>4, <3>2, FS_Subset
    <3>. QED
      BY <3>1, <3>3, SumFacts
  <2>10. D \in SUBSET E /\ \A d \in D : F[d] \in Nat /\ F[d] <= G[d]
    <3>1. \A d \in D : "escalations" \in DOMAIN ByDay(f, S)[d]
      BY DayAnswer DEF Columns
    <3>2. \A d \in D : d \in E /\ ByDay(g, T)[d]["escalations"] >= ByDay(f, S)[d]["escalations"]
      BY <2>7, <3>1
    <3>3. \A d \in D : F[d] = ByDay(f, S)[d]["escalations"] /\ G[d] = ByDay(g, T)[d]["escalations"]
      BY <3>2
    <3>. HIDE DEF F, G
    <3>4. \A d \in D : G[d] >= F[d] /\ F[d] \in Nat /\ G[d] \in Nat
      BY <2>8, <2>9, <3>2, <3>3
    <3>. QED
      BY <3>2, <3>4
  <2>11. Rows(ByDay(f, S), "escalations") = Sum(F, D) /\ Rows(ByDay(g, T), "escalations") = Sum(G, E)
    BY DEF Rows
  <2>. HIDE DEF D, E, F, G
  <2>12. Sum(F, D) <= Sum(G, E) /\ Sum(F, D) \in Nat /\ Sum(G, E) \in Nat
    <3>1. IsFiniteSet(D) /\ IsFiniteSet(E)
      BY <2>6 DEF D, E
    <3>. QED
      BY <2>8, <2>9, <2>10, <3>1, SumGrows, SumFacts
  <2>. QED
    BY <2>1, <2>2, <2>11, <2>12 DEF f
<1>. QED
  BY <1>3, <1>4


LEMMA LatencyKept == StoreInv => LatencyComplete
<1>. DEFINE ah == "agent_hourly"
            cd == "conversation_daily"
<1>. SUFFICES ASSUME StoreInv, Filled(ah), NEW a \in Tenants, NEW hours \in 1..MaxHours
              PROVE  LET w == HourWindow(hours)
                         slow == AgentLatency(a, hours)["slow_responses"]
                     IN  /\ slow >= Slow(Merged, a, w)
                         /\ Undisturbed(ah, Stamped({a}, w.from, w.until)) =>
                              /\ slow = Slow(raw, a, w)
                              /\ \A days \in 1..MaxDays :
                                   hours <= days * HoursPerDay /\ Filled(cd) =>
                                     Rows(HourlyVolume(a, hours), "responses")
                                       <= Rows(Summary(a, days), "agent_responses")
  BY DEF LatencyComplete
<1>. DEFINE w == HourWindow(hours)
            S == Stamped({a}, w.from, w.until)
            R == Of("agent_response", S)
            L == {i \in R : sent[i].slow}
            g == views[ah]
            f == Merged
            r == raw
<1>0. ah \in Views /\ cd \in Views
  BY DEF Views
<1>1. S \in SUBSET Places /\ IsFiniteSet(S) /\ R \in SUBSET S /\ L \in SUBSET R
  BY RowsOfWindow DEF Of
<1>2. IsFiniteSet(R) /\ IsFiniteSet(L)
  <2>. HIDE DEF S, R, L
  <2>1. IsFiniteSet(R)
    BY <1>1, FS_Subset
  <2>. QED
    BY <1>1, <2>1, FS_Subset
<1>3. HourlyVolume(a, hours) = ByHour(g, S) /\ AgentLatency(a, hours)["slow_responses"] = Rows(ByHour(g, S), "slow_responses")
  BY DEF HourlyVolume, AgentLatency, HourlyRows
<1>4. Slow(Merged, a, w) = Sum(f, L) /\ Slow(raw, a, w) = Sum(r, L)
  BY DEF Slow
<1>5. \A i \in R : Selects(ah, i)
  BY DEF Selects, Of
<1>6. /\ \A i \in S : g[i] \in Nat
      /\ \A i \in R : f[i] \in Nat /\ f[i] <= g[i]
      /\ Undisturbed(ah, S) => \A i \in R : g[i] = r[i] /\ r[i] = f[i]
  BY <1>0, <1>1, <1>5, ViewFacts
<1>7. /\ Rows(ByHour(g, S), "responses") = Sum(g, R)
      /\ Rows(ByHour(g, S), "slow_responses") = Sum(g, L)
  <2>. HIDE DEF S, g
  <2>. QED
    BY <1>1, <1>6, HourTotals
<1>8. Sum(g, L) >= Sum(f, L)
  <2>1. (\A i \in L : g[i] \in Nat) /\ (\A i \in L : f[i] \in Nat /\ f[i] <= g[i]) /\ L \in SUBSET L
    BY <1>1, <1>6
  <2>. HIDE DEF L, f, g
  <2>. QED
    BY <1>2, <2>1, SumGrows, SumFacts
<1>9. ASSUME Undisturbed(ah, S) PROVE Sum(g, L) = Sum(r, L)
  <2>1. \A i \in L : g[i] = r[i]
    BY <1>1, <1>6, <1>9
  <2>. HIDE DEF L, g, r
  <2>. QED
    BY <2>1, SumSame
<1>10. ASSUME Undisturbed(ah, S), NEW days \in 1..MaxDays, hours <= days * HoursPerDay, Filled(cd)
       PROVE  Rows(HourlyVolume(a, hours), "responses") <= Rows(Summary(a, days), "agent_responses")
  <2>. DEFINE T == Stamped({a}, (DayOf(now) - days) * HoursPerDay, (DayOf(now) + 1) * HoursPerDay)
              Q == Of("agent_response", T)
              c == views[cd]
  <2>1. Summary(a, days) = ByDay(c, T) /\ S \subseteq T
    <3>1. days \in Nat /\ hours \in Int
      BY StoreAssumption
    <3>. QED
      BY <1>10, <3>1, SummaryCovers
  <2>2. T \in SUBSET Places /\ IsFiniteSet(T) /\ IsFiniteSet(Q) /\ Q \in SUBSET T
    BY RowsOfWindow DEF Of
  <2>3. R \in SUBSET Q
    BY <2>1 DEF Of
  <2>4. \A i \in Places : Selects(cd, i)
    BY DEF Selects
  <2>5. (\A i \in T : c[i] \in Nat) /\ (\A i \in T : f[i] <= c[i])
    BY <1>0, <1>10, <2>2, <2>4, ViewFacts
  <2>. HIDE DEF T, Q, c
  <2>6. Rows(ByDay(c, T), "agent_responses") = Sum(c, Q)
    BY <2>2, <2>5, DayTotals DEF Q
  <2>7. \A i \in R : g[i] \in Nat /\ g[i] <= c[i]
    BY <1>1, <1>6, <1>10, <2>2, <2>3, <2>5
  <2>8. Sum(g, R) <= Sum(c, Q)
    <3>1. \A i \in Q : c[i] \in Nat
      BY <2>2, <2>5
    <3>. HIDE DEF R, g
    <3>. QED
      BY <2>2, <2>3, <2>7, <3>1, SumGrows
  <2>. QED
    BY <1>3, <1>7, <2>1, <2>6, <2>8
<1>. HIDE DEF w, S, R, L, g, f, r
<1>. QED
  BY <1>3, <1>4, <1>7, <1>8, <1>9, <1>10 DEF w, S

\* The query API (api.py, queries.py) answers with what happened, however
\* blocks were cut, inserted again or half counted, rows merged and expired,
\* and views rebuilt while inserts went on: the views follow the raw rows, no
\* event of a window is expired from under it, and the endpoints agree.
THEOREM AnswersAreOfRows == StoreSpec => []AnswersFollowRows
<1>1. StoreInv => AnswersFollowRows
  BY ViewsFollow, IntentsKept, LatencyKept DEF AnswersFollowRows
<1>. QED
  BY <1>1, StoreStarts, StoreKeeps, PTL DEF StoreSpec
=============================================================================
