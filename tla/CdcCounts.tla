----------------------------- MODULE CdcCounts -----------------------------
(***************************************************************************)
(* The change-capture path: the changes of impressions.events in Postgres, *)
(* Debezium, their Kafka topic (one partition), the Flink job that counts  *)
(* them per minute, and the compacted topic of the counts                  *)
(* (flink_applications/cdc_sql.py and cdc_impressions.py,                  *)
(* debezium_deployment).                                                   *)
(*                                                                         *)
(* The connector repeats what it sent since its offsets were last flushed  *)
(* when it restarts; the job repeats what it did since its last checkpoint *)
(* and writes the counts of a window again, under the same key.            *)
(***************************************************************************)
EXTENDS Integers, Sequences, FiniteSets

CONSTANTS
  Wals,          \* sequences of changes: op, impression, source time
  Minute,        \* TUMBLE(..., INTERVAL '1' MINUTE)
  Disorder,      \* WATERMARK ... INTERVAL '15' SECOND
  MaxRestarts    \* bound: restarts of the connector and of the job

ASSUME MinuteAssumption == Minute \in Nat \ {0} /\ Disorder \in Nat \ {0}

ASSUME WalsAssumption ==
  \A w \in Wals : /\ Len(w) \in Nat /\ DOMAIN w = 1..Len(w)
                  /\ \A i \in DOMAIN w : w[i].at \in Nat

VARIABLES
  wal,        \* the changes, in commit order; the source's choice
  captured,   \* changes sent since the slot was created
  flushed,    \* changes whose offset is flushed
  changes,    \* cdc.impressions.events: positions in wal
  window,     \* the job: offset, newest time seen, watermark, open windows
  checkpoint, \* the last completed checkpoint
  counts,     \* cdc.impressions.page_type_counts: the last row of each window
  connectorCrashes, jobCrashes

cdcVars == <<wal, captured, flushed, changes, window, checkpoint, counts,
             connectorCrashes, jobCrashes>>

MinuteOf(t) == t \div Minute
Minutes == {MinuteOf(c.at) : c \in UNION {{w[i] : i \in DOMAIN w} : w \in Wals}}
NoRows == [count |-> 0, impressions |-> {}]

CdcInit ==
  /\ wal \in Wals
  /\ captured = 0 /\ flushed = 0 /\ changes = << >>
  /\ window = [offset |-> 0, newest |-> 0, watermark |-> -Disorder,
               open |-> [m \in Minutes |-> NoRows]]
  /\ checkpoint = window
  /\ counts = [m \in Minutes |-> NoRows]
  /\ connectorCrashes = 0 /\ jobCrashes = 0

-----------------------------------------------------------------------------
(* Debezium                                                                *)

Capture ==
  /\ captured < Len(wal)
  /\ captured' = captured + 1
  /\ changes' = Append(changes, captured + 1)
  /\ UNCHANGED <<wal, flushed, window, checkpoint, counts, connectorCrashes, jobCrashes>>

FlushOffsets ==
  /\ flushed' = captured
  /\ UNCHANGED <<wal, captured, changes, window, checkpoint, counts, connectorCrashes,
                 jobCrashes>>

RestartConnector ==
  /\ connectorCrashes < MaxRestarts /\ connectorCrashes' = connectorCrashes + 1
  /\ captured' = flushed
  /\ UNCHANGED <<wal, flushed, changes, window, checkpoint, counts, jobCrashes>>

-----------------------------------------------------------------------------
(* The job                                                                 *)

Over(m, watermark) == watermark >= (m + 1) * Minute - 1

\* Variant of Counted: deletes are counted.
AllCounted(change) == TRUE

\* WHERE __op <> 'd'
Counted(change) == change.op # "d"

\* A change that is not a delete counts in its minute, unless that is over. Any
\* change moves the event time.
Aggregate ==
  /\ window.offset < Len(changes)
  /\ LET change == wal[changes[window.offset + 1]]
         m == MinuteOf(change.at)
         newest == IF change.at > window.newest THEN change.at ELSE window.newest
         counts_in == Counted(change) /\ ~Over(m, window.watermark)
     IN  window' = [window EXCEPT
           !.offset = @ + 1, !.newest = newest,
           !.open[m] = IF counts_in
                       THEN [count |-> @.count + 1,
                             impressions |-> @.impressions \cup {change.impression}]
                       ELSE @]
  /\ UNCHANGED <<wal, captured, flushed, changes, checkpoint, counts, connectorCrashes,
                 jobCrashes>>

\* The watermark follows, and the minutes it passes are written under their key.
Emit ==
  /\ window.newest - Disorder > window.watermark
  /\ LET watermark == window.newest - Disorder
         closing == {m \in Minutes : Over(m, watermark) /\ window.open[m] # NoRows}
     IN  /\ counts' = [m \in Minutes |-> IF m \in closing THEN window.open[m] ELSE counts[m]]
         /\ window' = [window EXCEPT
              !.watermark = watermark,
              !.open = [m \in Minutes |-> IF m \in closing THEN NoRows ELSE @[m]]]
  /\ UNCHANGED <<wal, captured, flushed, changes, checkpoint, connectorCrashes, jobCrashes>>

\* Variant of TakeCheckpoint: of the offsets alone.
CheckpointOffset ==
  /\ checkpoint' = [window EXCEPT !.open = [m \in Minutes |-> NoRows]]
  /\ UNCHANGED <<wal, captured, flushed, changes, window, counts, connectorCrashes,
                 jobCrashes>>

TakeCheckpoint ==
  /\ checkpoint' = window
  /\ UNCHANGED <<wal, captured, flushed, changes, window, counts, connectorCrashes,
                 jobCrashes>>

RestartJob ==
  /\ jobCrashes < MaxRestarts /\ jobCrashes' = jobCrashes + 1
  /\ window' = [checkpoint EXCEPT !.newest = 0]
  /\ UNCHANGED <<wal, captured, flushed, changes, checkpoint, counts, connectorCrashes>>

CdcNext == \/ Capture \/ FlushOffsets \/ RestartConnector
           \/ Aggregate \/ Emit \/ TakeCheckpoint \/ RestartJob

CdcSpec == CdcInit /\ [][CdcNext]_cdcVars

-----------------------------------------------------------------------------
(* Properties                                                              *)

\* The counted changes of minute m among positions ps.
ChangesOf(m, ps) == {i \in ps : MinuteOf(wal[i].at) = m /\ wal[i].op # "d"}

\* No counted change is later than one before it by the disorder that is allowed.
WithinDisorder ==
  \A w \in Wals : \A i, j \in DOMAIN w :
    i < j /\ Counted(w[j]) => w[i].at - w[j].at < Disorder

\* A minute that was written has the impressions of its changes, each once,
\* whatever was sent or computed again; the number of its changes is exact too,
\* unless the connector has sent some of them twice.
WindowsExact ==
  \A m \in Minutes : counts[m] # NoRows =>
    LET own == ChangesOf(m, DOMAIN wal)
        sent == Cardinality({i \in DOMAIN changes : changes[i] \in own})
    IN  /\ counts[m].impressions = {wal[i].impression : i \in own}
        /\ counts[m].count \in Cardinality(own)..sent
=============================================================================
