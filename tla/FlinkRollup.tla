----------------------------- MODULE FlinkRollup -----------------------------
(***************************************************************************)
(* realtime_analytics: the PyFlink job that counts the events of the topic *)
(* in event-time windows (flink_job.py, flink_sql.py), the topic it writes *)
(* closed windows to, and ClickHouse, which reads that topic into a table  *)
(* that sums the rows of a window (21_flink_rollup_ingest.sql).            *)
(*                                                                         *)
(* The job reads the partitions in any interleaving. Its watermark is the  *)
(* lowest of the partitions that are not idle, some delay behind the       *)
(* newest event of each; a window closes, and is written, when it passes   *)
(* the window's end. Checkpoints save offsets, open windows and watermark  *)
(* together; a failure goes back to the last one, but what was written to  *)
(* the topic stays there. Flink, Kafka and ClickHouse are modelled as the  *)
(* DDL configures them. One key stands for an account and an event type.   *)
(***************************************************************************)
EXTENDS Integers, Sequences, FiniteSets

CONSTANTS
  Partitions,      \* partitions of conversation.events
  Logs,            \* what the topic may hold: event times, in offset order
  Quiet,           \* the partitions whose traffic may pause
  Window,          \* window_minutes
  Delay,           \* max_out_of_orderness_s
  RestartAttempts, \* restart_attempts of the fixed-delay strategy
  MaxBlock,        \* kafka_max_block_size
  MaxFaults        \* bound: resubmissions, and blocks whose commit is lost

\* A record that is no JSON: json.ignore-parse-errors drops it.
Unparsable == -1

ASSUME RollupAssumption ==
  /\ Logs \subseteq [Partitions -> Seq(Nat \cup {Unparsable})]
  /\ Partitions # {} /\ IsFiniteSet(Partitions)
  /\ Quiet \subseteq Partitions
  /\ Window \in Nat \ {0} /\ MaxBlock \in Nat \ {0}
  /\ Delay \in Nat /\ RestartAttempts \in Nat
  /\ MaxFaults \in Nat

VARIABLES
  log,        \* log[p]: the event times of p; the producer's choice
  offset,     \* offset[p]: records of p the job has read
  highest,    \* highest[p]: newest event time of p since the last start
  idle,       \* partitions left out of the watermark
  watermark,  \* of the window operator
  open,       \* open[w]: events counted in window w, not yet written
  late,       \* records dropped because their window was closed
  saved,      \* the last completed checkpoint
  restarts,   \* restarts used up; one more than there are ends the job
  topic,      \* conversation.minute_agg: rows <<window, events>>
  consumed,   \* rows of it whose offset ClickHouse has committed
  minuteAgg,  \* conversation_minute_agg: events of a window, rows summed
  idled,      \* partitions that have been idle (history)
  submits, lostCommits  \* faults so far, by kind

job    == <<offset, highest, idle, watermark, open, late>>
source == <<log, idled>>
cps    == <<saved, restarts>>
sink   == <<consumed, minuteAgg>>
faults == <<submits, lostCommits>>
vars == <<job, source, cps, topic, sink, faults>>

Lowest == -Delay - 1
EventTimes == UNION {{l[p][o] : o \in DOMAIN l[p]} : l \in Logs, p \in Partitions}
WindowOf(t) == t \div Window
Windows == {WindowOf(t) : t \in EventTimes \ {Unparsable}}

\* The records of window w among the first offsets[p] of each partition.
Records(offsets, w) ==
  {r \in UNION {{p} \X (1..offsets[p]) : p \in Partitions} :
     /\ log[r[1]][r[2]] # Unparsable
     /\ WindowOf(log[r[1]][r[2]]) = w}

Nothing == [offset |-> [p \in Partitions |-> 0], watermark |-> Lowest,
            open |-> [w \in Windows |-> 0], late |-> {}]

TypeOK ==
  /\ log \in Logs
  /\ offset \in [Partitions -> Nat]
  /\ highest \in [Partitions -> Nat \cup {-1}]
  /\ idle \subseteq Partitions /\ idled \subseteq Partitions
  /\ watermark \in Int
  /\ open \in [Windows -> Nat]
  /\ late \subseteq Partitions \X Nat
  /\ DOMAIN saved = {"offset", "watermark", "open", "late"}
  /\ restarts \in 0..RestartAttempts + 1
  /\ topic \in Seq(Windows \X Nat)
  /\ consumed \in 0..Len(topic)
  /\ minuteAgg \in [Windows -> Nat]
  /\ submits + lostCommits \in 0..MaxFaults

Init ==
  /\ log \in Logs
  /\ offset = Nothing.offset
  /\ highest = [p \in Partitions |-> -1]
  /\ idle = {} /\ idled = {}
  /\ watermark = Lowest
  /\ open = Nothing.open
  /\ late = {}
  /\ saved = Nothing
  /\ restarts = 0
  /\ topic = << >> /\ consumed = 0
  /\ minuteAgg = [w \in Windows |-> 0]
  /\ submits = 0 /\ lostCommits = 0

Running == restarts <= RestartAttempts
Closed(w, wm) == wm >= (w + 1) * Window - 1

-----------------------------------------------------------------------------
(* The job                                                                 *)

\* A record is counted in its window, or dropped if that is closed. A
\* partition that speaks is not idle.
Read(p) ==
  /\ Running
  /\ offset[p] < Len(log[p])
  /\ offset' = [offset EXCEPT ![p] = @ + 1]
  /\ idle' = idle \ {p}
  /\ LET t == log[p][offset[p] + 1]
         w == WindowOf(t)
     IN \/ /\ t = Unparsable
           /\ UNCHANGED <<highest, open, late>>
        \/ /\ t # Unparsable /\ Closed(w, watermark)
           /\ late' = late \cup {<<p, offset[p] + 1>>}
           /\ highest' = [highest EXCEPT ![p] = IF t > @ THEN t ELSE @]
           /\ UNCHANGED open
        \/ /\ t # Unparsable /\ ~Closed(w, watermark)
           /\ open' = [open EXCEPT ![w] = @ + 1]
           /\ highest' = [highest EXCEPT ![p] = IF t > @ THEN t ELSE @]
           /\ UNCHANGED late
  /\ UNCHANGED <<watermark, source, cps, topic, sink, faults>>

\* Variant: the highest partition decides.
HighestWatermark == CHOOSE wm \in {highest[p] - Delay : p \in Partitions \ idle} :
                      \A p \in Partitions \ idle : highest[p] - Delay <= wm

\* The lowest partition that is not idle decides.
SourceWatermark == CHOOSE wm \in {highest[p] - Delay : p \in Partitions \ idle} :
                     \A p \in Partitions \ idle : wm <= highest[p] - Delay

\* Whether the watermark may advance: it is emitted every 200 ms.
Behind == idle # Partitions /\ SourceWatermark > watermark

\* table.exec.source.idle-timeout, a minute, without a record of p.
GoIdle(p) ==
  /\ Running
  /\ p \in Quiet \ idle
  /\ ~Behind
  /\ idle' = idle \cup {p}
  /\ idled' = idled \cup {p}
  /\ UNCHANGED <<log, offset, highest, watermark, open, late, cps, topic, sink,
                 faults>>

\* The rows of the windows a watermark passes, earliest first.
ClosedRows(wm) ==
  LET closing == {w \in Windows : open[w] > 0 /\ Closed(w, wm)}
      nth(i) == CHOOSE w \in closing : Cardinality({v \in closing : v <= w}) = i
  IN  [i \in 1..Cardinality(closing) |-> <<nth(i), open[nth(i)]>>]

\* Variant of Advance: a window closes without being written.
AdvanceSilently ==
  /\ Running
  /\ Behind
  /\ watermark' = SourceWatermark
  /\ open' = [w \in Windows |-> IF Closed(w, watermark') THEN 0 ELSE open[w]]
  /\ UNCHANGED <<offset, highest, idle, late, source, cps, topic, sink, faults>>

\* The watermark advances, and the windows it passes are written, once each.
Advance ==
  /\ Running
  /\ Behind
  /\ watermark' = SourceWatermark
  /\ topic' = topic \o ClosedRows(watermark')
  /\ open' = [w \in Windows |-> IF Closed(w, watermark') THEN 0 ELSE open[w]]
  /\ UNCHANGED <<offset, highest, idle, late, source, cps, sink, faults>>

\* Variant of Checkpoint: the offsets are saved, the windows are not.
CheckpointOffsets ==
  /\ Running
  /\ saved' = [Nothing EXCEPT !.offset = offset, !.watermark = watermark,
                              !.late = late]
  /\ UNCHANGED <<job, source, restarts, topic, sink, faults>>

\* A checkpoint is a consistent cut of the job. The offsets in it are also
\* committed to the consumer group.
Checkpoint ==
  /\ Running
  /\ saved' = [offset |-> offset, watermark |-> watermark, open |-> open,
               late |-> late]
  /\ UNCHANGED <<job, source, restarts, topic, sink, faults>>

\* The job starts from a state: the partitions have yet to speak.
StartFrom(state) ==
  /\ offset' = state.offset
  /\ watermark' = state.watermark
  /\ open' = state.open
  /\ late' = state.late
  /\ highest' = [p \in Partitions |-> -1]
  /\ idle' = {}

\* A failure, or more failed checkpoints than are tolerated: the restart
\* strategy goes back to the last one that succeeded, as often as it may.
Fail ==
  /\ Running
  /\ restarts' = restarts + 1
  /\ StartFrom(saved)
  /\ UNCHANGED <<source, saved, topic, sink, faults>>

\* deploy.sh submit: a new job, without the old one's state, reads on at the
\* offsets the group has committed.
Submit ==
  /\ submits + lostCommits < MaxFaults
  /\ submits' = submits + 1
  /\ StartFrom([Nothing EXCEPT !.offset = saved.offset, !.late = saved.late])
  /\ saved' = [Nothing EXCEPT !.offset = saved.offset, !.late = saved.late]
  /\ restarts' = 0
  /\ UNCHANGED <<source, topic, sink, lostCommits>>

-----------------------------------------------------------------------------
(* ClickHouse                                                              *)

\* Events of window w in rows: a row stands for as many as it counts.
EventsOf(rows, w) ==
  Cardinality(UNION {{i} \X (1..rows[i][2]) : i \in {j \in DOMAIN rows : rows[j][1] = w}})

Blocks == {n \in 1..MaxBlock : consumed + n <= Len(topic)}
Block(n) == SubSeq(topic, consumed + 1, consumed + n)

\* mv_kafka_minute_agg moves a block of rows to the table, where rows of one
\* key are summed.
Store(rows) ==
  minuteAgg' = [w \in Windows |-> minuteAgg[w] + EventsOf(rows, w)]

\* Offsets are committed after the block is written.
Land ==
  /\ \E n \in Blocks : Store(Block(n)) /\ consumed' = consumed + n
  /\ UNCHANGED <<job, source, cps, topic, faults>>

\* The server dies in between: the block is read again.
LandUncommitted ==
  /\ submits + lostCommits < MaxFaults
  /\ lostCommits' = lostCommits + 1
  /\ \E n \in Blocks : Store(Block(n))
  /\ UNCHANGED <<job, source, cps, topic, consumed, submits>>

Next ==
  \/ \E p \in Partitions : Read(p) \/ GoIdle(p)
  \/ Advance \/ Checkpoint \/ Fail \/ Submit
  \/ Land \/ LandUncommitted

Spec == Init /\ [][Next]_vars

\* The job keeps reading and its watermark moves, and ClickHouse keeps
\* consuming; nothing makes a checkpoint succeed or a partition idle.
Fairness ==
  /\ \A p \in Partitions : WF_vars(Read(p))
  /\ WF_vars(Advance)
  /\ WF_vars(Land)

FairSpec == Spec /\ Fairness

-----------------------------------------------------------------------------
(* Properties                                                              *)

LateIn(w) == Records(offset, w) \cap late

\* An event is only dropped if its own partition was idle once, or is out of
\* order by the delay: that one partition runs ahead of another drops nothing,
\* and neither does a restart.
OnlyStragglersDropped ==
  \A r \in late :
    \/ r[1] \in idled
    \/ \E o \in 1..r[2] - 1 : log[r[1]][o] - log[r[1]][r[2]] >= Delay

\* As long as the job did not restart and no commit was lost, every event read
\* is counted exactly once: in an open window, in the topic, or in the table.
\* Whatever fails, while the job resumes from its checkpoints no window is
\* counted short: an event read is in an open window or was written, and the
\* rows ClickHouse committed are in the table.
CountsHold ==
  submits = 0 =>
    \A w \in Windows :
      LET counted == Cardinality(Records(offset, w) \ late)
      IN  /\ open[w] + EventsOf(topic, w) >= counted
          /\ minuteAgg[w] >= EventsOf(SubSeq(topic, 1, consumed), w)
          /\ restarts = 0 /\ lostCommits = 0 =>
               open[w] + EventsOf(SubSeq(topic, consumed + 1, Len(topic)), w) + minuteAgg[w] = counted

\* Every partition's events are past window w.
Passed(w) == \A p \in Partitions : Closed(w, highest[p] - Delay)

\* A window that all partitions have passed reaches the table with all its
\* events but the dropped ones, unless a restart forgets that they have (their
\* highest times are in no checkpoint) or the job is resubmitted.
PassedWindowsLand ==
  \A w \in Windows :
    Passed(w) ~>
      \/ ~Passed(w) \/ ~Running \/ submits > 0
      \/ minuteAgg[w] >= Cardinality(Records(offset, w) \ late)
=============================================================================
