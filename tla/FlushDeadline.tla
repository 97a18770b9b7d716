---------------------------- MODULE FlushDeadline ---------------------------
(***************************************************************************)
(* The timing of the ingest loop of realtime_analytics/consumer.py, with   *)
(* inserts that succeed at once: when a buffered row is flushed. The inner *)
(* loop over the consumer ends at a full batch or after consumer_timeout_ms*)
(* without a record, and only then is the flush deadline looked at.        *)
(* EventConsumer has the same loop without time.                           *)
(***************************************************************************)
EXTENDS Integers

CONSTANTS
  BatchSize,      \* --batch-size
  FlushInterval,  \* --flush-interval, in ticks
  PollTimeout,    \* consumer_timeout_ms, in ticks
  MaxSkipped      \* malformed records the producer sends between two flushes

ASSUME TimingAssumption ==
  /\ BatchSize \in Nat \ {0}
  /\ FlushInterval \in Nat
  /\ PollTimeout \in Nat \ {0}
  /\ MaxSkipped \in Nat

VARIABLES
  reading,     \* TRUE in the inner loop, FALSE after it
  buffered,    \* rows in the buffer
  age,         \* ticks the oldest of them has waited
  skipped,     \* malformed records read since last_flush
  sinceFlush,  \* ticks since last_flush
  idle         \* ticks since the inner loop was entered or read a record

vars == <<reading, buffered, age, skipped, sinceFlush, idle>>

\* No row waits longer than this: the records read, malformed ones too, come
\* at most PollTimeout apart, after a flush deadline that had not passed.
WorstWait == FlushInterval + (BatchSize + MaxSkipped) * PollTimeout

TypeOK ==
  /\ reading \in BOOLEAN
  /\ buffered \in 0..BatchSize
  /\ age \in 0..WorstWait
  /\ skipped \in 0..MaxSkipped
  /\ sinceFlush \in Nat
  /\ idle \in 0..PollTimeout

Init ==
  /\ reading = TRUE
  /\ buffered = 0
  /\ age = 0
  /\ skipped = 0
  /\ sinceFlush = 0
  /\ idle = 0

\* A record is read as it arrives.
Read ==
  /\ reading
  /\ buffered' = buffered + 1
  /\ idle' = 0
  /\ reading' = (buffered' < BatchSize)
  /\ UNCHANGED <<age, skipped, sinceFlush>>

\* parse_event raises: the record restarts the poll timeout and is skipped.
ReadMalformed ==
  /\ reading
  /\ skipped < MaxSkipped
  /\ skipped' = skipped + 1
  /\ idle' = 0
  /\ UNCHANGED <<reading, buffered, age, sinceFlush>>

Timeout ==
  /\ reading
  /\ idle = PollTimeout
  /\ reading' = FALSE
  /\ UNCHANGED <<buffered, age, skipped, sinceFlush, idle>>

\* The deadline check of the outer loop; an empty buffer restarts the clock.
Flush ==
  /\ ~reading
  /\ buffered > 0
  /\ buffered = BatchSize \/ sinceFlush >= FlushInterval
  /\ buffered' = 0
  /\ age' = 0
  /\ skipped' = 0
  /\ sinceFlush' = 0
  /\ reading' = TRUE
  /\ idle' = 0

\* Variant of NoFlush: the clock restarts though rows are buffered.
NoFlushRestartsClock ==
  /\ ~reading
  /\ buffered < BatchSize
  /\ buffered = 0 \/ sinceFlush < FlushInterval
  /\ sinceFlush' = 0
  /\ reading' = TRUE
  /\ idle' = 0
  /\ UNCHANGED <<buffered, age, skipped>>

NoFlush ==
  /\ ~reading
  /\ buffered < BatchSize
  /\ buffered = 0 \/ sinceFlush < FlushInterval
  /\ sinceFlush' = IF buffered = 0 THEN 0 ELSE sinceFlush
  /\ skipped' = IF buffered = 0 THEN 0 ELSE skipped
  /\ reading' = TRUE
  /\ idle' = 0
  /\ UNCHANGED <<buffered, age>>

\* Time passes only while the loop waits for a record.
Tick ==
  /\ reading
  /\ idle < PollTimeout
  /\ idle' = idle + 1
  /\ sinceFlush' = sinceFlush + 1
  /\ age' = IF buffered > 0 THEN age + 1 ELSE 0
  /\ UNCHANGED <<reading, buffered, skipped>>

Next == Read \/ ReadMalformed \/ Timeout \/ Flush \/ NoFlush \/ Tick

Spec == Init /\ [][Next]_vars

-----------------------------------------------------------------------------
\* A buffered row waits for the interval and one poll timeout per record that
\* may come before its flush. The timer alone does not bound it: records that
\* come just inside the poll timeout keep the inner loop from its deadline.
WaitBounded == age <= WorstWait
=============================================================================
