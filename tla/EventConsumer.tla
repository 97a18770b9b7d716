--------------------------- MODULE EventConsumer ----------------------------
(***************************************************************************)
(* realtime_analytics/consumer.py: the Kafka -> ClickHouse ingest loop, as *)
(* a consumer group of processes over the partitions of a topic.           *)
(*                                                                         *)
(* A process reads records into a buffer, inserts the buffer as one block  *)
(* and commits its positions after the insert. It may die anywhere, an     *)
(* insert may fail before or after it took effect, a signal may stop the   *)
(* loop, and the group may be rebalanced at any time. The broker and       *)
(* kafka-python are modelled as the loop uses them (external in the map):  *)
(* a member joins a new generation in its poll, its positions then restart *)
(* at the committed offsets, and a process left out of the generation has  *)
(* its commits refused.                                                    *)
(***************************************************************************)
EXTENDS Integers, Sequences, FiniteSets

CONSTANTS
  Consumers,      \* consumer processes of the group
  Partitions,     \* partitions of the topic
  Logs,           \* what the topic may hold: the kinds of each partition's
                  \* records, oldest first
  None,           \* no owner
  BatchSize,      \* --batch-size
  MaxFaults       \* bound: crashes, stops, failed inserts, evictions

\* good inserts; malformed has a timestamp parse_event rejects; poison parses
\* but ClickHouse refuses a block with it (a null in a required column);
\* undecodable is not JSON.
Kinds == {"good", "malformed", "poison", "undecodable"}

ASSUME TopicAssumption ==
  /\ None \notin Consumers
  /\ Logs \subseteq [Partitions -> Seq(Kinds)]

ASSUME GroupAssumption == IsFiniteSet(Consumers)

ASSUME BoundAssumption ==
  /\ BatchSize \in Nat \ {0}
  /\ MaxFaults \in Nat

VARIABLES
  log,        \* log[p]: the records of p, by kind; the producer's choice
  pc,         \* pc[c]: where the loop of process c is
  running,    \* running[c]: FALSE once a signal was received
  position,   \* position[c][p]: records of p that c has read
  buffer,     \* buffer[c]: rows read and not yet committed
  committed,  \* committed[p]: the group's committed offset
  members,    \* the processes of the group's present generation
  owner,      \* owner[p]: the member that was given p
  parts,      \* the different blocks ClickHouse has stored
  repeated,   \* TRUE once a row has been stored twice
  faults      \* faults so far

vars == <<log, pc, running, position, buffer, committed, members, owner, parts,
          repeated, faults>>
\* The o-th record of partition p, and the row it becomes.
Rows == UNION {{p} \X DOMAIN log[p] : p \in Partitions}
Kind(row) == log[row[1]][row[2]]

group == <<members, owner>>
table == <<parts, repeated>>

Labels == {"down", "poll", "decide", "insert", "commit", "backoff", "final",
           "finalCommit"}

TypeOK ==
  /\ log \in Logs
  /\ pc \in [Consumers -> Labels]
  /\ running \in [Consumers -> BOOLEAN]
  /\ position \in [Consumers -> [Partitions -> Nat]]
  /\ buffer \in [Consumers -> Seq(Rows)]
  /\ committed \in [Partitions -> Nat]
  /\ members \subseteq Consumers
  /\ owner \in [Partitions -> Consumers \cup {None}]
  /\ parts \subseteq Seq(Rows)
  /\ repeated \in BOOLEAN
  /\ faults \in 0..MaxFaults

Init ==
  /\ log \in Logs
  /\ pc = [c \in Consumers |-> "down"]
  /\ running = [c \in Consumers |-> FALSE]
  /\ position = [c \in Consumers |-> [p \in Partitions |-> 0]]
  /\ buffer = [c \in Consumers |-> << >>]
  /\ committed = [p \in Partitions |-> 0]
  /\ owner = [p \in Partitions |-> None]
  /\ members = {}
  /\ parts = {}
  /\ repeated = FALSE
  /\ faults = 0

-----------------------------------------------------------------------------
(* The group                                                               *)

Live == {c \in Consumers : pc[c] # "down"}
Polling == {c \in Consumers : pc[c] = "poll"}

\* A process outside the generation waits in its poll, and the members come to
\* join it there as soon as one waits.
PollReturns(c) == pc[c] = "poll" /\ c \in members /\ Live \subseteq members

Assigned(c) == {p \in Partitions : c \in members /\ owner[p] = c}

\* A new generation of the processes that have joined in their polls:
\* positions restart at the committed offsets, and the loop is not told, so a
\* buffer keeps its rows.
NewGeneration(joined) ==
  /\ joined # {}
  /\ members' = joined
  /\ owner' \in [Partitions -> joined]
  /\ position' = [c \in Consumers |->
                    IF c \in joined THEN committed ELSE position[c]]
  /\ UNCHANGED <<log, pc, running, buffer, committed, table>>

\* The coordinator replaces a generation some process left or wants to enter,
\* when all live ones have come to join.
Rebalance ==
  /\ members # Live
  /\ Polling = Live
  /\ NewGeneration(Live)
  /\ UNCHANGED faults

\* Or a member misses a heartbeat, or takes longer than the join may take.
Evict ==
  /\ faults < MaxFaults
  /\ faults' = faults + 1
  /\ \E joined \in SUBSET Polling : NewGeneration(joined)

\* run() up to the loop: a client, a new group member and an empty buffer.
Boot(c) ==
  /\ pc[c] = "down"
  /\ pc' = [pc EXCEPT ![c] = "poll"]
  /\ running' = [running EXCEPT ![c] = TRUE]
  /\ members' = members \ {c}
  /\ UNCHANGED <<log, position, buffer, committed, owner, table, faults>>

-----------------------------------------------------------------------------
(* The loop                                                                *)

Goto(c, l) == pc' = [pc EXCEPT ![c] = l]

\* while running: the next round, or the flush after the loop.
NextRound(c) == Goto(c, IF running[c] THEN "poll" ELSE "final")

\* The process ends: what it had read and not committed is forgotten.
Die(c) ==
  /\ Goto(c, "down")
  /\ running' = [running EXCEPT ![c] = FALSE]
  /\ buffer' = [buffer EXCEPT ![c] = << >>]

\* One record of the inner loop, which ends at a full batch or a signal.
Read(c, p) ==
  /\ PollReturns(c)
  /\ p \in Assigned(c)
  /\ position[c][p] < Len(log[p])
  /\ LET row == <<p, position[c][p] + 1>>
     IN  /\ Kind(row) # "undecodable"
         /\ buffer' = [buffer EXCEPT ![c] =
                         IF Kind(row) = "malformed" THEN @ ELSE Append(@, row)]
  /\ position' = [position EXCEPT ![c][p] = @ + 1]
  /\ Goto(c, IF Len(buffer'[c]) >= BatchSize \/ ~running[c]
             THEN "decide" ELSE "poll")
  /\ UNCHANGED <<log, running, committed, group, table, faults>>

\* The value deserializer raises out of the iterator: nothing catches it.
ReadUndecodable(c, p) ==
  /\ PollReturns(c)
  /\ p \in Assigned(c)
  /\ position[c][p] < Len(log[p])
  /\ Kind(<<p, position[c][p] + 1>>) = "undecodable"
  /\ Die(c)
  /\ UNCHANGED <<log, position, committed, group, table, faults>>

\* consumer_timeout_ms without a record ends the inner loop.
ReadTimeout(c) ==
  /\ PollReturns(c)
  /\ Goto(c, "decide")
  /\ UNCHANGED <<log, running, position, buffer, committed, group, table,
                 faults>>

\* A full batch is flushed, or any batch once the deadline has passed; when
\* that is is left open.
Flush(c) ==
  /\ pc[c] = "decide"
  /\ buffer[c] # << >>
  /\ Goto(c, "insert")
  /\ UNCHANGED <<log, running, position, buffer, committed, group, table,
                 faults>>

Skip(c) ==
  /\ pc[c] = "decide"
  /\ Len(buffer[c]) < BatchSize
  /\ NextRound(c)
  /\ UNCHANGED <<log, running, position, buffer, committed, group, table,
                 faults>>

\* ClickHouse stores a block whole, or refuses one with a poison row.
Stored(row) == \E block \in parts : \E i \in DOMAIN block : block[i] = row

Store(block) ==
  /\ parts' = parts \cup {block}
  /\ repeated' = \/ repeated
                 \/ \E i \in DOMAIN block : Stored(block[i])
                 \/ \E i, j \in DOMAIN block : i # j /\ block[i] = block[j]

Insertable(c) == \A i \in DOMAIN buffer[c] : Kind(buffer[c][i]) # "poison"

InsertOk(c) ==
  /\ pc[c] = "insert"
  /\ Insertable(c)
  /\ Store(buffer[c])
  /\ Goto(c, "commit")
  /\ UNCHANGED <<log, running, position, buffer, committed, group, faults>>

InsertRefused(c) ==
  /\ pc[c] = "insert"
  /\ ~Insertable(c)
  /\ Goto(c, "backoff")
  /\ UNCHANGED <<log, running, position, buffer, committed, group, table,
                 faults>>

\* Variant of InsertFails for the mutants: flush reports success.
InsertFailsUnnoticed(c) ==
  /\ pc[c] = "insert"
  /\ faults < MaxFaults
  /\ Goto(c, "commit")
  /\ faults' = faults + 1
  /\ UNCHANGED <<log, running, position, buffer, committed, group, table>>

\* The call raises, with the block stored (a lost answer) or not.
InsertFails(c) ==
  /\ pc[c] = "insert"
  /\ faults < MaxFaults
  /\ \/ UNCHANGED table
     \/ Insertable(c) /\ Store(buffer[c])
  /\ Goto(c, "backoff")
  /\ faults' = faults + 1
  /\ UNCHANGED <<log, running, position, buffer, committed, group>>

\* Variants of CommitPositions: one record too many, or one too few.
CommitAhead(c) ==
  committed' = [p \in Partitions |->
                  IF p \in Assigned(c) THEN position[c][p] + 1 ELSE committed[p]]

CommitBehind(c) ==
  committed' = [p \in Partitions |->
                  IF p \in Assigned(c) THEN position[c][p] - 1 ELSE committed[p]]

\* Commit the positions of the assigned partitions.
CommitPositions(c) ==
  committed' = [p \in Partitions |->
                  IF p \in Assigned(c) THEN position[c][p] ELSE committed[p]]

\* Variant of Commit: the buffer is not cleared.
CommitKeepsBuffer(c) ==
  /\ pc[c] = "commit"
  /\ c \in members
  /\ CommitPositions(c)
  /\ NextRound(c)
  /\ UNCHANGED <<log, running, position, buffer, group, table, faults>>

Commit(c) ==
  /\ pc[c] = "commit"
  /\ c \in members
  /\ CommitPositions(c)
  /\ buffer' = [buffer EXCEPT ![c] = << >>]
  /\ NextRound(c)
  /\ UNCHANGED <<log, running, position, group, table, faults>>

\* A commit in an old generation raises, and nothing catches it.
CommitRefused(c) ==
  /\ pc[c] \in {"commit", "finalCommit"}
  /\ c \notin members
  /\ Die(c)
  /\ UNCHANGED <<log, position, committed, group, table, faults>>

\* Variant of Backoff: the failed batch is dropped.
BackoffDrops(c) ==
  /\ pc[c] = "backoff"
  /\ buffer' = [buffer EXCEPT ![c] = << >>]
  /\ NextRound(c)
  /\ UNCHANGED <<log, running, position, committed, group, table, faults>>

\* The batch stays in the buffer and is retried after the backoff.
Backoff(c) ==
  /\ pc[c] = "backoff"
  /\ NextRound(c)
  /\ UNCHANGED <<log, running, position, buffer, committed, group, table,
                 faults>>

\* SIGINT or SIGTERM.
Stop(c) ==
  /\ running[c]
  /\ faults < MaxFaults
  /\ faults' = faults + 1
  /\ running' = [running EXCEPT ![c] = FALSE]
  /\ UNCHANGED <<log, pc, position, buffer, committed, group, table>>

\* After the loop: one more insert, then commit and close.
FinalInsertOk(c) ==
  /\ pc[c] = "final"
  /\ buffer[c] # << >>
  /\ Insertable(c)
  /\ Store(buffer[c])
  /\ Goto(c, "finalCommit")
  /\ UNCHANGED <<log, running, position, buffer, committed, group, faults>>

FinalCommit(c) ==
  /\ pc[c] = "finalCommit"
  /\ c \in members
  /\ CommitPositions(c)
  /\ Die(c)
  /\ UNCHANGED <<log, position, group, table, faults>>

\* Nothing to flush, or the last insert raised: close without a commit.
FinalClose(c) ==
  /\ pc[c] = "final"
  /\ \/ buffer[c] = << >> /\ UNCHANGED <<table, faults>>
     \/ ~Insertable(c) /\ UNCHANGED <<table, faults>>
     \/ /\ faults < MaxFaults
        /\ faults' = faults + 1
        /\ \/ UNCHANGED table
           \/ Insertable(c) /\ Store(buffer[c])
  /\ Die(c)
  /\ UNCHANGED <<log, position, committed, group>>

Crash(c) ==
  /\ pc[c] # "down"
  /\ faults < MaxFaults
  /\ faults' = faults + 1
  /\ Die(c)
  /\ UNCHANGED <<log, position, committed, group, table>>

-----------------------------------------------------------------------------
Loop(c) ==
  \/ Flush(c) \/ Skip(c) \/ InsertOk(c) \/ InsertRefused(c) \/ Commit(c)
  \/ CommitRefused(c) \/ Backoff(c) \/ FinalInsertOk(c) \/ FinalCommit(c)
  \/ FinalClose(c)

Next ==
  \/ Rebalance
  \/ Evict
  \/ \E c \in Consumers :
       \/ Boot(c) \/ Loop(c)
       \/ ReadTimeout(c) \/ InsertFails(c) \/ Stop(c) \/ Crash(c)
       \/ \E p \in Partitions : Read(c, p) \/ ReadUndecodable(c, p)

Spec == Init /\ [][Next]_vars

\* The supervisor restarts a process that ended, the coordinator notices who
\* came and went, and a live loop keeps going: it is given the records it
\* polls for, and a flush deadline passes in the end.
Fairness ==
  /\ SF_vars(Rebalance)
  /\ \A c \in Consumers :
       /\ WF_vars(Boot(c))
       /\ WF_vars(ReadTimeout(c))
       /\ WF_vars(Loop(c))
       /\ SF_vars(Flush(c))
       /\ \A p \in Partitions : SF_vars(Read(c, p) \/ ReadUndecodable(c, p))

FairSpec == Spec /\ Fairness

-----------------------------------------------------------------------------
(* Properties                                                              *)

\* At-least-once: every record below the committed offset that parsed is in
\* ClickHouse, whoever read it and whatever was rebalanced or crashed.
NothingLost ==
  \A row \in Rows :
    row[2] <= committed[row[1]] /\ Kind(row) # "malformed" => Stored(row)

\* The group never goes back to records it has committed.
CommittedStep == \A p \in Partitions : committed'[p] >= committed[p]
CommittedNeverBack == [][CommittedStep]_vars

\* The topic has a record of one of these kinds.
Holds(kinds) == \E row \in Rows : Kind(row) \in kinds

\* As long as nobody else has entered its group, a process stores no row twice
\* unless a fault, or a record that is no JSON, makes it start over.
NoDuplicateWithoutFault ==
  faults = 0 /\ Cardinality(Live) <= 1 /\ ~Holds({"undecodable"}) => ~repeated

GoodStored == \A row \in Rows : Kind(row) = "good" => Stored(row)

\* Every good record of a topic without records that no insert and no process
\* survives reaches ClickHouse.
EverythingStored == ~Holds({"poison", "undecodable"}) => <>GoodStored
=============================================================================
