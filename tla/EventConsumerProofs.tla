------------------------- MODULE EventConsumerProofs ------------------------
(***************************************************************************)
(* At-least-once delivery of the ingest loop, for every topic, group, batch*)
(* size and number of faults: a record below the committed offset is in    *)
(* ClickHouse, and the committed offset never moves back.                  *)
(*                                                                         *)
(* NothingLost says nothing of records that were read and not committed.   *)
(* It is strengthened with where they are: a process that was given a      *)
(* partition has them in its buffer, unless they are stored (HeldInv), and *)
(* when it is about to commit its whole buffer is stored (ReadyInv).       *)
(***************************************************************************)
EXTENDS EventConsumer, FiniteSetTheorems, TLAPS

USE TopicAssumption, BoundAssumption

InBuffer(c, row) == \E i \in DOMAIN buffer[c] : buffer[c][i] = row

\* What c has read of a partition it was given, and not committed.
HeldInv(c, p) ==
  pc[c] # "down" /\ p \in Assigned(c) =>
    /\ committed[p] <= position[c][p]
    /\ \A row \in Rows :
         /\ row[1] = p
         /\ committed[p] < row[2] /\ row[2] <= position[c][p]
         /\ Kind(row) # "malformed"
         => InBuffer(c, row) \/ Stored(row)

ReadyInv(c) ==
  pc[c] \in {"commit", "finalCommit"} =>
    \A i \in DOMAIN buffer[c] : Stored(buffer[c][i])

DeliveryInv ==
  /\ TypeOK
  /\ NothingLost
  /\ \A c \in Consumers : ReadyInv(c)
  /\ \A c \in Consumers, p \in Partitions : HeldInv(c, p)

-----------------------------------------------------------------------------
(* Types                                                                   *)

\* A row is a partition and an offset that is a number.
LEMMA RowShape ==
  ASSUME log \in Logs, NEW row \in Rows
  PROVE  /\ row[1] \in Partitions
         /\ row[2] \in Nat
         /\ row = <<row[1], row[2]>>
<1>1. PICK p \in Partitions : row \in {p} \X DOMAIN log[p]
  BY DEF Rows
<1>2. log[p] \in Seq(Kinds)
  OBVIOUS
<1>3. DOMAIN log[p] \subseteq Nat
  BY <1>2
<1>. QED
  BY <1>1, <1>3

\* The next record of a partition becomes a row.
LEMMA NextRow ==
  ASSUME TypeOK, NEW c \in Consumers, NEW p \in Partitions,
         position[c][p] < Len(log[p])
  PROVE  <<p, position[c][p] + 1>> \in Rows
<1>1. log[p] \in Seq(Kinds) /\ position[c][p] \in Nat
  BY DEF TypeOK
<1>2. position[c][p] + 1 \in DOMAIN log[p]
  BY <1>1
<1>. QED
  BY <1>2 DEF Rows

\* Initially nothing is read, stored or committed.
LEMMA InitDelivery == Init => DeliveryInv
<1> SUFFICES ASSUME Init PROVE DeliveryInv
  OBVIOUS
<1>1. TypeOK
  <2>1. << >> \in Seq(Rows)
    OBVIOUS
  <2>2. 0 \in 0..MaxFaults
    OBVIOUS
  <2>. QED
    BY <2>1, <2>2, Zenon DEF Init, TypeOK, Labels
<1>2. \A row \in Rows : row[1] \in Partitions /\ row[2] \in Nat /\ ~(row[2] <= 0)
  <2> SUFFICES ASSUME NEW row \in Rows
               PROVE  row[1] \in Partitions /\ row[2] \in Nat /\ ~(row[2] <= 0)
    OBVIOUS
  <2>1. PICK p \in Partitions : row \in {p} \X DOMAIN log[p]
    BY DEF Rows
  <2>2. log[p] \in Seq(Kinds)
    BY DEF Init
  <2>3. \A o \in DOMAIN log[p] : o \in Nat /\ ~(o <= 0)
    BY <2>2
  <2>. QED
    BY <2>1, <2>3
<1>3. NothingLost
  BY <1>2 DEF NothingLost, Init
<1>4. \A c \in Consumers : ReadyInv(c)
  BY DEF Init, ReadyInv
<1>5. \A c \in Consumers, p \in Partitions : HeldInv(c, p)
  BY DEF Init, HeldInv
<1>. QED
  BY <1>1, <1>3, <1>4, <1>5 DEF DeliveryInv

\* A new generation keeps the types: its members start at the committed offsets.
LEMMA GenerationType ==
  ASSUME TypeOK, NEW joined \in SUBSET Consumers, NewGeneration(joined),
         faults' \in 0..MaxFaults
  PROVE  TypeOK'
<1>1. Rows' = Rows
  BY DEF NewGeneration, Rows
<1>2. position' \in [Consumers -> [Partitions -> Nat]]
  BY DEF TypeOK, NewGeneration
<1>3. owner' \in [Partitions -> Consumers \cup {None}]
  <2>1. owner' \in [Partitions -> joined]
    BY DEF NewGeneration
  <2>. QED
    BY <2>1
<1>4. members' \subseteq Consumers
  BY DEF NewGeneration
<1>. QED
  BY <1>1, <1>2, <1>3, <1>4 DEF TypeOK, NewGeneration, table

\* So does a step of the loop: it leaves the topic and the group alone.
LEMMA LoopType ==
  ASSUME TypeOK, NEW c \in Consumers, NEW l \in Labels,
         Goto(c, l),
         running' \in [Consumers -> BOOLEAN],
         position' \in [Consumers -> [Partitions -> Nat]],
         buffer' \in [Consumers -> Seq(Rows)],
         committed' \in [Partitions -> Nat],
         UNCHANGED table \/ Store(buffer[c]),
         faults' \in 0..MaxFaults,
         UNCHANGED <<log, group>>
  PROVE  TypeOK'
<1>1. Rows' = Rows
  BY DEF Rows
<1>2. pc' \in [Consumers -> Labels]
  BY DEF TypeOK, Goto
<1>3. parts' \subseteq Seq(Rows) /\ repeated' \in BOOLEAN
  <2>1. CASE UNCHANGED table
    BY <2>1 DEF TypeOK, table
  <2>2. CASE Store(buffer[c])
    <3>1. buffer[c] \in Seq(Rows)
      BY DEF TypeOK
    <3>2. parts' \subseteq Seq(Rows)
      BY <2>2, <3>1 DEF TypeOK, Store
    <3>3. repeated' \in BOOLEAN
      BY <2>2, Zenon DEF Store
    <3>. QED
      BY <3>2, <3>3
  <2>. QED
    BY <2>1, <2>2
<1>. QED
  BY <1>1, <1>2, <1>3 DEF TypeOK, group

\* An emptied buffer is a buffer.
LEMMA EmptiedBuffer ==
  ASSUME TypeOK, NEW c \in Consumers, buffer' = [buffer EXCEPT ![c] = << >>]
  PROVE  buffer' \in [Consumers -> Seq(Rows)]
<1>1. << >> \in Seq(Rows)
  OBVIOUS
<1>. QED
  BY <1>1 DEF TypeOK

\* The end of a process keeps the types.
LEMMA DieType ==
  ASSUME TypeOK, NEW c \in Consumers, Die(c),
         committed' \in [Partitions -> Nat],
         UNCHANGED table \/ Store(buffer[c]),
         faults' \in 0..MaxFaults,
         UNCHANGED <<log, position, group>>
  PROVE  TypeOK'
<1>1. buffer' \in [Consumers -> Seq(Rows)]
  BY EmptiedBuffer DEF Die
<1>2. running' \in [Consumers -> BOOLEAN]
  BY DEF TypeOK, Die
<1>3. Goto(c, "down") /\ "down" \in Labels
  BY DEF Die, Labels
<1>4. position' \in [Consumers -> [Partitions -> Nat]]
  BY DEF TypeOK
<1>. QED
  BY <1>1, <1>2, <1>3, <1>4, LoopType

\* Committed positions are offsets.
LEMMA CommitType ==
  ASSUME TypeOK, NEW c \in Consumers, CommitPositions(c)
  PROVE  committed' \in [Partitions -> Nat]
BY DEF TypeOK, CommitPositions

\* Every step keeps the types.
LEMMA NextType == TypeOK /\ [Next]_vars => TypeOK'
<1> SUFFICES ASSUME TypeOK, [Next]_vars PROVE TypeOK'
  OBVIOUS
<1>0. /\ faults \in 0..MaxFaults
      /\ running \in [Consumers -> BOOLEAN]
      /\ position \in [Consumers -> [Partitions -> Nat]]
      /\ buffer \in [Consumers -> Seq(Rows)]
      /\ committed \in [Partitions -> Nat]
      /\ faults < MaxFaults => faults + 1 \in 0..MaxFaults
  BY DEF TypeOK
<1>1. CASE Rebalance
  BY <1>0, <1>1, GenerationType DEF Rebalance, Live
<1>2. CASE Evict
  <2>1. PICK joined \in SUBSET Polling : NewGeneration(joined)
    BY <1>2 DEF Evict
  <2>. QED
    BY <1>0, <1>2, <2>1, GenerationType DEF Evict, Polling
<1>3. ASSUME NEW c \in Consumers, Boot(c) PROVE TypeOK'
  <2>1. Rows' = Rows
    BY <1>3 DEF Boot, Rows
  <2>2. pc' \in [Consumers -> Labels] /\ running' \in [Consumers -> BOOLEAN]
    BY <1>3 DEF Boot, TypeOK, Labels
  <2>3. members' \subseteq Consumers
    BY <1>3 DEF Boot, TypeOK
  <2>. QED
    BY <1>3, <2>1, <2>2, <2>3 DEF Boot, TypeOK, table
<1>4. ASSUME NEW c \in Consumers, Loop(c) PROVE TypeOK'
  <2>1. CASE Flush(c)
    <3>1. "insert" \in Labels
      BY DEF Labels
    <3>. QED
      BY <1>0, <2>1, <3>1, LoopType DEF Flush
  <2>2. CASE Skip(c) \/ Backoff(c)
    <3>1. PICK l \in Labels : Goto(c, l)
      BY <2>2 DEF Skip, Backoff, NextRound, Labels
    <3>. QED
      BY <1>0, <2>2, <3>1, LoopType DEF Skip, Backoff
  <2>3. CASE InsertOk(c) \/ FinalInsertOk(c)
    <3>1. PICK l \in Labels : Goto(c, l)
      BY <2>3 DEF InsertOk, FinalInsertOk, Labels
    <3>. QED
      BY <1>0, <2>3, <3>1, LoopType DEF InsertOk, FinalInsertOk
  <2>4. CASE InsertRefused(c)
    <3>1. "backoff" \in Labels
      BY DEF Labels
    <3>. QED
      BY <1>0, <2>4, <3>1, LoopType DEF InsertRefused
  <2>5. CASE Commit(c)
    <3>1. PICK l \in Labels : Goto(c, l)
      BY <2>5 DEF Commit, NextRound, Labels
    <3>2. committed' \in [Partitions -> Nat]
      BY <2>5, CommitType DEF Commit
    <3>3. buffer' \in [Consumers -> Seq(Rows)]
      BY <2>5, EmptiedBuffer DEF Commit
    <3>. QED
      BY <1>0, <2>5, <3>1, <3>2, <3>3, LoopType DEF Commit
  <2>6. CASE CommitRefused(c)
    BY <1>0, <2>6, DieType DEF CommitRefused
  <2>7. CASE FinalCommit(c)
    <3>1. committed' \in [Partitions -> Nat]
      BY <2>7, CommitType DEF FinalCommit
    <3>. QED
      BY <1>0, <2>7, <3>1, DieType DEF FinalCommit
  <2>8. CASE FinalClose(c)
    <3>1. faults' \in 0..MaxFaults /\ (UNCHANGED table \/ Store(buffer[c]))
      BY <1>0, <2>8 DEF FinalClose
    <3>. QED
      BY <1>0, <2>8, <3>1, DieType DEF FinalClose
  <2>. QED
    BY <1>4, <2>1, <2>2, <2>3, <2>4, <2>5, <2>6, <2>7, <2>8 DEF Loop
<1>5. ASSUME NEW c \in Consumers, ReadTimeout(c) PROVE TypeOK'
  <2>1. "decide" \in Labels
    BY DEF Labels
  <2>. QED
    BY <1>0, <1>5, <2>1, LoopType DEF ReadTimeout
<1>6. ASSUME NEW c \in Consumers, InsertFails(c) PROVE TypeOK'
  <2>1. "backoff" \in Labels
    BY DEF Labels
  <2>. QED
    BY <1>0, <1>6, <2>1, LoopType DEF InsertFails
<1>7. ASSUME NEW c \in Consumers, Stop(c) PROVE TypeOK'
  <2>1. Rows' = Rows
    BY <1>7 DEF Stop, Rows
  <2>2. running' \in [Consumers -> BOOLEAN]
    BY <1>0, <1>7 DEF Stop
  <2>. QED
    BY <1>0, <1>7, <2>1, <2>2 DEF Stop, TypeOK, group, table
<1>8. ASSUME NEW c \in Consumers, Crash(c) PROVE TypeOK'
  BY <1>0, <1>8, DieType DEF Crash
<1>9. ASSUME NEW c \in Consumers, NEW p \in Partitions, Read(c, p) PROVE TypeOK'
  <2>1. PICK l \in Labels : Goto(c, l)
    BY <1>9 DEF Read, Labels
  <2>2. <<p, position[c][p] + 1>> \in Rows
    BY <1>9, NextRow DEF Read
  <2>3. Append(buffer[c], <<p, position[c][p] + 1>>) \in Seq(Rows)
    BY <1>0, <2>2
  <2>4. buffer' \in [Consumers -> Seq(Rows)]
    BY <1>0, <1>9, <2>3 DEF Read
  <2>5. position' \in [Consumers -> [Partitions -> Nat]]
    BY <1>0, <1>9 DEF Read
  <2>. QED
    BY <1>0, <1>9, <2>1, <2>4, <2>5, LoopType DEF Read
<1>10. ASSUME NEW c \in Consumers, NEW p \in Partitions, ReadUndecodable(c, p)
       PROVE  TypeOK'
  BY <1>0, <1>10, DieType DEF ReadUndecodable
<1>11. CASE UNCHANGED vars
  <2>1. Rows' = Rows
    BY <1>11 DEF vars, Rows
  <2>. QED
    BY <1>11, <2>1 DEF vars, TypeOK
<1>. QED
  BY <1>1, <1>2, <1>3, <1>4, <1>5, <1>6, <1>7, <1>8, <1>9, <1>10, <1>11 DEF Next

-----------------------------------------------------------------------------
(* What is stored stays stored; what the steps of one process leave alone  *)

\* Storing a block keeps what was stored and adds the rows of the block.
LEMMA StoreStores ==
  ASSUME NEW block, Store(block)
  PROVE  /\ parts' = parts \cup {block}
         /\ \A row : Stored(row) => Stored(row)'
         /\ \A i \in DOMAIN block : Stored(block[i])'
  BY DEF Store, Stored

\* A step that leaves the group and the offsets alone, moves one process on
\* with its buffer kept, and forgets nothing stored, keeps the invariant.
LEMMA KeptBuffer ==
  ASSUME DeliveryInv, TypeOK', NEW c \in Consumers, NEW l \in Labels \ {"down"},
         pc[c] # "down",
         pc' = [pc EXCEPT ![c] = l],
         UNCHANGED <<log, position, buffer, committed, group>>,
         \A row : Stored(row) => Stored(row)',
         l \in {"commit", "finalCommit"} =>
           \A i \in DOMAIN buffer[c] : Stored(buffer[c][i])'
  PROVE  DeliveryInv'
<1>1. Rows' = Rows /\ \A row : Kind(row)' = Kind(row)
  BY DEF Rows, Kind
<1>2. NothingLost'
  BY <1>1 DEF DeliveryInv, NothingLost
<1>3. ASSUME NEW d \in Consumers PROVE ReadyInv(d)'
  <2>1. CASE d = c
    BY <2>1 DEF ReadyInv, DeliveryInv, TypeOK
  <2>2. CASE d # c
    BY <2>2 DEF ReadyInv, DeliveryInv, TypeOK
  <2>. QED
    BY <2>1, <2>2
<1>4. ASSUME NEW d \in Consumers, NEW p \in Partitions PROVE HeldInv(d, p)'
  <2>1. pc[d] = "down" => pc'[d] = "down"
    BY DEF DeliveryInv, TypeOK
  <2>2. HeldInv(d, p)
    BY DEF DeliveryInv
  <2>. QED
    BY <1>1, <2>1, <2>2 DEF HeldInv, InBuffer, Assigned, group
<1>. QED
  BY <1>2, <1>3, <1>4 DEF DeliveryInv

\* A step in which c ends, and the group and the offsets stay, keeps it: what c
\* had read is forgotten, and so is the promise.
LEMMA Ended ==
  ASSUME DeliveryInv, TypeOK', NEW c \in Consumers,
         Die(c),
         UNCHANGED <<log, position, committed, group>>,
         \A row : Stored(row) => Stored(row)'
  PROVE  DeliveryInv'
<1>1. Rows' = Rows /\ \A row : Kind(row)' = Kind(row)
  BY DEF Rows, Kind
<1>2. pc' = [pc EXCEPT ![c] = "down"] /\ buffer' = [buffer EXCEPT ![c] = << >>]
  BY DEF Die, Goto
<1>3. NothingLost'
  BY <1>1 DEF DeliveryInv, NothingLost
<1>4. ASSUME NEW d \in Consumers PROVE ReadyInv(d)'
  <2>1. CASE d = c
    BY <1>2, <2>1 DEF ReadyInv, DeliveryInv, TypeOK
  <2>2. CASE d # c
    BY <1>2, <2>2 DEF ReadyInv, DeliveryInv, TypeOK
  <2>. QED
    BY <2>1, <2>2
<1>5. ASSUME NEW d \in Consumers, NEW p \in Partitions PROVE HeldInv(d, p)'
  <2>1. CASE d = c
    BY <1>2, <2>1 DEF HeldInv, DeliveryInv, TypeOK
  <2>2. CASE d # c
    <3>1. pc'[d] = pc[d] /\ buffer'[d] = buffer[d]
      BY <1>2, <2>2 DEF DeliveryInv, TypeOK
    <3>2. HeldInv(d, p)
      BY DEF DeliveryInv
    <3>. QED
      BY <1>1, <3>1, <3>2 DEF HeldInv, InBuffer, Assigned, group
  <2>. QED
    BY <2>1, <2>2
<1>. QED
  BY <1>3, <1>4, <1>5 DEF DeliveryInv

\* A commit: the buffer is stored, so the records up to the positions are.
LEMMA Committed ==
  ASSUME DeliveryInv, TypeOK', NEW c \in Consumers,
         NEW l \in Labels \ {"commit", "finalCommit"},
         pc[c] \in {"commit", "finalCommit"},
         CommitPositions(c),
         pc' = [pc EXCEPT ![c] = l],
         buffer' = [buffer EXCEPT ![c] = << >>],
         UNCHANGED <<log, position, group, table>>
  PROVE  DeliveryInv' /\ CommittedStep
<1> USE DEF DeliveryInv
<1>1. /\ Rows' = Rows
      /\ \A row : Kind(row)' = Kind(row)
      /\ \A row : Stored(row)' = Stored(row)
      /\ \A d \in Consumers : Assigned(d)' = Assigned(d)
  BY DEF Rows, Kind, Stored, table, group, Assigned
<1>2. \A p \in Partitions :
        committed'[p] = IF p \in Assigned(c) THEN position[c][p] ELSE committed[p]
  BY DEF CommitPositions
<1>3. pc[c] # "down"
  OBVIOUS
<1>4. \A p \in Assigned(c) : HeldInv(c, p)
  BY DEF Assigned
<1>5. CommittedStep
  <2> SUFFICES ASSUME NEW p \in Partitions PROVE committed'[p] >= committed[p]
    BY DEF CommittedStep
  <2>1. committed[p] \in Nat /\ position[c] \in [Partitions -> Nat]
    BY DEF TypeOK
  <2>2. CASE p \in Assigned(c)
    <3>1. committed[p] <= position[c][p]
      BY <1>3, <1>4, <2>2 DEF HeldInv
    <3>. QED
      BY <1>2, <2>1, <2>2, <3>1
  <2>3. CASE p \notin Assigned(c)
    BY <1>2, <2>1, <2>3
  <2>. QED
    BY <2>2, <2>3
<1>6. \A row : InBuffer(c, row) => Stored(row)
  BY DEF ReadyInv, InBuffer
<1>7. NothingLost'
  <2> SUFFICES ASSUME NEW row \in Rows, row[2] <= committed'[row[1]],
                      Kind(row) # "malformed"
               PROVE  Stored(row)
    BY <1>1 DEF NothingLost
  <2>1. row[1] \in Partitions /\ row[2] \in Nat
    BY RowShape DEF TypeOK
  <2>2. CASE row[2] <= committed[row[1]]
    BY <2>2 DEF NothingLost
  <2>3. CASE ~(row[2] <= committed[row[1]])
    <3>1. row[1] \in Assigned(c) /\ row[2] <= position[c][row[1]]
      BY <1>2, <2>1, <2>3
    <3>2. committed[row[1]] < row[2]
      BY <2>1, <2>3 DEF TypeOK
    <3>. QED
      BY <1>3, <1>4, <1>6, <3>1, <3>2 DEF HeldInv
  <2>. QED
    BY <2>2, <2>3
<1>8. ASSUME NEW d \in Consumers PROVE ReadyInv(d)'
  <2>1. CASE d = c
    BY <2>1 DEF ReadyInv, TypeOK
  <2>2. CASE d # c
    BY <1>1, <2>2 DEF ReadyInv, TypeOK
  <2>. QED
    BY <2>1, <2>2
<1>9. ASSUME NEW d \in Consumers, NEW p \in Partitions PROVE HeldInv(d, p)'
  <2>1. CASE d = c
    <3>1. p \in Assigned(c) =>
            committed'[p] = position'[c][p] /\ committed'[p] \in Nat
      BY <1>2 DEF TypeOK
    <3>2. \A row \in Rows : row[2] \in Nat
      BY RowShape DEF TypeOK
    <3>. QED
      BY <1>1, <2>1, <3>1, <3>2 DEF HeldInv
  <2>2. CASE d # c
    <3>1. pc'[d] = pc[d] /\ buffer'[d] = buffer[d]
      BY <2>2 DEF TypeOK
    <3>2. p \in Assigned(d) => p \notin Assigned(c)
      BY <2>2 DEF Assigned
    <3>3. p \in Assigned(d) => committed'[p] = committed[p]
      BY <1>2, <3>2
    <3>4. HeldInv(d, p)
      OBVIOUS
    <3>. QED
      BY <1>1, <3>1, <3>3, <3>4 DEF HeldInv, InBuffer
  <2>. QED
    BY <2>1, <2>2
<1>. QED
  BY <1>5, <1>7, <1>8, <1>9

\* A new generation: its members have read nothing beyond the committed offsets,
\* and who is left out has no partition.
LEMMA Regrouped ==
  ASSUME DeliveryInv, TypeOK', NEW joined \in SUBSET Consumers,
         NewGeneration(joined)
  PROVE  DeliveryInv'
<1>1. /\ Rows' = Rows
      /\ \A row : Kind(row)' = Kind(row)
      /\ \A row : Stored(row)' = Stored(row)
  BY DEF Rows, Kind, Stored, NewGeneration, table
<1>2. NothingLost'
  BY <1>1 DEF DeliveryInv, NothingLost, NewGeneration
<1>3. ASSUME NEW d \in Consumers PROVE ReadyInv(d)'
  BY <1>1 DEF DeliveryInv, ReadyInv, NewGeneration
<1>4. ASSUME NEW d \in Consumers, NEW p \in Partitions PROVE HeldInv(d, p)'
  <2>1. CASE d \in joined
    <3>1. position'[d][p] = committed[p] /\ committed'[p] = committed[p]
      BY <2>1 DEF NewGeneration
    <3>2. committed[p] \in Nat
      BY DEF DeliveryInv, TypeOK
    <3>3. \A row \in Rows : row[2] \in Nat
      BY RowShape DEF DeliveryInv, TypeOK
    <3>. QED
      BY <1>1, <3>1, <3>2, <3>3 DEF HeldInv
  <2>2. CASE d \notin joined
    BY <2>2 DEF HeldInv, Assigned, NewGeneration
  <2>. QED
    BY <2>1, <2>2
<1>. QED
  BY <1>2, <1>3, <1>4 DEF DeliveryInv

\* A process that boots is in no generation yet.
LEMMA Booted ==
  ASSUME DeliveryInv, TypeOK', NEW c \in Consumers, Boot(c)
  PROVE  DeliveryInv'
<1>1. /\ Rows' = Rows
      /\ \A row : Kind(row)' = Kind(row)
      /\ \A row : Stored(row)' = Stored(row)
  BY DEF Rows, Kind, Stored, Boot, table
<1>2. NothingLost'
  BY <1>1 DEF DeliveryInv, NothingLost, Boot
<1>3. ASSUME NEW d \in Consumers PROVE ReadyInv(d)'
  <2>1. pc'[d] \in {"commit", "finalCommit"} => pc[d] = pc'[d]
    BY DEF DeliveryInv, TypeOK, Boot
  <2>. QED
    BY <1>1, <2>1 DEF DeliveryInv, ReadyInv, Boot
<1>4. ASSUME NEW d \in Consumers, NEW p \in Partitions PROVE HeldInv(d, p)'
  <2>1. CASE d = c
    BY <2>1 DEF HeldInv, Assigned, Boot
  <2>2. CASE d # c
    <3>1. pc'[d] = pc[d] /\ (p \in Assigned(d)' => p \in Assigned(d))
      BY <2>2 DEF DeliveryInv, TypeOK, Boot, Assigned
    <3>2. HeldInv(d, p)
      BY DEF DeliveryInv
    <3>. QED
      BY <1>1, <3>1, <3>2 DEF HeldInv, InBuffer, Boot
  <2>. QED
    BY <2>1, <2>2
<1>. QED
  BY <1>2, <1>3, <1>4 DEF DeliveryInv

\* A record read goes to the buffer, or is malformed.
LEMMA ReadOne ==
  ASSUME DeliveryInv, TypeOK', NEW c \in Consumers, NEW p \in Partitions,
         Read(c, p)
  PROVE  DeliveryInv'
<1> DEFINE next == <<p, position[c][p] + 1>>
<1>1. /\ Rows' = Rows
      /\ \A row : Kind(row)' = Kind(row)
      /\ \A row : Stored(row)' = Stored(row)
      /\ \A d \in Consumers : Assigned(d)' = Assigned(d)
  BY DEF Rows, Kind, Stored, Read, table, group, Assigned
<1>2. NothingLost'
  BY <1>1 DEF DeliveryInv, NothingLost, Read
<1>3. pc[c] = "poll" /\ pc'[c] \notin {"commit", "finalCommit"}
  BY DEF Read, PollReturns, Goto, DeliveryInv, TypeOK
<1>4. \A d \in Consumers : d # c =>
        pc'[d] = pc[d] /\ buffer'[d] = buffer[d] /\ position'[d] = position[d]
  BY DEF Read, Goto, DeliveryInv, TypeOK
<1>5. ASSUME NEW d \in Consumers PROVE ReadyInv(d)'
  BY <1>1, <1>3, <1>4 DEF DeliveryInv, ReadyInv
<1>6. buffer'[c] = IF Kind(next) = "malformed" THEN buffer[c]
                                               ELSE Append(buffer[c], next)
  BY DEF Read, DeliveryInv, TypeOK
<1>7. buffer[c] \in Seq(Rows) /\ next \in Rows
  BY NextRow DEF DeliveryInv, TypeOK, Read
<1>8. /\ \A row : InBuffer(c, row) => InBuffer(c, row)'
      /\ Kind(next) # "malformed" =>
           (\E i \in DOMAIN buffer'[c] : buffer'[c][i] = next)
  <2>1. CASE Kind(next) = "malformed"
    BY <1>6, <2>1 DEF InBuffer
  <2>2. CASE Kind(next) # "malformed"
    <3>1. buffer'[c] = Append(buffer[c], next)
      BY <1>6, <2>2
    <3>2. Len(buffer'[c]) \in DOMAIN buffer'[c] /\ buffer'[c][Len(buffer'[c])] = next
      BY <1>7, <3>1
    <3>3. \A i \in DOMAIN buffer[c] :
            i \in DOMAIN buffer'[c] /\ buffer'[c][i] = buffer[c][i]
      BY <1>7, <3>1
    <3>4. ASSUME NEW row, InBuffer(c, row) PROVE InBuffer(c, row)'
      <4>1. PICK i \in DOMAIN buffer[c] : buffer[c][i] = row
        BY <3>4 DEF InBuffer
      <4>2. i \in DOMAIN buffer'[c] /\ buffer'[c][i] = row
        BY <3>3, <4>1
      <4>. QED
        BY <4>2 DEF InBuffer
    <3>5. \E i \in DOMAIN buffer'[c] : buffer'[c][i] = next
      BY <3>2
    <3>. QED
      BY <3>4, <3>5
  <2>. QED
    BY <2>1, <2>2
<1>9. ASSUME NEW d \in Consumers, NEW q \in Partitions PROVE HeldInv(d, q)'
  <2>1. CASE d # c
    <3>1. HeldInv(d, q)
      BY DEF DeliveryInv
    <3>. QED
      BY <1>1, <1>4, <2>1, <3>1 DEF HeldInv, InBuffer, Read
  <2>2. CASE d = c /\ q # p
    <3>1. position'[c][q] = position[c][q]
      BY <2>2 DEF Read, DeliveryInv, TypeOK
    <3>2. HeldInv(c, q)
      BY DEF DeliveryInv
    <3>. QED
      BY <1>1, <1>3, <1>8, <2>2, <3>1, <3>2 DEF HeldInv, Read
  <2>3. CASE d = c /\ q = p
    <3>1. position'[c][p] = position[c][p] + 1 /\ position[c][p] \in Nat
      BY DEF Read, DeliveryInv, TypeOK
    <3>2. committed[p] \in Nat /\ committed' = committed
      BY DEF Read, DeliveryInv, TypeOK
    <3>3. HeldInv(c, p) /\ p \in Assigned(c)
      BY DEF DeliveryInv, Read
    <3>4. committed[p] <= position[c][p]
      BY <1>3, <3>3 DEF HeldInv
    <3>5. ASSUME NEW row \in Rows, row[1] = p, committed[p] < row[2],
                 row[2] <= position[c][p] + 1, Kind(row) # "malformed"
          PROVE  InBuffer(c, row)' \/ Stored(row)
      <4>1. row[2] \in Nat /\ row = <<row[1], row[2]>>
        BY RowShape DEF DeliveryInv, TypeOK
      <4>2. CASE row[2] <= position[c][p]
        BY <1>3, <1>8, <3>3, <3>5, <4>2 DEF HeldInv
      <4>3. CASE ~(row[2] <= position[c][p])
        <5>1. row[2] = position[c][p] + 1
          BY <3>1, <3>5, <4>1, <4>3
        <5>2. row = next
          BY <3>5, <4>1, <5>1
        <5>3. Kind(next) # "malformed"
          BY <3>5, <5>2
        <5>4. \E i \in DOMAIN buffer'[c] : buffer'[c][i] = next
          BY <1>8, <5>3
        <5>. QED
          BY <5>2, <5>4 DEF InBuffer
      <4>. QED
        BY <4>2, <4>3
    <3>. QED
      BY <1>1, <2>3, <3>1, <3>2, <3>4, <3>5 DEF HeldInv
  <2>. QED
    BY <2>1, <2>2, <2>3
<1>. QED
  BY <1>2, <1>5, <1>9 DEF DeliveryInv

-----------------------------------------------------------------------------
(* The theorems                                                            *)

\* A step that leaves the table alone, or stores a block, forgets nothing.
LEMMA Kept ==
  ASSUME UNCHANGED table \/ (\E block : Store(block))
  PROVE  \A row : Stored(row) => Stored(row)'
BY StoreStores DEF table, Stored

\* Every step keeps the invariant, and never moves a committed offset back.
LEMMA NextDelivery ==
  DeliveryInv /\ [Next]_vars => DeliveryInv' /\ CommittedStep
<1> SUFFICES ASSUME DeliveryInv, [Next]_vars PROVE DeliveryInv' /\ CommittedStep
  OBVIOUS
<1>0. TypeOK /\ TypeOK'
  BY NextType DEF DeliveryInv
<1>00. ASSUME committed' = committed PROVE CommittedStep
  <2>1. \A p \in Partitions : committed[p] \in Nat
    BY <1>0 DEF TypeOK
  <2>. QED
    BY <1>00, <2>1 DEF CommittedStep
<1>1. CASE Rebalance
  BY <1>0, <1>00, <1>1, Regrouped DEF Rebalance, Live, NewGeneration
<1>2. CASE Evict
  <2>1. PICK joined \in SUBSET Polling : NewGeneration(joined)
    BY <1>2 DEF Evict
  <2>. QED
    BY <1>0, <1>00, <2>1, Regrouped DEF Polling, NewGeneration
<1>3. ASSUME NEW c \in Consumers, Boot(c) PROVE DeliveryInv' /\ CommittedStep
  BY <1>0, <1>00, <1>3, Booted DEF Boot
<1>4. ASSUME NEW c \in Consumers, Loop(c) PROVE DeliveryInv' /\ CommittedStep
  <2>1. CASE Flush(c) \/ Skip(c) \/ InsertRefused(c) \/ Backoff(c)
    <3>1. PICK l \in Labels \ {"down", "commit", "finalCommit"} : Goto(c, l)
      BY <2>1 DEF Flush, Skip, InsertRefused, Backoff, NextRound, Labels
    <3>2. pc[c] # "down" /\ UNCHANGED <<log, position, buffer, committed, group, table>>
      BY <2>1 DEF Flush, Skip, InsertRefused, Backoff
    <3>3. \A row : Stored(row) => Stored(row)'
      BY <3>2, Kept
    <3>. QED
      BY <1>0, <1>00, <3>1, <3>2, <3>3, KeptBuffer DEF Goto
  <2>2. CASE InsertOk(c) \/ FinalInsertOk(c)
    <3>1. PICK l \in {"commit", "finalCommit"} : Goto(c, l)
      BY <2>2 DEF InsertOk, FinalInsertOk
    <3>2. pc[c] # "down" /\ UNCHANGED <<log, position, buffer, committed, group>>
      BY <2>2 DEF InsertOk, FinalInsertOk
    <3>3. Store(buffer[c])
      BY <2>2 DEF InsertOk, FinalInsertOk
    <3>4. /\ \A row : Stored(row) => Stored(row)'
          /\ \A i \in DOMAIN buffer[c] : Stored(buffer[c][i])'
      <4>1. \A row : Stored(row) => Stored(row)'
        BY <3>3, StoreStores
      <4>2. \A i \in DOMAIN buffer[c] : Stored(buffer[c][i])'
        BY <3>2, <3>3, StoreStores
      <4>. QED
        BY <4>1, <4>2
    <3>5. l \in Labels \ {"down"}
      BY DEF Labels
    <3>. QED
      BY <1>0, <1>00, <3>1, <3>2, <3>4, <3>5, KeptBuffer DEF Goto
  <2>3. CASE Commit(c)
    <3>1. PICK l \in Labels \ {"commit", "finalCommit"} : Goto(c, l)
      BY <2>3 DEF Commit, NextRound, Labels
    <3>. QED
      BY <1>0, <2>3, <3>1, Committed DEF Commit, Goto
  <2>4. CASE FinalCommit(c)
    <3>1. "down" \in Labels \ {"commit", "finalCommit"}
      BY DEF Labels
    <3>. QED
      BY <1>0, <2>4, <3>1, Committed DEF FinalCommit, Die, Goto
  <2>5. CASE CommitRefused(c)
    BY <1>0, <1>00, <2>5, Kept, Ended DEF CommitRefused
  <2>6. CASE FinalClose(c)
    <3>1. UNCHANGED table \/ (\E block : Store(block))
      BY <2>6 DEF FinalClose
    <3>. QED
      BY <1>0, <1>00, <2>6, <3>1, Kept, Ended DEF FinalClose
  <2>. QED
    BY <1>4, <2>1, <2>2, <2>3, <2>4, <2>5, <2>6 DEF Loop
<1>5. ASSUME NEW c \in Consumers, ReadTimeout(c) PROVE DeliveryInv' /\ CommittedStep
  <2>1. "decide" \in Labels \ {"down"}
    BY DEF Labels
  <2>. QED
    BY <1>0, <1>00, <1>5, <2>1, Kept, KeptBuffer DEF ReadTimeout, PollReturns, Goto
<1>6. ASSUME NEW c \in Consumers, InsertFails(c) PROVE DeliveryInv' /\ CommittedStep
  <2>1. "backoff" \in Labels \ {"down"}
    BY DEF Labels
  <2>2. UNCHANGED table \/ (\E block : Store(block))
    BY <1>6 DEF InsertFails
  <2>. QED
    BY <1>0, <1>00, <1>6, <2>1, <2>2, Kept, KeptBuffer DEF InsertFails, Goto
<1>7. ASSUME NEW c \in Consumers, Stop(c) PROVE DeliveryInv' /\ CommittedStep
  <2>1. UNCHANGED <<log, pc, position, buffer, committed, members, owner, parts>>
    BY <1>7 DEF Stop, group, table
  <2>2. DeliveryInv'
    BY <1>0, <2>1 DEF DeliveryInv, NothingLost, ReadyInv, HeldInv, InBuffer, Stored,
                      Rows, Kind, Assigned
  <2>. QED
    BY <1>00, <2>1, <2>2
<1>8. ASSUME NEW c \in Consumers, Crash(c) PROVE DeliveryInv' /\ CommittedStep
  BY <1>0, <1>00, <1>8, Kept, Ended DEF Crash
<1>9. ASSUME NEW c \in Consumers, NEW p \in Partitions, Read(c, p)
      PROVE  DeliveryInv' /\ CommittedStep
  BY <1>0, <1>00, <1>9, ReadOne DEF Read
<1>10. ASSUME NEW c \in Consumers, NEW p \in Partitions, ReadUndecodable(c, p)
       PROVE  DeliveryInv' /\ CommittedStep
  BY <1>0, <1>00, <1>10, Kept, Ended DEF ReadUndecodable
<1>11. CASE UNCHANGED vars
  <2>1. UNCHANGED <<log, pc, position, buffer, committed, members, owner, parts>>
    BY <1>11 DEF vars
  <2>2. DeliveryInv'
    BY <1>0, <2>1 DEF DeliveryInv, NothingLost, ReadyInv, HeldInv, InBuffer, Stored,
                      Rows, Kind, Assigned
  <2>. QED
    BY <1>00, <2>1, <2>2
<1>. QED
  BY <1>1, <1>2, <1>3, <1>4, <1>5, <1>6, <1>7, <1>8, <1>9, <1>10, <1>11 DEF Next

\* The invariant holds in every behaviour of the consumer group.
THEOREM DeliveryInvariant == Spec => []DeliveryInv
BY InitDelivery, NextDelivery, PTL DEF Spec

\* At-least-once, for every topic and group: what is committed and parsed is
\* stored (run(), flush() and the commit after it in consumer.py).
THEOREM AtLeastOnce == Spec => [](TypeOK /\ NothingLost)
<1>1. DeliveryInv => TypeOK /\ NothingLost
  BY DEF DeliveryInv
<1>. QED
  BY <1>1, DeliveryInvariant, PTL

\* Through rebalances and refused commits the group's offsets only grow.
THEOREM CommitsOnlyGrow == Spec => CommittedNeverBack
<1>1. DeliveryInv /\ [Next]_vars => [CommittedStep]_vars
  BY NextDelivery
<1>. QED
  BY <1>1, DeliveryInvariant, PTL DEF Spec, CommittedNeverBack

-----------------------------------------------------------------------------
(* No duplicate without a fault                                            *)

\* Nothing has made a process start over.
Undisturbed == faults = 0 /\ ~Holds({"undecodable"})

\* Then no process ends or leaves, and one that has joined stays a member.
CalmInv ==
  Undisturbed =>
    /\ members \subseteq Live
    /\ members = {} => parts = {} /\ ~repeated
    /\ \A c \in Consumers :
         /\ pc[c] # "down" => running[c]
         /\ pc[c] \notin {"final", "finalCommit"}
         /\ pc[c] \notin {"down", "poll"} => c \in members
         /\ c \notin members => buffer[c] = << >>

\* What c has in its buffer it has read since its last commit, once.
FreshBuffer(c) ==
  /\ \A i \in DOMAIN buffer[c] :
       /\ committed[buffer[c][i][1]] < buffer[c][i][2]
       /\ buffer[c][i][2] <= position[c][buffer[c][i][1]]
  /\ \A i, j \in DOMAIN buffer[c] : buffer[c][i] = buffer[c][j] => i = j

\* What is stored is committed, or about to be.
StoredBehind(c) ==
  \A row \in Rows : Stored(row) =>
    row[2] <= IF pc[c] = "commit" THEN position[c][row[1]] ELSE committed[row[1]]

\* While nobody but c has entered the group, each row is read and stored once.
LoneInv ==
  Undisturbed =>
    \A c \in Consumers : Live \subseteq {c} =>
      /\ ~repeated
      /\ c \in members => \A p \in Partitions : owner[p] = c
      /\ FreshBuffer(c)
      /\ StoredBehind(c)

OnceInv == DeliveryInv /\ CalmInv /\ LoneInv

LEMMA InitOnce == Init => CalmInv /\ LoneInv
<1>. SUFFICES ASSUME Init PROVE CalmInv /\ LoneInv
  OBVIOUS
<1>1. \A c \in Consumers : pc[c] = "down" /\ buffer[c] = << >>
  BY DEF Init
<1>2. CalmInv
  BY <1>1 DEF Init, CalmInv
<1>3. \A row : ~Stored(row)
  BY DEF Init, Stored
<1>4. \A c \in Consumers : FreshBuffer(c) /\ StoredBehind(c) /\ c \notin members
  BY <1>1, <1>3 DEF Init, FreshBuffer, StoredBehind
<1>. QED
  BY <1>2, <1>4 DEF LoneInv, Init

\* What disturbs the group is never undone.
LEMMA UndisturbedBefore ==
  ASSUME TypeOK, [Next]_vars, Undisturbed'
  PROVE  /\ Undisturbed
         /\ UNCHANGED <<log, faults>>
         /\ Rows' = Rows
         /\ \A row : Kind(row)' = Kind(row)
<1>1. log' = log /\ faults' \in {faults, faults + 1}
  <2>1. CASE UNCHANGED vars
    BY <2>1 DEF vars
  <2>2. CASE Rebalance \/ Evict
    BY <2>2 DEF Rebalance, Evict, NewGeneration
  <2>3. ASSUME NEW c \in Consumers,
               Boot(c) \/ ReadTimeout(c) \/ InsertFails(c) \/ Stop(c) \/ Crash(c)
        PROVE  log' = log /\ faults' \in {faults, faults + 1}
    BY <2>3 DEF Boot, ReadTimeout, InsertFails, Stop, Crash
  <2>4. ASSUME NEW c \in Consumers, Loop(c)
        PROVE  log' = log /\ faults' \in {faults, faults + 1}
    <3>1. CASE Flush(c) \/ Skip(c) \/ InsertOk(c) \/ InsertRefused(c) \/ Commit(c)
      BY <3>1 DEF Flush, Skip, InsertOk, InsertRefused, Commit
    <3>2. CASE CommitRefused(c) \/ Backoff(c) \/ FinalInsertOk(c) \/ FinalCommit(c)
      BY <3>2 DEF CommitRefused, Backoff, FinalInsertOk, FinalCommit
    <3>3. CASE FinalClose(c)
      BY <3>3 DEF FinalClose
    <3>. QED
      BY <2>4, <3>1, <3>2, <3>3 DEF Loop
  <2>5. ASSUME NEW c \in Consumers, NEW p \in Partitions, Read(c, p) \/ ReadUndecodable(c, p)
        PROVE  log' = log /\ faults' \in {faults, faults + 1}
    BY <2>5 DEF Read, ReadUndecodable
  <2>. QED
    BY <2>1, <2>2, <2>3, <2>4, <2>5 DEF Next
<1>3. faults = 0 /\ faults' = 0
  BY <1>1 DEF TypeOK, Undisturbed
<1>4. Rows' = Rows /\ \A row : Kind(row)' = Kind(row)
  BY <1>1 DEF Rows, Kind
<1>. QED
  BY <1>1, <1>3, <1>4 DEF Undisturbed, Holds

\* A process goes on, and nothing is read, stored or committed.
LEMMA MovesOnce ==
  ASSUME OnceInv, Undisturbed, NEW c \in Consumers,
         NEW l \in {"poll", "decide", "insert", "backoff"},
         pc[c] \in {"poll", "decide", "insert", "backoff"}, c \in members,
         pc' = [pc EXCEPT ![c] = l],
         UNCHANGED <<log, running, position, buffer, committed, group, table>>
  PROVE  CalmInv' /\ LoneInv'
<1>1. \A d \in Consumers : pc'[d] = IF d = c THEN l ELSE pc[d]
  BY DEF OnceInv, DeliveryInv, TypeOK
<1>2. Live' = Live
  BY <1>1 DEF Live
<1>3. Rows' = Rows /\ \A row : Stored(row)' = Stored(row)
  BY DEF Rows, Stored, table
<1>4. CalmInv'
  BY <1>1, <1>2 DEF OnceInv, CalmInv, group, table
<1>5. \A d \in Consumers : FreshBuffer(d)' <=> FreshBuffer(d)
  BY DEF FreshBuffer
<1>6. \A d \in Consumers : StoredBehind(d) => StoredBehind(d)'
  BY <1>1, <1>3 DEF StoredBehind
<1>. QED
  BY <1>2, <1>4, <1>5, <1>6 DEF OnceInv, LoneInv, group, table

LEMMA RebalanceOnce ==
  ASSUME OnceInv, Undisturbed, Rebalance
  PROVE  CalmInv' /\ LoneInv'
<1>1. /\ members' = Live /\ members # Live /\ Live # {}
      /\ owner' \in [Partitions -> Live]
      /\ position' = [c \in Consumers |-> IF c \in Live THEN committed ELSE position[c]]
      /\ UNCHANGED <<log, pc, running, buffer, committed, table>>
      /\ \A c \in Live : pc[c] = "poll"
  BY DEF Rebalance, NewGeneration, Live, Polling
<1>2. Live' = Live
  BY <1>1 DEF Live
<1>3. members \subseteq Live
  BY DEF OnceInv, CalmInv
<1>4. CalmInv'
  BY <1>1, <1>2, <1>3 DEF OnceInv, CalmInv, table, Live
<1>5. ASSUME NEW c \in Consumers, Live \subseteq {c}
      PROVE  /\ ~repeated' /\ \A p \in Partitions : owner'[p] = c
             /\ FreshBuffer(c)' /\ StoredBehind(c)'
  <2>0. members = {}
    BY <1>1, <1>3, <1>5
  <2>1. members = {} /\ parts = {} /\ ~repeated /\ buffer[c] = << >>
    BY <2>0 DEF OnceInv, CalmInv
  <2>2. \A row : ~Stored(row)'
    BY <1>1, <2>1 DEF Stored, table
  <2>3. FreshBuffer(c)' /\ StoredBehind(c)'
    BY <1>1, <2>1, <2>2 DEF FreshBuffer, StoredBehind
  <2>4. \A p \in Partitions : owner'[p] = c
    BY <1>1, <1>5
  <2>. QED
    BY <1>1, <2>1, <2>3, <2>4 DEF table
<1>. QED
  BY <1>2, <1>4, <1>5 DEF LoneInv

LEMMA BootOnce ==
  ASSUME OnceInv, Undisturbed, NEW c \in Consumers, Boot(c)
  PROVE  CalmInv' /\ LoneInv'
<1>1. /\ pc[c] = "down"
      /\ \A d \in Consumers : pc'[d] = IF d = c THEN "poll" ELSE pc[d]
      /\ \A d \in Consumers : running'[d] = IF d = c THEN TRUE ELSE running[d]
      /\ UNCHANGED <<log, position, buffer, committed, owner, table>>
  BY DEF Boot, OnceInv, DeliveryInv, TypeOK
<1>2. Live' = Live \cup {c} /\ c \notin Live
  BY <1>1 DEF Live
<1>3. c \notin members /\ members \subseteq Live
  BY <1>2 DEF OnceInv, CalmInv
<1>4. members' = members
  BY <1>3 DEF Boot
<1>5. CalmInv'
  BY <1>1, <1>2, <1>3, <1>4 DEF OnceInv, CalmInv, table
<1>6. ASSUME NEW d \in Consumers, Live' \subseteq {d}
      PROVE  /\ ~repeated' /\ d \notin members'
             /\ FreshBuffer(d)' /\ StoredBehind(d)'
  <2>1. d = c /\ members = {}
    BY <1>2, <1>3, <1>6
  <2>2. parts = {} /\ ~repeated /\ buffer[d] = << >>
    BY <1>3, <2>1 DEF OnceInv, CalmInv
  <2>3. \A row : ~Stored(row)'
    BY <1>1, <2>2 DEF Stored, table
  <2>4. FreshBuffer(d)' /\ StoredBehind(d)'
    BY <1>1, <2>2, <2>3 DEF FreshBuffer, StoredBehind
  <2>. QED
    BY <1>1, <1>3, <1>4, <2>1, <2>2, <2>4 DEF table
<1>. QED
  BY <1>5, <1>6 DEF LoneInv

LEMMA ReadOnce ==
  ASSUME OnceInv, Undisturbed, NEW c \in Consumers, NEW p \in Partitions, Read(c, p)
  PROVE  CalmInv' /\ LoneInv'
<1>. DEFINE row == <<p, position[c][p] + 1>>
<1>1. PICK l \in {"decide", "poll"} : pc' = [pc EXCEPT ![c] = l]
  BY DEF Read, Goto
<1>0. /\ buffer \in [Consumers -> Seq(Rows)]
      /\ buffer' = [buffer EXCEPT ![c] = IF Kind(row) = "malformed" THEN @ ELSE Append(@, row)]
  BY DEF Read, OnceInv, DeliveryInv, TypeOK
<1>2. /\ pc[c] = "poll" /\ c \in members
      /\ position' = [position EXCEPT ![c][p] = @ + 1]
      /\ buffer' = buffer \/ buffer' = [buffer EXCEPT ![c] = Append(@, row)]
      /\ UNCHANGED <<log, running, committed, group, table>>
  <2>1. CASE Kind(row) = "malformed"
    BY <1>0, <2>1 DEF Read, PollReturns
  <2>2. CASE Kind(row) # "malformed"
    BY <1>0, <2>2 DEF Read, PollReturns
  <2>. QED
    BY <2>1, <2>2
<1>3. /\ pc \in [Consumers -> Labels]
      /\ position \in [Consumers -> [Partitions -> Nat]]
      /\ buffer \in [Consumers -> Seq(Rows)]
      /\ committed \in [Partitions -> Nat]
  BY DEF OnceInv, DeliveryInv, TypeOK
<1>4. /\ \A d \in Consumers : pc'[d] = IF d = c THEN l ELSE pc[d]
      /\ \A d \in Consumers : d # c => buffer'[d] = buffer[d]
  BY <1>1, <1>2, <1>3
<1>5. Live' = Live /\ c \in Live
  BY <1>2, <1>4 DEF Live
<1>6. Rows' = Rows /\ \A r : Stored(r)' = Stored(r)
  BY <1>2 DEF Rows, Stored, table
<1>7. CalmInv'
  BY <1>2, <1>4, <1>5 DEF OnceInv, CalmInv, group, table
<1>8. ASSUME Live \subseteq {c}
      PROVE  FreshBuffer(c)' /\ StoredBehind(c)'
  <2>1. FreshBuffer(c) /\ StoredBehind(c) /\ owner[p] = c
    BY <1>2, <1>8 DEF OnceInv, LoneInv
  <2>2. \A q \in Partitions : position'[c][q] = IF q = p THEN position[c][q] + 1 ELSE position[c][q]
    BY <1>2, <1>3
  <2>3. committed[p] <= position[c][p]
    BY <1>2, <2>1 DEF OnceInv, DeliveryInv, HeldInv, Assigned
  <2>4. \A r \in Rows : r[1] \in Partitions /\ r[2] \in Nat
    BY RowShape DEF OnceInv, DeliveryInv, TypeOK
  <2>5. \A i \in DOMAIN buffer[c] : buffer[c][i] \in Rows
    BY <1>3
  <2>6. \A i \in DOMAIN buffer[c] :
          /\ committed'[buffer[c][i][1]] < buffer[c][i][2]
          /\ buffer[c][i][2] <= position'[c][buffer[c][i][1]]
          /\ buffer[c][i] # row
    <3>. SUFFICES ASSUME NEW i \in DOMAIN buffer[c]
                  PROVE  /\ committed'[buffer[c][i][1]] < buffer[c][i][2]
                         /\ buffer[c][i][2] <= position'[c][buffer[c][i][1]]
                         /\ buffer[c][i] # row
      OBVIOUS
    <3>. DEFINE r == buffer[c][i]
    <3>1. r[1] \in Partitions /\ r[2] \in Nat
      BY <2>4, <2>5
    <3>2. committed[r[1]] < r[2] /\ r[2] <= position[c][r[1]] /\ position[c][r[1]] \in Nat
      BY <1>3, <2>1, <3>1 DEF FreshBuffer
    <3>3. r[2] <= position'[c][r[1]]
      BY <2>2, <3>1, <3>2
    <3>4. r # row
      BY <3>2
    <3>. QED
      BY <1>2, <3>2, <3>3, <3>4
  <2>7. committed'[row[1]] < row[2] /\ row[2] <= position'[c][row[1]]
    BY <1>2, <1>3, <2>2, <2>3
  <2>8. FreshBuffer(c)'
    <3>1. CASE buffer' = buffer
      BY <2>1, <2>6, <3>1 DEF FreshBuffer
    <3>2. CASE buffer' = [buffer EXCEPT ![c] = Append(@, row)]
      <4>1. buffer'[c] = Append(buffer[c], row) /\ buffer[c] \in Seq(Rows)
        BY <1>3, <3>2
      <4>2. /\ DOMAIN buffer'[c] = DOMAIN buffer[c] \cup {Len(buffer[c]) + 1}
            /\ Len(buffer[c]) + 1 \notin DOMAIN buffer[c]
            /\ buffer'[c][Len(buffer[c]) + 1] = row
            /\ \A i \in DOMAIN buffer[c] : buffer'[c][i] = buffer[c][i]
        BY <4>1
      <4>3. ASSUME NEW i \in DOMAIN buffer'[c], NEW j \in DOMAIN buffer'[c],
                   buffer'[c][i] = buffer'[c][j]
            PROVE  i = j
        <5>1. CASE i \in DOMAIN buffer[c] /\ j \in DOMAIN buffer[c]
          BY <2>1, <4>2, <4>3, <5>1 DEF FreshBuffer
        <5>2. CASE i \notin DOMAIN buffer[c] \/ j \notin DOMAIN buffer[c]
          BY <2>6, <4>2, <4>3, <5>2
        <5>. QED
          BY <5>1, <5>2
      <4>4. \A i \in DOMAIN buffer'[c] :
              /\ committed'[buffer'[c][i][1]] < buffer'[c][i][2]
              /\ buffer'[c][i][2] <= position'[c][buffer'[c][i][1]]
        BY <2>6, <2>7, <4>2
      <4>. QED
        BY <4>3, <4>4 DEF FreshBuffer
    <3>. QED
      BY <1>2, <3>1, <3>2
  <2>9. StoredBehind(c)'
    BY <1>2, <1>4, <1>6, <2>1 DEF StoredBehind
  <2>. QED
    BY <2>8, <2>9
<1>9. ASSUME NEW d \in Consumers, Live' \subseteq {d} PROVE d = c
  BY <1>5, <1>9
<1>. QED
  BY <1>2, <1>5, <1>7, <1>8, <1>9 DEF OnceInv, LoneInv, group, table

LEMMA InsertOnce ==
  ASSUME OnceInv, Undisturbed, NEW c \in Consumers, InsertOk(c)
  PROVE  CalmInv' /\ LoneInv'
<1>1. /\ pc[c] = "insert" /\ Store(buffer[c])
      /\ pc' = [pc EXCEPT ![c] = "commit"]
      /\ UNCHANGED <<log, running, position, buffer, committed, group>>
  BY DEF InsertOk, Goto
<1>2. \A d \in Consumers : pc'[d] = IF d = c THEN "commit" ELSE pc[d]
  BY <1>1 DEF OnceInv, DeliveryInv, TypeOK
<1>3. Live' = Live /\ c \in Live
  BY <1>1, <1>2 DEF Live
<1>4. c \in members
  BY <1>1 DEF OnceInv, CalmInv
<1>5. CalmInv'
  BY <1>1, <1>2, <1>3, <1>4 DEF OnceInv, CalmInv, group
<1>6. ASSUME Live \subseteq {c}
      PROVE  ~repeated' /\ FreshBuffer(c)' /\ StoredBehind(c)'
  <2>1. FreshBuffer(c) /\ StoredBehind(c) /\ ~repeated
        /\ \A p \in Partitions : owner[p] = c
    BY <1>4, <1>6 DEF OnceInv, LoneInv
  <2>2. \A p \in Partitions : /\ committed[p] <= position[c][p]
                              /\ committed[p] \in Nat /\ position[c][p] \in Nat
    BY <1>1, <1>4, <2>1 DEF OnceInv, DeliveryInv, TypeOK, HeldInv, Assigned
  <2>3. \A r \in Rows : r[1] \in Partitions /\ r[2] \in Nat
    BY RowShape DEF OnceInv, DeliveryInv, TypeOK
  <2>4. \A i \in DOMAIN buffer[c] : buffer[c][i] \in Rows
    BY DEF OnceInv, DeliveryInv, TypeOK
  <2>5. \A i \in DOMAIN buffer[c] : ~Stored(buffer[c][i])
    <3>. SUFFICES ASSUME NEW i \in DOMAIN buffer[c], Stored(buffer[c][i]) PROVE FALSE
      OBVIOUS
    <3>1. committed[buffer[c][i][1]] < buffer[c][i][2]
      BY <2>1 DEF FreshBuffer
    <3>2. buffer[c][i][2] <= committed[buffer[c][i][1]]
      BY <1>1, <2>1, <2>4 DEF StoredBehind
    <3>. QED
      BY <2>2, <2>3, <2>4, <3>1, <3>2
  <2>6. ~repeated'
    BY <1>1, <2>1, <2>5 DEF Store, FreshBuffer
  <2>7. \A r : Stored(r)' => Stored(r) \/ \E i \in DOMAIN buffer[c] : buffer[c][i] = r
    BY <1>1 DEF Stored, Store
  <2>8. ASSUME NEW r \in Rows, Stored(r)' PROVE r[2] <= position[c][r[1]]
    <3>1. CASE Stored(r)
      BY <1>1, <2>1, <2>2, <2>3, <3>1 DEF StoredBehind
    <3>2. CASE \E i \in DOMAIN buffer[c] : buffer[c][i] = r
      BY <2>1, <3>2 DEF FreshBuffer
    <3>. QED
      BY <2>7, <2>8, <3>1, <3>2
  <2>9. StoredBehind(c)'
    BY <1>1, <1>2, <2>8 DEF StoredBehind, Rows
  <2>10. FreshBuffer(c)'
    BY <1>1, <2>1 DEF FreshBuffer
  <2>. QED
    BY <2>6, <2>9, <2>10
<1>7. ASSUME NEW d \in Consumers, Live' \subseteq {d} PROVE d = c
  BY <1>3, <1>7
<1>. QED
  BY <1>1, <1>3, <1>5, <1>6, <1>7 DEF OnceInv, LoneInv, group

LEMMA CommitOnce ==
  ASSUME OnceInv, Undisturbed, NEW c \in Consumers, Commit(c)
  PROVE  CalmInv' /\ LoneInv'
<1>1. /\ pc[c] = "commit" /\ c \in members /\ running[c]
      /\ CommitPositions(c)
      /\ buffer' = [buffer EXCEPT ![c] = << >>]
      /\ UNCHANGED <<log, running, position, group, table>>
  BY DEF Commit, OnceInv, CalmInv
<1>2. pc' = [pc EXCEPT ![c] = "poll"]
  BY <1>1 DEF Commit, NextRound, Goto
<1>3. /\ \A d \in Consumers : pc'[d] = IF d = c THEN "poll" ELSE pc[d]
      /\ \A d \in Consumers : buffer'[d] = IF d = c THEN << >> ELSE buffer[d]
  BY <1>1, <1>2 DEF OnceInv, DeliveryInv, TypeOK
<1>4. Live' = Live /\ c \in Live
  BY <1>1, <1>3 DEF Live
<1>5. CalmInv'
  BY <1>1, <1>3, <1>4 DEF OnceInv, CalmInv, group, table
<1>6. ASSUME Live \subseteq {c} PROVE FreshBuffer(c)' /\ StoredBehind(c)'
  <2>1. StoredBehind(c) /\ \A p \in Partitions : owner[p] = c
    BY <1>1, <1>6 DEF OnceInv, LoneInv
  <2>2. \A p \in Partitions : committed'[p] = position[c][p]
    BY <1>1, <2>1 DEF CommitPositions, Assigned
  <2>3. \A r \in Rows : r[1] \in Partitions
    BY RowShape DEF OnceInv, DeliveryInv, TypeOK
  <2>4. Rows' = Rows /\ \A r : Stored(r)' = Stored(r)
    BY <1>1 DEF Rows, Stored, table
  <2>5. StoredBehind(c)'
    BY <1>1, <1>3, <2>1, <2>2, <2>3, <2>4 DEF StoredBehind
  <2>. QED
    BY <1>3, <2>5 DEF FreshBuffer
<1>7. ASSUME NEW d \in Consumers, Live' \subseteq {d} PROVE d = c
  BY <1>4, <1>7
<1>. QED
  BY <1>1, <1>4, <1>5, <1>6, <1>7 DEF OnceInv, LoneInv, group, table

LEMMA NextOnce == OnceInv /\ [Next]_vars => OnceInv'
<1>. SUFFICES ASSUME OnceInv, [Next]_vars PROVE OnceInv'
  OBVIOUS
<1>0. DeliveryInv' /\ TypeOK
  BY NextDelivery DEF OnceInv, DeliveryInv
<1>. SUFFICES ASSUME Undisturbed' PROVE CalmInv' /\ LoneInv'
  BY <1>0 DEF OnceInv, CalmInv, LoneInv
<1>1. Undisturbed /\ faults' = faults /\ faults \in Nat
  BY <1>0, UndisturbedBefore DEF TypeOK
<1>2. CASE Rebalance
  BY <1>1, <1>2, RebalanceOnce
<1>3. ASSUME NEW c \in Consumers, Boot(c) PROVE CalmInv' /\ LoneInv'
  BY <1>1, <1>3, BootOnce
<1>4. ASSUME NEW c \in Consumers, NEW p \in Partitions, Read(c, p)
      PROVE  CalmInv' /\ LoneInv'
  BY <1>1, <1>4, ReadOnce
<1>5. ASSUME NEW c \in Consumers, InsertOk(c) PROVE CalmInv' /\ LoneInv'
  BY <1>1, <1>5, InsertOnce
<1>6. ASSUME NEW c \in Consumers, Commit(c) PROVE CalmInv' /\ LoneInv'
  BY <1>1, <1>6, CommitOnce
<1>7. ASSUME NEW c \in Consumers,
             ReadTimeout(c) \/ Flush(c) \/ Skip(c) \/ InsertRefused(c) \/ Backoff(c)
      PROVE  CalmInv' /\ LoneInv'
  <2>1. pc[c] \in {"poll", "decide", "insert", "backoff"} /\ c \in members /\ running[c]
    BY <1>1, <1>7 DEF ReadTimeout, PollReturns, Flush, Skip, InsertRefused, Backoff, OnceInv,
       CalmInv
  <2>2. PICK l \in {"poll", "decide", "insert", "backoff"} : pc' = [pc EXCEPT ![c] = l]
    BY <1>7, <2>1 DEF ReadTimeout, Flush, Skip, InsertRefused, Backoff, NextRound, Goto
  <2>3. UNCHANGED <<log, running, position, buffer, committed, group, table>>
    BY <1>7 DEF ReadTimeout, Flush, Skip, InsertRefused, Backoff
  <2>. QED
    BY <1>1, <2>1, <2>2, <2>3, MovesOnce
\* The other steps are faults, or of a process that has left its loop or group.
<1>8. ASSUME NEW c \in Consumers,
             CommitRefused(c) \/ FinalInsertOk(c) \/ FinalCommit(c) \/ FinalClose(c)
      PROVE  FALSE
  BY <1>1, <1>8 DEF CommitRefused, FinalInsertOk, FinalCommit, FinalClose, OnceInv, CalmInv
<1>9. ASSUME NEW c \in Consumers, Evict \/ InsertFails(c) \/ Stop(c) \/ Crash(c)
      PROVE  FALSE
  BY <1>1, <1>9 DEF Evict, InsertFails, Stop, Crash
<1>10. ASSUME NEW c \in Consumers, NEW p \in Partitions, ReadUndecodable(c, p) PROVE FALSE
  <2>1. <<p, position[c][p] + 1>> \in Rows
    BY <1>0, <1>10, NextRow DEF ReadUndecodable
  <2>. QED
    BY <1>1, <1>10, <2>1 DEF ReadUndecodable, Undisturbed, Holds
<1>11. CASE UNCHANGED vars
  <2>1. UNCHANGED <<log, pc, running, position, buffer, committed, members, owner, parts, repeated>>
    BY <1>11 DEF vars
  <2>. QED
    BY <1>1, <2>1 DEF OnceInv, CalmInv, LoneInv, Live, FreshBuffer, StoredBehind, Stored, Rows
<1>12. Evict => FALSE
  BY <1>1 DEF Evict
<1>. QED
  BY <1>2, <1>3, <1>4, <1>5, <1>6, <1>7, <1>8, <1>9, <1>10, <1>11, <1>12 DEF Next, Loop

\* Exactly once in the quiet case, for every topic and batch size: the rows of a
\* process that nobody else's entering, no fault and no undecodable record makes
\* start over are stored once (the buffer is cleared after the commit, and a
\* block is inserted again only when its insert failed).
THEOREM ExactlyOnceWhenQuiet == Spec => []NoDuplicateWithoutFault
<1>1. OnceInv => NoDuplicateWithoutFault
  <2>. SUFFICES ASSUME OnceInv, Undisturbed, Cardinality(Live) <= 1 PROVE ~repeated
    BY DEF NoDuplicateWithoutFault, Undisturbed
  <2>1. IsFiniteSet(Live)
    BY GroupAssumption, FS_Subset DEF Live
  <2>2. Cardinality(Live) = 0 \/ Cardinality(Live) = 1
    BY <2>1, FS_CardinalityType
  <2>3. CASE Live = {}
    BY <2>3 DEF OnceInv, CalmInv
  <2>4. CASE \E c : Live = {c}
    <3>1. PICK c : Live = {c}
      BY <2>4
    <3>2. c \in Consumers
      BY <3>1 DEF Live
    <3>. QED
      BY <3>1, <3>2 DEF OnceInv, LoneInv
  <2>. QED
    BY <2>1, <2>2, <2>3, <2>4, FS_EmptySet, FS_Singleton
<1>2. Init => OnceInv
  BY InitDelivery, InitOnce DEF OnceInv
<1>. QED
  BY <1>1, <1>2, NextOnce, PTL DEF Spec
=============================================================================
