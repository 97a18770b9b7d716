-------------------------- MODULE FlinkRollupProofs -------------------------
(***************************************************************************)
(* Which events the Flink job drops, for every topic, window and delay.    *)
(* The watermark is behind some event of each partition that was never     *)
(* idle, also in a checkpoint; so a record whose window it has closed has  *)
(* such an event before it in its own partition (StragglerInv).  And that  *)
(* the others are counted: the open windows and the topic hold every event *)
(* read, also those a checkpoint would go back to, and the table every row *)
(* that is committed (CountsInv).                                          *)
(***************************************************************************)
EXTENDS FlinkRollup, TLAPS, FiniteSetTheorems, SequenceTheorems, WellFoundedInduction

\* An event among the first n of p is the delay ahead of the watermark.
Ahead(p, n, wm) == wm <= Lowest \/ \E o \in 1..n : log[p][o] - Delay >= wm

\* Offsets within the topic.
Within(offsets) == \A p \in Partitions : offsets[p] \in 0..Len(log[p])

Stragglers(records) ==
  \A r \in records :
    \/ r[1] \in idled
    \/ \E o \in 1..r[2] - 1 : log[r[1]][o] - log[r[1]][r[2]] >= Delay

SavedInv ==
  /\ saved.offset = [p \in Partitions |-> saved.offset[p]] /\ Within(saved.offset)
  /\ saved.watermark \in Int
  /\ \A p \in Partitions \ idled : Ahead(p, saved.offset[p], saved.watermark)
  /\ Stragglers(saved.late)

HighestInv ==
  \A p \in Partitions :
    /\ highest[p] \in Nat \cup {-1}
    /\ highest[p] = -1 \/ \E o \in 1..offset[p] : log[p][o] = highest[p]

StragglerInv ==
  /\ log \in Logs
  /\ offset = [p \in Partitions |-> offset[p]] /\ Within(offset)
  /\ highest = [p \in Partitions |-> highest[p]] /\ HighestInv
  /\ idle \subseteq Partitions \cap idled
  /\ watermark \in Int
  /\ \A p \in Partitions \ idled : Ahead(p, offset[p], watermark)
  /\ Stragglers(late)
  /\ SavedInv

-----------------------------------------------------------------------------
(* Windows, logs and watermarks.                                           *)

\* A time is before the end of its window.
LEMMA WindowEnds ==
  ASSUME NEW t \in Nat
  PROVE  /\ WindowOf(t) \in Nat /\ (WindowOf(t) + 1) * Window - 1 \in Int
         /\ t <= (WindowOf(t) + 1) * Window - 1
<1>1. Window \in Nat /\ Window > 0
  BY RollupAssumption
<1>2. t \div Window \in Int /\ t % Window \in 0..Window-1 /\ t = Window * (t \div Window) + (t % Window)
  BY <1>1
<1>. QED
  BY <1>1, <1>2 DEF WindowOf

\* No window is closed at the start.
LEMMA LowestClosesNone ==
  ASSUME NEW w \in Nat, NEW wm \in Int, wm <= Lowest PROVE ~Closed(w, wm)
<1>1. Window \in Nat /\ Window > 0 /\ Delay \in Nat
  BY RollupAssumption
<1>2. (w + 1) * Window >= 1
  BY <1>1
<1>. QED
  BY <1>1, <1>2 DEF Closed, Lowest

LEMMA LogFacts ==
  ASSUME log \in Logs, NEW p \in Partitions
  PROVE  /\ Len(log[p]) \in Nat
         /\ \A o \in 1..Len(log[p]) : log[p][o] \in Nat \cup {Unparsable}
<1>1. log[p] \in Seq(Nat \cup {Unparsable})
  BY RollupAssumption
<1>. DEFINE Entry == Nat \cup {Unparsable}
<1>. HIDE DEF Entry
<1>2. log[p] \in Seq(Entry)
  BY <1>1 DEF Entry
<1>3. Len(log[p]) \in Nat /\ \A o \in 1..Len(log[p]) : log[p][o] \in Entry
  BY <1>2
<1>. QED
  BY <1>3 DEF Entry

LEMMA LeastOfNats ==
  ASSUME NEW T \in SUBSET Nat, T # {}
  PROVE  \E x \in T : \A y \in T : x <= y
<1>1. IsWellFoundedOn(OpToRel(<, Nat), Nat)
  BY NatLessThanWellFounded
<1>2. PICK x \in T : \A y \in T : <<y, x>> \notin OpToRel(<, Nat)
  BY <1>1, WFMin
<1>3. \A y \in T : ~ (y < x)
  BY <1>2 DEF OpToRel
<1>. QED
  BY <1>3

\* The watermark of the source is not ahead of any partition that speaks.
LEMMA SourceWatermarkFacts ==
  ASSUME HighestInv, idle # Partitions, idle \subseteq Partitions
  PROVE  /\ SourceWatermark \in Int
         /\ \A p \in Partitions \ idle : SourceWatermark <= highest[p] - Delay
<1>. DEFINE T == {highest[p] + 1 : p \in Partitions \ idle}
<1>1. \A p \in Partitions : highest[p] + 1 \in Nat /\ highest[p] \in Int
  BY DEF HighestInv
<1>2. T \subseteq Nat /\ T # {}
  BY <1>1
<1>3. \E t \in T : \A u \in T : t <= u
  BY <1>2, LeastOfNats
<1>4. PICK q \in Partitions \ idle : \A p \in Partitions \ idle : highest[q] + 1 <= highest[p] + 1
  BY <1>3
<1>. DEFINE W == {highest[p] - Delay : p \in Partitions \ idle}
            wm == highest[q] - Delay
<1>5. Delay \in Int
  BY RollupAssumption
<1>6. wm \in W /\ \A p \in Partitions \ idle : wm <= highest[p] - Delay
  BY <1>1, <1>4, <1>5
<1>7. SourceWatermark \in W /\ \A p \in Partitions \ idle : SourceWatermark <= highest[p] - Delay
  BY <1>6 DEF SourceWatermark
<1>. QED
  BY <1>1, <1>5, <1>7

-----------------------------------------------------------------------------
(* The steps.                                                              *)

LEMMA InitStragglers == Init => StragglerInv
<1>. SUFFICES ASSUME Init PROVE StragglerInv
  OBVIOUS
<1>1. log \in Logs /\ \A p \in Partitions : Len(log[p]) \in Nat
  BY LogFacts DEF Init
<1>2. /\ Nothing.offset = [p \in Partitions |-> 0] /\ Nothing.watermark = Lowest
      /\ Nothing.late = {}
  BY DEF Nothing
<1>3. Lowest \in Int
  BY RollupAssumption DEF Lowest
<1>4. Within(Nothing.offset)
  BY <1>1, <1>2 DEF Within
<1>5. SavedInv
  BY <1>2, <1>3, <1>4 DEF Init, SavedInv, Ahead, Stragglers
<1>6. HighestInv
  BY DEF Init, HighestInv
<1>. QED
  BY <1>1, <1>2, <1>3, <1>4, <1>5, <1>6 DEF Init, StragglerInv, Ahead, Stragglers

\* What is said of the checkpoint stands while it does.
LEMMA SavedStays ==
  ASSUME SavedInv, UNCHANGED <<log, saved>>, idled \subseteq idled'
  PROVE  SavedInv'
BY DEF SavedInv, Ahead, Within, Stragglers

LEMMA ReadStragglers ==
  ASSUME StragglerInv, NEW p \in Partitions, Read(p) PROVE StragglerInv'
<1>. DEFINE n == offset[p] + 1
            t == log[p][n]
<1>1. /\ offset[p] < Len(log[p]) /\ offset' = [offset EXCEPT ![p] = @ + 1]
      /\ UNCHANGED <<log, watermark, saved, idled>> /\ idle' \subseteq idle
  BY DEF Read, source, cps
<1>2. /\ log \in Logs /\ Len(log[p]) \in Nat /\ offset[p] \in Nat /\ n \in 1..Len(log[p])
      /\ t \in Nat \cup {Unparsable}
  BY <1>1, LogFacts DEF StragglerInv, Within
<1>3. /\ offset' = [q \in Partitions |-> offset'[q]] /\ offset'[p] = n
      /\ \A q \in Partitions : q # p => offset'[q] = offset[q]
      /\ \A q \in Partitions : offset[q] \in Nat /\ offset'[q] \in Nat /\ offset'[q] >= offset[q]
  BY <1>1, <1>2 DEF StragglerInv, Within
<1>. HIDE DEF n
<1>4. Within(offset)'
  BY <1>1, <1>2, <1>3 DEF StragglerInv, Within
<1>5. \A q \in Partitions \ idled' : Ahead(q, offset[q], watermark)'
  BY <1>1, <1>3 DEF StragglerInv, Ahead
<1>6. CASE t = Unparsable
  <2>1. UNCHANGED <<highest, late>>
    BY <1>6 DEF Read, n
  <2>2. HighestInv'
    BY <1>1, <1>3, <2>1 DEF StragglerInv, HighestInv
  <2>. QED
    BY <1>1, <1>3, <1>4, <1>5, <2>1, <2>2, SavedStays DEF StragglerInv, Stragglers
<1>7. CASE t # Unparsable
  <2>1. t \in Nat
    BY <1>2, <1>7
  <2>2. highest' = [highest EXCEPT ![p] = IF t > @ THEN t ELSE @]
    BY <1>7 DEF Read, n
  <2>3. /\ highest' = [q \in Partitions |-> highest'[q]]
        /\ highest'[p] \in {t, highest[p]}
        /\ \A q \in Partitions : q # p => highest'[q] = highest[q]
    BY <2>2 DEF StragglerInv
  <2>4. HighestInv'
    <3>1. ASSUME NEW q \in Partitions
          PROVE  /\ highest'[q] \in Nat \cup {-1}
                 /\ highest'[q] = -1 \/ \E o \in 1..offset'[q] : log[q][o] = highest'[q]
      <4>1. CASE highest'[q] = highest[q]
        <5>1. 1..offset[q] \subseteq 1..offset'[q]
          BY <1>3
        <5>. QED
          BY <4>1, <5>1 DEF StragglerInv, HighestInv
      <4>2. CASE q = p /\ highest'[q] = t
        <5>1. n \in 1..offset'[p]
          BY <1>2, <1>3
        <5>. QED
          BY <2>1, <4>2, <5>1
      <4>. QED
        BY <2>3, <4>1, <4>2
    <3>. QED
      BY <1>1, <3>1 DEF HighestInv
  <2>5. CASE ~Closed(WindowOf(t), watermark)
    <3>1. UNCHANGED late
      BY <1>7, <2>5 DEF Read, n
    <3>. QED
      BY <1>1, <1>3, <1>4, <1>5, <2>3, <2>4, <3>1, SavedStays DEF StragglerInv, Stragglers
  <2>6. CASE Closed(WindowOf(t), watermark)
    <3>1. late' = late \cup {<<p, n>>}
      BY <1>7, <2>6 DEF Read, n
    <3>2. p \in idled \/ \E o \in 1..n - 1 : log[p][o] - log[p][n] >= Delay
      <4>. SUFFICES ASSUME p \notin idled
                    PROVE  \E o \in 1..n - 1 : log[p][o] - t >= Delay
        OBVIOUS
      <4>1. ~(watermark <= Lowest)
        BY <2>1, <2>6, WindowEnds, LowestClosesNone DEF StragglerInv
      <4>2. PICK o \in 1..offset[p] : log[p][o] - Delay >= watermark
        BY <4>1 DEF StragglerInv, Ahead
      <4>3. o \in 1..n - 1 /\ o \in 1..Len(log[p])
        BY <1>1, <1>2, <1>3 DEF n
      <4>4. log[p][o] \in Int /\ Delay \in Int /\ watermark \in Int
        BY <1>2, <4>3, LogFacts, RollupAssumption DEF Unparsable, StragglerInv
      <4>5. watermark >= (WindowOf(t) + 1) * Window - 1
        BY <2>6 DEF Closed
      <4>6. /\ (WindowOf(t) + 1) * Window - 1 \in Int
            /\ t <= (WindowOf(t) + 1) * Window - 1
        BY <2>1, WindowEnds
      <4>7. watermark >= t
        BY <2>1, <4>4, <4>5, <4>6
      <4>8. log[p][o] - t >= Delay
        BY <2>1, <4>2, <4>4, <4>7
      <4>. QED
        BY <4>3, <4>8
    <3>3. Stragglers(late)'
      BY <1>1, <3>1, <3>2 DEF StragglerInv, Stragglers
    <3>. QED
      BY <1>1, <1>3, <1>4, <1>5, <2>3, <2>4, <3>3, SavedStays DEF StragglerInv
  <2>. QED
    BY <2>5, <2>6
<1>. QED
  BY <1>6, <1>7

LEMMA IdleStragglers ==
  ASSUME StragglerInv, NEW p \in Partitions, GoIdle(p) PROVE StragglerInv'
<1>1. /\ idle' = idle \cup {p} /\ idled' = idled \cup {p}
      /\ UNCHANGED <<log, offset, highest, watermark, late, saved>>
  BY DEF GoIdle, cps
<1>2. SavedInv'
  BY <1>1, SavedStays DEF StragglerInv
<1>. QED
  BY <1>1, <1>2 DEF StragglerInv, Within, HighestInv, Ahead, Stragglers

LEMMA AdvanceStragglers == ASSUME StragglerInv, Advance PROVE StragglerInv'
<1>1. /\ watermark' = SourceWatermark /\ idle # Partitions
      /\ UNCHANGED <<log, offset, highest, idle, idled, late, saved>>
  BY DEF Advance, Behind, source, cps
<1>2. /\ watermark' \in Int
      /\ \A p \in Partitions \ idle : watermark' <= highest[p] - Delay
  BY <1>1, SourceWatermarkFacts DEF StragglerInv
<1>3. ASSUME NEW p \in Partitions \ idled PROVE Ahead(p, offset[p], watermark)'
  <2>1. watermark' <= highest[p] - Delay /\ p \in Partitions
    BY <1>2 DEF StragglerInv
  <2>2. CASE highest[p] = -1
    <3>1. watermark' <= Lowest
      BY <2>1, <2>2, RollupAssumption DEF Lowest
    <3>. QED
      BY <1>1, <3>1 DEF Ahead, Lowest
  <2>3. CASE highest[p] # -1
    <3>1. PICK o \in 1..offset[p] : log[p][o] = highest[p]
      BY <2>1, <2>3 DEF StragglerInv, HighestInv
    <3>2. log'[p][o] - Delay >= watermark'
      BY <1>1, <1>2, <2>1, <3>1, RollupAssumption DEF StragglerInv, HighestInv
    <3>. QED
      BY <1>1, <3>1, <3>2 DEF Ahead
  <2>. QED
    BY <2>2, <2>3
<1>. QED
  BY <1>1, <1>2, <1>3, SavedStays DEF StragglerInv, Within, HighestInv, Stragglers

LEMMA CheckpointStragglers == ASSUME StragglerInv, Checkpoint PROVE StragglerInv'
<1>1. /\ saved'.offset = offset /\ saved'.watermark = watermark /\ saved'.late = late
      /\ UNCHANGED <<log, offset, highest, idle, idled, watermark, late>>
  BY DEF Checkpoint, job, source
<1>2. SavedInv'
  BY <1>1 DEF StragglerInv, SavedInv, Within, Ahead, Stragglers
<1>. QED
  BY <1>1, <1>2 DEF StragglerInv, Within, HighestInv, Ahead, Stragglers

\* A start from a checkpoint, or from its offsets alone.
LEMMA StartStragglers ==
  ASSUME StragglerInv, NEW state, StartFrom(state),
         state.offset = saved.offset, state.late = saved.late,
         state.watermark \in {saved.watermark, Lowest},
         saved' = saved \/ saved' = state, UNCHANGED source
  PROVE  StragglerInv'
<1>1. /\ offset' = saved.offset /\ late' = saved.late /\ watermark' = state.watermark
      /\ highest' = [p \in Partitions |-> -1] /\ idle' = {}
      /\ UNCHANGED <<log, idled>>
  BY DEF StartFrom, source
<1>2. SavedInv
  BY DEF StragglerInv
<1>3. Lowest \in Int
  BY RollupAssumption DEF Lowest
<1>4. state.watermark \in Int /\ \A p \in Partitions \ idled : Ahead(p, saved.offset[p], state.watermark)
  BY <1>2, <1>3 DEF SavedInv, Ahead
<1>5. SavedInv'
  BY <1>1, <1>2, <1>4 DEF SavedInv, Within, Ahead, Stragglers
<1>6. HighestInv'
  BY <1>1 DEF HighestInv
<1>7. /\ offset' = [p \in Partitions |-> offset'[p]] /\ Within(offset)'
      /\ \A p \in Partitions \ idled' : Ahead(p, offset[p], watermark)'
      /\ Stragglers(late)'
  BY <1>1, <1>2, <1>4 DEF SavedInv, Within, Ahead, Stragglers
<1>. QED
  BY <1>1, <1>4, <1>5, <1>6, <1>7 DEF StragglerInv

LEMMA NextStragglers == StragglerInv /\ [Next]_vars => StragglerInv'
<1>. SUFFICES ASSUME StragglerInv, [Next]_vars PROVE StragglerInv'
  OBVIOUS
<1>1. ASSUME NEW p \in Partitions, Read(p) \/ GoIdle(p) PROVE StragglerInv'
  BY <1>1, ReadStragglers, IdleStragglers
<1>2. CASE Advance
  BY <1>2, AdvanceStragglers
<1>3. CASE Checkpoint
  BY <1>3, CheckpointStragglers
<1>4. CASE Fail
  BY <1>4, StartStragglers DEF Fail
<1>5. CASE Submit
  <2>. DEFINE state == [Nothing EXCEPT !.offset = saved.offset, !.late = saved.late]
  <2>1. StartFrom(state) /\ saved' = state /\ UNCHANGED source
    BY <1>5 DEF Submit
  <2>2. state.offset = saved.offset /\ state.late = saved.late /\ state.watermark = Lowest
    BY DEF Nothing
  <2>. HIDE DEF state
  <2>. QED
    BY <2>1, <2>2, StartStragglers
<1>6. CASE Land \/ LandUncommitted \/ UNCHANGED vars
  <2>1. UNCHANGED <<log, offset, highest, idle, idled, watermark, late, saved>>
    BY <1>6 DEF Land, LandUncommitted, vars, job, source, cps
  <2>2. SavedInv'
    BY <2>1, SavedStays DEF StragglerInv
  <2>. QED
    BY <2>1, <2>2 DEF StragglerInv, Within, HighestInv, Ahead, Stragglers
<1>. QED
  BY <1>1, <1>2, <1>3, <1>4, <1>5, <1>6 DEF Next

\* Whichever partitions run ahead, however often the job is restarted or
\* submitted anew, an event is only dropped when its own partition was idle, or
\* holds an event before it that is newer by the delay (flink_sql.py, WATERMARK).
THEOREM DropsOnlyStragglers == Spec => []OnlyStragglersDropped
<1>1. StragglerInv => OnlyStragglersDropped
  BY DEF StragglerInv, Stragglers, OnlyStragglersDropped
<1>. QED
  BY <1>1, InitStragglers, NextStragglers, PTL DEF Spec

-----------------------------------------------------------------------------
(* Counting rows, and what they count.                                     *)

\* Finitely many rows of finite length.
LEMMA FiniteStripes ==
  ASSUME NEW S, IsFiniteSet(S), NEW f \in [S -> Nat]
  PROVE  IsFiniteSet(UNION {{i} \X (1..f[i]) : i \in S})
<1>. DEFINE stripe == [i \in S |-> {i} \X (1..f[i])]
            T == {{i} \X (1..f[i]) : i \in S}
<1>1. stripe \in Surjection(S, T)
  BY DEF Surjection
<1>2. IsFiniteSet(T)
  <2>. HIDE DEF stripe, T
  <2>. QED
    BY <1>1, FS_Surjection
<1>3. \A X \in T : IsFiniteSet(X)
  <2>. SUFFICES ASSUME NEW i \in S PROVE IsFiniteSet({i} \X (1..f[i]))
    OBVIOUS
  <2>. DEFINE n == f[i]
  <2>0. n \in Int
    OBVIOUS
  <2>. HIDE DEF n
  <2>1. IsFiniteSet({i})
    BY FS_Singleton
  <2>2. IsFiniteSet(1..n)
    BY <2>0, FS_Interval
  <2>3. IsFiniteSet({i} \X (1..n))
    BY <2>1, <2>2, FS_Product
  <2>. QED
    BY <2>3 DEF n
<1>. HIDE DEF T
<1>4. IsFiniteSet(UNION T)
  BY <1>2, <1>3, FS_UNION
<1>. QED
  BY <1>4 DEF T

Rows == Windows \X Nat

\* The events of window w that rows stand for, one by one.
Events(rows, w) == UNION {{i} \X (1..rows[i][2]) : i \in {j \in DOMAIN rows : rows[j][1] = w}}

LEMMA RowFacts ==
  ASSUME NEW rows \in Seq(Rows)
  PROVE  \A i \in DOMAIN rows : rows[i] \in Rows /\ rows[i][1] \in Windows /\ rows[i][2] \in Nat
<1>1. \A i \in DOMAIN rows : rows[i] \in Rows
  OBVIOUS
<1>. QED
  BY <1>1 DEF Rows

LEMMA EventsFacts ==
  ASSUME NEW rows \in Seq(Rows), NEW w
  PROVE  /\ IsFiniteSet(Events(rows, w)) /\ EventsOf(rows, w) = Cardinality(Events(rows, w))
         /\ EventsOf(rows, w) \in Nat
         /\ \A x : x \in Events(rows, w) <=>
              \E i \in DOMAIN rows : \E e \in 1..rows[i][2] : rows[i][1] = w /\ x = <<i, e>>
<1>. DEFINE S == {j \in DOMAIN rows : rows[j][1] = w}
            f == [i \in S |-> rows[i][2]]
<1>1. f \in [S -> Nat] /\ \A i \in S : f[i] = rows[i][2]
  BY RowFacts
<1>2. IsFiniteSet(S)
  <2>1. DOMAIN rows = 1..Len(rows) /\ Len(rows) \in Nat
    OBVIOUS
  <2>2. IsFiniteSet(DOMAIN rows)
    BY <2>1, FS_Interval
  <2>. QED
    BY <2>2, FS_Subset
<1>3. Events(rows, w) = UNION {{i} \X (1..f[i]) : i \in S}
  BY <1>1 DEF Events
<1>4. IsFiniteSet(UNION {{i} \X (1..f[i]) : i \in S})
  <2>. HIDE DEF S, f
  <2>. QED
    BY <1>1, <1>2, FiniteStripes
<1>5. \A x : x \in Events(rows, w) <=>
              \E i \in DOMAIN rows : \E e \in 1..rows[i][2] : rows[i][1] = w /\ x = <<i, e>>
  BY DEF Events
<1>6. EventsOf(rows, w) = Cardinality(Events(rows, w))
  BY DEF EventsOf, Events
<1>. QED
  BY <1>3, <1>4, <1>5, <1>6, FS_CardinalityType

LEMMA NoEvents ==
  ASSUME NEW rows \in Seq(Rows), NEW w, \A i \in DOMAIN rows : rows[i][1] # w
  PROVE  EventsOf(rows, w) = 0
<1>1. Events(rows, w) = {}
  BY EventsFacts
<1>. QED
  BY <1>1, EventsFacts, FS_EmptySet

\* One row counts what is in it.
LEMMA OneRow ==
  ASSUME NEW rows \in Seq(Rows), NEW w, NEW k \in DOMAIN rows, rows[k][1] = w,
         \A i \in DOMAIN rows : rows[i][1] = w => i = k
  PROVE  EventsOf(rows, w) = rows[k][2]
<1>. DEFINE n == rows[k][2]
            f == [e \in 1..n |-> <<k, e>>]
<1>1. n \in Nat
  BY RowFacts
<1>2. \A x : x \in Events(rows, w) <=> \E e \in 1..n : x = <<k, e>>
  BY EventsFacts
<1>. HIDE DEF n
<1>3. f \in [1..n -> Events(rows, w)]
  BY <1>2
<1>4. \A a, b \in 1..n : f[a] = f[b] => a = b
  OBVIOUS
<1>5. \A x \in Events(rows, w) : \E e \in 1..n : f[e] = x
  BY <1>2
<1>. HIDE DEF f
<1>6. f \in Bijection(1..n, Events(rows, w))
  BY <1>3, <1>4, <1>5 DEF Bijection, Injection, Surjection, IsInjective
<1>7. ExistsBijection(1..n, Events(rows, w))
  BY <1>6 DEF ExistsBijection
<1>8. IsFiniteSet(1..n) /\ Cardinality(1..n) = n
  BY <1>1, FS_Interval
<1>9. Cardinality(Events(rows, w)) = n
  BY <1>7, <1>8, FS_Bijection
<1>. QED
  BY <1>9, EventsFacts DEF n

LEMMA EventsOfBoth ==
  ASSUME NEW a \in Seq(Rows), NEW b \in Seq(Rows), NEW w
  PROVE  EventsOf(a \o b, w) = EventsOf(a, w) + EventsOf(b, w)
<1>. DEFINE n == Len(a)
            A == Events(a, w)
            B == Events(b, w)
            C == {x \in Events(a \o b, w) : x[1] > n}
<1>1. /\ n \in Nat /\ a \o b \in Seq(Rows) /\ DOMAIN a = 1..n /\ DOMAIN b = 1..Len(b)
      /\ Len(b) \in Nat /\ DOMAIN (a \o b) = 1..n + Len(b)
      /\ \A i \in 1..n : (a \o b)[i] = a[i]
      /\ \A i \in 1..Len(b) : (a \o b)[n + i] = b[i]
  BY ConcatProperties
<1>2. \A x : x \in Events(a \o b, w) <=> \E i \in DOMAIN (a \o b) : \E e \in 1..(a \o b)[i][2] : (a \o b)[i][1] = w /\ x = <<i, e>>
  <2>. DEFINE c == a \o b
  <2>1. c \in Seq(Rows)
    BY <1>1
  <2>. HIDE DEF c
  <2>2. \A x : x \in Events(c, w) <=> \E i \in DOMAIN c : \E e \in 1..c[i][2] : c[i][1] = w /\ x = <<i, e>>
    BY <2>1, EventsFacts
  <2>. QED
    BY <2>2 DEF c
<1>3. \A x : x \in A <=> \E i \in DOMAIN a : \E e \in 1..a[i][2] : a[i][1] = w /\ x = <<i, e>>
  BY EventsFacts
<1>4. \A x : x \in B <=> \E i \in DOMAIN b : \E e \in 1..b[i][2] : b[i][1] = w /\ x = <<i, e>>
  BY EventsFacts
<1>. HIDE DEF A, B, n
<1>5. Events(a \o b, w) = A \cup C
  <2>1. ASSUME NEW x \in Events(a \o b, w), ~(x[1] > n) PROVE x \in A
    <3>1. PICK i \in DOMAIN (a \o b), e \in Int : e \in 1..(a \o b)[i][2] /\ (a \o b)[i][1] = w /\ x = <<i, e>>
      BY <1>2
    <3>2. i \in 1..n
      BY <1>1, <2>1, <3>1
    <3>. QED
      BY <1>1, <1>3, <3>1, <3>2
  <2>2. A \subseteq Events(a \o b, w)
    <3>. SUFFICES ASSUME NEW x \in A PROVE x \in Events(a \o b, w)
      OBVIOUS
    <3>1. PICK i \in DOMAIN a, e \in Int : e \in 1..a[i][2] /\ a[i][1] = w /\ x = <<i, e>>
      BY <1>3
    <3>2. i \in DOMAIN (a \o b) /\ (a \o b)[i] = a[i]
      BY <1>1
    <3>. QED
      BY <1>2, <3>1, <3>2
  <2>. QED
    BY <2>1, <2>2
<1>6. A \cap C = {}
  <2>. SUFFICES ASSUME NEW x \in A PROVE ~(x[1] > n)
    OBVIOUS
  <2>1. PICK i \in DOMAIN a, e \in Int : e \in 1..a[i][2] /\ x = <<i, e>>
    BY <1>3
  <2>. QED
    BY <1>1, <2>1
<1>7. Cardinality(C) = Cardinality(B) /\ IsFiniteSet(C)
  <2>. DEFINE f == [x \in B |-> <<n + x[1], x[2]>>]
  <2>1. \A x \in B : f[x] \in C
    <3>. SUFFICES ASSUME NEW x \in B PROVE f[x] \in C
      OBVIOUS
    <3>1. PICK i \in DOMAIN b, e \in Int : e \in 1..b[i][2] /\ b[i][1] = w /\ x = <<i, e>>
      BY <1>4
    <3>2. n + i \in DOMAIN (a \o b) /\ (a \o b)[n + i] = b[i] /\ n + i > n
      BY <1>1
    <3>3. f[x] = <<n + i, e>>
      BY <3>1
    <3>4. f[x] \in Events(a \o b, w)
      BY <1>2, <3>1, <3>2, <3>3
    <3>. QED
      BY <3>2, <3>3, <3>4
  <2>2. \A x \in B, y \in B : f[x] = f[y] => x = y
    <3>. SUFFICES ASSUME NEW x \in B, NEW y \in B, f[x] = f[y] PROVE x = y
      OBVIOUS
    <3>1. PICK i \in DOMAIN b, e \in Int : e \in 1..b[i][2] /\ x = <<i, e>>
      BY <1>4
    <3>2. PICK j \in DOMAIN b, g \in Int : g \in 1..b[j][2] /\ y = <<j, g>>
      BY <1>4
    <3>3. <<n + i, e>> = <<n + j, g>>
      BY <3>1, <3>2
    <3>4. n + i = n + j /\ e = g
      BY <3>3
    <3>. QED
      BY <1>1, <3>1, <3>2, <3>4
  <2>3. \A y \in C : \E x \in B : f[x] = y
    <3>. SUFFICES ASSUME NEW y \in C PROVE \E x \in B : f[x] = y
      OBVIOUS
    <3>1. PICK i \in DOMAIN (a \o b), e \in Int : e \in 1..(a \o b)[i][2] /\ (a \o b)[i][1] = w /\ y = <<i, e>>
      BY <1>2
    <3>2. i > n
      BY <3>1
    <3>. DEFINE j == i - n
    <3>3. j \in DOMAIN b /\ n + j = i /\ (a \o b)[i] = b[j]
      BY <1>1, <3>2
    <3>. HIDE DEF j
    <3>4. <<j, e>> \in B
      BY <1>4, <3>1, <3>3
    <3>5. f[<<j, e>>] = y
      BY <3>1, <3>3, <3>4
    <3>. QED
      BY <3>4, <3>5
  <2>4. f \in [B -> C]
    BY <2>1
  <2>. HIDE DEF f, C
  <2>5. f \in Bijection(B, C)
    BY <2>2, <2>3, <2>4 DEF Bijection, Injection, Surjection, IsInjective
  <2>6. ExistsBijection(B, C)
    BY <2>5 DEF ExistsBijection
  <2>7. IsFiniteSet(B)
    BY EventsFacts DEF B
  <2>. QED
    BY <2>6, <2>7, FS_Bijection
<1>. HIDE DEF C
<1>8. IsFiniteSet(A) /\ Cardinality(A) \in Nat /\ Cardinality(B) \in Nat
  BY EventsFacts DEF A, B
<1>9. Cardinality(A \cup C) = Cardinality(A) + Cardinality(C) - Cardinality(A \cap C)
  BY <1>7, <1>8, FS_Union
<1>10. Cardinality(A \cup C) = Cardinality(A) + Cardinality(B)
  <2>1. Cardinality(A \cap C) = 0
    BY <1>6, FS_EmptySet
  <2>. QED
    BY <1>7, <1>8, <1>9, <2>1
<1>11. EventsOf(a \o b, w) = Cardinality(Events(a \o b, w))
  BY <1>1, EventsFacts
<1>. QED
  BY <1>5, <1>10, <1>11, EventsFacts DEF A, B
-----------------------------------------------------------------------------
(* What is written when the watermark passes windows.                      *)

LEMMA WindowsAreNats == Windows \subseteq Nat /\ \A w \in Windows : w \in Int
<1>. SUFFICES ASSUME NEW t \in EventTimes, t # Unparsable PROVE WindowOf(t) \in Nat
  BY DEF Windows
<1>1. PICK l \in Logs, p \in Partitions : \E o \in DOMAIN l[p] : t = l[p][o]
  BY DEF EventTimes
<1>2. l[p] \in Seq(Nat \cup {Unparsable})
  BY RollupAssumption
<1>. DEFINE Entry == Nat \cup {Unparsable}
<1>3. t \in Entry
  <2>1. l[p] \in Seq(Entry)
    BY <1>2
  <2>. HIDE DEF Entry
  <2>2. \A o \in DOMAIN l[p] : l[p][o] \in Entry
    BY <2>1
  <2>. QED
    BY <1>1, <2>2
<1>. QED
  BY <1>3, WindowEnds

\* The i-th smallest of S.
Nth(S, i) == CHOOSE w \in S : Cardinality({v \in S : v <= w}) = i

\* All of a finite set are counted off, each once.
LEMMA NthFacts ==
  ASSUME NEW S \in SUBSET Int, IsFiniteSet(S)
  PROVE  /\ Cardinality(S) \in Nat
         /\ \A i \in 1..Cardinality(S) : Nth(S, i) \in S
         /\ \A w \in S : \E i \in 1..Cardinality(S) : Nth(S, i) = w
         /\ \A i, j \in 1..Cardinality(S) : Nth(S, i) = Nth(S, j) => i = j
<1>. DEFINE n == Cardinality(S)
            upTo(w) == {v \in S : v <= w}
            rank == [w \in S |-> Cardinality(upTo(w))]
<1>1. n \in Nat
  BY FS_CardinalityType
<1>2. \A w \in S : IsFiniteSet(upTo(w)) /\ Cardinality(upTo(w)) \in Nat /\ Cardinality(upTo(w)) <= n
  <2>. SUFFICES ASSUME NEW w \in S
                PROVE  IsFiniteSet(upTo(w)) /\ Cardinality(upTo(w)) \in Nat /\ Cardinality(upTo(w)) <= n
    OBVIOUS
  <2>1. upTo(w) \in SUBSET S
    OBVIOUS
  <2>. HIDE DEF upTo
  <2>. QED
    BY <2>1, FS_Subset, FS_CardinalityType
<1>3. \A w \in S : Cardinality(upTo(w)) # 0
  <2>1. \A w \in S : w \in upTo(w)
    OBVIOUS
  <2>. HIDE DEF upTo
  <2>. QED
    BY <1>2, <2>1, FS_EmptySet
<1>4. ASSUME NEW w \in S, NEW u \in S, w < u
      PROVE  Cardinality(upTo(w)) < Cardinality(upTo(u))
  <2>0. /\ \A v \in S : v <= w => v <= u /\ v # u
        /\ u <= u
    BY <1>4
  <2>1. upTo(w) \in SUBSET (upTo(u) \ {u}) /\ u \in upTo(u)
    BY <2>0
  <2>. HIDE DEF upTo
  <2>2. /\ IsFiniteSet(upTo(u) \ {u})
        /\ Cardinality(upTo(u) \ {u}) = Cardinality(upTo(u)) - 1
    BY <1>2, <2>1, FS_RemoveElement
  <2>3. Cardinality(upTo(w)) <= Cardinality(upTo(u) \ {u})
    BY <2>1, <2>2, FS_Subset
  <2>. QED
    BY <1>2, <2>2, <2>3
<1>5. \A w, u \in S : Cardinality(upTo(w)) = Cardinality(upTo(u)) => w = u
  <2>. SUFFICES ASSUME NEW w \in S, NEW u \in S, w # u
                PROVE  Cardinality(upTo(w)) # Cardinality(upTo(u))
    OBVIOUS
  <2>1. w < u \/ u < w
    OBVIOUS
  <2>. HIDE DEF upTo
  <2>. QED
    BY <1>2, <1>4, <2>1
<1>6. \A w \in S : rank[w] = Cardinality(upTo(w))
  OBVIOUS
<1>7. rank \in [S -> 1..n]
  <2>. HIDE DEF upTo
  <2>1. \A w \in S : Cardinality(upTo(w)) \in 1..n
    BY <1>1, <1>2, <1>3
  <2>. QED
    BY <2>1
<1>. HIDE DEF rank
<1>8. rank \in Injection(S, 1..n)
  <2>. HIDE DEF upTo, n
  <2>. QED
    BY <1>5, <1>6, <1>7 DEF Injection, IsInjective
<1>9. IsFiniteSet(1..n) /\ Cardinality(1..n) = n
  BY <1>1, FS_Interval
<1>10. rank \in Surjection(S, 1..n)
  BY <1>8, <1>9, FS_Injection
<1>11. \A i \in 1..n : \E w \in S : Cardinality(upTo(w)) = i
  <2>. HIDE DEF upTo, n
  <2>. QED
    BY <1>6, <1>10 DEF Surjection
<1>12. \A i \in 1..n : Nth(S, i) \in S /\ Cardinality(upTo(Nth(S, i))) = i
  BY <1>11 DEF Nth
<1>13. ASSUME NEW w \in S PROVE \E i \in 1..n : Nth(S, i) = w
  <2>1. Cardinality(upTo(w)) \in 1..n
    BY <1>6, <1>7
  <2>. HIDE DEF upTo
  <2>. QED
    BY <1>5, <1>12, <2>1
<1>. HIDE DEF upTo
<1>. QED
  BY <1>1, <1>12, <1>13

\* Windows that hold events.
Filled(counts) == {w \in Windows : counts[w] > 0}

LEMMA ClosedRowsFacts ==
  ASSUME open \in [Windows -> Nat], IsFiniteSet(Filled(open)), NEW wm
  PROVE  /\ ClosedRows(wm) \in Seq(Rows)
         /\ \A w \in Windows : EventsOf(ClosedRows(wm), w) = IF Closed(w, wm) THEN open[w] ELSE 0
<1>. DEFINE closing == {w \in Windows : open[w] > 0 /\ Closed(w, wm)}
            n == Cardinality(closing)
            rows == [i \in 1..n |-> <<Nth(closing, i), open[Nth(closing, i)]>>]
<1>1. closing \in SUBSET Int /\ IsFiniteSet(closing) /\ closing \subseteq Windows
  <2>1. closing \subseteq Filled(open)
    BY DEF Filled
  <2>. QED
    BY <2>1, WindowsAreNats, FS_Subset
<1>2. ClosedRows(wm) = rows
  BY DEF ClosedRows, Nth
<1>3. \A w \in Windows : w \in closing <=> open[w] > 0 /\ Closed(w, wm)
  OBVIOUS
<1>. HIDE DEF closing
<1>4. /\ n \in Nat
      /\ \A i \in 1..n : Nth(closing, i) \in closing
      /\ \A w \in closing : \E i \in 1..n : Nth(closing, i) = w
      /\ \A i, j \in 1..n : Nth(closing, i) = Nth(closing, j) => i = j
  BY <1>1, NthFacts
<1>5. /\ DOMAIN rows = 1..n
      /\ \A i \in 1..n : rows[i][1] = Nth(closing, i) /\ rows[i][2] = open[Nth(closing, i)]
  OBVIOUS
<1>. HIDE DEF n
<1>6. rows \in Seq(Rows)
  <2>1. \A i \in 1..n : <<Nth(closing, i), open[Nth(closing, i)]>> \in Rows
    BY <1>1, <1>4 DEF Rows
  <2>2. rows \in [1..n -> Rows]
    BY <2>1
  <2>. QED
    BY <1>4, <2>2
<1>. HIDE DEF rows
<1>7. ASSUME NEW w \in Windows
      PROVE  EventsOf(rows, w) = IF Closed(w, wm) THEN open[w] ELSE 0
  <2>1. CASE w \in closing
    <3>1. PICK k \in 1..n : Nth(closing, k) = w
      BY <1>4, <2>1
    <3>2. EventsOf(rows, w) = rows[k][2]
      BY <1>4, <1>5, <1>6, <3>1, OneRow
    <3>. QED
      BY <1>3, <1>5, <2>1, <3>1, <3>2
  <2>2. CASE w \notin closing
    <3>1. EventsOf(rows, w) = 0
      BY <1>4, <1>5, <1>6, <2>2, NoEvents
    <3>2. Closed(w, wm) => open[w] = 0
      BY <1>3, <2>2
    <3>. QED
      BY <3>1, <3>2
  <2>. QED
    BY <2>1, <2>2
<1>. QED
  BY <1>2, <1>6, <1>7
-----------------------------------------------------------------------------
(* Every event read is counted                                             *)

\* No record is dropped that was not read.
LateRead(records, offsets) ==
  \A p \in Partitions, o \in Nat : <<p, o>> \in records => o <= offsets[p]

RollupTypes ==
  /\ topic \in Seq(Rows) /\ consumed \in 0..Len(topic)
  /\ open \in [Windows -> Nat] /\ IsFiniteSet(Filled(open))
  /\ saved.open \in [Windows -> Nat] /\ IsFiniteSet(Filled(saved.open))
  /\ minuteAgg \in [Windows -> Nat]
  /\ restarts \in Nat /\ submits \in Nat /\ lostCommits \in Nat
  /\ LateRead(late, offset) /\ LateRead(saved.late, saved.offset)

\* Events of window w that were read and not dropped.
Counted(offsets, dropped, w) == Cardinality(Records(offsets, w) \ dropped)

Consumed == SubSeq(topic, 1, consumed)

\* While the job resumes from its checkpoints: the job's counts, and those it
\* would go back to, with what the topic holds; and the table's.
CountsInv ==
  submits = 0 =>
    \A w \in Windows :
      /\ open[w] + EventsOf(topic, w) >= Counted(offset, late, w)
      /\ saved.open[w] + EventsOf(topic, w) >= Counted(saved.offset, saved.late, w)
      /\ restarts = 0 => open[w] + EventsOf(topic, w) = Counted(offset, late, w)
      /\ minuteAgg[w] >= EventsOf(Consumed, w)
      /\ lostCommits = 0 => minuteAgg[w] = EventsOf(Consumed, w)

RollupInv == StragglerInv /\ RollupTypes /\ CountsInv

LEMMA RecordsFacts ==
  ASSUME NEW offsets, \A p \in Partitions : offsets[p] \in Nat, NEW w
  PROVE  /\ IsFiniteSet(Records(offsets, w))
         /\ \A r : r \in Records(offsets, w) <=>
              \E p \in Partitions : \E o \in 1..offsets[p] :
                /\ r = <<p, o>>
                /\ log[p][o] # Unparsable /\ WindowOf(log[p][o]) = w
<1>. DEFINE f == [p \in Partitions |-> offsets[p]]
            all == UNION {{p} \X (1..offsets[p]) : p \in Partitions}
<1>1. f \in [Partitions -> Nat] /\ \A p \in Partitions : f[p] = offsets[p]
  OBVIOUS
<1>2. all = UNION {{p} \X (1..f[p]) : p \in Partitions}
  BY <1>1
<1>3. IsFiniteSet(all)
  <2>. HIDE DEF f, all
  <2>. QED
    BY <1>1, <1>2, FiniteStripes, RollupAssumption
<1>4. \A r : r \in all <=> \E p \in Partitions : \E o \in 1..offsets[p] : r = <<p, o>>
  OBVIOUS
<1>5. Records(offsets, w) = {r \in all : /\ log[r[1]][r[2]] # Unparsable
                                         /\ WindowOf(log[r[1]][r[2]]) = w}
  BY DEF Records
<1>. HIDE DEF all, f
<1>6. IsFiniteSet(Records(offsets, w))
  BY <1>3, <1>5, FS_Subset
<1>. QED
  BY <1>4, <1>5, <1>6

LEMMA CountedIsNat ==
  ASSUME NEW offsets, \A p \in Partitions : offsets[p] \in Nat, NEW dropped, NEW w
  PROVE  /\ IsFiniteSet(Records(offsets, w) \ dropped)
         /\ Counted(offsets, dropped, w) \in Nat
BY RecordsFacts, FS_Difference, FS_CardinalityType DEF Counted

LEMMA ConsumedFacts ==
  ASSUME RollupTypes
  PROVE  /\ Consumed \in Seq(Rows) /\ SubSeq(topic, consumed + 1, Len(topic)) \in Seq(Rows)
         /\ topic = Consumed \o SubSeq(topic, consumed + 1, Len(topic))
<1>1. topic \in Seq(Rows) /\ Len(topic) \in Nat /\ consumed \in 0..Len(topic)
  BY DEF RollupTypes
<1>. DEFINE a == SubSeq(topic, 1, consumed)
            b == SubSeq(topic, consumed + 1, Len(topic))
<1>2. a \in Seq(Rows) /\ b \in Seq(Rows)
  BY <1>1
<1>3. a \o b = topic
  <2>1. 1 \in 1..Len(topic) + 1 /\ consumed \in 1 - 1..Len(topic) /\ Len(topic) \in consumed..Len(topic)
    BY <1>1
  <2>2. a \o b = SubSeq(topic, 1, Len(topic))
    BY <1>1, <2>1, ConcatAdjacentSubSeq
  <2>. QED
    BY <1>1, <2>2, SubSeqFull
<1>. QED
  BY <1>2, <1>3 DEF Consumed

LEMMA CountsStart == Init => RollupInv
<1>. SUFFICES ASSUME Init PROVE RollupInv
  OBVIOUS
<1>1. StragglerInv
  BY InitStragglers
<1>2. /\ Nothing.offset = [p \in Partitions |-> 0] /\ Nothing.late = {}
      /\ Nothing.open = [w \in Windows |-> 0]
  BY DEF Nothing
<1>3. Filled(Nothing.open) = {}
  BY <1>2 DEF Filled
<1>4. Nothing.open \in [Windows -> Nat] /\ IsFiniteSet(Filled(Nothing.open))
  BY <1>2, <1>3, FS_EmptySet
<1>5. topic = << >> /\ consumed = 0 /\ topic \in Seq(Rows) /\ Len(topic) = 0
  BY DEF Init
<1>6. RollupTypes
  <2>1. minuteAgg \in [Windows -> Nat]
    BY DEF Init
  <2>. QED
    BY <1>2, <1>4, <1>5, <2>1 DEF Init, RollupTypes, LateRead
<1>7. ASSUME NEW w \in Windows
      PROVE  EventsOf(topic, w) = 0 /\ EventsOf(Consumed, w) = 0
             /\ Counted(offset, late, w) = 0 /\ open[w] = 0 /\ minuteAgg[w] = 0
  <2>0. \A i \in DOMAIN topic : topic[i][1] # w
    BY <1>5
  <2>1. EventsOf(topic, w) = 0
    BY <1>5, <2>0, NoEvents
  <2>2. Consumed = << >> /\ EventsOf(Consumed, w) = 0
    <3>1. SubSeq(topic, 1, 0) = << >>
      BY SubSeqEmpty
    <3>. QED
      BY <1>5, <2>1, <3>1 DEF Consumed
  <2>3. Records(offset, w) \ late = {}
    <3>1. \A p \in Partitions : offset[p] = 0
      BY <1>2 DEF Init
    <3>. QED
      BY <3>1, RecordsFacts
  <2>. QED
    BY <1>2, <2>1, <2>2, <2>3, FS_EmptySet DEF Counted, Init
<1>8. saved.open = open /\ saved.offset = offset /\ saved.late = late
  BY <1>2 DEF Init
<1>. QED
  BY <1>1, <1>6, <1>7, <1>8 DEF RollupInv, CountsInv

\* The counts of the primed state, log being what it was.
LEMMA CountedNext ==
  ASSUME UNCHANGED log
  PROVE  /\ \A w : Counted(offset, late, w)' = Counted(offset', late', w)
         /\ \A w : Counted(saved.offset, saved.late, w)' = Counted(saved'.offset, saved'.late, w)
BY DEF Counted, Records

\* Steps of the job that write nothing.
LEMMA SinkStays ==
  ASSUME RollupInv, UNCHANGED <<topic, sink>>
  PROVE  /\ \A w : EventsOf(topic, w)' = EventsOf(topic, w)
         /\ \A w : EventsOf(Consumed, w)' = EventsOf(Consumed, w)
BY DEF sink, EventsOf, Consumed

LEMMA OffsetsAreNats ==
  ASSUME StragglerInv
  PROVE  /\ \A p \in Partitions : offset[p] \in Nat /\ Len(log[p]) \in Nat
         /\ \A p \in Partitions : saved.offset[p] \in Nat
<1>1. \A p \in Partitions : Len(log[p]) \in Nat
  BY LogFacts DEF StragglerInv
<1>. QED
  BY <1>1 DEF StragglerInv, SavedInv, Within

LEMMA ReadCounts ==
  ASSUME RollupInv, NEW p \in Partitions, Read(p)
  PROVE  RollupTypes' /\ CountsInv'
<1>. DEFINE n == offset[p] + 1
            t == log[p][n]
            v == WindowOf(t)
<1>1. /\ offset[p] < Len(log[p]) /\ offset' = [offset EXCEPT ![p] = @ + 1]
      /\ UNCHANGED <<log, saved, restarts, topic, sink, submits, lostCommits>>
  BY DEF Read, source, cps, faults
<1>2. /\ StragglerInv /\ RollupTypes /\ CountsInv /\ log \in Logs
      /\ \A q \in Partitions : offset[q] \in Nat
      /\ n \in 1..Len(log[p]) /\ t \in Nat \cup {Unparsable}
  BY <1>1, LogFacts, OffsetsAreNats DEF RollupInv, StragglerInv
<1>3. /\ offset'[p] = n /\ \A q \in Partitions : q # p => offset'[q] = offset[q]
      /\ \A q \in Partitions : offset'[q] \in Nat /\ offset'[q] >= offset[q]
  BY <1>1, <1>2 DEF StragglerInv
<1>4. <<p, n>> \notin late
  BY <1>2 DEF RollupTypes, LateRead
<1>5. \A w : /\ EventsOf(topic, w)' = EventsOf(topic, w)
             /\ EventsOf(Consumed, w)' = EventsOf(Consumed, w)
  BY <1>1, SinkStays
<1>6. t # Unparsable => v \in Windows
  <2>1. n \in DOMAIN log[p]
    <3>1. log[p] \in Seq(Nat \cup {Unparsable})
      BY <1>2, RollupAssumption
    <3>2. DOMAIN log[p] = 1..Len(log[p])
      BY <3>1, LenProperties
    <3>. QED
      BY <1>2, <3>2
  <2>2. t \in EventTimes
    <3>. DEFINE times == {log[p][o] : o \in DOMAIN log[p]}
    <3>1. t \in times
      BY <2>1
    <3>2. times \in {{l[q][o] : o \in DOMAIN l[q]} : l \in Logs, q \in Partitions}
      BY <1>2
    <3>. HIDE DEF times, t
    <3>. QED
      BY <3>1, <3>2 DEF EventTimes
  <2>. QED
    BY <2>2 DEF Windows
\* The record is the only one read.
<1>7. ASSUME NEW w
      PROVE  Records(offset', w) =
               IF t # Unparsable /\ v = w THEN Records(offset, w) \cup {<<p, n>>} ELSE Records(offset, w)
  <2>1. ASSUME NEW r
        PROVE  r \in Records(offset', w) <=>
                 r \in Records(offset, w) \/ (t # Unparsable /\ v = w /\ r = <<p, n>>)
    <3>. DEFINE holds(q, o) == r = <<q, o>> /\ log[q][o] # Unparsable /\ WindowOf(log[q][o]) = w
    <3>1. r \in Records(offset', w) <=> \E q \in Partitions : \E o \in 1..offset'[q] : holds(q, o)
      BY <1>3, RecordsFacts
    <3>2. r \in Records(offset, w) <=> \E q \in Partitions : \E o \in 1..offset[q] : holds(q, o)
      BY <1>2, RecordsFacts
    <3>3. holds(p, n) <=> t # Unparsable /\ v = w /\ r = <<p, n>>
      OBVIOUS
    <3>. HIDE DEF holds, t, v
    <3>4. n \in 1..offset'[p] /\ \A o \in 1..offset'[p] : o \in 1..offset[p] \/ o = n
      BY <1>2, <1>3
    <3>5. \A q \in Partitions : \A o \in 1..offset[q] : o \in 1..offset'[q]
      BY <1>2, <1>3
    <3>. HIDE DEF n
    <3>. QED
      BY <1>3, <3>1, <3>2, <3>3, <3>4, <3>5
  <2>. HIDE DEF t, v, n
  <2>. QED
    BY <2>1
<1>8. ASSUME NEW w
      PROVE  /\ IsFiniteSet(Records(offset, w) \ late) /\ Counted(offset, late, w) \in Nat
             /\ Counted(offset, late, w)' = Counted(offset', late', w)
  BY <1>1, <1>2, CountedIsNat, CountedNext
\* The row stays out of the counts.
<1>9. CASE /\ UNCHANGED open
           /\ \A w : Records(offset', w) \ late' = Records(offset, w) \ late
           /\ LateRead(late, offset)'
  <2>1. \A w : Counted(offset, late, w)' = Counted(offset, late, w)
    BY <1>8, <1>9 DEF Counted
  <2>2. \A w : Counted(saved.offset, saved.late, w)' = Counted(saved.offset, saved.late, w)
    BY <1>1, CountedNext
  <2>3. RollupTypes'
    BY <1>1, <1>2, <1>9 DEF RollupTypes, LateRead, sink, Filled
  <2>4. CountsInv'
    BY <1>1, <1>2, <1>5, <1>9, <2>1, <2>2 DEF CountsInv, sink
  <2>. QED
    BY <2>3, <2>4
<1>10. CASE t = Unparsable
  <2>1. UNCHANGED <<open, late>>
    BY <1>10 DEF Read
  <2>2. \A w : Records(offset', w) \ late' = Records(offset, w) \ late
    BY <1>7, <1>10, <2>1
  <2>3. LateRead(late, offset)'
    BY <1>2, <1>3, <2>1 DEF RollupTypes, LateRead
  <2>. QED
    BY <1>9, <2>1, <2>2, <2>3
<1>11. CASE t # Unparsable /\ Closed(v, watermark)
  <2>1. UNCHANGED open /\ late' = late \cup {<<p, n>>}
    BY <1>11 DEF Read
  <2>2. ASSUME NEW w PROVE Records(offset', w) \ late' = Records(offset, w) \ late
    <3>1. <<p, n>> \notin Records(offset, w)
      <4>1. ~(\E o \in 1..offset[p] : o = n)
        BY <1>2
      <4>. HIDE DEF n
      <4>. QED
        BY <1>2, <4>1, RecordsFacts
    <3>. QED
      BY <1>7, <2>1, <3>1
  <2>3. LateRead(late, offset)'
    <3>. SUFFICES ASSUME NEW q \in Partitions, NEW o \in Nat, <<q, o>> \in late'
                  PROVE  o <= offset'[q]
      BY DEF LateRead
    <3>1. CASE <<q, o>> \in late
      BY <1>2, <1>3, <3>1 DEF RollupTypes, LateRead
    <3>2. CASE <<q, o>> = <<p, n>>
      BY <1>2, <1>3, <3>2
    <3>. QED
      BY <2>1, <3>1, <3>2
  <2>. QED
    BY <1>9, <2>1, <2>2, <2>3
<1>12. CASE t # Unparsable /\ ~Closed(v, watermark)
  <2>1. UNCHANGED late /\ open' = [open EXCEPT ![v] = @ + 1]
    BY <1>12 DEF Read
  <2>. HIDE DEF v, t, n
  <2>2. /\ open' \in [Windows -> Nat] /\ open'[v] = open[v] + 1 /\ v \in Windows
        /\ \A w \in Windows : w # v => open'[w] = open[w]
    BY <1>2, <1>6, <1>12, <2>1 DEF RollupTypes
  <2>3. IsFiniteSet(Filled(open'))
    <3>1. IsFiniteSet(Filled(open) \cup {v})
      BY <1>2, FS_AddElement DEF RollupTypes
    <3>2. Filled(open') \in SUBSET (Filled(open) \cup {v})
      BY <2>2 DEF Filled
    <3>. QED
      BY <3>1, <3>2, FS_Subset
  <2>4. LateRead(late, offset)'
    BY <1>2, <1>3, <2>1 DEF RollupTypes, LateRead
  <2>5. RollupTypes'
    BY <1>1, <1>2, <2>2, <2>3, <2>4 DEF RollupTypes, LateRead, sink, Filled
  <2>6. ASSUME NEW w \in Windows
        PROVE  Counted(offset, late, w)' = Counted(offset, late, w) + (IF w = v THEN 1 ELSE 0)
    <3>1. CASE w # v
      <4>1. Records(offset', w) \ late' = Records(offset, w) \ late
        BY <1>7, <2>1, <3>1
      <4>2. Counted(offset', late', w) = Counted(offset, late, w)
        BY <4>1 DEF Counted
      <4>. DEFINE c == Counted(offset, late, w)
                  d == Counted(offset, late, w)'
      <4>3. d = c /\ c \in Nat
        BY <1>8, <4>2
      <4>. HIDE DEF c, d
      <4>4. d = c + (IF w = v THEN 1 ELSE 0)
        BY <3>1, <4>3
      <4>. QED
        BY <4>4 DEF c, d
    <3>2. CASE w = v
      <4>1. Records(offset', w) \ late' = (Records(offset, w) \ late) \cup {<<p, n>>}
        BY <1>4, <1>7, <1>12, <2>1, <3>2
      <4>2. <<p, n>> \notin Records(offset, w)
        <5>1. ~(\E o \in 1..offset[p] : o = n)
          BY <1>2 DEF n
        <5>. QED
          BY <1>2, <5>1, RecordsFacts
      <4>. DEFINE R == Records(offset, w) \ late
      <4>3. IsFiniteSet(R) /\ <<p, n>> \notin R
        BY <1>8, <4>2
      <4>. HIDE DEF R
      <4>4. Cardinality(R \cup {<<p, n>>}) = Cardinality(R) + 1
        BY <4>3, FS_AddElement
      <4>5. Counted(offset', late', w) = Counted(offset, late, w) + 1
        BY <4>1, <4>4 DEF Counted, R
      <4>. QED
        BY <1>8, <3>2, <4>5
    <3>. QED
      BY <1>8, <3>1, <3>2
  <2>7. \A w : Counted(saved.offset, saved.late, w)' = Counted(saved.offset, saved.late, w)
    BY <1>1, CountedNext
  <2>8. \A w \in Windows : open'[w] = open[w] + (IF w = v THEN 1 ELSE 0)
    BY <1>2, <2>2 DEF RollupTypes
  <2>9. CountsInv'
    <3>. SUFFICES ASSUME submits = 0, NEW w \in Windows
                  PROVE  /\ open'[w] + EventsOf(topic, w) >= Counted(offset, late, w)'
                         /\ saved.open[w] + EventsOf(topic, w) >= Counted(saved.offset, saved.late, w)
                         /\ restarts = 0 => open'[w] + EventsOf(topic, w) = Counted(offset, late, w)'
                         /\ minuteAgg[w] >= EventsOf(Consumed, w)
                         /\ lostCommits = 0 => minuteAgg[w] = EventsOf(Consumed, w)
      BY <1>1, <1>5, <2>7 DEF CountsInv, sink
    <3>1. /\ open[w] + EventsOf(topic, w) >= Counted(offset, late, w)
          /\ saved.open[w] + EventsOf(topic, w) >= Counted(saved.offset, saved.late, w)
          /\ restarts = 0 => open[w] + EventsOf(topic, w) = Counted(offset, late, w)
          /\ minuteAgg[w] >= EventsOf(Consumed, w)
          /\ lostCommits = 0 => minuteAgg[w] = EventsOf(Consumed, w)
      BY <1>2 DEF CountsInv
    <3>2. /\ open[w] \in Nat /\ Counted(offset, late, w) \in Nat /\ EventsOf(topic, w) \in Nat
      BY <1>2, <1>8, EventsFacts DEF RollupTypes
    <3>. DEFINE c == Counted(offset, late, w)
                d == Counted(offset, late, w)'
                e == EventsOf(topic, w)
                one == IF w = v THEN 1 ELSE 0
    <3>3. d = c + one /\ open'[w] = open[w] + one /\ one \in Nat
      BY <2>6, <2>8
    <3>4. open[w] + e >= c /\ (restarts = 0 => open[w] + e = c)
      BY <3>1
    <3>5. open[w] \in Nat /\ c \in Nat /\ e \in Nat
      BY <3>2
    <3>. HIDE DEF c, d, e, one
    <3>6. open'[w] + e >= d /\ (restarts = 0 => open'[w] + e = d)
      BY <3>3, <3>4, <3>5
    <3>. QED
      BY <3>1, <3>6 DEF d, e
  <2>. QED
    BY <2>5, <2>9
<1>. QED
  BY <1>10, <1>11, <1>12

LEMMA AdvanceCounts ==
  ASSUME RollupInv, Advance
  PROVE  RollupTypes' /\ CountsInv'
<1>. DEFINE rows == ClosedRows(watermark')
<1>1. /\ topic' = topic \o rows
      /\ open' = [w \in Windows |-> IF Closed(w, watermark') THEN 0 ELSE open[w]]
      /\ UNCHANGED <<log, offset, late, saved, restarts, sink, submits, lostCommits>>
  BY DEF Advance, source, cps, faults
<1>2. /\ RollupTypes /\ CountsInv /\ topic \in Seq(Rows) /\ Len(topic) \in Nat
      /\ consumed \in 0..Len(topic) /\ open \in [Windows -> Nat] /\ IsFiniteSet(Filled(open))
      /\ \A p \in Partitions : offset[p] \in Nat /\ saved.offset[p] \in Nat
  BY OffsetsAreNats DEF RollupInv, RollupTypes
<1>3. /\ rows \in Seq(Rows)
      /\ \A w \in Windows : EventsOf(rows, w) = IF Closed(w, watermark') THEN open[w] ELSE 0
  BY <1>2, ClosedRowsFacts
<1>. HIDE DEF rows
<1>4. /\ topic' \in Seq(Rows) /\ Len(topic') = Len(topic) + Len(rows) /\ Len(rows) \in Nat
      /\ consumed \in 0..Len(topic')
  BY <1>1, <1>2, <1>3
<1>5. /\ open' \in [Windows -> Nat]
      /\ \A w \in Windows : open'[w] + EventsOf(rows, w) = open[w]
  BY <1>1, <1>2, <1>3
<1>6. IsFiniteSet(Filled(open'))
  <2>1. Filled(open') \in SUBSET Filled(open)
    BY <1>1, <1>2 DEF Filled
  <2>. QED
    BY <1>2, <2>1, FS_Subset
<1>7. RollupTypes'
  BY <1>1, <1>2, <1>4, <1>5, <1>6 DEF RollupTypes, LateRead, sink, Filled
<1>8. Consumed' = Consumed
  <2>1. CASE consumed = 0
    <3>1. \A s : SubSeq(s, 1, 0) = << >>
      BY SubSeqEmpty
    <3>. QED
      BY <1>1, <2>1, <3>1 DEF Consumed, sink
  <2>2. CASE consumed # 0
    <3>1. 1 \in 1..Len(topic) /\ consumed \in 1..Len(topic)
      BY <1>2, <2>2
    <3>2. SubSeq(topic \o rows, 1, consumed) = SubSeq(topic, 1, consumed)
      BY <1>2, <1>3, <3>1, SubSeqOfConcat1
    <3>. QED
      BY <1>1, <3>2 DEF Consumed, sink
  <2>. QED
    BY <2>1, <2>2
<1>9. \A w : EventsOf(topic', w) = EventsOf(topic, w) + EventsOf(rows, w)
  BY <1>1, <1>2, <1>3, EventsOfBoth
<1>10. \A w : /\ Counted(offset, late, w)' = Counted(offset, late, w)
              /\ Counted(saved.offset, saved.late, w)' = Counted(saved.offset, saved.late, w)
              /\ EventsOf(topic, w)' = EventsOf(topic', w)
              /\ EventsOf(Consumed, w)' = EventsOf(Consumed, w)
  BY <1>1, <1>8, CountedNext DEF EventsOf
<1>11. CountsInv'
  <2>. SUFFICES ASSUME submits = 0, NEW w \in Windows
                PROVE  /\ open'[w] + EventsOf(topic', w) >= Counted(offset, late, w)
                       /\ saved.open[w] + EventsOf(topic', w) >= Counted(saved.offset, saved.late, w)
                       /\ restarts = 0 => open'[w] + EventsOf(topic', w) = Counted(offset, late, w)
                       /\ minuteAgg[w] >= EventsOf(Consumed, w)
                       /\ lostCommits = 0 => minuteAgg[w] = EventsOf(Consumed, w)
    BY <1>1, <1>10 DEF CountsInv, sink
  <2>. DEFINE c == Counted(offset, late, w)
              d == Counted(saved.offset, saved.late, w)
              e == EventsOf(topic, w)
              f == EventsOf(rows, w)
              g == EventsOf(topic', w)
  <2>1. /\ open[w] + e >= c /\ saved.open[w] + e >= d /\ (restarts = 0 => open[w] + e = c)
        /\ minuteAgg[w] >= EventsOf(Consumed, w)
        /\ lostCommits = 0 => minuteAgg[w] = EventsOf(Consumed, w)
    BY <1>2 DEF CountsInv
  <2>2. c \in Nat /\ d \in Nat
    BY <1>2, CountedIsNat
  <2>3. e \in Nat /\ f \in Nat
    BY <1>2, <1>3, EventsFacts
  <2>4. g = e + f /\ open'[w] + f = open[w] /\ open[w] \in Nat /\ open'[w] \in Nat
        /\ saved.open[w] \in Nat
    BY <1>2, <1>5, <1>9 DEF RollupTypes
  <2>. HIDE DEF c, d, e, f, g
  <2>5. open'[w] + g >= c /\ saved.open[w] + g >= d /\ (restarts = 0 => open'[w] + g = c)
    BY <2>1, <2>2, <2>3, <2>4
  <2>. QED
    BY <2>1, <2>5 DEF c, d, g
<1>. QED
  BY <1>7, <1>11

LEMMA CheckpointCounts ==
  ASSUME RollupInv, Checkpoint
  PROVE  RollupTypes' /\ CountsInv'
<1>1. /\ saved'.offset = offset /\ saved'.late = late /\ saved'.open = open
      /\ UNCHANGED <<log, offset, open, late, restarts, topic, sink, submits, lostCommits>>
  BY DEF Checkpoint, job, source, faults
<1>2. RollupTypes /\ CountsInv
  BY DEF RollupInv
<1>3. RollupTypes'
  BY <1>1, <1>2 DEF RollupTypes, LateRead, sink, Filled
<1>4. \A w : /\ Counted(offset, late, w)' = Counted(offset, late, w)
             /\ Counted(saved.offset, saved.late, w)' = Counted(offset, late, w)
             /\ EventsOf(topic, w)' = EventsOf(topic, w)
             /\ EventsOf(Consumed, w)' = EventsOf(Consumed, w)
  BY <1>1, CountedNext, SinkStays
<1>5. CountsInv'
  BY <1>1, <1>2, <1>4 DEF CountsInv, sink
<1>. QED
  BY <1>3, <1>5

\* A failure goes back to counts that are not short; they may be too high.
LEMMA FailCounts ==
  ASSUME RollupInv, Fail
  PROVE  RollupTypes' /\ CountsInv'
<1>1. /\ offset' = saved.offset /\ late' = saved.late /\ open' = saved.open
      /\ restarts' = restarts + 1
      /\ UNCHANGED <<log, saved, topic, sink, submits, lostCommits>>
  BY DEF Fail, StartFrom, source, faults
<1>2. RollupTypes /\ CountsInv
  BY DEF RollupInv
<1>3. RollupTypes'
  BY <1>1, <1>2 DEF RollupTypes, LateRead, sink, Filled
<1>4. \A w : /\ Counted(offset, late, w)' = Counted(saved.offset, saved.late, w)
             /\ Counted(saved.offset, saved.late, w)' = Counted(saved.offset, saved.late, w)
             /\ EventsOf(topic, w)' = EventsOf(topic, w)
             /\ EventsOf(Consumed, w)' = EventsOf(Consumed, w)
  BY <1>1, CountedNext, SinkStays
<1>5. restarts' # 0
  BY <1>1, <1>2 DEF RollupTypes
<1>6. CountsInv'
  BY <1>1, <1>2, <1>4, <1>5 DEF CountsInv, sink
<1>. QED
  BY <1>3, <1>6

LEMMA SubmitCounts ==
  ASSUME RollupInv, Submit
  PROVE  RollupTypes' /\ CountsInv'
<1>. DEFINE state == [Nothing EXCEPT !.offset = saved.offset, !.late = saved.late]
<1>1. /\ StartFrom(state) /\ saved' = state /\ submits' = submits + 1 /\ restarts' = 0
      /\ UNCHANGED <<log, topic, sink, lostCommits>>
  BY DEF Submit, source
<1>2. /\ state.offset = saved.offset /\ state.late = saved.late
      /\ state.open = [w \in Windows |-> 0]
  BY DEF Nothing
<1>. HIDE DEF state
<1>3. /\ offset' = saved.offset /\ late' = saved.late /\ open' = [w \in Windows |-> 0]
      /\ saved'.offset = saved.offset /\ saved'.late = saved.late
      /\ saved'.open = [w \in Windows |-> 0]
  BY <1>1, <1>2 DEF StartFrom
<1>4. RollupTypes
  BY DEF RollupInv
<1>5. Filled(open') = {} /\ Filled(saved'.open) = {}
  BY <1>3 DEF Filled
<1>6. /\ open' \in [Windows -> Nat] /\ IsFiniteSet(Filled(open'))
      /\ saved'.open \in [Windows -> Nat] /\ IsFiniteSet(Filled(saved'.open))
  BY <1>3, <1>5, FS_EmptySet
<1>7. submits' \in Nat /\ submits' # 0
  BY <1>1, <1>4 DEF RollupTypes
<1>8. RollupTypes'
  BY <1>1, <1>3, <1>4, <1>6, <1>7 DEF RollupTypes, LateRead, sink, Filled
<1>. QED
  BY <1>7, <1>8 DEF CountsInv

\* A block moves to the table; whether the offset moves with it.
LEMMA BlockCounts ==
  ASSUME RollupInv, NEW n \in Blocks, Store(Block(n)),
         UNCHANGED <<log, offset, open, late, saved, restarts, topic, submits>>,
         \/ consumed' = consumed + n /\ lostCommits' = lostCommits
         \/ consumed' = consumed /\ lostCommits' = lostCommits + 1
  PROVE  RollupTypes' /\ CountsInv'
<1>. DEFINE block == SubSeq(topic, consumed + 1, consumed + n)
            ahead == SubSeq(topic, 1, consumed + n)
<1>1. /\ RollupTypes /\ CountsInv /\ topic \in Seq(Rows) /\ Len(topic) \in Nat
      /\ consumed \in 0..Len(topic) /\ minuteAgg \in [Windows -> Nat]
      /\ lostCommits \in Nat
  BY DEF RollupInv, RollupTypes
<1>2. n \in Nat \ {0} /\ consumed + n \in 0..Len(topic)
  BY <1>1, RollupAssumption DEF Blocks
<1>3. minuteAgg' = [w \in Windows |-> minuteAgg[w] + EventsOf(block, w)]
  BY DEF Store, Block
<1>4. Consumed \in Seq(Rows)
  BY <1>1, ConsumedFacts
<1>5. block \in Seq(Rows)
  <2>1. \A i \in consumed + 1..consumed + n : topic[i] \in Rows
    BY <1>1, <1>2
  <2>2. consumed + 1 \in Int /\ consumed + n \in Int
    BY <1>1, <1>2
  <2>. QED
    BY <2>1, <2>2, SubSeqProperties
<1>6. ahead = Consumed \o block
  <2>1. /\ 1 \in 1..Len(topic) + 1 /\ consumed \in 1 - 1..Len(topic)
        /\ consumed + n \in consumed..Len(topic)
    BY <1>1, <1>2
  <2>. QED
    BY <1>1, <2>1, ConcatAdjacentSubSeq DEF Consumed
<1>7. \A w : EventsOf(ahead, w) = EventsOf(Consumed, w) + EventsOf(block, w)
  <2>. HIDE DEF ahead, block
  <2>1. \A w : EventsOf(Consumed \o block, w) = EventsOf(Consumed, w) + EventsOf(block, w)
    BY <1>4, <1>5, EventsOfBoth
  <2>. QED
    BY <1>6, <2>1
<1>8. \A w : EventsOf(block, w) \in Nat /\ EventsOf(Consumed, w) \in Nat
  BY <1>4, <1>5, EventsFacts
<1>. HIDE DEF block
<1>9. /\ minuteAgg' \in [Windows -> Nat]
      /\ \A w \in Windows : minuteAgg'[w] = minuteAgg[w] + EventsOf(block, w)
  BY <1>1, <1>3, <1>8
<1>10. consumed' \in 0..Len(topic) /\ lostCommits' \in Nat
  BY <1>1, <1>2
<1>11. RollupTypes'
  BY <1>1, <1>9, <1>10 DEF RollupTypes, LateRead, Filled
<1>12. \A w : /\ Counted(offset, late, w)' = Counted(offset, late, w)
              /\ Counted(saved.offset, saved.late, w)' = Counted(saved.offset, saved.late, w)
              /\ EventsOf(topic, w)' = EventsOf(topic, w)
  BY CountedNext DEF EventsOf
<1>13. Consumed' = IF consumed' = consumed THEN Consumed ELSE ahead
  BY <1>1, <1>2 DEF Consumed
<1>14. \A w : EventsOf(Consumed, w)' = EventsOf(Consumed', w)
  BY DEF EventsOf
<1>. HIDE DEF ahead
<1>15. ASSUME submits = 0, NEW w \in Windows
       PROVE  /\ minuteAgg'[w] >= EventsOf(Consumed', w)
              /\ lostCommits' = 0 => minuteAgg'[w] = EventsOf(Consumed', w)
  <2>. DEFINE c == EventsOf(Consumed, w)
              b == EventsOf(block, w)
  <2>1. /\ minuteAgg[w] >= c /\ (lostCommits = 0 => minuteAgg[w] = c)
        /\ c \in Nat /\ b \in Nat /\ minuteAgg[w] \in Nat
    BY <1>1, <1>8, <1>15 DEF CountsInv
  <2>2. EventsOf(Consumed', w) = IF consumed' = consumed THEN c ELSE c + b
    BY <1>7, <1>13
  <2>3. minuteAgg'[w] = minuteAgg[w] + b
    BY <1>9
  <2>4. \/ consumed' # consumed /\ lostCommits' = lostCommits
        \/ consumed' = consumed /\ lostCommits' # 0
    BY <1>1, <1>2
  <2>. HIDE DEF c, b
  <2>. QED
    BY <2>1, <2>2, <2>3, <2>4
<1>16. CountsInv'
  BY <1>1, <1>12, <1>14, <1>15 DEF CountsInv
<1>. QED
  BY <1>11, <1>16

LEMMA CountsStep == RollupInv /\ [Next]_vars => RollupInv'
<1>. SUFFICES ASSUME RollupInv, [Next]_vars PROVE RollupInv'
  OBVIOUS
<1>. SUFFICES RollupTypes' /\ CountsInv'
  BY NextStragglers DEF RollupInv
<1>2. ASSUME NEW p \in Partitions, Read(p) PROVE RollupTypes' /\ CountsInv'
  BY <1>2, ReadCounts
<1>3. CASE Advance
  BY <1>3, AdvanceCounts
<1>4. CASE Checkpoint
  BY <1>4, CheckpointCounts
<1>5. CASE Fail
  BY <1>5, FailCounts
<1>6. CASE Submit
  BY <1>6, SubmitCounts
<1>7. CASE Land
  BY <1>7, BlockCounts DEF Land, job, source, cps, faults
<1>8. CASE LandUncommitted
  BY <1>8, BlockCounts DEF LandUncommitted, job, source, cps
<1>9. CASE (\E p \in Partitions : GoIdle(p)) \/ UNCHANGED vars
  <2>1. UNCHANGED <<log, offset, open, late, saved, restarts, topic, sink, submits, lostCommits>>
    BY <1>9 DEF GoIdle, vars, job, source, cps, faults, sink
  <2>2. \A w : /\ Counted(offset, late, w)' = Counted(offset, late, w)
               /\ Counted(saved.offset, saved.late, w)' = Counted(saved.offset, saved.late, w)
               /\ EventsOf(topic, w)' = EventsOf(topic, w)
               /\ EventsOf(Consumed, w)' = EventsOf(Consumed, w)
    BY <2>1, CountedNext, SinkStays
  <2>3. RollupTypes'
    BY <2>1 DEF RollupInv, RollupTypes, LateRead, sink, Filled
  <2>4. CountsInv'
    BY <2>1, <2>2 DEF RollupInv, CountsInv, sink
  <2>. QED
    BY <2>3, <2>4
<1>. QED
  BY <1>2, <1>3, <1>4, <1>5, <1>6, <1>7, <1>8, <1>9 DEF Next

LEMMA CountsAreExact == RollupInv => CountsHold
<1>. SUFFICES ASSUME RollupInv, submits = 0, NEW w \in Windows
              PROVE  LET counted == Cardinality(Records(offset, w) \ late)
                     IN  /\ open[w] + EventsOf(topic, w) >= counted
                         /\ minuteAgg[w] >= EventsOf(SubSeq(topic, 1, consumed), w)
                         /\ restarts = 0 /\ lostCommits = 0 =>
                              open[w] + EventsOf(SubSeq(topic, consumed + 1, Len(topic)), w)
                                + minuteAgg[w] = counted
  BY DEF CountsHold
<1>. DEFINE c == Counted(offset, late, w)
            a == EventsOf(Consumed, w)
            b == EventsOf(SubSeq(topic, consumed + 1, Len(topic)), w)
            e == EventsOf(topic, w)
<1>1. /\ open[w] + e >= c /\ (restarts = 0 => open[w] + e = c)
      /\ minuteAgg[w] >= a /\ (lostCommits = 0 => minuteAgg[w] = a)
  BY DEF RollupInv, CountsInv
<1>2. e = a + b /\ a \in Nat /\ b \in Nat /\ e \in Nat
  <2>1. RollupTypes /\ topic \in Seq(Rows)
    BY DEF RollupInv, RollupTypes
  <2>2. e = EventsOf(Consumed \o SubSeq(topic, consumed + 1, Len(topic)), w)
    BY <2>1, ConsumedFacts
  <2>. QED
    BY <2>1, <2>2, ConsumedFacts, EventsOfBoth, EventsFacts
<1>3. open[w] \in Nat /\ minuteAgg[w] \in Nat
  BY DEF RollupInv, RollupTypes
<1>4. c = Cardinality(Records(offset, w) \ late) /\ a = EventsOf(SubSeq(topic, 1, consumed), w)
  BY DEF Counted, Consumed
<1>. HIDE DEF a, b, c, e
<1>5. restarts = 0 /\ lostCommits = 0 => open[w] + b + minuteAgg[w] = c
  BY <1>1, <1>2, <1>3
<1>. QED
  BY <1>1, <1>4, <1>5 DEF b, e

\* For every topic, partitioning, window and delay, and however the job is
\* stopped and resumed: no window is counted short, and every row of the topic
\* whose offset is committed is in the table; without a fault every event read
\* is counted exactly once (the checkpoints of flink_job.py and the view of
\* 21_flink_rollup_ingest.sql).
THEOREM EventsAreCounted == Spec => []CountsHold
BY CountsStart, CountsStep, CountsAreExact, PTL DEF Spec
=============================================================================
