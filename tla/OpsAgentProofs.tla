--------------------------- MODULE OpsAgentProofs ---------------------------
(***************************************************************************)
(* What is made of the tables.  What the agent finds of their columns, for *)
(* every contract and order of schema changes.  What the analyses of the   *)
(* impressions answer, however their stores were loaded.  What the monitor *)
(* measures, judges and logs, and what the daily report says of it, for    *)
(* every history of the table, every order of runs, reruns and replays,    *)
(* and wherever they die: no run changes what an earlier one left in a     *)
(* log, so each promise is kept by the step that makes it, and the         *)
(* invariants say what a run in between knows.                             *)
(***************************************************************************)
EXTENDS OpsAgent, SchemaWatch, ImpressionAnalyses, TLAPS, SequenceTheorems, FiniteSetTheorems,
        WellFoundedInduction

-----------------------------------------------------------------------------
(* Sets, the greatest of them and their elements in order                  *)

LEMMA LeastOfNats ==
  ASSUME NEW T \in SUBSET Nat, T # {}
  PROVE  \E x \in T : \A y \in T : x <= y
<1>1. IsWellFoundedOn(OpToRel(<, Nat), Nat)
  BY NatLessThanWellFounded
<1>2. PICK x \in T : \A y \in T : <<y, x>> \notin OpToRel(<, Nat)
  BY <1>1, WFMin
<1>3. \A y \in T : ~ (y < x)
  BY <1>2 DEF OpToRel
<1>. QED
  BY <1>3

\* Of finitely many numbers one is the greatest: one that the fewest exceed.
LEMMA GreatestValue ==
  ASSUME NEW D, IsFiniteSet(D), D # {}, NEW f \in [D -> Int]
  PROVE  \E i \in D : \A j \in D : f[j] <= f[i]
<1>. DEFINE Above(i) == {j \in D : f[j] > f[i]}
            T == {Cardinality(Above(i)) : i \in D}
<1>1. \A i \in D : IsFiniteSet(Above(i)) /\ Cardinality(Above(i)) \in Nat
  BY FS_Subset, FS_CardinalityType
<1>2. PICK c \in T : \A e \in T : c <= e
  <2>. HIDE DEF Above
  <2>1. T \in SUBSET Nat /\ T # {}
    BY <1>1
  <2>. HIDE DEF T
  <2>. QED
    BY <2>1, LeastOfNats
<1>3. PICK i \in D : c = Cardinality(Above(i))
  BY <1>2
<1>4. Above(i) = {}
  <2>. SUFFICES ASSUME NEW j \in Above(i) PROVE FALSE
    OBVIOUS
  <2>1. Above(j) \subseteq Above(i) \ {j}
    OBVIOUS
  <2>2. Cardinality(Above(j)) <= Cardinality(Above(i) \ {j})
    BY <1>1, <2>1, FS_Subset, FS_RemoveElement
  <2>3. Cardinality(Above(i) \ {j}) = Cardinality(Above(i)) - 1
    BY <1>1, FS_RemoveElement
  <2>4. j \in D
    OBVIOUS
  <2>. HIDE DEF Above
  <2>5. Cardinality(Above(i)) <= Cardinality(Above(j))
    BY <1>2, <1>3, <2>4
  <2>. QED
    BY <1>1, <2>2, <2>3, <2>4, <2>5
<1>5. \A j \in D : ~ (f[j] > f[i])
  BY <1>4
<1>. QED
  BY <1>5

\* 0..n and 1..n are finite, and 1..n has n elements.
LEMMA IntervalSize ==
  ASSUME NEW n \in Nat
  PROVE  IsFiniteSet(0..n) /\ IsFiniteSet(1..n) /\ Cardinality(1..n) = n
<1>1. \A a, b \in Int : IsFiniteSet(a..b)
  BY FS_Interval
<1>2. 0 \in Int /\ 1 \in Int /\ n \in Int
  OBVIOUS
<1>3. Cardinality(1..n) = IF 1 > n THEN 0 ELSE n-1+1
  BY <1>2, FS_Interval
<1>. QED
  BY <1>1, <1>2, <1>3

\* SetToSeq lists the elements of a finite set, each once.
LEMMA ListedOnce ==
  ASSUME NEW S, IsFiniteSet(S)
  PROVE  /\ SetToSeq(S) \in Seq(S)
         /\ \A x \in S : \E i \in DOMAIN SetToSeq(S) : SetToSeq(S)[i] = x
         /\ \A i, j \in DOMAIN SetToSeq(S) : SetToSeq(S)[i] = SetToSeq(S)[j] => i = j
<1>. DEFINE n == Cardinality(S)
<1>1. n \in Nat /\ ExistsBijection(1..n, S)
  BY FS_CardinalityType
<1>2. PICK g : g \in Bijection(1..n, S)
  BY <1>1 DEF ExistsBijection
<1>3. g \in [1..n -> S] /\ IsInjective(g)
  BY <1>2 DEF Bijection, Injection, IsInjective
<1>. DEFINE q == SetToSeq(S)
<1>4. q \in [1..n -> S] /\ IsInjective(q)
  BY <1>3 DEF SetToSeq
<1>5. q \in Injection(1..n, S)
  BY <1>4 DEF IsInjective, Injection
<1>6. IsFiniteSet(1..n) /\ Cardinality(1..n) = n
  BY <1>1, IntervalSize
<1>7. q \in Surjection(1..n, S)
  BY <1>5, <1>6, FS_Injection
<1>8. \A x \in S : \E i \in 1..n : q[i] = x
  BY <1>7 DEF Surjection
<1>9. q \in Seq(S) /\ DOMAIN q = 1..n
  BY <1>1, <1>4
<1>. QED
  BY <1>4, <1>8, <1>9 DEF IsInjective

-----------------------------------------------------------------------------
(* The columns of a table and the contract                                 *)

\* Declared columns and the first field ids stand for each other.
LEMMA FirstIds ==
  /\ Len(Order) \in Nat
  /\ \A c \in Declared : IdOf(c) \in 1..Len(Order) /\ Order[IdOf(c)] = c
  /\ \A i \in 1..Len(Order) : Order[i] \in Declared /\ IdOf(Order[i]) = i
<1>1. /\ Order \in Seq(Declared)
      /\ \A c \in Declared : \E i \in DOMAIN Order : Order[i] = c
      /\ \A i, j \in DOMAIN Order : Order[i] = Order[j] => i = j
  BY SchemaAssumption, ListedOnce DEF Order
<1>2. Len(Order) \in Nat /\ DOMAIN Order = 1..Len(Order)
  BY <1>1
<1>3. \A c \in Declared : IdOf(c) \in DOMAIN Order /\ Order[IdOf(c)] = c
  BY <1>1 DEF IdOf
<1>4. \A i \in 1..Len(Order) : Order[i] \in Declared
  BY <1>1, <1>2
<1>. QED
  BY <1>1, <1>2, <1>3, <1>4

Types == {Contract[c] : c \in Declared} \cup {"int", "string", "long", "double"}
Tables == UNION {[S -> [id : Nat, type : Types]] : S \in SUBSET Names}

\* A version of the table whose ids are among the first `last`: no two columns
\* have one id, and a declared column has its type, or one it was widened to.
Sound(v, last) ==
  /\ v \in Tables
  /\ \A n \in DOMAIN v : v[n].id \in 1..last
  /\ \A n, m \in DOMAIN v : v[n].id = v[m].id => n = m
  /\ \A n \in DOMAIN v, c \in Declared :
       v[n].id = IdOf(c) =>
         v[n].type = Contract[c] \/ <<Contract[c], v[n].type>> \in Widening

SchemaInv ==
  /\ versions \in Seq(Tables) /\ current \in DOMAIN versions /\ changes \in Nat
  /\ \A v \in DOMAIN versions : Sound(versions[v], Len(Order) + changes)
  /\ \A c \in Declared : c \in DOMAIN versions[1] /\ versions[1][c].id = IdOf(c)
  /\ data[IdOf(EnumColumn)] \subseteq EnumValues

LEMMA TablesFacts ==
  ASSUME NEW v \in Tables
  PROVE  /\ DOMAIN v \subseteq Names
         /\ v \in [DOMAIN v -> [id : Nat, type : Types]]
         /\ \A n \in DOMAIN v : v[n] \in [id : Nat, type : Types]
<1>1. PICK S \in SUBSET Names : v \in [S -> [id : Nat, type : Types]]
  BY DEF Tables
<1>. QED
  BY <1>1

LEMMA TablesIntro ==
  ASSUME NEW S \in SUBSET Names, NEW v \in [S -> [id : Nat, type : Types]]
  PROVE  v \in Tables
BY DEF Tables

LEMMA SchemaStart == SchemaInit => SchemaInv
<1>. SUFFICES ASSUME SchemaInit PROVE SchemaInv
  OBVIOUS
<1>. DEFINE first == [c \in Declared |-> [id |-> IdOf(c), type |-> Contract[c]]]
<1>1. versions = <<first>> /\ current = 1 /\ changes = 0
  BY DEF SchemaInit, Created
<1>2. first \in Tables
  <2>1. \A c \in Declared : first[c] \in [id : Nat, type : Types]
    BY FirstIds DEF Types
  <2>2. first \in [Declared -> [id : Nat, type : Types]]
    BY <2>1
  <2>. HIDE DEF first
  <2>. QED
    BY <2>2, TablesIntro DEF Names
<1>3. Sound(first, Len(Order))
  <2>1. \A n, m \in Declared : IdOf(n) = IdOf(m) => n = m
    BY FirstIds
  <2>2. \A n \in Declared : first[n].id = IdOf(n) /\ first[n].type = Contract[n]
    OBVIOUS
  <2>3. DOMAIN first = Declared
    OBVIOUS
  <2>. HIDE DEF first
  <2>. QED
    BY <1>2, <2>1, <2>2, <2>3, FirstIds DEF Sound
<1>4. data[IdOf(EnumColumn)] \subseteq EnumValues
  <2>1. PICK enum \in SUBSET EnumValues, dates \in SUBSET (Days \cup Garbage) :
          data = [i \in Ids |-> CASE i = IdOf(EnumColumn) -> enum
                                [] i = IdOf(DateColumn) -> dates
                                [] OTHER -> {}]
    BY DEF SchemaInit
  <2>2. IdOf(EnumColumn) \in Ids /\ IdOf(EnumColumn) # IdOf(DateColumn)
    BY FirstIds, SchemaAssumption DEF Ids
  <2>3. data[IdOf(EnumColumn)] = enum
    BY <2>1, <2>2
  <2>. QED
    BY <2>3
<1>5. \A c \in Declared : c \in DOMAIN first /\ first[c].id = IdOf(c)
  OBVIOUS
<1>. HIDE DEF first
<1>6. versions \in Seq(Tables) /\ DOMAIN versions = {1} /\ versions[1] = first
  BY <1>1, <1>2
<1>7. Len(Order) + changes = Len(Order)
  BY <1>1, FirstIds
<1>. QED
  BY <1>1, <1>3, <1>4, <1>5, <1>6, <1>7 DEF SchemaInv

\* Whatever sound version the table changes to, old or new.
LEMMA BecomeKeeps ==
  ASSUME SchemaInv, NEW version, Sound(version, Len(Order) + changes + 1),
         Become(version), UNCHANGED data
  PROVE  SchemaInv'
<1>. DEFINE before == {v \in DOMAIN versions : versions[v] = version}
<1>1. /\ versions \in Seq(Tables) /\ Len(versions) \in Nat /\ DOMAIN versions = 1..Len(versions)
      /\ changes \in Nat /\ changes' = changes + 1 /\ current \in DOMAIN versions
  BY DEF SchemaInv, Become
<1>2. \A v \in DOMAIN versions : Sound(versions[v], Len(Order) + changes + 1)
  <2>1. \A i \in 1..Len(Order) + changes : i \in 1..Len(Order) + changes + 1
    BY <1>1, FirstIds
  <2>. QED
    BY <2>1 DEF SchemaInv, Sound
<1>3. Len(Order) + changes' = Len(Order) + changes + 1
  BY <1>1, FirstIds
<1>4. /\ versions' \in Seq(Tables) /\ current' \in DOMAIN versions'
      /\ \A v \in DOMAIN versions' : Sound(versions'[v], Len(Order) + changes + 1)
      /\ versions'[1] = versions[1]
  <2>1. CASE before # {}
    <3>1. before \in SUBSET Nat
      BY <1>1
    <3>2. PICK x \in before : \A y \in before : x <= y
      BY <2>1, <3>1, LeastOfNats
    <3>3. Min(before) \in before
      BY <3>2 DEF Min
    <3>4. current' = Min(before) /\ versions' = versions
      BY <2>1 DEF Become
    <3>. QED
      BY <1>1, <1>2, <3>3, <3>4
  <2>2. CASE before = {}
    <3>1. versions' = Append(versions, version) /\ current' = Len(versions) + 1
      BY <2>2 DEF Become
    <3>2. version \in Tables
      BY DEF Sound
    <3>3. /\ versions' \in Seq(Tables) /\ DOMAIN versions' = 1..Len(versions) + 1
          /\ versions'[Len(versions) + 1] = version
          /\ \A v \in 1..Len(versions) : versions'[v] = versions[v]
      BY <1>1, <3>1, <3>2
    <3>. QED
      BY <1>1, <1>2, <3>1, <3>3
  <2>. QED
    BY <2>1, <2>2
<1>5. \A c \in Declared : c \in DOMAIN versions'[1] /\ versions'[1][c].id = IdOf(c)
  BY <1>4 DEF SchemaInv
<1>. QED
  BY <1>1, <1>3, <1>4, <1>5 DEF SchemaInv

LEMMA PresentIsSound ==
  ASSUME SchemaInv
  PROVE  Sound(Present, Len(Order) + changes) /\ changes \in Nat
BY DEF SchemaInv, Present

LEMMA AddColumnKeeps ==
  ASSUME SchemaInv, NEW name \in Names, NEW type \in {"int", "string"}, AddColumn(name, type)
  PROVE  SchemaInv'
<1>. DEFINE id == Len(Order) + changes + 1
            version == [n \in DOMAIN Present \cup {name} |->
                          IF n = name THEN [id |-> id, type |-> type] ELSE Present[n]]
<1>1. Become(version) /\ name \notin DOMAIN Present /\ UNCHANGED data
  BY DEF AddColumn
<1>2. Sound(Present, Len(Order) + changes) /\ changes \in Nat /\ Len(Order) \in Nat
  BY PresentIsSound, FirstIds
<1>3. DOMAIN Present \subseteq Names
      /\ \A n \in DOMAIN Present : Present[n] \in [id : Nat, type : Types]
  BY <1>2, TablesFacts DEF Sound
<1>4. /\ DOMAIN version = DOMAIN Present \cup {name}
      /\ version[name] = [id |-> id, type |-> type]
      /\ \A n \in DOMAIN Present : version[n] = Present[n]
  BY <1>1
<1>5. version \in Tables
  <2>1. \A n \in DOMAIN version : version[n] \in [id : Nat, type : Types]
    <3>1. [id |-> id, type |-> type] \in [id : Nat, type : Types]
      BY <1>2 DEF Types
    <3>. HIDE DEF version, id
    <3>. QED
      BY <3>1, <1>3, <1>4
  <2>2. version \in [DOMAIN version -> [id : Nat, type : Types]]
    BY <2>1
  <2>3. DOMAIN version \subseteq Names
    BY <1>3, <1>4
  <2>. HIDE DEF version
  <2>. QED
    BY <2>2, <2>3, TablesIntro
<1>6. version[name].id = id /\ version[name].type = type
  BY <1>4
<1>7. \A n \in DOMAIN Present : Present[n].id \in 1..Len(Order) + changes /\ Present[n].id # id
  BY <1>2 DEF Sound
<1>8. \A c \in Declared : IdOf(c) # id
  BY <1>2, FirstIds
<1>9. id \in 1..id /\ \A i \in 1..Len(Order) + changes : i \in 1..id
  BY <1>2
<1>10. Sound(version, id)
  <2>. HIDE DEF version, id
  <2>1. \A n \in DOMAIN version : version[n].id \in 1..id
    BY <1>4, <1>6, <1>7, <1>9
  <2>2. \A n, m \in DOMAIN version : version[n].id = version[m].id => n = m
    BY <1>2, <1>4, <1>6, <1>7 DEF Sound
  <2>3. \A n \in DOMAIN version, c \in Declared :
          version[n].id = IdOf(c) =>
            version[n].type = Contract[c] \/ <<Contract[c], version[n].type>> \in Widening
    BY <1>2, <1>4, <1>6, <1>8 DEF Sound
  <2>. QED
    BY <1>5, <2>1, <2>2, <2>3 DEF Sound
<1>. HIDE DEF version
<1>. QED
  BY <1>1, <1>10, BecomeKeeps

LEMMA RenameColumnKeeps ==
  ASSUME SchemaInv, NEW old \in Names, NEW new \in Names, RenameColumn(old, new)
  PROVE  SchemaInv'
<1>. DEFINE version == [n \in (DOMAIN Present \ {old}) \cup {new} |->
                          IF n = new THEN Present[old] ELSE Present[n]]
<1>1. /\ Become(version) /\ old \in DOMAIN Present /\ new \notin DOMAIN Present
      /\ UNCHANGED data
  BY DEF RenameColumn
<1>2. Sound(Present, Len(Order) + changes) /\ changes \in Nat /\ Len(Order) \in Nat
  BY PresentIsSound, FirstIds
<1>3. DOMAIN Present \subseteq Names
      /\ \A n \in DOMAIN Present : Present[n] \in [id : Nat, type : Types]
  BY <1>2, TablesFacts DEF Sound
\* Every column of the new version is one of the old, by another name.
<1>. DEFINE was(n) == IF n = new THEN old ELSE n
<1>4. /\ DOMAIN version \subseteq Names
      /\ \A n \in DOMAIN version : version[n] = Present[was(n)] /\ was(n) \in DOMAIN Present
      /\ \A n, m \in DOMAIN version : was(n) = was(m) => n = m
  BY <1>1, <1>3
<1>5. version \in Tables
  <2>1. \A n \in DOMAIN version : version[n] \in [id : Nat, type : Types]
    BY <1>3, <1>4
  <2>2. version \in [DOMAIN version -> [id : Nat, type : Types]]
    BY <2>1
  <2>. HIDE DEF version
  <2>. QED
    BY <2>2, <1>4, TablesIntro
<1>6. \A i \in 1..Len(Order) + changes : i \in 1..Len(Order) + changes + 1
  BY <1>2
<1>7. Sound(version, Len(Order) + changes + 1)
  <2>. HIDE DEF version, was
  <2>. QED
    BY <1>2, <1>4, <1>5, <1>6 DEF Sound
<1>. HIDE DEF version
<1>. QED
  BY <1>1, <1>7, BecomeKeeps

LEMMA DropColumnKeeps ==
  ASSUME SchemaInv, NEW name \in Names, DropColumn(name)
  PROVE  SchemaInv'
<1>. DEFINE version == [n \in DOMAIN Present \ {name} |-> Present[n]]
<1>1. Become(version) /\ UNCHANGED data
  BY DEF DropColumn
<1>2. Sound(Present, Len(Order) + changes) /\ changes \in Nat /\ Len(Order) \in Nat
  BY PresentIsSound, FirstIds
<1>3. DOMAIN Present \subseteq Names
      /\ \A n \in DOMAIN Present : Present[n] \in [id : Nat, type : Types]
  BY <1>2, TablesFacts DEF Sound
<1>4. /\ DOMAIN version \subseteq Names
      /\ \A n \in DOMAIN version : version[n] = Present[n] /\ n \in DOMAIN Present
  BY <1>3
<1>5. version \in Tables
  <2>1. \A n \in DOMAIN version : version[n] \in [id : Nat, type : Types]
    BY <1>3, <1>4
  <2>2. version \in [DOMAIN version -> [id : Nat, type : Types]]
    BY <2>1
  <2>. HIDE DEF version
  <2>. QED
    BY <2>2, <1>4, TablesIntro
<1>6. \A i \in 1..Len(Order) + changes : i \in 1..Len(Order) + changes + 1
  BY <1>2
<1>7. Sound(version, Len(Order) + changes + 1)
  <2>. HIDE DEF version
  <2>. QED
    BY <1>2, <1>4, <1>5, <1>6 DEF Sound
<1>. HIDE DEF version
<1>. QED
  BY <1>1, <1>7, BecomeKeeps

\* No type is widened twice.
LEMMA WidenColumnKeeps ==
  ASSUME SchemaInv, NEW name \in Names, NEW type \in {"long", "double"},
         WidenColumn(name, type)
  PROVE  SchemaInv'
<1>. DEFINE version == [Present EXCEPT ![name].type = type]
<1>1. /\ Become(version) /\ name \in DOMAIN Present
      /\ <<Present[name].type, type>> \in Widening /\ UNCHANGED data
  BY DEF WidenColumn
<1>2. Sound(Present, Len(Order) + changes) /\ changes \in Nat /\ Len(Order) \in Nat
  BY PresentIsSound, FirstIds
<1>3. /\ Present \in [DOMAIN Present -> [id : Nat, type : Types]]
      /\ DOMAIN Present \subseteq Names
      /\ \A n \in DOMAIN Present : Present[n] \in [id : Nat, type : Types]
  BY <1>2, TablesFacts DEF Sound
<1>4. DOMAIN version = DOMAIN Present
  BY <1>3
<1>5. /\ version[name] = [Present[name] EXCEPT !.type = type]
      /\ \A n \in DOMAIN version : n # name => version[n] = Present[n]
  BY <1>1, <1>3
<1>6. /\ version[name].id = Present[name].id /\ version[name].type = type
      /\ version[name] \in [id : Nat, type : Types]
  <2>. DEFINE r == Present[name]
  <2>1. r \in [id : Nat, type : Types] /\ type \in Types
    BY <1>1, <1>3 DEF Types
  <2>2. version[name] = [r EXCEPT !.type = type]
    BY <1>5
  <2>. HIDE DEF r, version
  <2>3. version[name].id = r.id /\ version[name].type = type
    BY <2>1, <2>2
  <2>4. version[name] \in [id : Nat, type : Types]
    BY <2>1, <2>2
  <2>. QED
    BY <2>3, <2>4 DEF r
<1>7. \A n \in DOMAIN version : version[n].id = Present[n].id
  BY <1>4, <1>5, <1>6
<1>8. version \in Tables
  <2>1. \A n \in DOMAIN version : version[n] \in [id : Nat, type : Types]
    BY <1>3, <1>4, <1>5, <1>6
  <2>2. version \in [DOMAIN version -> [id : Nat, type : Types]]
    BY <1>3, <2>1
  <2>. HIDE DEF version
  <2>. QED
    BY <2>2, <1>3, <1>4, TablesIntro
<1>9. \A i \in 1..Len(Order) + changes : i \in 1..Len(Order) + changes + 1
  BY <1>2
<1>. HIDE DEF version
<1>10. ASSUME NEW c \in Declared, version[name].id = IdOf(c)
       PROVE  <<Contract[c], version[name].type>> \in Widening
  <2>1. Present[name].type = Contract[c] \/ <<Contract[c], Present[name].type>> \in Widening
    BY <1>1, <1>2, <1>6, <1>10 DEF Sound
  <2>2. Present[name].type \notin {"long", "double"}
    BY <1>1 DEF Widening
  <2>3. Present[name].type = Contract[c]
    BY <2>1, <2>2 DEF Widening
  <2>. QED
    BY <1>1, <1>6, <2>3
<1>11. Sound(version, Len(Order) + changes + 1)
  <2>1. \A n \in DOMAIN version : version[n].id \in 1..Len(Order) + changes + 1
    BY <1>2, <1>4, <1>7, <1>9 DEF Sound
  <2>2. \A n, m \in DOMAIN version : version[n].id = version[m].id => n = m
    BY <1>2, <1>4, <1>7 DEF Sound
  <2>3. \A n \in DOMAIN version, c \in Declared :
          version[n].id = IdOf(c) =>
            version[n].type = Contract[c] \/ <<Contract[c], version[n].type>> \in Widening
    BY <1>2, <1>4, <1>5, <1>10 DEF Sound
  <2>. QED
    BY <1>8, <2>1, <2>2, <2>3 DEF Sound
<1>. QED
  BY <1>1, <1>11, BecomeKeeps

LEMMA SchemaStep == SchemaInv /\ [SchemaNext]_schema => SchemaInv'
<1>. SUFFICES ASSUME SchemaInv, [SchemaNext]_schema PROVE SchemaInv'
  OBVIOUS
<1>1. ASSUME NEW n \in Names, NEW type \in {"int", "string"}, AddColumn(n, type)
      PROVE  SchemaInv'
  BY <1>1, AddColumnKeeps
<1>2. ASSUME NEW old \in Names, NEW new \in Names, RenameColumn(old, new)
      PROVE  SchemaInv'
  BY <1>2, RenameColumnKeeps
<1>3. ASSUME NEW n \in Names, DropColumn(n)
      PROVE  SchemaInv'
  BY <1>3, DropColumnKeeps
<1>4. ASSUME NEW n \in Names, NEW type \in {"long", "double"}, WidenColumn(n, type)
      PROVE  SchemaInv'
  BY <1>4, WidenColumnKeeps
<1>5. CASE UNCHANGED schema
  BY <1>5 DEF schema, SchemaInv
<1>. QED
  BY <1>1, <1>2, <1>3, <1>4, <1>5 DEF SchemaNext
-----------------------------------------------------------------------------
(* A run's reading of the table                                            *)

\* While names stay, a declared name is its column's in every version, and the
\* version of the highest id is the table's.
LEMMA NamesAreIds ==
  ASSUME SchemaInv, NamesStay
  PROVE  /\ Newest = Present /\ Present \in Tables
         /\ Sound(Present, Len(Order) + changes)
         /\ DOMAIN versions # {}
         /\ \A v \in DOMAIN versions : \A c \in DOMAIN versions[v] \cap Declared :
              versions[v][c].id = IdOf(c)
<1>1. Newest = Present /\ current \in DOMAIN versions /\ versions \in Seq(Tables)
  BY DEF NamesStay, SchemaInv, Newest, Present
<1>2. 1 \in DOMAIN versions
  BY <1>1
<1>3. Sound(Present, Len(Order) + changes)
  BY PresentIsSound
<1>4. ASSUME NEW v \in DOMAIN versions, NEW c \in DOMAIN versions[v] \cap Declared
      PROVE  versions[v][c].id = IdOf(c)
  <2>1. c \in DOMAIN versions[1] /\ versions[1][c].id = IdOf(c)
    BY DEF SchemaInv
  <2>. QED
    BY <1>2, <2>1 DEF NamesStay
<1>. QED
  BY <1>1, <1>2, <1>3, <1>4 DEF Sound

\* By name, and by the rename map when the name is gone, a run finds the column
\* that has the declared column's id.
LEMMA FoundByName ==
  ASSUME SchemaInv, NamesStay, NEW c \in Declared
  PROVE  /\ NowCalled(c) = {} => c \notin DOMAIN Newest /\ c \notin DOMAIN RenameMap
         /\ \A n \in NowCalled(c) :
              /\ NowCalled(c) = {n}
              /\ n = c <=> c \in DOMAIN Newest
              /\ n # c => c \in DOMAIN RenameMap /\ RenameMap[c] = n
<1>. DEFINE renamed(old, new) ==
              /\ new \in DOMAIN Newest /\ old # new
              /\ \E v \in DOMAIN versions : /\ old \in DOMAIN versions[v]
                                            /\ versions[v][old].id = Newest[new].id
<1>1. /\ Newest = Present /\ Sound(Present, Len(Order) + changes)
      /\ \A v \in DOMAIN versions : \A d \in DOMAIN versions[v] \cap Declared :
              versions[v][d].id = IdOf(d)
      /\ DOMAIN Present \subseteq Names
  BY NamesAreIds, TablesFacts
<1>2. current \in DOMAIN versions /\ 1 \in DOMAIN versions /\ c \in DOMAIN versions[1]
  BY DEF SchemaInv
<1>3. c \in DOMAIN Newest => Present[c].id = IdOf(c) /\ c \in NowCalled(c)
  BY <1>1, <1>2 DEF Present, NowCalled
<1>4. \A n : renamed(c, n) <=> n \in NowCalled(c) /\ n # c
  <2>1. ASSUME NEW n, renamed(c, n) PROVE n \in NowCalled(c) /\ n # c
    BY <1>1, <2>1 DEF NowCalled
  <2>2. ASSUME NEW n, n \in NowCalled(c), n # c PROVE renamed(c, n)
    <3>1. versions[1][c].id = Newest[n].id /\ n \in DOMAIN Newest
      BY <1>1, <1>2, <2>2 DEF NowCalled
    <3>. QED
      BY <1>2, <2>2, <3>1
  <2>. QED
    BY <2>1, <2>2
<1>5. \A n, m \in NowCalled(c) : n = m
  BY <1>1 DEF NowCalled, Sound
<1>6. RenameMap = [old \in {o \in Names : \E n \in Names : renamed(o, n)} |->
                     CHOOSE n \in Names : renamed(old, n)]
  BY DEF RenameMap
<1>7. NowCalled(c) \subseteq Names /\ c \in Names
  BY <1>1 DEF NowCalled, Names
<1>. HIDE DEF renamed
<1>8. DOMAIN RenameMap = {o \in Names : \E n \in Names : renamed(o, n)}
  BY <1>6
<1>9. CASE NowCalled(c) = {}
  BY <1>3, <1>4, <1>8, <1>9
<1>10. ASSUME NEW n \in NowCalled(c)
       PROVE  /\ NowCalled(c) = {n}
              /\ n = c <=> c \in DOMAIN Newest
              /\ n # c => c \in DOMAIN RenameMap /\ RenameMap[c] = n
  <2>1. NowCalled(c) = {n}
    BY <1>5
  <2>2. n = c <=> c \in DOMAIN Newest
    BY <1>1, <1>3, <1>5 DEF NowCalled
  <2>3. ASSUME n # c PROVE c \in DOMAIN RenameMap /\ RenameMap[c] = n
    <3>1. renamed(c, n) /\ n \in Names
      BY <1>4, <1>7, <2>3
    <3>2. c \in {o \in Names : \E m \in Names : renamed(o, m)}
      BY <1>7, <3>1
    <3>3. RenameMap[c] = CHOOSE m \in Names : renamed(c, m)
      BY <1>6, <3>2
    <3>4. \A m \in Names : renamed(c, m) => m = n
      BY <1>4, <1>5
    <3>. QED
      BY <1>8, <3>1, <3>2, <3>3, <3>4
  <2>. QED
    BY <2>1, <2>2, <2>3
<1>. QED
  BY <1>9, <1>10

LEMMA LiveIsNow ==
  ASSUME SchemaInv, NamesStay, NEW c \in Declared
  PROVE  /\ Live(c) = NowCalled(c) /\ Live(c) \subseteq DOMAIN Present
         /\ \A n \in Live(c) : Live(c) = {n} /\ Scan(n) = data[IdOf(c)]
         /\ UNION {data[Present[n].id] : n \in NowCalled(c)}
              = IF Live(c) = {} THEN {} ELSE data[IdOf(c)]
<1>1. Live(c) = NowCalled(c)
  <2>1. CASE NowCalled(c) = {}
    BY <2>1, FoundByName DEF Live
  <2>2. CASE NowCalled(c) # {}
    <3>1. PICK n \in NowCalled(c) : TRUE
      BY <2>2
    <3>. QED
      BY <3>1, FoundByName DEF Live
  <2>. QED
    BY <2>1, <2>2
<1>2. \A n \in NowCalled(c) : /\ n \in DOMAIN Present /\ Present[n].id = IdOf(c)
                              /\ NowCalled(c) = {n} /\ Scan(n) = data[IdOf(c)]
  BY FoundByName DEF NowCalled, Scan
<1>3. UNION {data[Present[n].id] : n \in NowCalled(c)}
        = IF NowCalled(c) = {} THEN {} ELSE data[IdOf(c)]
  <2>1. CASE NowCalled(c) = {}
    BY <2>1
  <2>2. CASE NowCalled(c) # {}
    <3>1. PICK n \in NowCalled(c) : NowCalled(c) = {n} /\ Present[n].id = IdOf(c)
      BY <1>2, <2>2
    <3>2. {data[Present[m].id] : m \in NowCalled(c)} = {data[IdOf(c)]}
      BY <3>1
    <3>. QED
      BY <2>2, <3>2
  <2>. QED
    BY <2>1, <2>2
<1>. QED
  BY <1>1, <1>2, <1>3

\* What a declared column's type can be is compatible only if it is the same.
LEMMA WidenedIsIncompatible ==
  ASSUME NEW declared, NEW observed,
         declared = observed \/ <<declared, observed>> \in Widening
  PROVE  /\ Compatible(declared, observed) <=> observed = declared
         /\ observed # declared => <<declared, observed>> \in Widening
<1>1. ASSUME <<declared, observed>> \in Widening
      PROVE  observed # declared /\ declared # "timestamp"
  BY <1>1 DEF Widening
<1>. QED
  BY <1>1 DEF Compatible

\* A finding is one of Drift about a declared column, or of a column added.
Added == {[change |-> "added", column |-> n] :
            n \in DOMAIN Newest \ (Declared \cup Internal \cup RenamedTo)}

LEMMA FindingsSplit ==
  /\ \A f : f \in SchemaDrift <=> (\E c \in Declared : f \in Drift(c)) \/ f \in Added
  /\ \A c \in Declared : \A f \in Drift(c) : f.column = c /\ f.change # "added"
  /\ \A f \in Added : f.change = "added" /\ f.column \notin Declared
  /\ {f.column : f \in Added} = DOMAIN Newest \ (Declared \cup Internal \cup RenamedTo)
<1>1. ASSUME NEW c \in Declared, NEW f \in Drift(c) PROVE f.column = c /\ f.change # "added"
  BY DEF Drift
<1>2. \A f : f \in SchemaDrift <=> (\E c \in Declared : f \in Drift(c)) \/ f \in Added
  <2>. DEFINE D == UNION {Drift(c) : c \in Declared}
  <2>1. SchemaDrift = D \cup Added
    BY DEF SchemaDrift, Added
  <2>2. \A f : f \in D <=> \E c \in Declared : f \in Drift(c)
    OBVIOUS
  <2>. HIDE DEF D
  <2>. QED
    BY <2>1, <2>2
<1>3. \A f \in Added : f.change = "added" /\ f.column \notin Declared
  BY DEF Added
<1>4. {f.column : f \in Added} = DOMAIN Newest \ (Declared \cup Internal \cup RenamedTo)
  <2>. DEFINE N == DOMAIN Newest \ (Declared \cup Internal \cup RenamedTo)
              record(n) == [change |-> "added", column |-> n]
  <2>1. Added = {record(n) : n \in N}
    BY DEF Added
  <2>2. \A n : record(n).column = n
    OBVIOUS
  <2>. HIDE DEF N, record
  <2>3. \A n : n \in {f.column : f \in Added} <=> n \in N
    BY <2>1, <2>2
  <2>4. {f.column : f \in Added} = N
    BY <2>3
  <2>. QED
    BY <2>4 DEF N
<1>. QED
  BY <1>1, <1>2, <1>3, <1>4

LEMMA FoundIsDrift ==
  ASSUME NEW c \in Declared
  PROVE  FoundAs(c) = Drift(c)
<1>1. \A f : f \in FoundAs(c) <=> f \in SchemaDrift /\ f.column = c
  BY DEF FoundAs
<1>2. \A f : f \in FoundAs(c) <=> f \in Drift(c)
  BY <1>1, FindingsSplit
<1>. QED
  BY <1>2

LEMMA OneFinding ==
  ASSUME NEW f
  PROVE  Cardinality({f}) = 1
BY FS_Singleton

LEMMA ColumnsAreJudged ==
  ASSUME SchemaInv, NamesStay, NEW c \in Declared
  PROVE  LET now == NowCalled(c)
             intact == \E n \in now : Present[n].type = Contract[c]
         IN  /\ now = {} => {f.change : f \in FoundAs(c)} = {"dropped"}
             /\ now = {c} => {DriftSeverity(f) : f \in FoundAs(c)}
                               = IF intact THEN {} ELSE {"widening"}
             /\ now \notin {{}, {c}} =>
                  /\ Cardinality(FoundAs(c)) = 1
                  /\ \A f \in FoundAs(c) :
                       /\ f.change = "renamed" /\ f.to \in now
                       /\ DriftSeverity(f) = IF intact THEN "renaming" ELSE "breaking"
             /\ TypeBreach(c) <=> FoundAs(c) # {}
<1>. DEFINE now == NowCalled(c)
            intact == \E n \in now : Present[n].type = Contract[c]
<1>1. FoundAs(c) = Drift(c)
  BY FoundIsDrift
<1>2. Newest = Present /\ Sound(Present, Len(Order) + changes)
  BY NamesAreIds
<1>3. \A n \in now : /\ Compatible(Contract[c], Present[n].type) <=> Present[n].type = Contract[c]
                     /\ Present[n].type # Contract[c] => <<Contract[c], Present[n].type>> \in Widening
  BY <1>2, WidenedIsIncompatible DEF Sound, NowCalled
<1>4. CASE now = {}
  <2>1. c \notin DOMAIN Newest /\ c \notin DOMAIN RenameMap
    BY <1>4, FoundByName
  <2>2. Drift(c) = {[change |-> "dropped", column |-> c]}
    BY <2>1 DEF Drift
  <2>3. {f.change : f \in Drift(c)} = {"dropped"}
    BY <2>2
  <2>. QED
    BY <1>1, <1>2, <1>4, <2>1, <2>2, <2>3 DEF TypeBreach
<1>5. CASE now = {c}
  <2>1. c \in DOMAIN Newest
    BY <1>5, FoundByName
  <2>2. intact <=> Present[c].type = Contract[c]
    BY <1>5
  <2>3. CASE intact
    <3>1. Compatible(Contract[c], Newest[c].type)
      BY <1>2, <1>3, <1>5, <2>2, <2>3
    <3>2. Drift(c) = {}
      BY <2>1, <3>1 DEF Drift
    <3>. QED
      BY <1>1, <1>2, <1>5, <2>1, <2>3, <3>1, <3>2 DEF TypeBreach
  <2>4. CASE ~intact
    <3>. DEFINE f == [change |-> "type_changed", column |-> c,
                      declared |-> Contract[c], observed |-> Newest[c].type]
    <3>1. ~Compatible(Contract[c], Newest[c].type) /\ <<Contract[c], Newest[c].type>> \in Widening
      BY <1>2, <1>3, <1>5, <2>2, <2>4
    <3>2. Drift(c) = {f}
      BY <2>1, <3>1 DEF Drift
    <3>3. DriftSeverity(f) = "widening"
      BY <3>1 DEF DriftSeverity
    <3>. HIDE DEF f
    <3>4. {DriftSeverity(g) : g \in Drift(c)} = {"widening"}
      BY <3>2, <3>3
    <3>. QED
      BY <1>1, <1>2, <1>5, <2>1, <2>4, <3>1, <3>2, <3>4 DEF TypeBreach
  <2>. QED
    BY <2>3, <2>4
<1>6. CASE now \notin {{}, {c}}
  <2>1. PICK n \in now : now = {n} /\ n # c
    BY <1>6, FoundByName
  <2>2. c \notin DOMAIN Newest /\ c \in DOMAIN RenameMap /\ RenameMap[c] = n
    BY <2>1, FoundByName
  <2>. DEFINE f == [change |-> "renamed", column |-> c, to |-> RenameMap[c],
                    id |-> Newest[RenameMap[c]].id,
                    compatible |-> Compatible(Contract[c], Newest[RenameMap[c]].type)]
  <2>3. Drift(c) = {f}
    BY <2>2 DEF Drift
  <2>4. f.change = "renamed" /\ f.to \in now
    BY <2>1, <2>2
  <2>5. f.compatible <=> intact
    <3>1. f.compatible = Compatible(Contract[c], Present[n].type)
      BY <1>2, <2>2
    <3>. QED
      BY <1>3, <2>1, <3>1
  <2>6. DriftSeverity(f) = IF intact THEN "renaming" ELSE "breaking"
    <3>1. DriftSeverity(f) = IF f.compatible THEN "renaming" ELSE "breaking"
      <4>. HIDE DEF f
      <4>. QED
        BY <2>4 DEF DriftSeverity
    <3>. QED
      BY <2>5, <3>1
  <2>. HIDE DEF f
  <2>7. Cardinality(Drift(c)) = 1
    BY <2>3, OneFinding
  <2>8. \A g \in Drift(c) : /\ g.change = "renamed" /\ g.to \in now
                            /\ DriftSeverity(g) = IF intact THEN "renaming" ELSE "breaking"
    BY <2>3, <2>4, <2>6
  <2>. QED
    BY <1>1, <1>2, <1>6, <2>2, <2>3, <2>7, <2>8 DEF TypeBreach
<1>. QED
  BY <1>4, <1>5, <1>6

\* Reported as added are the columns whose id came after the first.
LEMMA AddedAreNew ==
  ASSUME SchemaInv, NamesStay
  PROVE  {f.column : f \in {g \in SchemaDrift : g.change = "added"}}
           = {n \in DOMAIN Present : Present[n].id > Len(Order)} \ Internal
<1>3. {g \in SchemaDrift : g.change = "added"} = Added
  <2>1. \A g : g \in SchemaDrift /\ g.change = "added" <=> g \in Added
    BY FindingsSplit
  <2>. QED
    BY <2>1
<1>4. {f.column : f \in Added} = DOMAIN Newest \ (Declared \cup Internal \cup RenamedTo)
  BY FindingsSplit
<1>5. /\ Newest = Present /\ Present \in Tables /\ current \in DOMAIN versions
      /\ \A v \in DOMAIN versions : \A c \in DOMAIN versions[v] \cap Declared :
           versions[v][c].id = IdOf(c)
  BY NamesAreIds DEF SchemaInv
<1>6. \A n \in DOMAIN Present : Present[n].id \in Nat \ {0}
  BY NamesAreIds, FirstIds DEF Sound, SchemaInv
<1>7. ASSUME NEW n \in DOMAIN Present
      PROVE  Present[n].id > Len(Order) <=> n \notin Declared \cup RenamedTo
  <2>1. CASE Present[n].id > Len(Order)
    <3>1. n \notin Declared
      BY <1>5, <2>1, FirstIds DEF Present
    <3>2. ASSUME n \in RenamedTo PROVE FALSE
      <4>1. PICK c \in (Declared \ DOMAIN Newest) \cap DOMAIN RenameMap : n = RenameMap[c]
        BY <3>2 DEF RenamedTo
      <4>2. NowCalled(c) # {}
        BY <4>1, FoundByName
      <4>3. PICK m \in NowCalled(c) : TRUE
        BY <4>2
      <4>4. m # c /\ RenameMap[c] = m
        BY <4>1, <4>3, FoundByName
      <4>5. Present[n].id = IdOf(c)
        BY <4>1, <4>4 DEF NowCalled
      <4>. QED
        BY <2>1, <4>1, <4>5, FirstIds
    <3>. QED
      BY <2>1, <3>1, <3>2
  <2>2. CASE ~(Present[n].id > Len(Order))
    <3>. DEFINE c == Order[Present[n].id]
    <3>1. Present[n].id \in 1..Len(Order)
      BY <1>6, <2>2, FirstIds
    <3>2. c \in Declared /\ IdOf(c) = Present[n].id
      BY <3>1, FirstIds
    <3>. HIDE DEF c
    <3>3. n \in NowCalled(c)
      BY <3>2 DEF NowCalled
    <3>4. CASE n = c
      BY <2>2, <3>2, <3>4
    <3>5. CASE n # c
      <4>1. c \notin DOMAIN Newest /\ c \in DOMAIN RenameMap /\ RenameMap[c] = n
        BY <3>2, <3>3, <3>5, FoundByName
      <4>2. n \in RenamedTo
        BY <3>2, <4>1 DEF RenamedTo
      <4>. QED
        BY <2>2, <4>2
    <3>. QED
      BY <3>4, <3>5
  <2>. QED
    BY <2>1, <2>2
<1>. QED
  BY <1>3, <1>4, <1>5, <1>7

LEMMA DriftFollows ==
  ASSUME SchemaInv, NamesStay
  PROVE  DriftFollowsIds
BY ColumnsAreJudged, AddedAreNew DEF DriftFollowsIds

LEMMA WatchFollows ==
  ASSUME SchemaInv, NamesStay
  PROVE  WatchFollowsColumn
<1>. DEFINE seen == data[IdOf(EnumColumn)]
            held == UNION {data[Present[n].id] : n \in NowCalled(EnumColumn)}
<1>1. EnumColumn \in Declared /\ EnumLimit \in Nat
  BY SchemaAssumption
<1>2. seen \subseteq EnumValues /\ IsFiniteSet(seen) /\ Cardinality(seen) \in Nat
  BY SchemaAssumption, FS_Subset, FS_CardinalityType DEF SchemaInv
<1>3. /\ held = IF Live(EnumColumn) = {} THEN {} ELSE seen
      /\ \A n \in Live(EnumColumn) : Scan(n) = seen
  BY <1>1, LiveIsNow
<1>. DEFINE read == Scan(CHOOSE n \in Live(EnumColumn) : TRUE)
<1>4. Live(EnumColumn) # {} => read = seen
  BY <1>3
<1>5. EnumDrift = IF Live(EnumColumn) = {} THEN {[error |-> "column_absent"]}
                  ELSE IF read = {} THEN {[error |-> "no_values"]}
                  ELSE IF Cardinality(read) > EnumLimit THEN {[error |-> "cardinality_exceeded"]}
                  ELSE IF read \ Known # {} THEN {[error |-> "none", new |-> read \ Known]}
                  ELSE {}
  BY DEF EnumDrift
<1>. HIDE DEF seen, held, read
<1>6. CASE Live(EnumColumn) = {}
  <2>. DEFINE f == [error |-> "column_absent"]
  <2>1. EnumDrift = {f} /\ f.error = "column_absent" /\ held = {}
    BY <1>3, <1>5, <1>6
  <2>. HIDE DEF f
  <2>. QED
    BY <2>1 DEF WatchFollowsColumn, held, EnumSeverity
<1>7. CASE Live(EnumColumn) # {} /\ seen = {}
  <2>. DEFINE f == [error |-> "no_values"]
  <2>1. EnumDrift = {f} /\ f.error = "no_values" /\ held = {}
    BY <1>3, <1>4, <1>5, <1>7
  <2>. HIDE DEF f
  <2>. QED
    BY <2>1 DEF WatchFollowsColumn, held, EnumSeverity
<1>8. CASE Live(EnumColumn) # {} /\ seen # {} /\ Cardinality(seen) > EnumLimit
  <2>. DEFINE f == [error |-> "cardinality_exceeded"]
  <2>1. EnumDrift = {f} /\ f.error = "cardinality_exceeded" /\ held = seen
    BY <1>3, <1>4, <1>5, <1>8
  <2>2. ~(Cardinality(held) <= EnumLimit)
    BY <1>1, <1>2, <1>8, <2>1
  <2>. HIDE DEF f
  <2>. QED
    BY <1>8, <2>1, <2>2 DEF WatchFollowsColumn, held, EnumSeverity
<1>9. CASE /\ Live(EnumColumn) # {} /\ seen # {} /\ ~(Cardinality(seen) > EnumLimit)
           /\ seen \ Known # {}
  <2>. DEFINE f == [error |-> "none", new |-> seen \ Known]
  <2>1. EnumDrift = {f} /\ f.error = "none" /\ f.new = seen \ Known /\ held = seen
    BY <1>3, <1>4, <1>5, <1>9
  <2>. HIDE DEF f
  <2>. QED
    BY <1>9, <2>1 DEF WatchFollowsColumn, held, EnumSeverity
<1>10. CASE /\ Live(EnumColumn) # {} /\ seen # {} /\ ~(Cardinality(seen) > EnumLimit)
            /\ seen \ Known = {}
  <2>1. EnumDrift = {} /\ held = seen /\ held \subseteq Known /\ Cardinality(held) <= EnumLimit
    BY <1>1, <1>2, <1>3, <1>4, <1>5, <1>10
  <2>. QED
    BY <1>10, <2>1 DEF WatchFollowsColumn, held
<1>. QED
  BY <1>6, <1>7, <1>8, <1>9, <1>10
LEMMA MaxFacts ==
  ASSUME NEW S \in SUBSET Int, IsFiniteSet(S), S # {}
  PROVE  Max(S) \in S /\ Max(S) \in Int /\ \A y \in S : y <= Max(S)
<1>. DEFINE f == [x \in S |-> x]
<1>1. f \in [S -> Int] /\ \A x \in S : f[x] = x
  OBVIOUS
<1>. HIDE DEF f
<1>2. PICK i \in S : \A j \in S : f[j] <= f[i]
  BY <1>1, GreatestValue
<1>3. \E x \in S : \A y \in S : x >= y
  BY <1>1, <1>2
<1>4. Max(S) \in S /\ \A y \in S : Max(S) >= y
  BY <1>3 DEF Max
<1>. QED
  BY <1>4

LEMMA MinFacts ==
  ASSUME NEW S \in SUBSET Int, IsFiniteSet(S), S # {}
  PROVE  Min(S) \in S /\ Min(S) \in Int /\ \A y \in S : Min(S) <= y
<1>. DEFINE f == [x \in S |-> 0 - x]
<1>1. f \in [S -> Int] /\ \A x \in S : f[x] = 0 - x
  OBVIOUS
<1>. HIDE DEF f
<1>2. PICK i \in S : \A j \in S : f[j] <= f[i]
  BY <1>1, GreatestValue
<1>3. \A j \in S : i =< j
  BY <1>1, <1>2
<1>4. Min(S) \in S /\ \A y \in S : Min(S) =< y
  BY <1>3 DEF Min
<1>. QED
  BY <1>4

LEMMA MaxOfTwo ==
  ASSUME NEW a \in Int, NEW b \in Int
  PROVE  Max({a, b}) = IF a < b THEN b ELSE a
<1>1. \E x \in {a, b} : \A y \in {a, b} : x >= y
  OBVIOUS
<1>2. Max({a, b}) \in {a, b} /\ \A y \in {a, b} : Max({a, b}) >= y
  BY <1>1 DEF Max
<1>. QED
  BY <1>2

\* Arrival looks at every day of its window that follows one that came.
LEMMA WindowIsWhole ==
  ASSUME NEW days \in SUBSET Int, IsFiniteSet(days), Arrival(days) = {},
         NEW e \in Max(days) - Lookback..Max(days \cup {AsOfDay}), NEW d \in days, d < e
  PROVE  e \in days
<1>1. AsOfDay \in Int /\ Lookback \in Nat
  BY SchemaAssumption
<1>. DEFINE newest == Max(days)
            first == Min(days)
            last == Max(days \cup {AsOfDay})
<1>2. newest \in Int /\ \A y \in days : y <= newest
  BY MaxFacts
<1>3. first \in Int /\ first <= d
  BY MinFacts
<1>4. last \in days \cup {AsOfDay} /\ last \in Int
  <2>1. IsFiniteSet(days \cup {AsOfDay})
    BY FS_AddElement
  <2>. QED
    BY <1>1, <2>1, MaxFacts
<1>5. Max({newest - Lookback, first})..Max({AsOfDay, newest}) \subseteq days
  BY DEF Arrival
<1>6. /\ Max({newest - Lookback, first})
           = IF newest - Lookback < first THEN first ELSE newest - Lookback
      /\ Max({AsOfDay, newest}) = IF AsOfDay < newest THEN newest ELSE AsOfDay
  <2>. HIDE DEF newest, first
  <2>. QED
    BY <1>1, <1>2, <1>3, MaxOfTwo
<1>7. e \in Int /\ newest - Lookback <= e /\ e <= last
  BY <1>1, <1>2, <1>4
<1>8. d \in Int
  OBVIOUS
<1>. HIDE DEF newest, first, last
<1>. QED
  BY <1>1, <1>2, <1>3, <1>4, <1>5, <1>6, <1>7, <1>8

LEMMA DatesFollow ==
  ASSUME SchemaInv, NamesStay
  PROVE  DatesFollowColumn
<1>. DEFINE live == Live(DateColumn)
            seen == data[IdOf(DateColumn)]
            held == UNION {data[Present[n].id] : n \in NowCalled(DateColumn)}
            days == held \cap Days
            old == days # {} /\ \A d \in days : d < AsOfDay - MaxLag
            read == Scan(CHOOSE n \in live : TRUE)
<1>1. /\ DateColumn \in Declared /\ EnumColumn # DateColumn /\ AsOfDay \in Int
      /\ MaxLag \in Nat /\ Lookback \in Nat /\ Days \subseteq Int /\ IsFiniteSet(Days)
  BY SchemaAssumption
<1>2. /\ held = IF live = {} THEN {} ELSE seen
      /\ \A n \in live : live = {n} /\ Scan(n) = seen
      /\ live = NowCalled(DateColumn)
  BY <1>1, LiveIsNow
<1>3. live # {} => read = seen
  BY <1>2
<1>4. days \in SUBSET Int /\ IsFiniteSet(days)
  BY <1>1, FS_Subset
<1>5. days # {} => Max(days) \in days /\ Max(days) \in Int /\ \A d \in days : d <= Max(days)
  <2>. HIDE DEF days
  <2>. QED
    BY <1>4, MaxFacts
<1>6. old <=> days # {} /\ AsOfDay - Max(days) > MaxLag
  <2>1. \A d \in days : d \in Int
    BY <1>4
  <2>. HIDE DEF days
  <2>. QED
    BY <1>1, <1>5, <2>1
<1>7. DateFindings = IF live = {} THEN {}
        ELSE (IF read \cap Days # {} /\ AsOfDay - Max(read \cap Days) > MaxLag
              THEN {"staleness"} ELSE {}) \cup
             (IF read \ Days # {} THEN {"data_corruption"} ELSE {})
  BY DEF DateFindings
<1>8. /\ "staleness" \in DateFindings <=> old
      /\ "data_corruption" \in DateFindings <=> held # days
      /\ DateFindings \subseteq {"staleness", "data_corruption"}
  <2>1. CASE live = {}
    BY <1>2, <1>7, <2>1
  <2>2. CASE live # {}
    <3>1. held = seen /\ read = seen /\ days = seen \cap Days
      BY <1>2, <1>3, <2>2
    <3>2. held # days <=> seen \ Days # {}
      BY <3>1
    <3>. HIDE DEF held, read, seen, days, old
    <3>3. DateFindings = (IF days # {} /\ AsOfDay - Max(days) > MaxLag THEN {"staleness"} ELSE {})
                         \cup (IF seen \ Days # {} THEN {"data_corruption"} ELSE {})
      BY <1>7, <2>2, <3>1
    <3>. QED
      BY <1>6, <3>2, <3>3
  <2>. QED
    BY <2>1, <2>2
<1>9. DateFindings = {f \in {"data_corruption", "staleness"} :
                        IF f = "staleness" THEN old ELSE held # days}
  <2>1. \A f : f \in DateFindings <=>
          f \in {"data_corruption", "staleness"} /\ IF f = "staleness" THEN old ELSE held # days
    <3>. HIDE DEF old, held, days
    <3>. QED
      BY <1>8
  <2>. HIDE DEF old, held, days
  <2>. QED
    BY <2>1
<1>10. Refused(DateColumn) = {} <=>
         DateColumn \in NowCalled(DateColumn) /\ DateFindings = {} /\ held # {}
  <2>1. DateColumn \in DOMAIN Present <=> DateColumn \in NowCalled(DateColumn)
    <3>1. Newest = Present
      BY NamesAreIds
    <3>2. DateColumn \in DOMAIN Present => DateColumn \in live
      BY <3>1 DEF Live
    <3>. QED
      BY <1>2, <3>2 DEF NowCalled
  <2>2. CASE DateColumn \notin DOMAIN Present
    BY <2>1, <2>2 DEF Refused
  <2>3. CASE DateColumn \in DOMAIN Present
    <3>1. Scan(DateColumn) = seen /\ held = seen /\ days = seen \cap Days
      BY <1>2, <2>1, <2>3
    <3>2. Refused(DateColumn) = {} <=>
            /\ days # {} /\ AsOfDay - Max(days) <= MaxLag
            /\ seen \subseteq Days
      <4>. HIDE DEF seen, days, held
      <4>. QED
        BY <1>1, <2>3, <3>1 DEF Refused
    <3>3. DateFindings = {} <=> ~old /\ held = days
      <4>. HIDE DEF seen, days, held, old
      <4>. QED
        BY <1>8
    <3>4. held = days <=> seen \subseteq Days
      BY <3>1
    <3>5. seen \subseteq Days => (held # {} <=> days # {})
      BY <3>1
    <3>6. days # {} => (AsOfDay - Max(days) <= MaxLag <=> ~(AsOfDay - Max(days) > MaxLag))
      <4>. HIDE DEF days
      <4>. QED
        BY <1>1, <1>5
    <3>. HIDE DEF seen, days, held, old
    <3>. QED
      BY <1>6, <2>1, <2>3, <3>2, <3>3, <3>4, <3>5, <3>6
  <2>. QED
    BY <2>2, <2>3
<1>11. "lag" \in Arrival(days) <=> old
  <2>. HIDE DEF days, old
  <2>. QED
    BY <1>6 DEF Arrival
<1>12. held = {} => Arrival(days) # {}
  <2>1. held = {} => days = {}
    OBVIOUS
  <2>. HIDE DEF days, held
  <2>. QED
    BY <2>1 DEF Arrival
<1>13. Arrival(days) = {} =>
         \A e \in Max(days) - Lookback..Max(days \cup {AsOfDay}) :
           (\E d \in days : d < e) => e \in days
  <2>. HIDE DEF days
  <2>. QED
    BY <1>4, WindowIsWhole
<1>. QED
  <2>1. "lag" \in Arrival(days) <=> "staleness" \in DateFindings
    BY <1>8, <1>11
  <2>. QED
    BY <1>9, <1>10, <1>12, <1>13, <2>1 DEF DatesFollowColumn

LEMMA ScanSucceeds ==
  ASSUME SchemaInv, NamesStay
  PROVE  ~ScanFails
<1>1. EnumColumn \in Declared /\ DateColumn \in Declared
  BY SchemaAssumption
<1>. QED
  BY <1>1, LiveIsNow DEF ScanFails

\* For every contract, every order in which columns are added, renamed, dropped
\* and widened, and whatever the columns hold: as long as no name went to a
\* second column and no schema came back, the agent's findings (detect,
\* _detect_enum_drift, the staleness check) are exactly what happened to the
\* field ids, and the gate and the arrival check stand to them as stated.
THEOREM DriftIsExact == SchemaSpec => []DriftExact
<1>1. SchemaInv => DriftExact
  BY DriftFollows, WatchFollows, DatesFollow, ScanSucceeds DEF DriftExact
<1>. QED
  BY <1>1, SchemaStart, SchemaStep, PTL DEF SchemaSpec

-----------------------------------------------------------------------------
(* Bags of rows, by how often they hold a row                              *)

Held(r, bag) == IF r \in DOMAIN bag THEN bag[r] ELSE 0

LEMMA CopiesAre ==
  ASSUME NEW A, IsABag(A), NEW r
  PROVE  /\ Held(r, A) \in Nat
         /\ Held(r, A) = IF r \in DOMAIN A THEN A[r] ELSE 0
         /\ r \in DOMAIN A <=> Held(r, A) > 0
BY DEF Held, IsABag

LEMMA BagsEqual ==
  ASSUME NEW A, IsABag(A), NEW B, IsABag(B), \A r : Held(r, A) = Held(r, B)
  PROVE  A = B
<1>1. \A r : r \in DOMAIN A <=> r \in DOMAIN B
  BY CopiesAre
<1>2. DOMAIN A = DOMAIN B
  BY <1>1
<1>3. \A r \in DOMAIN A : A[r] = B[r]
  BY <1>2, CopiesAre
<1>. QED
  BY <1>2, <1>3 DEF IsABag

LEMMA PlusCopies ==
  ASSUME NEW A, IsABag(A), NEW B, IsABag(B)
  PROVE  IsABag(A (+) B) /\ \A r : Held(r, A (+) B) = Held(r, A) + Held(r, B)
<1>1. /\ DOMAIN (A (+) B) = DOMAIN A \cup DOMAIN B
      /\ \A r \in DOMAIN (A (+) B) :
           (A (+) B)[r] = (IF r \in DOMAIN A THEN A[r] ELSE 0) + (IF r \in DOMAIN B THEN B[r] ELSE 0)
  BY DEF (+)
<1>2. IsABag(A (+) B)
  <2>1. \A r \in DOMAIN (A (+) B) : (A (+) B)[r] \in {n \in Nat : n > 0}
    BY <1>1 DEF IsABag
  <2>2. A (+) B = [r \in DOMAIN (A (+) B) |-> (A (+) B)[r]]
    BY DEF (+)
  <2>. QED
    BY <2>1, <2>2 DEF IsABag
<1>3. ASSUME NEW r PROVE Held(r, A (+) B) = Held(r, A) + Held(r, B)
  BY <1>1, <1>2, CopiesAre
<1>. QED
  BY <1>2, <1>3

LEMMA MinusCopies ==
  ASSUME NEW A, IsABag(A), NEW B, IsABag(B)
  PROVE  /\ IsABag(A (-) B)
         /\ \A r : Held(r, A (-) B) = IF Held(r, A) > Held(r, B)
                                          THEN Held(r, A) - Held(r, B) ELSE 0
<1>. DEFINE left == [e \in DOMAIN A |-> IF e \in DOMAIN B THEN A[e] - B[e] ELSE A[e]]
<1>1. A (-) B = [e \in {d \in DOMAIN left : left[d] > 0} |-> left[e]]
  BY DEF (-)
<1>2. \A r \in DOMAIN A : left[r] = Held(r, A) - Held(r, B) /\ left[r] \in Int
  BY CopiesAre
<1>3. DOMAIN left = DOMAIN A
  OBVIOUS
<1>. HIDE DEF left
<1>4. /\ DOMAIN (A (-) B) = {d \in DOMAIN A : left[d] > 0}
      /\ \A r \in DOMAIN (A (-) B) : (A (-) B)[r] = left[r]
  BY <1>1, <1>3
<1>5. IsABag(A (-) B)
  <2>1. \A r \in DOMAIN (A (-) B) : (A (-) B)[r] \in {n \in Nat : n > 0}
    BY <1>2, <1>4
  <2>2. A (-) B = [r \in DOMAIN (A (-) B) |-> (A (-) B)[r]]
    BY <1>1
  <2>. QED
    BY <2>1, <2>2 DEF IsABag
<1>6. ASSUME NEW r
      PROVE  Held(r, A (-) B) = IF Held(r, A) > Held(r, B)
                                    THEN Held(r, A) - Held(r, B) ELSE 0
  <2>1. Held(r, A (-) B) = IF r \in DOMAIN (A (-) B) THEN (A (-) B)[r] ELSE 0
    BY <1>5, CopiesAre
  <2>2. Held(r, A) \in Nat /\ Held(r, B) \in Nat /\ (r \in DOMAIN A <=> Held(r, A) > 0)
    BY CopiesAre
  <2>. QED
    BY <1>2, <1>4, <2>1, <2>2
<1>. QED
  BY <1>5, <1>6

LEMMA EmptyCopies == IsABag(EmptyBag) /\ DOMAIN EmptyBag = {} /\ \A r : Held(r, EmptyBag) = 0
BY DEF EmptyBag, SetToBag, IsABag, Held

\* The rows of a slice, those of the others, and those with a date.
LEMMA SliceCopies ==
  ASSUME NEW A, IsABag(A), NEW s
  PROVE  /\ IsABag(InSlice(A, s)) /\ IsABag(OfOthers(A, s)) /\ IsABag(Dated(A))
         /\ \A r : Held(r, InSlice(A, s)) = IF SliceOf(r.imp) = s THEN Held(r, A) ELSE 0
         /\ \A r : Held(r, OfOthers(A, s)) =
                     IF SliceOf(r.imp) # s THEN Held(r, A) ELSE 0
         /\ \A r : Held(r, Dated(A)) = IF r.imp.date = "day" THEN Held(r, A) ELSE 0
<1>1. IsABag(InSlice(A, s))
  BY DEF InSlice, Where, IsABag
<1>2. IsABag(OfOthers(A, s))
  BY DEF OfOthers, Where, IsABag
<1>3. IsABag(Dated(A))
  BY DEF Dated, Where, IsABag
<1>4. \A r : Held(r, InSlice(A, s)) = IF SliceOf(r.imp) = s THEN Held(r, A) ELSE 0
  BY DEF InSlice, Where, Held
<1>5. \A r : Held(r, OfOthers(A, s)) =
               IF SliceOf(r.imp) # s THEN Held(r, A) ELSE 0
  BY DEF OfOthers, Where, Held
<1>6. \A r : Held(r, Dated(A)) = IF r.imp.date = "day" THEN Held(r, A) ELSE 0
  BY DEF Dated, Where, Held
<1>. QED
  BY <1>1, <1>2, <1>3, <1>4, <1>5, <1>6

\* The rows of impressions.
RowSet(content) == UNION {{[imp |-> i, event |-> e] : e \in 1..i.depth} : i \in content}

LEMMA RowsCopies ==
  ASSUME NEW content
  PROVE  /\ IsABag(RowsOf(content)) /\ DOMAIN RowsOf(content) = RowSet(content)
         /\ \A r : Held(r, RowsOf(content)) = IF r \in RowSet(content) THEN 1 ELSE 0
         /\ \A r : r \in RowSet(content) <=>
                     \E i \in content : \E e \in 1..i.depth : r = [imp |-> i, event |-> e]
<1>1. RowsOf(content) = [r \in RowSet(content) |-> 1]
  BY DEF RowsOf, SetToBag, RowSet
<1>2. IsABag(RowsOf(content)) /\ DOMAIN RowsOf(content) = RowSet(content)
  BY <1>1 DEF IsABag
<1>3. \A r : Held(r, RowsOf(content)) = IF r \in RowSet(content) THEN 1 ELSE 0
  BY <1>1, <1>2, CopiesAre
<1>4. \A r : r \in RowSet(content) <=>
               \E i \in content : \E e \in 1..i.depth : r = [imp |-> i, event |-> e]
  BY DEF RowSet
<1>. QED
  BY <1>2, <1>3, <1>4

-----------------------------------------------------------------------------
(* The stores of the impressions.  A table holds each slice as its last    *)
(* load left it, but for rows a mutation has yet to delete.  While a load  *)
(* is between its delete and its insert, its slice is empty, or Postgres   *)
(* will delete in the commit all that is there now, if the load is alone   *)
(* on the slice: nobody else can touch it.                                 *)

Impressions == UNION {UNION Fetches[s] : s \in Slices}
EventRows == {[imp |-> i, event |-> e] : i \in Impressions, e \in 1..6}
RowBags == UNION {[D -> {n \in Nat : n > 0}] : D \in SUBSET EventRows}
Fetched == UNION {Fetches[s] : s \in Slices}
Loads == [next : {"delete", "insert"}, slice : Slices, content : Fetched, seen : RowBags,
          alone : BOOLEAN] \cup {Done}
CopyRecords == [rows : RowBags, of : Seq(RowBags)]

StoresTypes ==
  /\ store \in {"postgres", "duckdb", "polars", "clickhouse"}
  /\ table \in RowBags /\ doomed \in RowBags
  /\ loads \in Seq(Loads)
  /\ \A n \in DOMAIN loads : Active(n) => loads[n].content \in Fetches[loads[n].slice]
  /\ loaded \in [Slices -> Fetched \cup {{}}]
  /\ \A s \in Slices : loaded[s] \in Fetches[s] \cup {{}}
  /\ settled \in [Slices -> BOOLEAN]
  /\ gold = << >> \/ \E t \in RowBags : gold = <<t>>
  /\ copies \in [lake : CopyRecords, cluster : CopyRecords]

\* What will be left of a row when the mutations are through.
Remains(r) == Held(r, table) - Held(r, doomed)

DoomedInv ==
  /\ \A r : Held(r, doomed) <= Held(r, table)
  /\ store # "clickhouse" => doomed = EmptyBag

AloneOnSlice ==
  \A n, m \in DOMAIN loads :
    Active(n) /\ Active(m) /\ loads[n].slice = loads[m].slice /\ loads[n].alone => n = m

SeenInv ==
  \A n \in DOMAIN loads : Active(n) =>
    /\ \A r : SliceOf(r.imp) # loads[n].slice => Held(r, loads[n].seen) = 0
    /\ loads[n].alone /\ loads[n].next = "insert" =>
         \A r : SliceOf(r.imp) = loads[n].slice =>
           /\ store = "postgres" => Held(r, loads[n].seen) = Held(r, table)
           /\ store \in {"duckdb", "clickhouse"} => Remains(r) = 0

AsLoaded ==
  \A s \in Slices :
    /\ settled[s]
    /\ store = "postgres" \/ \A n \in DOMAIN loads : n \in Beside(s) => loads[n].next # "insert"
    => \A r : SliceOf(r.imp) = s => Remains(r) = Held(r, RowsOf(loaded[s]))

CopiesInv ==
  \A c \in {"lake", "cluster"} :
    /\ copies[c].of = << >> => copies[c].rows = EmptyBag
    /\ \A t : copies[c].of = <<t>> => copies[c].rows = Dated(t)

StoresInv == StoresTypes /\ DoomedInv /\ AloneOnSlice /\ SeenInv /\ AsLoaded /\ CopiesInv

LEMMA RowBagsAre == \A b : b \in RowBags <=> IsABag(b) /\ DOMAIN b \subseteq EventRows
<1>1. ASSUME NEW b \in RowBags PROVE IsABag(b) /\ DOMAIN b \subseteq EventRows
  BY <1>1 DEF RowBags, IsABag
<1>2. ASSUME NEW b, IsABag(b), DOMAIN b \subseteq EventRows PROVE b \in RowBags
  BY <1>2 DEF RowBags, IsABag
<1>. QED
  BY <1>1, <1>2

LEMMA RowBagsStay ==
  /\ EmptyBag \in RowBags
  /\ \A a, b \in RowBags : a (+) b \in RowBags /\ a (-) b \in RowBags
  /\ \A a \in RowBags : \A s : InSlice(a, s) \in RowBags /\ Dated(a) \in RowBags
                              /\ OfOthers(a, s) \in RowBags
<1>1. EmptyBag \in RowBags
  BY EmptyCopies, RowBagsAre
<1>2. ASSUME NEW a \in RowBags, NEW b \in RowBags PROVE a (+) b \in RowBags /\ a (-) b \in RowBags
  <2>1. IsABag(a) /\ IsABag(b) /\ DOMAIN a \subseteq EventRows /\ DOMAIN b \subseteq EventRows
    BY RowBagsAre
  <2>2. IsABag(a (+) b) /\ IsABag(a (-) b)
    BY <2>1, PlusCopies, MinusCopies
  <2>3. DOMAIN (a (+) b) \subseteq EventRows
    BY <2>1 DEF (+)
  <2>4. DOMAIN (a (-) b) \subseteq EventRows
    BY <2>1 DEF (-)
  <2>. QED
    BY <2>2, <2>3, <2>4, RowBagsAre
<1>3. ASSUME NEW a \in RowBags, NEW s
      PROVE  InSlice(a, s) \in RowBags /\ Dated(a) \in RowBags
             /\ OfOthers(a, s) \in RowBags
  <2>1. IsABag(a) /\ DOMAIN a \subseteq EventRows
    BY RowBagsAre
  <2>2. /\ DOMAIN InSlice(a, s) \subseteq DOMAIN a /\ DOMAIN Dated(a) \subseteq DOMAIN a
        /\ DOMAIN OfOthers(a, s) \subseteq DOMAIN a
    BY DEF InSlice, OfOthers, Dated, Where
  <2>3. /\ IsABag(InSlice(a, s)) /\ IsABag(Dated(a))
        /\ IsABag(OfOthers(a, s))
    BY <2>1, SliceCopies
  <2>4. InSlice(a, s) \in RowBags /\ Dated(a) \in RowBags
    BY <2>1, <2>2, <2>3, RowBagsAre
  <2>5. OfOthers(a, s) \in RowBags
    BY <2>1, <2>2, <2>3, RowBagsAre
  <2>. QED
    BY <2>4, <2>5
<1>. QED
  BY <1>1, <1>2, <1>3

\* A fetch brings rows of its slice only.
LEMMA FetchedRows ==
  ASSUME NEW s \in Slices, NEW part, NEW content \in Fetches[s], part \subseteq content
  PROVE  /\ RowsOf(part) \in RowBags
         /\ \A r : Held(r, RowsOf(part)) \in Nat
         /\ \A r : SliceOf(r.imp) # s => Held(r, RowsOf(part)) = 0
<1>1. \A i \in part : i \in Impressions /\ SliceOf(i) = s /\ i.depth \in 1..6
  BY AnalysesAssumption DEF Impressions
<1>2. \A r \in RowSet(part) : r \in EventRows /\ SliceOf(r.imp) = s
  <2>. SUFFICES ASSUME NEW r \in RowSet(part) PROVE r \in EventRows /\ SliceOf(r.imp) = s
    OBVIOUS
  <2>1. PICK i \in part : \E e \in 1..i.depth : r = [imp |-> i, event |-> e]
    BY RowsCopies
  <2>2. PICK e \in 1..i.depth : r = [imp |-> i, event |-> e]
    BY <2>1
  <2>3. e \in 1..6 /\ r.imp = i
    BY <1>1, <2>2
  <2>. QED
    BY <1>1, <2>2, <2>3 DEF EventRows
<1>. QED
  BY <1>2, RowsCopies, RowBagsAre

LEMMA HeldFacts == \A b \in RowBags : \A r : Held(r, b) \in Nat
BY RowBagsAre, CopiesAre

LEMMA StoresStart == StoresInit => StoresInv
<1>. SUFFICES ASSUME StoresInit PROVE StoresInv
  OBVIOUS
<1>1. EmptyBag \in RowBags /\ << >> \in Seq(RowBags) /\ << >> \in Seq(Loads)
  BY RowBagsStay
<1>2. /\ store \in {"postgres", "duckdb", "polars", "clickhouse"}
      /\ table = EmptyBag /\ doomed = EmptyBag /\ loads = << >>
      /\ loaded = [s \in Slices |-> {}] /\ settled = [s \in Slices |-> TRUE] /\ gold = << >>
      /\ copies = [lake |-> [rows |-> EmptyBag, of |-> << >>],
                   cluster |-> [rows |-> EmptyBag, of |-> << >>]]
  BY DEF StoresInit
<1>3. StoresTypes
  BY <1>1, <1>2 DEF StoresTypes, CopyRecords
<1>4. DoomedInv /\ AloneOnSlice /\ SeenInv
  BY <1>2, EmptyCopies DEF DoomedInv, AloneOnSlice, SeenInv
<1>5. AsLoaded
  <2>1. \A r : Held(r, RowsOf({})) = 0
    BY RowsCopies
  <2>. QED
    BY <1>2, <2>1, EmptyCopies DEF AsLoaded, Remains
<1>6. CopiesInv
  BY <1>2 DEF CopiesInv
<1>. QED
  BY <1>3, <1>4, <1>5, <1>6 DEF StoresInv

LEMMA LoadFacts ==
  ASSUME StoresTypes, NEW n \in DOMAIN loads, Active(n)
  PROVE  /\ loads[n] \in [next : {"delete", "insert"}, slice : Slices, content : Fetched,
                          seen : RowBags, alone : BOOLEAN]
         /\ loads[n].content \in Fetches[loads[n].slice]
<1>1. loads[n] \in Loads
  BY DEF StoresTypes
<1>. QED
  BY <1>1 DEF Loads, Active, StoresTypes

\* From a new load on none of its slice is alone.
LEMMA FetchKeeps ==
  ASSUME StoresInv, NEW s \in Slices, NEW content \in Fetches[s], Fetch(s, content)
  PROVE  StoresInv'
<1>. DEFINE old(n) == IF n \in Beside(s) THEN [loads[n] EXCEPT !.alone = FALSE] ELSE loads[n]
            kept == [n \in DOMAIN loads |-> old(n)]
            new == [next |-> "delete", slice |-> s, content |-> content,
                    seen |-> EmptyBag, alone |-> Beside(s) = {}]
<1>0. StoresTypes /\ DoomedInv /\ AloneOnSlice /\ SeenInv /\ AsLoaded /\ CopiesInv
  BY DEF StoresInv
<1>1. /\ loads' = Append(kept, new)
      /\ UNCHANGED <<store, table, doomed, loaded, settled, gold, copies>>
  BY DEF Fetch
<1>2. loads \in Seq(Loads) /\ Len(loads) \in Nat /\ DOMAIN loads = 1..Len(loads)
  BY <1>0 DEF StoresTypes
<1>3. \A n \in DOMAIN loads : n \in Beside(s) <=> Active(n) /\ loads[n].slice = s
  BY DEF Beside
<1>4. new \in Loads /\ new # Done /\ content \in Fetched
  BY RowBagsStay DEF Loads, Fetched, Done
<1>5. \A n \in DOMAIN loads : old(n) \in Loads
  <2>. SUFFICES ASSUME NEW n \in DOMAIN loads PROVE old(n) \in Loads
    OBVIOUS
  <2>1. loads[n] \in Loads
    BY <1>2
  <2>2. CASE n \in Beside(s)
    BY <1>0, <1>3, <2>2, LoadFacts DEF Loads
  <2>. QED
    BY <2>1, <2>2
<1>6. kept \in Seq(Loads) /\ Len(kept) = Len(loads)
  BY <1>2, <1>5
<1>7. /\ loads' \in Seq(Loads) /\ DOMAIN loads' = 1..(Len(loads) + 1)
      /\ \A n \in DOMAIN loads : loads'[n] = old(n)
      /\ loads'[Len(loads) + 1] = new
  BY <1>1, <1>2, <1>4, <1>6
<1>. HIDE DEF kept
<1>8. ASSUME NEW n \in DOMAIN loads
      PROVE  /\ Active(n)' <=> Active(n)
             /\ Active(n) => /\ loads'[n].slice = loads[n].slice /\ loads'[n].content = loads[n].content
                             /\ loads'[n].next = loads[n].next /\ loads'[n].seen = loads[n].seen
                             /\ loads'[n].alone <=> loads[n].alone /\ loads[n].slice # s
  <2>1. CASE n \in Beside(s)
    <3>1. Active(n) /\ loads[n].slice = s
      BY <1>3, <2>1
    <3>2. loads[n] \in [next : {"delete", "insert"}, slice : Slices, content : Fetched,
                        seen : RowBags, alone : BOOLEAN]
      BY <1>0, <3>1, LoadFacts
    <3>3. loads'[n] = [loads[n] EXCEPT !.alone = FALSE]
      BY <1>7, <2>1
    <3>. QED
      BY <3>1, <3>2, <3>3 DEF Active, Done
  <2>2. CASE n \notin Beside(s)
    BY <1>3, <1>7, <2>2 DEF Active
  <2>. QED
    BY <2>1, <2>2
<1>9. \A n \in DOMAIN loads' : n \in DOMAIN loads \/ n = Len(loads) + 1
  BY <1>2, <1>7
<1>10. new.slice = s /\ new.next = "delete" /\ new.content = content /\ new.seen = EmptyBag
       /\ (new.alone <=> Beside(s) = {})
  OBVIOUS
<1>. HIDE DEF old, new
<1>11. StoresTypes'
  <2>1. \A n \in DOMAIN loads' : Active(n)' => loads'[n].content \in Fetches[loads'[n].slice]
    <3>1. \A n \in DOMAIN loads : Active(n)' => loads'[n].content \in Fetches[loads'[n].slice]
      BY <1>0, <1>8, LoadFacts
    <3>. QED
      BY <1>7, <1>9, <1>10, <3>1
  <2>. QED
    BY <1>0, <1>1, <1>7, <2>1 DEF StoresTypes
<1>12. DoomedInv' /\ CopiesInv'
  BY <1>0, <1>1 DEF DoomedInv, CopiesInv
<1>13. AloneOnSlice'
  <2>. SUFFICES ASSUME NEW n \in DOMAIN loads', NEW m \in DOMAIN loads', Active(n)', Active(m)',
                       loads'[n].slice = loads'[m].slice, loads'[n].alone
                PROVE  n = m
    BY DEF AloneOnSlice
  <2>1. CASE n \in DOMAIN loads /\ m \in DOMAIN loads
    BY <1>0, <1>8, <2>1 DEF AloneOnSlice
  <2>2. CASE n \in DOMAIN loads /\ m = Len(loads) + 1
    BY <1>7, <1>8, <1>10, <2>2
  <2>3. CASE n = Len(loads) + 1 /\ m \in DOMAIN loads
    <3>1. loads[m].slice = s /\ Active(m) /\ Beside(s) = {}
      BY <1>7, <1>8, <1>10, <2>3
    <3>. QED
      BY <1>3, <2>3, <3>1
  <2>. QED
    BY <1>9, <2>1, <2>2, <2>3
<1>14. SeenInv'
  <2>. SUFFICES ASSUME NEW n \in DOMAIN loads', Active(n)'
                PROVE  /\ \A r : SliceOf(r.imp) # loads'[n].slice => Held(r, loads'[n].seen) = 0
                       /\ loads'[n].alone /\ loads'[n].next = "insert" =>
                            \A r : SliceOf(r.imp) = loads'[n].slice =>
                              /\ store = "postgres" => Held(r, loads'[n].seen) = Held(r, table)
                              /\ store \in {"duckdb", "clickhouse"} => Remains(r) = 0
    BY <1>1 DEF SeenInv, Remains
  <2>1. CASE n \in DOMAIN loads
    BY <1>0, <1>8, <2>1 DEF SeenInv
  <2>2. CASE n = Len(loads) + 1
    BY <1>7, <1>10, <2>2, EmptyCopies
  <2>. QED
    BY <1>9, <2>1, <2>2
<1>15. AsLoaded'
  <2>. SUFFICES ASSUME NEW t \in Slices, settled[t],
                       \/ store = "postgres"
                       \/ \A n \in DOMAIN loads' : n \in Beside(t)' => loads'[n].next # "insert"
                PROVE  \A r : SliceOf(r.imp) = t => Remains(r) = Held(r, RowsOf(loaded[t]))
    BY <1>1 DEF AsLoaded, Remains
  <2>1. store = "postgres" \/ \A n \in DOMAIN loads : n \in Beside(t) => loads[n].next # "insert"
    <3>. SUFFICES ASSUME NEW n \in DOMAIN loads, n \in Beside(t), store # "postgres"
                  PROVE  loads[n].next # "insert"
      OBVIOUS
    <3>1. n \in DOMAIN loads' /\ Active(n) /\ loads[n].slice = t
      BY <1>2, <1>7 DEF Beside
    <3>2. n \in Beside(t)'
      BY <1>8, <3>1 DEF Beside
    <3>. QED
      BY <1>8, <3>1, <3>2
  <2>. QED
    BY <1>0, <2>1 DEF AsLoaded
<1>. QED
  BY <1>11, <1>12, <1>13, <1>14, <1>15 DEF StoresInv

\* A step of load n, after which it is l, touches only the rows of its slice s;
\* the other loads of s know that they are not alone.
OwnStep(n, s, l) ==
  /\ n \in DOMAIN loads /\ Active(n) /\ s \in Slices /\ s = loads[n].slice
  /\ l \in Loads /\ loads' = [loads EXCEPT ![n] = l]
  /\ l # Done => /\ l.slice = s /\ l.content = loads[n].content
                 /\ (l.alone <=> loads[n].alone) /\ l.next = "insert"
  /\ UNCHANGED <<store, gold, copies>>
  /\ table' \in RowBags /\ doomed' \in RowBags /\ DoomedInv'
  /\ \A r : SliceOf(r.imp) # s =>
       Held(r, table') = Held(r, table) /\ Held(r, doomed') = Held(r, doomed)
  /\ loaded' \in [Slices -> Fetched \cup {{}}] /\ settled' \in [Slices -> BOOLEAN]
  /\ loaded'[s] \in Fetches[s] \cup {{}}
  /\ \A t \in Slices : t # s => loaded'[t] = loaded[t] /\ settled'[t] = settled[t]
  /\ l # Done => \A r :
       /\ SliceOf(r.imp) # s => Held(r, l.seen) = 0
       /\ l.alone /\ SliceOf(r.imp) = s =>
            /\ store = "postgres" => Held(r, l.seen) = Held(r, table')
            /\ store \in {"duckdb", "clickhouse"} => Held(r, table') = Held(r, doomed')
  /\ /\ settled'[s]
     /\ \/ store = "postgres"
        \/ l = Done /\ \A m \in DOMAIN loads : m # n /\ m \in Beside(s) => loads[m].next # "insert"
     => \A r : SliceOf(r.imp) = s =>
          Held(r, table') - Held(r, doomed') = Held(r, RowsOf(loaded'[s]))

LEMMA OwnSliceOnly == ASSUME StoresInv, NEW n, NEW s, NEW l, OwnStep(n, s, l) PROVE StoresInv'
<1>a. /\ n \in DOMAIN loads /\ Active(n) /\ s \in Slices /\ s = loads[n].slice
      /\ l \in Loads /\ loads' = [loads EXCEPT ![n] = l]
      /\ l # Done => /\ l.slice = s /\ l.content = loads[n].content
                     /\ (l.alone <=> loads[n].alone) /\ l.next = "insert"
      /\ UNCHANGED <<store, gold, copies>>
      /\ table' \in RowBags /\ doomed' \in RowBags /\ DoomedInv'
  BY DEF OwnStep
<1>b. /\ \A r : SliceOf(r.imp) # s =>
           Held(r, table') = Held(r, table) /\ Held(r, doomed') = Held(r, doomed)
      /\ loaded' \in [Slices -> Fetched \cup {{}}] /\ settled' \in [Slices -> BOOLEAN]
      /\ loaded'[s] \in Fetches[s] \cup {{}}
      /\ \A t \in Slices : t # s => loaded'[t] = loaded[t] /\ settled'[t] = settled[t]
  BY DEF OwnStep
<1>c. l # Done => \A r :
        /\ SliceOf(r.imp) # s => Held(r, l.seen) = 0
        /\ l.alone /\ SliceOf(r.imp) = s =>
             /\ store = "postgres" => Held(r, l.seen) = Held(r, table')
             /\ store \in {"duckdb", "clickhouse"} => Held(r, table') = Held(r, doomed')
  BY DEF OwnStep
<1>d. /\ settled'[s]
      /\ \/ store = "postgres"
         \/ l = Done /\ \A m \in DOMAIN loads : m # n /\ m \in Beside(s) => loads[m].next # "insert"
      => \A r : SliceOf(r.imp) = s =>
           Held(r, table') - Held(r, doomed') = Held(r, RowsOf(loaded'[s]))
  BY DEF OwnStep
<1>. USE <1>a
<1>0. StoresTypes /\ DoomedInv /\ AloneOnSlice /\ SeenInv /\ AsLoaded /\ CopiesInv
  BY DEF StoresInv
<1>1. loads \in Seq(Loads) /\ DOMAIN loads = 1..Len(loads) /\ Len(loads) \in Nat
  BY <1>0 DEF StoresTypes
<1>2. /\ loads' \in Seq(Loads) /\ DOMAIN loads' = DOMAIN loads
      /\ loads'[n] = l /\ \A m \in DOMAIN loads : m # n => loads'[m] = loads[m]
  BY <1>1
<1>3. \A m \in DOMAIN loads : /\ m # n => (Active(m)' <=> Active(m))
                              /\ m = n => (Active(m)' <=> l # Done)
  BY <1>2 DEF Active, Done
<1>4. loads[n].content \in Fetches[s]
  BY <1>0, LoadFacts
<1>5. \A m \in DOMAIN loads : Active(m) /\ loads[m].slice = s /\ loads[m].alone => m = n
  BY <1>0 DEF AloneOnSlice
<1>6. StoresTypes'
  <2>1. \A m \in DOMAIN loads' : Active(m)' => loads'[m].content \in Fetches[loads'[m].slice]
    <3>1. \A m \in DOMAIN loads : Active(m) => loads[m].content \in Fetches[loads[m].slice]
      BY <1>0 DEF StoresTypes
    <3>. QED
      BY <1>2, <1>3, <1>4, <3>1
  <2>2. \A t \in Slices : loaded'[t] \in Fetches[t] \cup {{}}
    BY <1>0, <1>b DEF StoresTypes
  <2>. QED
    BY <1>0, <1>b, <1>2, <2>1, <2>2 DEF StoresTypes
<1>7. AloneOnSlice'
  <2>. SUFFICES ASSUME NEW i \in DOMAIN loads', NEW m \in DOMAIN loads', Active(i)', Active(m)',
                       loads'[i].slice = loads'[m].slice, loads'[i].alone
                PROVE  i = m
    BY DEF AloneOnSlice
  <2>1. /\ i \in DOMAIN loads /\ m \in DOMAIN loads /\ Active(i) /\ Active(m)
        /\ loads[i].slice = loads[m].slice /\ loads[i].alone
    BY <1>2, <1>3
  <2>. QED
    BY <1>0, <2>1 DEF AloneOnSlice
<1>8. SeenInv'
  <2>. SUFFICES ASSUME NEW m \in DOMAIN loads', Active(m)'
                PROVE  /\ \A r : SliceOf(r.imp) # loads'[m].slice => Held(r, loads'[m].seen) = 0
                       /\ loads'[m].alone /\ loads'[m].next = "insert" =>
                            \A r : SliceOf(r.imp) = loads'[m].slice =>
                              /\ store = "postgres" => Held(r, loads'[m].seen) = Held(r, table')
                              /\ store \in {"duckdb", "clickhouse"} =>
                                   Held(r, table') - Held(r, doomed') = 0
    BY DEF SeenInv, Remains
  <2>1. CASE m = n
    <3>1. l # Done /\ loads'[m] = l
      BY <1>2, <1>3, <2>1
    <3>2. \A r : Held(r, table') \in Nat
      BY HeldFacts
    <3>. QED
      BY <1>c, <3>1, <3>2
  <2>2. CASE m # n
    <3>1. m \in DOMAIN loads /\ Active(m) /\ loads'[m] = loads[m]
      BY <1>2, <1>3, <2>2
    <3>2. loads[m].alone => loads[m].slice # s
      BY <1>5, <2>2, <3>1
    <3>. QED
      BY <1>0, <1>b, <3>1, <3>2 DEF SeenInv, Remains
  <2>. QED
    BY <2>1, <2>2
<1>9. AsLoaded'
  <2>. SUFFICES ASSUME NEW t \in Slices, settled'[t],
                       \/ store = "postgres"
                       \/ \A m \in DOMAIN loads' : m \in Beside(t)' => loads'[m].next # "insert"
                PROVE  \A r : SliceOf(r.imp) = t =>
                         Held(r, table') - Held(r, doomed') = Held(r, RowsOf(loaded'[t]))
    BY DEF AsLoaded, Remains
  <2>1. \A m \in DOMAIN loads : m # n => (m \in Beside(t)' <=> m \in Beside(t))
    BY <1>2, <1>3 DEF Beside
  <2>2. n \in Beside(t)' <=> l # Done /\ t = s
    BY <1>2, <1>3 DEF Beside
  <2>3. CASE t = s
    BY <1>d, <1>2, <2>1, <2>2, <2>3
  <2>4. CASE t # s
    <3>1. n \notin Beside(t)
      BY <2>4 DEF Beside
    <3>2. store = "postgres" \/ \A m \in DOMAIN loads : m \in Beside(t) => loads[m].next # "insert"
      BY <1>2, <2>1, <3>1
    <3>3. settled[t] /\ loaded'[t] = loaded[t]
      BY <1>b, <2>4
    <3>4. \A r : SliceOf(r.imp) = t => Remains(r) = Held(r, RowsOf(loaded[t]))
      BY <1>0, <3>2, <3>3 DEF AsLoaded
    <3>. QED
      BY <1>b, <2>4, <3>3, <3>4 DEF Remains
  <2>. QED
    BY <2>3, <2>4
<1>10. CopiesInv'
  BY <1>0 DEF CopiesInv
<1>. QED
  BY <1>6, <1>7, <1>8, <1>9, <1>10 DEF StoresInv

LEMMA DeleteKeeps == ASSUME StoresInv, NEW n \in DOMAIN loads, Delete(n) PROVE StoresInv'
<1>. DEFINE s == loads[n].slice
            there == InSlice(table, s)
            l == [loads[n] EXCEPT !.next = "insert", !.seen = there]
<1>0. StoresTypes /\ DoomedInv /\ AloneOnSlice /\ SeenInv /\ AsLoaded /\ CopiesInv
  BY DEF StoresInv
<1>1. /\ Active(n) /\ loads' = [loads EXCEPT ![n].next = "insert", ![n].seen = there]
      /\ table' = IF store \in {"duckdb", "polars"} THEN table (-) there ELSE table
      /\ doomed' = IF store = "clickhouse" THEN OfOthers(doomed, s) (+) there ELSE doomed
      /\ UNCHANGED <<store, loaded, settled, gold, copies>>
  BY DEF Delete
<1>2. table \in RowBags /\ doomed \in RowBags /\ IsABag(table) /\ IsABag(doomed)
  BY <1>0, RowBagsAre DEF StoresTypes
<1>3. /\ there \in RowBags /\ OfOthers(doomed, s) \in RowBags
      /\ IsABag(there) /\ IsABag(OfOthers(doomed, s))
  BY <1>2, RowBagsStay, RowBagsAre
<1>4. /\ \A r : Held(r, there) = IF SliceOf(r.imp) = s THEN Held(r, table) ELSE 0
      /\ \A r : Held(r, OfOthers(doomed, s)) = IF SliceOf(r.imp) # s THEN Held(r, doomed) ELSE 0
      /\ \A r : Held(r, table) \in Nat /\ Held(r, doomed) \in Nat
  BY <1>2, SliceCopies, HeldFacts
<1>5. /\ \A r : Held(r, table (-) there) = IF SliceOf(r.imp) = s THEN 0 ELSE Held(r, table)
      /\ \A r : Held(r, OfOthers(doomed, s) (+) there) =
                  IF SliceOf(r.imp) = s THEN Held(r, table) ELSE Held(r, doomed)
  BY <1>2, <1>3, <1>4, PlusCopies, MinusCopies
<1>6. table (-) there \in RowBags /\ OfOthers(doomed, s) (+) there \in RowBags
  BY <1>2, <1>3, RowBagsStay
<1>7. /\ loads[n] \in [next : {"delete", "insert"}, slice : Slices, content : Fetched,
                       seen : RowBags, alone : BOOLEAN]
      /\ n \in DOMAIN loads
  BY <1>0, <1>1, LoadFacts
<1>8. l \in Loads /\ l.slice = s /\ l.content = loads[n].content /\ l.alone = loads[n].alone
      /\ l.next = "insert" /\ l.seen = there /\ s \in Slices
  BY <1>3, <1>7 DEF Loads
<1>9. loads' = [loads EXCEPT ![n] = l]
  BY <1>1, <1>7
<1>. HIDE DEF there, l
<1>10. DoomedInv'
  <2>1. \A r : Held(r, doomed') <= Held(r, table')
    <3>1. CASE store = "clickhouse"
      BY <1>0, <1>1, <1>4, <1>5, <3>1 DEF DoomedInv
    <3>2. CASE store # "clickhouse"
      <4>1. doomed' = EmptyBag /\ \A r : Held(r, table') \in Nat
        BY <1>0, <1>1, <1>4, <1>5, <3>2 DEF DoomedInv
      <4>. QED
        BY <4>1, EmptyCopies
    <3>. QED
      BY <3>1, <3>2
  <2>. QED
    BY <1>0, <1>1, <2>1 DEF DoomedInv
<1>11. table' \in RowBags /\ doomed' \in RowBags
  BY <1>1, <1>2, <1>6
<1>12. \A r : SliceOf(r.imp) # s =>
         Held(r, table') = Held(r, table) /\ Held(r, doomed') = Held(r, doomed)
  BY <1>1, <1>4, <1>5
<1>13. \A r : /\ SliceOf(r.imp) # s => Held(r, l.seen) = 0
              /\ l.alone /\ SliceOf(r.imp) = s =>
                   /\ store = "postgres" => Held(r, l.seen) = Held(r, table')
                   /\ store \in {"duckdb", "clickhouse"} => Held(r, table') = Held(r, doomed')
  <2>1. store = "duckdb" => \A r : Held(r, doomed') = 0
    BY <1>0, <1>1, EmptyCopies DEF DoomedInv
  <2>. QED
    BY <1>1, <1>4, <1>5, <1>8, <2>1
<1>14. l # Done
  BY <1>8 DEF Done
<1>15. store = "postgres" /\ settled[s] =>
         \A r : SliceOf(r.imp) = s => Held(r, table') - Held(r, doomed') = Held(r, RowsOf(loaded[s]))
  BY <1>0, <1>1, <1>8 DEF AsLoaded, Remains
<1>16. /\ loaded' \in [Slices -> Fetched \cup {{}}] /\ settled' \in [Slices -> BOOLEAN]
       /\ loaded'[s] \in Fetches[s] \cup {{}} /\ loaded' = loaded /\ settled' = settled
  BY <1>0, <1>1, <1>8 DEF StoresTypes
<1>17. /\ settled'[s]
       /\ \/ store = "postgres"
          \/ l = Done /\ \A m \in DOMAIN loads : m # n /\ m \in Beside(s) => loads[m].next # "insert"
       => \A r : SliceOf(r.imp) = s =>
            Held(r, table') - Held(r, doomed') = Held(r, RowsOf(loaded'[s]))
  BY <1>14, <1>15, <1>16
<1>18. /\ \A t \in Slices : t # s => loaded'[t] = loaded[t] /\ settled'[t] = settled[t]
       /\ UNCHANGED <<store, gold, copies>>
  BY <1>1, <1>16
<1>19. OwnStep(n, s, l)
  BY <1>1, <1>8, <1>9, <1>10, <1>11, <1>12, <1>13, <1>16, <1>17, <1>18 DEF OwnStep
<1>. QED
  BY <1>19, OwnSliceOnly

LEMMA InsertKeeps == ASSUME StoresInv, NEW n \in DOMAIN loads, Insert(n) PROVE StoresInv'
<1>. DEFINE s == loads[n].slice
            content == loads[n].content
            base == IF store = "postgres" THEN table (-) loads[n].seen
                    ELSE IF store = "polars" THEN table (-) InSlice(table, s) ELSE table
<1>0. StoresTypes /\ DoomedInv /\ AloneOnSlice /\ SeenInv /\ AsLoaded /\ CopiesInv
  BY DEF StoresInv
<1>1. /\ Active(n) /\ loads[n].next = "insert" /\ loads' = [loads EXCEPT ![n] = Done]
      /\ table' = base (+) RowsOf(content)
      /\ loaded' = [loaded EXCEPT ![s] = content]
      /\ settled' = [settled EXCEPT ![s] = loads[n].alone]
      /\ UNCHANGED <<store, doomed, gold, copies>>
  BY <1>0 DEF Insert, StoresTypes
<1>2. /\ loads[n] \in [next : {"delete", "insert"}, slice : Slices, content : Fetched,
                       seen : RowBags, alone : BOOLEAN]
      /\ content \in Fetches[s] /\ s \in Slices
  BY <1>0, <1>1, LoadFacts
<1>3. /\ table \in RowBags /\ doomed \in RowBags /\ loads[n].seen \in RowBags
      /\ InSlice(table, s) \in RowBags /\ RowsOf(content) \in RowBags
  BY <1>0, <1>2, FetchedRows, RowBagsStay DEF StoresTypes
<1>4. /\ \A r : Held(r, InSlice(table, s)) = IF SliceOf(r.imp) = s THEN Held(r, table) ELSE 0
      /\ \A r : SliceOf(r.imp) # s => Held(r, RowsOf(content)) = 0
      /\ \A r : /\ Held(r, table) \in Nat /\ Held(r, doomed) \in Nat
                /\ Held(r, loads[n].seen) \in Nat /\ Held(r, RowsOf(content)) \in Nat
  BY <1>2, <1>3, SliceCopies, RowBagsAre, HeldFacts, FetchedRows
<1>5. /\ base \in RowBags
      /\ \A r : SliceOf(r.imp) # s => Held(r, base) = Held(r, table)
      /\ loads[n].alone => \A r : SliceOf(r.imp) = s => Held(r, base) = Held(r, doomed)
      /\ \A r : Held(r, base) \in Nat /\ Held(r, doomed) <= Held(r, base)
  <2>1. \A r : SliceOf(r.imp) # s => Held(r, loads[n].seen) = 0
    BY <1>0, <1>1 DEF SeenInv
  <2>2. loads[n].alone => \A r : SliceOf(r.imp) = s =>
          /\ store = "postgres" => Held(r, loads[n].seen) = Held(r, table)
          /\ store \in {"duckdb", "clickhouse"} => Held(r, table) = Held(r, doomed)
    BY <1>0, <1>1, <1>4 DEF SeenInv, Remains
  <2>3. store # "clickhouse" => \A r : Held(r, doomed) = 0
    BY <1>0, EmptyCopies DEF DoomedInv
  <2>4. /\ table (-) loads[n].seen \in RowBags /\ table (-) InSlice(table, s) \in RowBags
        /\ \A r : Held(r, table (-) loads[n].seen) =
                    IF Held(r, table) > Held(r, loads[n].seen)
                    THEN Held(r, table) - Held(r, loads[n].seen) ELSE 0
        /\ \A r : Held(r, table (-) InSlice(table, s)) =
                    IF Held(r, table) > Held(r, InSlice(table, s))
                    THEN Held(r, table) - Held(r, InSlice(table, s)) ELSE 0
    BY <1>3, RowBagsStay, RowBagsAre, MinusCopies
  <2>5. CASE store = "postgres"
    BY <1>4, <2>1, <2>2, <2>3, <2>4, <2>5
  <2>6. CASE store = "polars"
    BY <1>4, <2>3, <2>4, <2>6
  <2>7. CASE store \in {"duckdb", "clickhouse"}
    BY <1>0, <1>3, <1>4, <2>2, <2>7 DEF DoomedInv
  <2>. QED
    BY <1>0, <2>5, <2>6, <2>7 DEF StoresTypes
<1>. HIDE DEF base
<1>6. /\ table' \in RowBags
      /\ \A r : Held(r, table') = Held(r, base) + Held(r, RowsOf(content))
  BY <1>1, <1>3, <1>5, RowBagsStay, RowBagsAre, PlusCopies
<1>7. DoomedInv'
  BY <1>0, <1>1, <1>4, <1>5, <1>6 DEF DoomedInv
<1>8. \A r : SliceOf(r.imp) # s =>
        Held(r, table') = Held(r, table) /\ Held(r, doomed') = Held(r, doomed)
  BY <1>1, <1>4, <1>5, <1>6
<1>9. /\ loaded' \in [Slices -> Fetched \cup {{}}] /\ settled' \in [Slices -> BOOLEAN]
      /\ loaded'[s] = content /\ settled'[s] = loads[n].alone
      /\ \A t \in Slices : t # s => loaded'[t] = loaded[t] /\ settled'[t] = settled[t]
  BY <1>0, <1>1, <1>2 DEF StoresTypes
<1>10. settled'[s] => \A r : SliceOf(r.imp) = s =>
         Held(r, table') - Held(r, doomed') = Held(r, RowsOf(loaded'[s]))
  BY <1>1, <1>4, <1>5, <1>6, <1>9
<1>11. Done \in Loads
  BY DEF Loads
<1>12. OwnStep(n, s, Done)
  BY <1>1, <1>2, <1>3, <1>6, <1>7, <1>8, <1>9, <1>10, <1>11 DEF OwnStep
<1>. QED
  BY <1>12, OwnSliceOnly

LEMMA FailKeeps == ASSUME StoresInv, NEW n \in DOMAIN loads, Fail(n) PROVE StoresInv'
<1>. DEFINE s == loads[n].slice
            begun == loads[n].next = "insert"
<1>0. StoresTypes /\ DoomedInv /\ AloneOnSlice /\ SeenInv /\ AsLoaded /\ CopiesInv
  BY DEF StoresInv
<1>1. /\ Active(n) /\ loads' = [loads EXCEPT ![n] = Done]
      /\ \/ table' = table
         \/ store = "duckdb" /\ begun /\ \E part \in SUBSET loads[n].content : table' = table (+) RowsOf(part)
      /\ settled' = [settled EXCEPT ![s] = @ /\ (begun => store = "postgres")]
      /\ UNCHANGED <<store, doomed, loaded, gold, copies>>
  BY DEF Fail
<1>2. /\ loads[n] \in [next : {"delete", "insert"}, slice : Slices, content : Fetched,
                       seen : RowBags, alone : BOOLEAN]
      /\ loads[n].content \in Fetches[s] /\ s \in Slices
  BY <1>0, <1>1, LoadFacts
<1>3. /\ table \in RowBags /\ doomed \in RowBags
      /\ \A r : Held(r, table) \in Nat /\ Held(r, doomed) \in Nat
  BY <1>0, HeldFacts DEF StoresTypes
<1>4. /\ table' \in RowBags
      /\ \A r : Held(r, table') \in Nat /\ Held(r, table) <= Held(r, table')
      /\ \A r : SliceOf(r.imp) # s => Held(r, table') = Held(r, table)
  <2>1. CASE table' = table
    BY <1>3, <2>1
  <2>2. ASSUME NEW part \in SUBSET loads[n].content, table' = table (+) RowsOf(part)
        PROVE  /\ table' \in RowBags
               /\ \A r : Held(r, table') \in Nat /\ Held(r, table) <= Held(r, table')
               /\ \A r : SliceOf(r.imp) # s => Held(r, table') = Held(r, table)
    <3>1. /\ RowsOf(part) \in RowBags /\ \A r : Held(r, RowsOf(part)) \in Nat
          /\ \A r : SliceOf(r.imp) # s => Held(r, RowsOf(part)) = 0
      BY <1>2, FetchedRows
    <3>2. table' \in RowBags /\ \A r : Held(r, table') = Held(r, table) + Held(r, RowsOf(part))
      BY <1>3, <2>2, <3>1, RowBagsStay, RowBagsAre, PlusCopies
    <3>. QED
      BY <1>3, <3>1, <3>2
  <2>. QED
    BY <1>1, <2>1, <2>2
<1>5. DoomedInv'
  <2>1. \A r : Held(r, doomed') <= Held(r, table')
    BY <1>0, <1>1, <1>3, <1>4 DEF DoomedInv
  <2>. QED
    BY <1>0, <1>1, <2>1 DEF DoomedInv
<1>6. /\ loaded' \in [Slices -> Fetched \cup {{}}] /\ settled' \in [Slices -> BOOLEAN]
      /\ loaded'[s] \in Fetches[s] \cup {{}} /\ loaded' = loaded
      /\ settled'[s] => settled[s] /\ (begun => store = "postgres")
      /\ \A t \in Slices : t # s => loaded'[t] = loaded[t] /\ settled'[t] = settled[t]
  BY <1>0, <1>1, <1>2 DEF StoresTypes
<1>7. /\ settled'[s]
      /\ \/ store = "postgres"
         \/ \A m \in DOMAIN loads : m # n /\ m \in Beside(s) => loads[m].next # "insert"
      => \A r : SliceOf(r.imp) = s =>
           Held(r, table') - Held(r, doomed') = Held(r, RowsOf(loaded'[s]))
  <2>. SUFFICES ASSUME settled'[s],
                       \/ store = "postgres"
                       \/ \A m \in DOMAIN loads : m # n /\ m \in Beside(s) => loads[m].next # "insert"
                PROVE  \A r : SliceOf(r.imp) = s =>
                         Held(r, table') - Held(r, doomed') = Held(r, RowsOf(loaded'[s]))
    OBVIOUS
  <2>1. settled[s] /\ table' = table /\ (begun => store = "postgres")
    BY <1>1, <1>6
  <2>2. store = "postgres" \/ \A m \in DOMAIN loads : m \in Beside(s) => loads[m].next # "insert"
    BY <2>1
  <2>3. \A r : SliceOf(r.imp) = s => Remains(r) = Held(r, RowsOf(loaded[s]))
    BY <1>0, <1>2, <2>1, <2>2 DEF AsLoaded
  <2>. QED
    BY <1>1, <1>6, <2>1, <2>3 DEF Remains
<1>8. Done \in Loads
  BY DEF Loads
<1>9. OwnStep(n, s, Done)
  BY <1>1, <1>2, <1>3, <1>4, <1>5, <1>6, <1>7, <1>8 DEF OwnStep
<1>. QED
  BY <1>9, OwnSliceOnly

LEMMA MutateKeeps == ASSUME StoresInv, Mutate PROVE StoresInv'
<1>0. StoresTypes /\ DoomedInv /\ AloneOnSlice /\ SeenInv /\ AsLoaded /\ CopiesInv
  BY DEF StoresInv
<1>1. /\ store = "clickhouse" /\ table' = table (-) doomed /\ doomed' = EmptyBag
      /\ UNCHANGED <<store, loads, loaded, settled, gold, copies>>
  BY <1>0 DEF Mutate, DoomedInv
<1>2. table \in RowBags /\ doomed \in RowBags
  BY <1>0 DEF StoresTypes
<1>3. \A r : Held(r, table) \in Nat /\ Held(r, doomed) \in Nat /\ Held(r, doomed) <= Held(r, table)
  BY <1>0, <1>2, HeldFacts DEF DoomedInv
<1>4. /\ table' \in RowBags /\ doomed' \in RowBags
      /\ \A r : Held(r, table') = Held(r, table) - Held(r, doomed) /\ Held(r, doomed') = 0
  BY <1>1, <1>2, <1>3, RowBagsStay, RowBagsAre, MinusCopies, EmptyCopies
<1>5. \A r : Remains(r)' = Remains(r)
  BY <1>3, <1>4 DEF Remains
<1>6. StoresTypes'
  BY <1>0, <1>1, <1>4 DEF StoresTypes, Active
<1>7. DoomedInv'
  BY <1>1, <1>3, <1>4 DEF DoomedInv
<1>8. AloneOnSlice' /\ CopiesInv'
  BY <1>0, <1>1 DEF AloneOnSlice, CopiesInv, Active
<1>9. SeenInv'
  BY <1>0, <1>1, <1>5 DEF SeenInv, Active
<1>10. AsLoaded'
  BY <1>0, <1>1, <1>5 DEF AsLoaded, Beside, Active
<1>. QED
  BY <1>6, <1>7, <1>8, <1>9, <1>10 DEF StoresInv

LEMMA OnlyAppended ==
  ASSUME NEW S, NEW q \in Seq(S), NEW x \in S, NEW t, Append(q, x) = <<t>>
  PROVE  q = << >> /\ t = x
<1>1. Len(Append(q, x)) = Len(q) + 1 /\ Len(<<t>>) = 1 /\ Len(q) \in Nat
  OBVIOUS
<1>2. Len(q) = 0
  BY <1>1
<1>3. q = << >>
  BY <1>2
<1>4. Append(q, x)[1] = x
  BY <1>2
<1>. QED
  BY <1>3, <1>4

LEMMA SeedKeeps == ASSUME StoresInv, NEW c \in {"lake", "cluster"}, Seed(c) PROVE StoresInv'
<1>. DEFINE new == [rows |-> copies[c].rows (+) Dated(table), of |-> Append(copies[c].of, table)]
<1>0. StoresTypes /\ DoomedInv /\ AloneOnSlice /\ SeenInv /\ AsLoaded /\ CopiesInv
  BY DEF StoresInv
<1>1. /\ copies' = [copies EXCEPT ![c] = new]
      /\ UNCHANGED <<store, table, doomed, loads, loaded, settled, gold>>
  BY DEF Seed
<1>2. /\ table \in RowBags /\ Dated(table) \in RowBags
      /\ copies[c] \in CopyRecords /\ copies[c].rows \in RowBags /\ copies[c].of \in Seq(RowBags)
  BY <1>0, RowBagsStay DEF StoresTypes, CopyRecords
<1>3. copies[c].rows (+) Dated(table) \in RowBags /\ Append(copies[c].of, table) \in Seq(RowBags)
  BY <1>2, RowBagsStay
<1>4. new \in CopyRecords
  BY <1>3 DEF CopyRecords
<1>5. new.of # << >> /\ \A t : new.of = <<t>> => new.rows = Dated(t)
  <2>. SUFFICES ASSUME NEW t, new.of = <<t>> PROVE new.rows = Dated(t)
    BY <1>2
  <2>1. Append(copies[c].of, table) = <<t>>
    OBVIOUS
  <2>2. copies[c].of = << >> /\ t = table
    <3>1. copies[c].of \in Seq(RowBags)
      BY <1>2
    <3>2. table \in RowBags
      BY <1>2
    <3>. QED
      BY <2>1, <3>1, <3>2, OnlyAppended
  <2>3. copies[c].rows = EmptyBag
    BY <1>0, <2>2 DEF CopiesInv
  <2>4. \A r : Held(r, EmptyBag (+) Dated(table)) = Held(r, Dated(table))
    BY <1>2, RowBagsAre, EmptyCopies, PlusCopies, HeldFacts
  <2>5. EmptyBag (+) Dated(table) = Dated(table)
    BY <1>2, <2>4, RowBagsStay, RowBagsAre, BagsEqual
  <2>. QED
    BY <2>2, <2>3, <2>5
<1>. HIDE DEF new
<1>6. /\ copies' \in [lake : CopyRecords, cluster : CopyRecords] /\ copies'[c] = new
      /\ \A d \in {"lake", "cluster"} : d # c => copies'[d] = copies[d]
  BY <1>0, <1>1, <1>4 DEF StoresTypes
<1>7. StoresTypes'
  BY <1>0, <1>1, <1>6 DEF StoresTypes, Active
<1>8. CopiesInv'
  BY <1>0, <1>5, <1>6 DEF CopiesInv
<1>. QED
  BY <1>0, <1>1, <1>7, <1>8
     DEF StoresInv, DoomedInv, AloneOnSlice, SeenInv, AsLoaded, Remains, Active, Beside

LEMMA RestKeeps == ASSUME StoresInv, Build \/ Truncate \/ UNCHANGED stores PROVE StoresInv'
<1>0. StoresTypes /\ DoomedInv /\ AloneOnSlice /\ SeenInv /\ AsLoaded /\ CopiesInv
  BY DEF StoresInv
<1>1. UNCHANGED <<store, table, doomed, loads, loaded, settled>>
  BY DEF Build, Truncate, stores
<1>2. /\ gold' = << >> \/ \E t \in RowBags : gold' = <<t>>
      /\ copies' \in [lake : CopyRecords, cluster : CopyRecords]
      /\ CopiesInv'
  <2>1. CASE Build
    BY <1>0, <2>1 DEF Build, StoresTypes, CopiesInv
  <2>2. CASE Truncate
    <3>. DEFINE none == [rows |-> EmptyBag, of |-> << >>]
    <3>1. copies' = [copies EXCEPT !.lake = none] /\ gold' = gold
      BY <2>2 DEF Truncate
    <3>2. none \in CopyRecords
      BY RowBagsStay DEF CopyRecords
    <3>3. none.of = << >> /\ none.rows = EmptyBag
      OBVIOUS
    <3>. HIDE DEF none
    <3>4. /\ copies' \in [lake : CopyRecords, cluster : CopyRecords]
          /\ copies'["lake"] = none /\ copies'["cluster"] = copies["cluster"]
      BY <1>0, <3>1, <3>2 DEF StoresTypes
    <3>5. CopiesInv'
      BY <1>0, <3>3, <3>4 DEF CopiesInv
    <3>. QED
      BY <1>0, <3>1, <3>4, <3>5 DEF StoresTypes
  <2>3. CASE UNCHANGED stores
    BY <1>0, <2>3 DEF stores, StoresTypes, CopiesInv
  <2>. QED
    BY <2>1, <2>2, <2>3
<1>3. StoresTypes'
  BY <1>0, <1>1, <1>2 DEF StoresTypes, Active
<1>. QED
  BY <1>0, <1>1, <1>2, <1>3
     DEF StoresInv, DoomedInv, AloneOnSlice, SeenInv, AsLoaded, Remains, Active, Beside

LEMMA StoresKeep == StoresInv /\ [StoresNext]_stores => StoresInv'
<1>. SUFFICES ASSUME StoresInv, [StoresNext]_stores PROVE StoresInv'
  OBVIOUS
<1>1. ASSUME NEW s \in Slices, NEW content \in Fetches[s], Fetch(s, content) PROVE StoresInv'
  BY <1>1, FetchKeeps
<1>2. ASSUME NEW n \in DOMAIN loads, Delete(n) \/ Insert(n) \/ Fail(n) PROVE StoresInv'
  BY <1>2, DeleteKeeps, InsertKeeps, FailKeeps
<1>3. ASSUME NEW c \in {"lake", "cluster"}, Seed(c) PROVE StoresInv'
  BY <1>3, SeedKeeps
<1>. QED
  BY <1>1, <1>2, <1>3, MutateKeeps, RestKeeps DEF StoresNext

\* What the last loads brought: each impression once, by its id.
Brought == UNION {loaded[s] : s \in Slices}

Distinct(imps) ==
  /\ IsFiniteSet(imps)
  /\ \A i \in imps : i.depth \in 1..6 /\ i.second \in Nat
  /\ \A i, j \in imps : Id(i) = Id(j) => i = j

LEMMA BroughtAre ==
  ASSUME StoresTypes
  PROVE  /\ Distinct(Brought) /\ Distinct({i \in Brought : i.date = "day"})
         /\ \A i \in Brought : SliceOf(i) \in Slices /\ i \in loaded[SliceOf(i)]
         /\ \A s \in Slices : \A i \in loaded[s] : i \in Brought
<1>1. \A s \in Slices : loaded[s] \in Fetches[s] \cup {{}}
  BY DEF StoresTypes
<1>2. \A i : i \in Brought <=> \E s \in Slices : i \in loaded[s]
  BY DEF Brought
<1>3. \A s \in Slices : \A i \in loaded[s] :
        /\ SliceOf(i) = s /\ i.depth \in 1..6 /\ i.second \in Nat
        /\ \A j \in loaded[s] : Id(i) = Id(j) => i = j
  <2>. SUFFICES ASSUME NEW s \in Slices, NEW i \in loaded[s]
                PROVE  /\ SliceOf(i) = s /\ i.depth \in 1..6 /\ i.second \in Nat
                       /\ \A j \in loaded[s] : Id(i) = Id(j) => i = j
    OBVIOUS
  <2>1. loaded[s] \in Fetches[s]
    BY <1>1
  <2>2. /\ SliceOf(i) = s /\ i.depth \in 1..6 /\ i.second \in 0..(60 - i.depth)
        /\ \A j \in loaded[s] : Id(i) = Id(j) => i = j
    BY <2>1, AnalysesAssumption
  <2>. QED
    BY <2>2
<1>4. ASSUME NEW i \in Brought, NEW j \in Brought, Id(i) = Id(j) PROVE i = j
  <2>1. i.page = j.page /\ i.date = j.date /\ i.hour = j.hour
    BY <1>4 DEF Id
  <2>2. SliceOf(i) = SliceOf(j)
    BY <2>1 DEF SliceOf
  <2>. QED
    BY <1>2, <1>3, <1>4, <2>2
<1>5. IsFiniteSet(Brought)
  <2>1. IsFiniteSet(Slices)
    BY AnalysesAssumption
  <2>2. \A s \in Slices : IsFiniteSet(loaded[s])
    BY <1>1, AnalysesAssumption, FS_EmptySet
  <2>. DEFINE parts == {loaded[s] : s \in Slices}
              f == [s \in Slices |-> loaded[s]]
  <2>3. f \in Surjection(Slices, parts)
    BY DEF Surjection
  <2>4. IsFiniteSet(parts)
    BY <2>1, <2>3, FS_Surjection
  <2>5. \A part \in parts : IsFiniteSet(part)
    BY <2>2
  <2>. QED
    BY <2>4, <2>5, FS_UNION DEF Brought
<1>6. IsFiniteSet({i \in Brought : i.date = "day"})
  BY <1>5, FS_Subset
<1>. QED
  BY <1>2, <1>3, <1>4, <1>5, <1>6 DEF Distinct

\* However it was loaded, once all is settled the table has their rows.
LEMMA TableIsBrought == ASSUME StoresInv, AllSettled PROVE table = RowsOf(Brought)
<1>0. StoresTypes /\ AsLoaded
  BY DEF StoresInv
<1>1. /\ doomed = EmptyBag /\ \A s \in Slices : settled[s] /\ Beside(s) = {}
  BY DEF AllSettled, Beside
<1>2. \A r : SliceOf(r.imp) \in Slices => Held(r, table) = Held(r, RowsOf(loaded[SliceOf(r.imp)]))
  <2>. SUFFICES ASSUME NEW r, SliceOf(r.imp) \in Slices
                PROVE  Held(r, table) = Held(r, RowsOf(loaded[SliceOf(r.imp)]))
    OBVIOUS
  <2>1. Remains(r) = Held(r, RowsOf(loaded[SliceOf(r.imp)]))
    BY <1>0, <1>1 DEF AsLoaded
  <2>2. Held(r, table) \in Nat /\ Held(r, doomed) = 0
    BY <1>0, <1>1, HeldFacts, EmptyCopies DEF StoresTypes
  <2>. QED
    BY <2>1, <2>2 DEF Remains
<1>3. \A r \in DOMAIN table : SliceOf(r.imp) \in Slices
  <2>. SUFFICES ASSUME NEW r \in DOMAIN table PROVE SliceOf(r.imp) \in Slices
    OBVIOUS
  <2>1. r \in EventRows
    BY <1>0, RowBagsAre DEF StoresTypes
  <2>2. PICK i \in Impressions : r.imp = i
    BY <2>1 DEF EventRows
  <2>3. PICK s \in Slices : \E content \in Fetches[s] : i \in content
    BY DEF Impressions
  <2>. QED
    BY <2>2, <2>3, AnalysesAssumption
<1>4. \A r \in RowSet(Brought) : SliceOf(r.imp) \in Slices
  <2>. SUFFICES ASSUME NEW r \in RowSet(Brought) PROVE SliceOf(r.imp) \in Slices
    OBVIOUS
  <2>1. PICK i \in Brought : \E e \in 1..i.depth : r = [imp |-> i, event |-> e]
    BY RowsCopies
  <2>2. r.imp = i
    BY <2>1
  <2>. QED
    BY <1>0, <2>2, BroughtAre
<1>5. \A r : SliceOf(r.imp) \in Slices =>
        (r \in RowSet(Brought) <=> r \in RowSet(loaded[SliceOf(r.imp)]))
  <2>. SUFFICES ASSUME NEW r, NEW s \in Slices, SliceOf(r.imp) = s
                PROVE  r \in RowSet(Brought) <=> r \in RowSet(loaded[s])
    OBVIOUS
  <2>1. ASSUME r \in RowSet(Brought) PROVE r \in RowSet(loaded[s])
    <3>1. PICK i \in Brought : \E e \in 1..i.depth : r = [imp |-> i, event |-> e]
      BY <2>1, RowsCopies
    <3>2. r.imp = i
      BY <3>1
    <3>3. i \in loaded[s]
      BY <1>0, <3>2, BroughtAre
    <3>. QED
      BY <3>1, <3>3, RowsCopies
  <2>2. ASSUME r \in RowSet(loaded[s]) PROVE r \in RowSet(Brought)
    <3>1. PICK i \in loaded[s] : \E e \in 1..i.depth : r = [imp |-> i, event |-> e]
      BY <2>2, RowsCopies
    <3>2. i \in Brought
      BY <1>0, BroughtAre
    <3>. QED
      BY <3>1, <3>2, RowsCopies
  <2>. QED
    BY <2>1, <2>2
<1>6. \A r : Held(r, table) = Held(r, RowsOf(Brought))
  <2>. SUFFICES ASSUME NEW r PROVE Held(r, table) = Held(r, RowsOf(Brought))
    OBVIOUS
  <2>1. CASE SliceOf(r.imp) \in Slices
    BY <1>2, <1>5, <2>1, RowsCopies
  <2>2. CASE SliceOf(r.imp) \notin Slices
    BY <1>3, <1>4, <2>2, RowsCopies DEF Held
  <2>. QED
    BY <2>1, <2>2
<1>. QED
  BY <1>0, <1>6, RowsCopies, RowBagsAre, BagsEqual DEF StoresTypes

\* The rows with a date are those of the impressions with one.
LEMMA DatedRows == \A imps : Dated(RowsOf(imps)) = RowsOf({i \in imps : i.date = "day"})
<1>. SUFFICES ASSUME NEW imps PROVE Dated(RowsOf(imps)) = RowsOf({i \in imps : i.date = "day"})
  OBVIOUS
<1>. DEFINE dated == {i \in imps : i.date = "day"}
<1>1. IsABag(RowsOf(imps)) /\ IsABag(RowsOf(dated)) /\ IsABag(Dated(RowsOf(imps)))
  BY RowsCopies, SliceCopies
<1>2. ASSUME NEW r PROVE r \in RowSet(dated) <=> r \in RowSet(imps) /\ r.imp.date = "day"
  <2>1. \A i \in imps : \A e \in 1..i.depth : r = [imp |-> i, event |-> e] => r.imp = i
    OBVIOUS
  <2>. QED
    BY <2>1, RowsCopies
<1>3. \A r : Held(r, Dated(RowsOf(imps))) = Held(r, RowsOf(dated))
  <2>1. \A r : Held(r, Dated(RowsOf(imps))) = IF r.imp.date = "day" THEN Held(r, RowsOf(imps)) ELSE 0
    BY <1>1, SliceCopies
  <2>. QED
    BY <1>2, <2>1, RowsCopies
<1>. QED
  BY <1>1, <1>3, BagsEqual

\* Rows tell their impressions.
LEMMA RowsTell ==
  ASSUME NEW I, NEW J, \A i \in I \cup J : i.depth \in 1..6, RowsOf(I) = RowsOf(J)
  PROVE  I = J
<1>1. RowSet(I) = RowSet(J)
  BY RowsCopies
<1>2. ASSUME NEW A, NEW B, \A i \in A : i.depth \in 1..6, RowSet(A) = RowSet(B) PROVE A \subseteq B
  <2>. SUFFICES ASSUME NEW i \in A PROVE i \in B
    OBVIOUS
  <2>1. [imp |-> i, event |-> 1] \in RowSet(A)
    BY <1>2, RowsCopies
  <2>2. PICK j \in B : \E e \in 1..j.depth : [imp |-> i, event |-> 1] = [imp |-> j, event |-> e]
    BY <1>2, <2>1, RowsCopies
  <2>. QED
    BY <2>2
<1>. QED
  BY <1>1, <1>2

-----------------------------------------------------------------------------
(* What the engines compute of the rows of impressions, each impression    *)
(* once, is what the analyses mean.                                        *)

OfId(bag, id) == {r \in DOMAIN bag : Id(r.imp) = id}
GroupOf(bag, id) ==
  [id |-> id,
   events |-> SumOf(LAMBDA r : bag[r], OfId(bag, id)),
   distinct |-> Cardinality({r.event : r \in OfId(bag, id)}),
   first |-> Min({SecondOf(r) : r \in OfId(bag, id)}),
   last |-> MaxOf(SecondOf, OfId(bag, id)),
   deepest |-> MaxOf(LAMBDA r : r.event, OfId(bag, id))]

LEMMA AggregatedAre == \A bag : Aggregated(bag) = {GroupOf(bag, id) : id \in IdsOf(DOMAIN bag)}
BY DEF Aggregated, GroupOf, OfId

\* The least and the greatest of an interval.
LEMMA Ends ==
  ASSUME NEW a \in Int, NEW b \in Int, a <= b
  PROVE  Min(a..b) = a /\ Max(a..b) = b
<1>1. \A x \in a..b : (\A y \in a..b : x =< y) <=> x = a
  OBVIOUS
<1>2. \A x \in a..b : (\A y \in a..b : x >= y) <=> x = b
  OBVIOUS
<1>. QED
  BY <1>1, <1>2 DEF Min, Max

LEMMA GroupIs ==
  ASSUME NEW I, Distinct(I), NEW i \in I
  PROVE  GroupOf(RowsOf(I), Id(i)) =
           [id |-> Id(i), events |-> i.depth, distinct |-> i.depth, first |-> i.second,
            last |-> i.second + i.depth - 1, deepest |-> i.depth]
<1>. DEFINE bag == RowsOf(I)
            row(e) == [imp |-> i, event |-> e]
            S == OfId(bag, Id(i))
<1>1. i.depth \in 1..6 /\ i.second \in Nat
  BY DEF Distinct
<1>2. \A r : r \in S <=> \E e \in 1..i.depth : r = row(e)
  <2>1. ASSUME NEW r \in S PROVE \E e \in 1..i.depth : r = row(e)
    <3>1. r \in RowSet(I) /\ Id(r.imp) = Id(i)
      BY RowsCopies DEF OfId
    <3>2. PICK j \in I : \E e \in 1..j.depth : r = [imp |-> j, event |-> e]
      BY <3>1, RowsCopies
    <3>3. r.imp = j /\ j = i
      BY <3>1, <3>2 DEF Distinct
    <3>. QED
      BY <3>2, <3>3
  <2>2. ASSUME NEW e \in 1..i.depth PROVE row(e) \in S
    BY RowsCopies DEF OfId
  <2>. QED
    BY <2>1, <2>2
<1>3. \A r \in S : bag[r] = 1
  <2>1. \A r \in S : r \in DOMAIN bag
    BY DEF OfId
  <2>. QED
    BY <2>1, RowsCopies DEF Held
<1>4. \A e : row(e).event = e /\ row(e).imp = i
  OBVIOUS
<1>. HIDE DEF S, bag, row
<1>d. IsFiniteSet(1..i.depth) /\ Cardinality(1..i.depth) = i.depth
  BY <1>1, IntervalSize
<1>5. SumOf(LAMBDA r : bag[r], S) = i.depth
  <2>. DEFINE T == UNION {{x} \X (1..bag[x]) : x \in S}
              f == [e \in 1..i.depth |-> <<row(e), 1>>]
  <2>1. \A x : x \in T <=> \E e \in 1..i.depth : x = <<row(e), 1>>
    <3>1. \A x : x \in T <=> \E r \in S : \E k \in 1..bag[r] : x = <<r, k>>
      OBVIOUS
    <3>2. \A k : k \in 1..1 <=> k = 1
      OBVIOUS
    <3>. QED
      BY <1>2, <1>3, <3>1, <3>2
  <2>2. f \in Bijection(1..i.depth, T)
    <3>1. f \in [1..i.depth -> T]
      BY <2>1
    <3>2. \A d, e \in 1..i.depth : f[d] = f[e] => d = e
      BY <1>4
    <3>3. \A x \in T : \E e \in 1..i.depth : f[e] = x
      BY <2>1
    <3>. QED
      BY <3>1, <3>2, <3>3 DEF Bijection, Injection, Surjection, IsInjective
  <2>. HIDE DEF T, f
  <2>3. Cardinality(T) = i.depth
    BY <1>d, <2>2, FS_Bijection DEF ExistsBijection
  <2>. QED
    BY <2>3 DEF SumOf, T
<1>6. {r.event : r \in S} = 1..i.depth
  BY <1>2, <1>4
<1>7. Cardinality({r.event : r \in S}) = i.depth
  BY <1>d, <1>6
<1>8. {SecondOf(r) : r \in S} = i.second..(i.second + i.depth - 1)
  <2>1. \A e \in 1..i.depth : SecondOf(row(e)) = i.second + e - 1
    BY <1>4 DEF SecondOf
  <2>2. \A x \in {SecondOf(r) : r \in S} : x \in i.second..(i.second + i.depth - 1)
    BY <1>1, <1>2, <2>1
  <2>3. ASSUME NEW x \in i.second..(i.second + i.depth - 1) PROVE x \in {SecondOf(r) : r \in S}
    <3>1. x - i.second + 1 \in 1..i.depth /\ i.second + (x - i.second + 1) - 1 = x
      BY <1>1
    <3>2. row(x - i.second + 1) \in S
      BY <1>2, <3>1
    <3>3. SecondOf(row(x - i.second + 1)) = x
      BY <2>1, <3>1
    <3>. QED
      BY <3>2, <3>3
  <2>. QED
    BY <2>2, <2>3
<1>9. i.second <= i.second + i.depth - 1 /\ i.second + i.depth - 1 \in Int /\ 1 <= i.depth
  BY <1>1
<1>e. /\ Min(i.second..(i.second + i.depth - 1)) = i.second
      /\ Max(i.second..(i.second + i.depth - 1)) = i.second + i.depth - 1
      /\ Max(1..i.depth) = i.depth
  BY <1>1, <1>9, Ends
<1>10. Min({SecondOf(r) : r \in S}) = i.second
  BY <1>8, <1>e
<1>11. MaxOf(SecondOf, S) = i.second + i.depth - 1
  BY <1>8, <1>e DEF MaxOf
<1>12. MaxOf(LAMBDA r : r.event, S) = i.depth
  BY <1>6, <1>e DEF MaxOf
<1>. QED
  BY <1>5, <1>7, <1>10, <1>11, <1>12 DEF GroupOf, S, bag

LEMMA GroupsOfRows == ASSUME NEW I, Distinct(I) PROVE Aggregated(RowsOf(I)) = Groups(I)
<1>1. IdsOf(DOMAIN RowsOf(I)) = {Id(i) : i \in I}
  <2>1. ASSUME NEW x \in IdsOf(DOMAIN RowsOf(I)) PROVE x \in {Id(i) : i \in I}
    <3>1. PICK r \in RowSet(I) : x = Id(r.imp)
      BY RowsCopies DEF IdsOf
    <3>2. PICK i \in I : \E e \in 1..i.depth : r = [imp |-> i, event |-> e]
      BY RowsCopies
    <3>3. r.imp = i
      BY <3>2
    <3>. QED
      BY <3>1, <3>3
  <2>2. ASSUME NEW i \in I PROVE Id(i) \in IdsOf(DOMAIN RowsOf(I))
    <3>. DEFINE r == [imp |-> i, event |-> 1]
    <3>1. 1 \in 1..i.depth
      BY DEF Distinct
    <3>2. r \in DOMAIN RowsOf(I) /\ r.imp = i
      BY <3>1, RowsCopies
    <3>. HIDE DEF r
    <3>. QED
      BY <3>2 DEF IdsOf
  <2>. QED
    BY <2>1, <2>2
<1>2. Aggregated(RowsOf(I)) = {GroupOf(RowsOf(I), Id(i)) : i \in I}
  BY <1>1, AggregatedAre
<1>. QED
  BY <1>2, GroupIs DEF Groups

\* The funnel: who reached a stage reached all before it.
OnPage(bag, p) == {r \in DOMAIN bag : r.imp.page = p}
AtStage(bag, p, e) == {r \in DOMAIN bag : r.imp.page = p /\ r.event = e}
Before(bag, p, e) == {f \in {r.event : r \in OnPage(bag, p)} : f < e}
Stages(bag) == {<<r.imp.page, r.event>> : r \in DOMAIN bag}
StageRow(bag, half, k) ==
  [page |-> k[1], stage |-> k[2], at |-> Cardinality(IdsOf(AtStage(bag, k[1], k[2]))),
   total |-> Cardinality(IdsOf(OnPage(bag, k[1]))),
   ofTotal |-> Round(half, 100 * Cardinality(IdsOf(AtStage(bag, k[1], k[2]))),
                     Cardinality(IdsOf(OnPage(bag, k[1])))),
   ofPrevious |-> IF Before(bag, k[1], k[2]) = {} THEN << >>
                  ELSE <<Round(half, 100 * Cardinality(IdsOf(AtStage(bag, k[1], k[2]))),
                               Cardinality(IdsOf(AtStage(bag, k[1], Max(Before(bag, k[1], k[2]))))))>>]

Reached(I, p, e) == {i \in I : i.page = p /\ i.depth >= e}
TrueStages(I) ==
  {l \in {i.page : i \in I} \X (1..6) : Cardinality(Reached(I, l[1], l[2])) > 0}
TrueRow(I, half, k) ==
  [page |-> k[1], stage |-> k[2], at |-> Cardinality(Reached(I, k[1], k[2])),
   total |-> Cardinality(Reached(I, k[1], 1)),
   ofTotal |-> Round(half, 100 * Cardinality(Reached(I, k[1], k[2])), Cardinality(Reached(I, k[1], 1))),
   ofPrevious |-> IF k[2] = 1 THEN << >>
                  ELSE <<Round(half, 100 * Cardinality(Reached(I, k[1], k[2])),
                               Cardinality(Reached(I, k[1], k[2] - 1)))>>]

LEMMA FunnelsAre ==
  /\ \A bag, half : Funnel(bag, half) = {StageRow(bag, half, k) : k \in Stages(bag)}
  /\ \A I, half : TrueFunnel(I, half) = {TrueRow(I, half, k) : k \in TrueStages(I)}
<1>1. \A bag, half : Funnel(bag, half) = {StageRow(bag, half, k) : k \in Stages(bag)}
  BY DEF Funnel, StageRow, Stages, OnPage, AtStage, Before
<1>2. \A I, half : TrueFunnel(I, half) = {TrueRow(I, half, k) : k \in TrueStages(I)}
  BY DEF TrueFunnel, TrueRow, TrueStages, Reached
<1>. QED
  BY <1>1, <1>2

LEMMA IdsCount ==
  ASSUME NEW I, Distinct(I), NEW J \in SUBSET I
  PROVE  IsFiniteSet(J) /\ Cardinality({Id(i) : i \in J}) = Cardinality(J)
<1>. DEFINE ids == {Id(i) : i \in J}
            f == [i \in J |-> Id(i)]
<1>1. IsFiniteSet(J)
  BY FS_Subset DEF Distinct
<1>2. f \in Bijection(J, ids)
  <2>1. f \in [J -> ids] /\ \A x \in ids : \E i \in J : f[i] = x
    OBVIOUS
  <2>2. \A i, j \in J : f[i] = f[j] => i = j
    BY DEF Distinct
  <2>. QED
    BY <2>1, <2>2 DEF Bijection, Injection, Surjection, IsInjective
<1>. HIDE DEF ids, f
<1>3. Cardinality(ids) = Cardinality(J)
  BY <1>1, <1>2, FS_Bijection DEF ExistsBijection
<1>. QED
  BY <1>1, <1>3 DEF ids

LEMMA StageCounts ==
  ASSUME NEW I, Distinct(I), NEW p
  PROVE  /\ \A e \in 1..6 : Cardinality(IdsOf(AtStage(RowsOf(I), p, e))) = Cardinality(Reached(I, p, e))
         /\ Cardinality(IdsOf(OnPage(RowsOf(I), p))) = Cardinality(Reached(I, p, 1))
         /\ \A e \in Nat : IsFiniteSet(Reached(I, p, e))
<1>0. \A r : r \in DOMAIN RowsOf(I) <=>
        \E i \in I : \E e \in 1..i.depth : r = [imp |-> i, event |-> e]
  BY RowsCopies
<1>1. \A i \in I : i.depth \in 1..6
  BY DEF Distinct
<1>2. ASSUME NEW e \in 1..6 PROVE IdsOf(AtStage(RowsOf(I), p, e)) = {Id(i) : i \in Reached(I, p, e)}
  <2>1. ASSUME NEW x \in IdsOf(AtStage(RowsOf(I), p, e)) PROVE x \in {Id(i) : i \in Reached(I, p, e)}
    <3>1. PICK r \in DOMAIN RowsOf(I) : r.imp.page = p /\ r.event = e /\ x = Id(r.imp)
      BY DEF IdsOf, AtStage
    <3>2. PICK i \in I : \E d \in 1..i.depth : r = [imp |-> i, event |-> d]
      BY <1>0
    <3>3. r.imp = i /\ r.event \in 1..i.depth
      BY <3>2
    <3>4. i \in Reached(I, p, e)
      BY <1>1, <3>1, <3>3 DEF Reached
    <3>. QED
      BY <3>1, <3>3, <3>4
  <2>2. ASSUME NEW i \in Reached(I, p, e) PROVE Id(i) \in IdsOf(AtStage(RowsOf(I), p, e))
    <3>. DEFINE r == [imp |-> i, event |-> e]
    <3>1. i \in I /\ i.page = p /\ e \in 1..i.depth
      BY <1>1 DEF Reached
    <3>2. r \in DOMAIN RowsOf(I) /\ r.imp = i /\ r.event = e
      BY <1>0, <3>1
    <3>. HIDE DEF r
    <3>. QED
      BY <3>1, <3>2 DEF IdsOf, AtStage
  <2>. QED
    BY <2>1, <2>2
<1>3. IdsOf(OnPage(RowsOf(I), p)) = {Id(i) : i \in Reached(I, p, 1)}
  <2>1. ASSUME NEW x \in IdsOf(OnPage(RowsOf(I), p)) PROVE x \in {Id(i) : i \in Reached(I, p, 1)}
    <3>1. PICK r \in DOMAIN RowsOf(I) : r.imp.page = p /\ x = Id(r.imp)
      BY DEF IdsOf, OnPage
    <3>2. PICK i \in I : \E d \in 1..i.depth : r = [imp |-> i, event |-> d]
      BY <1>0
    <3>3. r.imp = i
      BY <3>2
    <3>4. i \in Reached(I, p, 1)
      BY <1>1, <3>1, <3>3 DEF Reached
    <3>. QED
      BY <3>1, <3>3, <3>4
  <2>2. ASSUME NEW i \in Reached(I, p, 1) PROVE Id(i) \in IdsOf(OnPage(RowsOf(I), p))
    <3>. DEFINE r == [imp |-> i, event |-> 1]
    <3>1. i \in I /\ i.page = p /\ 1 \in 1..i.depth
      BY <1>1 DEF Reached
    <3>2. r \in DOMAIN RowsOf(I) /\ r.imp = i
      BY <1>0, <3>1
    <3>. HIDE DEF r
    <3>. QED
      BY <3>1, <3>2 DEF IdsOf, OnPage
  <2>. QED
    BY <2>1, <2>2
<1>4. \A e : Reached(I, p, e) \in SUBSET I
  BY DEF Reached
<1>5. \A e : /\ IsFiniteSet(Reached(I, p, e))
             /\ Cardinality({Id(i) : i \in Reached(I, p, e)}) = Cardinality(Reached(I, p, e))
  BY <1>4, IdsCount
<1>. QED
  BY <1>2, <1>3, <1>5

LEMMA StagesBefore ==
  ASSUME NEW I, Distinct(I), NEW p, NEW e \in 1..6, Reached(I, p, e) # {}
  PROVE  Before(RowsOf(I), p, e) = 1..(e - 1)
<1>1. PICK i \in I : i.page = p /\ i.depth >= e
  BY DEF Reached
<1>2. i.depth \in 1..6
  BY DEF Distinct
<1>3. ASSUME NEW f \in 1..(e - 1) PROVE f \in Before(RowsOf(I), p, e)
  <2>. DEFINE r == [imp |-> i, event |-> f]
  <2>1. f \in 1..i.depth /\ f < e
    BY <1>1, <1>2
  <2>2. r \in DOMAIN RowsOf(I) /\ r.imp = i /\ r.event = f
    BY <2>1, RowsCopies
  <2>. HIDE DEF r
  <2>3. r \in OnPage(RowsOf(I), p)
    BY <1>1, <2>2 DEF OnPage
  <2>. QED
    BY <2>1, <2>2, <2>3 DEF Before
<1>4. ASSUME NEW f \in Before(RowsOf(I), p, e) PROVE f \in 1..(e - 1)
  <2>1. PICK r \in DOMAIN RowsOf(I) : f = r.event /\ f < e
    BY DEF Before, OnPage
  <2>2. PICK j \in I : \E d \in 1..j.depth : r = [imp |-> j, event |-> d]
    BY RowsCopies
  <2>3. r.event \in 1..j.depth
    BY <2>2
  <2>4. j.depth \in 1..6
    BY DEF Distinct
  <2>. QED
    BY <2>1, <2>3, <2>4
<1>. QED
  BY <1>3, <1>4

LEMMA StagesAre == ASSUME NEW I, Distinct(I) PROVE Stages(RowsOf(I)) = TrueStages(I)
<1>1. \A i \in I : i.depth \in 1..6
  BY DEF Distinct
<1>2. ASSUME NEW k \in Stages(RowsOf(I)) PROVE k \in TrueStages(I)
  <2>1. PICK r \in DOMAIN RowsOf(I) : k = <<r.imp.page, r.event>>
    BY DEF Stages
  <2>2. PICK i \in I : \E d \in 1..i.depth : r = [imp |-> i, event |-> d]
    BY RowsCopies
  <2>3. r.imp = i /\ r.event \in 1..i.depth
    BY <2>2
  <2>4. r.event \in 1..6 /\ i.depth >= r.event
    BY <1>1, <2>3
  <2>5. i \in Reached(I, k[1], k[2])
    BY <2>1, <2>3, <2>4 DEF Reached
  <2>6. Cardinality(Reached(I, k[1], k[2])) > 0
    <3>1. IsFiniteSet(Reached(I, k[1], k[2]))
      BY <2>1, <2>4, StageCounts
    <3>. QED
      BY <2>5, <3>1, FS_EmptySet, FS_CardinalityType
  <2>7. k \in {j.page : j \in I} \X (1..6)
    BY <2>1, <2>3, <2>4
  <2>. QED
    BY <2>6, <2>7 DEF TrueStages
<1>3. ASSUME NEW k \in TrueStages(I) PROVE k \in Stages(RowsOf(I))
  <2>1. /\ k \in {j.page : j \in I} \X (1..6) /\ k[2] \in 1..6 /\ k = <<k[1], k[2]>>
        /\ Cardinality(Reached(I, k[1], k[2])) > 0
    BY DEF TrueStages
  <2>2. Reached(I, k[1], k[2]) # {}
    BY <2>1, FS_EmptySet
  <2>3. PICK i \in I : i.page = k[1] /\ i.depth >= k[2]
    BY <2>2 DEF Reached
  <2>. DEFINE r == [imp |-> i, event |-> k[2]]
  <2>4. k[2] \in 1..i.depth
    BY <1>1, <2>1, <2>3
  <2>5. r \in DOMAIN RowsOf(I) /\ r.imp = i /\ r.event = k[2]
    BY <2>4, RowsCopies
  <2>. HIDE DEF r
  <2>6. k = <<r.imp.page, r.event>>
    BY <2>1, <2>3, <2>5
  <2>. QED
    BY <2>5, <2>6 DEF Stages
<1>. QED
  BY <1>2, <1>3

LEMMA FunnelOfRows ==
  ASSUME NEW I, Distinct(I), NEW half
  PROVE  Funnel(RowsOf(I), half) = TrueFunnel(I, half)
<1>1. ASSUME NEW k \in TrueStages(I) PROVE StageRow(RowsOf(I), half, k) = TrueRow(I, half, k)
  <2>. DEFINE p == k[1]
              e == k[2]
  <2>1. e \in 1..6 /\ Cardinality(Reached(I, p, e)) > 0
    BY DEF TrueStages
  <2>2. Reached(I, p, e) # {}
    BY <2>1, FS_EmptySet
  <2>3. /\ Cardinality(IdsOf(AtStage(RowsOf(I), p, e))) = Cardinality(Reached(I, p, e))
        /\ Cardinality(IdsOf(OnPage(RowsOf(I), p))) = Cardinality(Reached(I, p, 1))
    BY <2>1, StageCounts
  <2>4. Before(RowsOf(I), p, e) = 1..(e - 1)
    BY <2>1, <2>2, StagesBefore
  <2>5. CASE e = 1
    <3>1. Before(RowsOf(I), p, e) = {}
      BY <2>4, <2>5
    <3>. QED
      BY <2>3, <2>5, <3>1 DEF StageRow, TrueRow
  <2>6. CASE e # 1
    <3>1. e - 1 \in 1..6 /\ 1 <= e - 1
      BY <2>1, <2>6
    <3>2. Before(RowsOf(I), p, e) # {}
      BY <2>4, <3>1
    <3>3. Max(1..(e - 1)) = e - 1
      BY <3>1, Ends
    <3>4. Max(Before(RowsOf(I), p, e)) = e - 1
      BY <2>4, <3>3
    <3>5. Cardinality(IdsOf(AtStage(RowsOf(I), p, e - 1))) = Cardinality(Reached(I, p, e - 1))
      BY <3>1, StageCounts
    <3>. QED
      BY <2>3, <2>6, <3>2, <3>4, <3>5 DEF StageRow, TrueRow
  <2>. QED
    BY <2>5, <2>6
<1>2. Funnel(RowsOf(I), half) = {StageRow(RowsOf(I), half, k) : k \in TrueStages(I)}
  BY FunnelsAre, StagesAre
<1>3. TrueFunnel(I, half) = {TrueRow(I, half, k) : k \in TrueStages(I)}
  BY FunnelsAre
<1>. QED
  BY <1>1, <1>2, <1>3

Answered(I, groups, lowest, half) ==
  [Analyses(EmptyBag, groups, lowest, half) EXCEPT !.funnel = <<TrueFunnel(I, half)>>]

LEMMA AnsweredByRows ==
  ASSUME NEW I, Distinct(I), NEW groups, NEW lowest, NEW half
  PROVE  Analyses(RowsOf(I), groups, lowest, half) = Answered(I, groups, lowest, half)
<1>1. Funnel(RowsOf(I), half) = TrueFunnel(I, half)
  BY FunnelOfRows
<1>. QED
  BY <1>1 DEF Analyses, Answered

LEMMA AnswersKept == StoresInv => AnswersTheLoads
<1>. SUFFICES ASSUME StoresInv, AllSettled PROVE AnswersTheLoads
  BY DEF AnswersTheLoads
<1>. DEFINE dated == {i \in Brought : i.date = "day"}
<1>1. StoresTypes /\ store \in {"postgres", "duckdb", "polars", "clickhouse"}
  BY DEF StoresInv, StoresTypes
<1>2. Distinct(Brought) /\ Distinct(dated)
  BY <1>1, BroughtAre
<1>3. table = RowsOf(Brought) /\ Dated(table) = RowsOf(dated)
  BY TableIsBrought, DatedRows
<1>4. Aggregated(table) = Groups(Brought) /\ Aggregated(Dated(table)) = Groups(dated)
  BY <1>2, <1>3, GroupsOfRows
<1>5. Dated(table) = table <=> dated = Brought
  BY <1>2, <1>3, RowsTell DEF Distinct
<1>6. \A groups, lowest, half : Analyses(table, groups, lowest, half) = Answered(Brought, groups, lowest, half)
  BY <1>2, <1>3, AnsweredByRows
<1>. HIDE DEF dated
<1>7. store = "postgres" => DbtAnswers(table) = Answered(Brought, Groups(dated), FALSE, "away")
  BY <1>4, <1>6 DEF DbtAnswers
<1>8. store = "duckdb" =>
        DuckAnswers(table) =
          IF dated = Brought THEN Answered(Brought, Groups(Brought), TRUE, "away")
          ELSE [Answered(Brought, Groups(Brought), TRUE, "away") EXCEPT !.engagement = << >>]
  BY <1>4, <1>5, <1>6 DEF DuckAnswers
<1>9. store = "polars" => PolarsAnswers(table) = Answered(Brought, Groups(Brought), TRUE, "away")
  BY <1>4, <1>6 DEF PolarsAnswers
<1>10. store = "clickhouse" => ClickHouseAnswers(table) = Answered(Brought, Groups(Brought), TRUE, "even")
  BY <1>4, <1>6 DEF ClickHouseAnswers
<1>. QED
  BY <1>1, <1>7, <1>8, <1>9, <1>10 DEF AnswersTheLoads, Answered, Brought, dated

LEMMA CopiesReconciled == StoresInv => CopiesReconcile
<1>. SUFFICES ASSUME StoresInv, NEW c \in {"lake", "cluster"}, gold # << >>, copies[c].of = gold
              PROVE  Mismatches(c) = {}
  BY DEF CopiesReconcile
<1>1. PICK t : gold = <<t>>
  BY DEF StoresInv, StoresTypes
<1>2. copies[c].rows = Dated(t) /\ gold[1] = t
  BY <1>1 DEF StoresInv, CopiesInv
<1>3. DbtAnswers(t).summary = <<TrinoSummary(Dated(t))>>
  BY DEF DbtAnswers, Analyses, TrinoSummary
<1>4. TrinoSummary(copies[c].rows) = DbtAnswers(gold[1]).summary[1]
  BY <1>2, <1>3
<1>. QED
  BY <1>4 DEF Mismatches

\* Whatever the fetches bring, however many loads of a slice fail, overlap and
\* are made again: when the last of each ran alone to its end, every engine's
\* analyses (the models of dbt, DuckDB, Polars and ClickHouse) are those of the
\* impressions brought, and Trino's copies reconcile with gold.
THEOREM EnginesAnswerAlike == StoresSpec => []EnginesAgree
<1>1. StoresInv => EnginesAgree
  BY AnswersKept, CopiesReconciled DEF EnginesAgree
<1>. QED
  BY <1>1, StoresStart, StoresKeep, PTL DEF StoresSpec

-----------------------------------------------------------------------------
(* The monitor and the agent: what their variables hold                    *)

USE MonitorAssumption, AgentAssumption

Snapshots == [operation : {"append", "overwrite", "replace", "delete"},
              added : Nat, deleted : Nat, total : Nat, id : Nat]
Results == [day : LogicalDays, metric : Nat \cup {None}, status : Statuses]
Alerts == [day : LogicalDays, key : OtherAlerts \cup {"warn", "breach"}, delivered : BOOLEAN]

\* What is persisted has its type; a run that has yet to route is the last one.
MonitorTypes ==
  /\ snapshots \in Seq(Snapshots) /\ committed \in Nat
  /\ day \in LogicalDays
  /\ results \in Seq(Results)
  /\ alertLog \in Seq(Alerts)
  /\ routing # << >> => results # << >> /\ routing = <<results[Len(results)]>>

Keys == Drifts \cup {"volume", "row_count"}
Severities == {"additive", "widening", "benign", "enum_drift", "renaming", "breaking"}
Findings == [key : Keys, severity : Severities]
Runs == [day : LogicalDays, next : {"monitor", "log", "act"}, findings : SUBSET Findings]
RunRows == [day : LogicalDays, count : Nat, actioned : Nat]
FindingRows == [day : LogicalDays, key : Keys, severity : Severities]
Raised == [day : LogicalDays, findings : SUBSET Findings, metric : Nat, results : Nat,
           ended : BOOLEAN]

AgentTypes ==
  /\ drift \subseteq Findings
  /\ agent # << >> => agent \in Seq(Runs) /\ Len(agent) = 1
  /\ agentRuns \in Seq(RunRows)
  /\ findingLog \in Seq(FindingRows)
  /\ raised \in Seq(Raised)

-----------------------------------------------------------------------------
(* The k-th of a set's elements                                            *)

\* The k-th smallest value is there: the least that k values do not exceed.
LEMMA KthFacts ==
  ASSUME NEW D, IsFiniteSet(D), NEW f \in [D -> Nat], NEW k \in 1..Cardinality(D)
  PROVE  /\ Kth(f, k) \in Nat
         /\ k <= Cardinality({i \in D : f[i] <= Kth(f, k)})
<1>. DEFINE UpTo(v) == {i \in D : f[i] <= v}
            Below(v) == {i \in D : f[i] < v}
            V == {v \in {f[i] : i \in D} : k <= Cardinality(UpTo(v))}
<1>1. Cardinality(D) \in Nat /\ D # {}
  BY FS_CardinalityType, FS_EmptySet
<1>2. PICK i \in D : \A j \in D : f[j] <= f[i]
  BY <1>1, GreatestValue
<1>3. f[i] \in V
  <2>1. UpTo(f[i]) = D
    BY <1>2
  <2>. QED
    BY <2>1
<1>4. PICK v \in V : \A w \in V : v <= w
  <2>1. V \in SUBSET Nat /\ V # {}
    BY <1>3
  <2>. HIDE DEF V
  <2>. QED
    BY <2>1, LeastOfNats
<1>5. v \in Nat
  OBVIOUS
<1>6. Cardinality(Below(v)) < k
  <2>1. IsFiniteSet(Below(v)) /\ Cardinality(Below(v)) \in Nat
    BY FS_Subset, FS_CardinalityType
  <2>. SUFFICES ASSUME k <= Cardinality(Below(v)) PROVE FALSE
    BY <1>1, <2>1
  <2>2. Below(v) # {}
    BY <1>1, FS_EmptySet
  <2>. DEFINE g == [j \in Below(v) |-> f[j]]
  <2>3. PICK j \in Below(v) : \A l \in Below(v) : g[l] <= g[j]
    <3>1. g \in [Below(v) -> Nat]
      OBVIOUS
    <3>. HIDE DEF g, Below
    <3>. QED
      BY <2>1, <2>2, <3>1, GreatestValue
  <2>4. \A l \in Below(v) : f[l] <= f[j]
    BY <2>3
  <2>5. UpTo(f[j]) = Below(v)
    BY <1>5, <2>4
  <2>6. f[j] \in V /\ f[j] < v
    BY <2>5
  <2>. QED
    BY <1>4, <1>5, <2>6
<1>7. \E x \in {f[l] : l \in DOMAIN f} :
        /\ Cardinality({l \in DOMAIN f : f[l] < x}) < k
        /\ k <= Cardinality({l \in DOMAIN f : f[l] <= x})
  <2>1. DOMAIN f = D
    OBVIOUS
  <2>. QED
    BY <1>6, <2>1
<1>8. /\ Kth(f, k) \in {f[l] : l \in DOMAIN f}
      /\ k <= Cardinality({l \in DOMAIN f : f[l] <= Kth(f, k)})
  BY <1>7 DEF Kth
<1>. QED
  BY <1>8

-----------------------------------------------------------------------------
(* Types                                                                   *)

LEMMA TotalType == ASSUME MonitorTypes PROVE Total \in Nat
<1>1. snapshots \in Seq(Snapshots)
  BY DEF MonitorTypes
<1>2. snapshots # << >> => snapshots[Len(snapshots)] \in Snapshots
  BY <1>1, EmptySeq, ElementOfSeq
<1>. QED
  BY <1>2 DEF Total, Last, Snapshots

LEMMA LogicalDay == ASSUME MonitorTypes PROVE AsOf \subseteq LogicalDays
  BY DEF MonitorTypes, AsOf, LogicalDays

\* What a commit adds to the table.
LEMMA CommitFacts ==
  ASSUME MonitorTypes, NEW operation \in {"append", "overwrite", "replace", "delete"},
         NEW added \in Nat, NEW deleted \in Nat, deleted <= Total,
         Commit(operation, added, deleted)
  PROVE  \E s \in Snapshots :
           /\ snapshots' = Append(snapshots, s)
           /\ s.operation = operation /\ s.added = added /\ s.deleted = deleted
           /\ s.total = Total + added - deleted /\ s.id = committed'
           /\ committed' = committed + 1 /\ committed' \in Nat
<1>1. Total \in Nat /\ committed \in Nat
  BY TotalType DEF MonitorTypes
<1>. DEFINE s == [operation |-> operation, added |-> added, deleted |-> deleted,
                  total |-> Total + added - deleted, id |-> committed + 1]
<1>2. Total + added - deleted \in Nat
  BY <1>1
<1>. HIDE DEF Total
<1>3. s \in Snapshots
  BY <1>1, <1>2 DEF Snapshots
<1>. QED
  BY <1>1, <1>3 DEF Commit

\* What is measured is of the newest snapshot that is no rebuild.
LEMMA LatestFacts ==
  ASSUME MonitorTypes
  PROVE  /\ LatestIncrement \in Nat
         /\ \A i \in DOMAIN snapshots :
              /\ ~IsFullRebuild(i)
              /\ \A j \in DOMAIN snapshots : j > i => IsFullRebuild(j)
              => LatestIncrement = snapshots[i].added
<1>. DEFINE incremental == {i \in DOMAIN snapshots : ~IsFullRebuild(i)}
            newest == CHOOSE i \in incremental : \A j \in incremental : j <= i
<1>1. snapshots \in Seq(Snapshots)
  BY DEF MonitorTypes
<1>2. CASE incremental = {}
  BY <1>2 DEF LatestIncrement
<1>3. CASE incremental # {}
  <2>1. incremental \in SUBSET (1..Len(snapshots)) /\ Len(snapshots) \in Nat
    BY <1>1
  <2>2. IsFiniteSet(incremental)
    <3>1. IsFiniteSet(1..Len(snapshots))
      BY <2>1, IntervalSize
    <3>. QED
      BY <2>1, <3>1, FS_Subset
  <2>. DEFINE f == [i \in incremental |-> i]
  <2>3. \E i \in incremental : \A j \in incremental : j <= i
    <3>1. f \in [incremental -> Nat]
      BY <2>1
    <3>. HIDE DEF f, incremental
    <3>2. PICK i \in incremental : \A j \in incremental : f[j] <= f[i]
      BY <1>3, <2>2, <3>1, GreatestValue
    <3>. QED
      BY <3>2 DEF f
  <2>4. newest \in incremental /\ \A j \in incremental : j <= newest
    BY <2>3
  <2>5. LatestIncrement = snapshots[newest].added
    BY <1>3 DEF LatestIncrement
  <2>6. LatestIncrement \in Nat
    <3>. HIDE DEF newest
    <3>1. snapshots[newest] \in Snapshots
      BY <1>1, <2>1, <2>4, ElementOfSeq
    <3>. QED
      BY <2>5, <3>1 DEF Snapshots
  <2>7. ASSUME NEW i \in incremental, \A j \in DOMAIN snapshots : j > i => IsFullRebuild(j)
        PROVE  newest = i
    BY <1>1, <2>4, <2>7
  <2>. HIDE DEF newest
  <2>. QED
    BY <2>5, <2>6, <2>7
<1>. QED
  BY <1>2, <1>3

LEMMA MeasureFacts ==
  ASSUME MonitorTypes, Measure
  PROVE  /\ routing = << >>
         /\ \E r \in Results :
              /\ results' = Append(results, r) /\ routing' = <<r>>
              /\ r.metric # None =>
                   \E baseline \in Baselines :
                     /\ r.metric = LatestIncrement
                     /\ r.status = Verdict(LatestIncrement, baseline)
         /\ UNCHANGED <<lake, alertLog, truth, died>>
<1>1. LatestIncrement \in Nat /\ AsOf \subseteq LogicalDays
  BY LatestFacts, LogicalDay
<1>2. PICK d \in AsOf, baseline \in Baselines, broken \in BOOLEAN :
        LET r == [day |-> d, metric |-> IF broken THEN None ELSE LatestIncrement,
                  status |-> IF broken THEN "breach" ELSE Verdict(LatestIncrement, baseline)]
        IN  results' = Append(results, r) /\ routing' = <<r>>
  BY DEF Measure
<1>. DEFINE r == [day |-> d, metric |-> IF broken THEN None ELSE LatestIncrement,
                  status |-> IF broken THEN "breach" ELSE Verdict(LatestIncrement, baseline)]
<1>3. Verdict(LatestIncrement, baseline) \in Statuses
  BY DEF Verdict, Statuses
<1>4. r \in Results
  BY <1>1, <1>3 DEF Results, Statuses
<1>5. r.metric # None => r.metric = LatestIncrement /\ r.status = Verdict(LatestIncrement, baseline)
  OBVIOUS
<1>6. results' = Append(results, r) /\ routing' = <<r>>
  BY <1>2
<1>. HIDE DEF r
<1>. QED
  BY <1>4, <1>5, <1>6 DEF Measure

\* The rows a run adds to the alert log: those of its keys that are not recent,
\* each once.
LEMMA RouteFacts ==
  ASSUME MonitorTypes, NEW others \in SUBSET OtherAlerts, NEW execute \in BOOLEAN,
         Route(others, execute)
  PROVE  /\ routing # << >> /\ routing' = << >> /\ UNCHANGED <<lake, results, truth, died>>
         /\ \E rows \in Seq(Alerts) :
              /\ alertLog' = alertLog \o rows
              /\ \A i \in DOMAIN rows : rows[i].key \notin RecentKeys
              /\ \A i, j \in DOMAIN rows : rows[i].key = rows[j].key => i = j
              /\ results[Len(results)].status \in {"ok"} \cup RecentKeys
                   \/ \E i \in DOMAIN rows : rows[i].key = results[Len(results)].status
<1>1. /\ routing # << >> /\ routing = <<results[Len(results)]>>
      /\ results[Len(results)] \in Results
  BY EmptySeq, ElementOfSeq DEF MonitorTypes, Route
<1>. DEFINE result == routing[1]
            keys == (others \cup {result.status}) \ {"ok"}
            row(k) == [day |-> result.day, key |-> k, delivered |-> execute]
            fresh == SetToSeq(keys \ RecentKeys)
            rows == [i \in DOMAIN fresh |-> row(fresh[i])]
<1>2. result = results[Len(results)] /\ result.day \in LogicalDays /\ result.status \in Statuses
  BY <1>1 DEF Results
<1>3. IsFiniteSet(keys \ RecentKeys)
  BY FS_Subset, FS_AddElement, FS_Difference
<1>4. keys \subseteq OtherAlerts \cup {"warn", "breach"}
  BY <1>2 DEF Statuses
<1>5. alertLog' = alertLog \o rows
  BY DEF Route
<1>. HIDE DEF result, keys
<1>6. /\ fresh \in Seq(keys \ RecentKeys)
      /\ \A k \in keys \ RecentKeys : \E i \in DOMAIN fresh : fresh[i] = k
      /\ \A i, j \in DOMAIN fresh : fresh[i] = fresh[j] => i = j
  BY <1>3, ListedOnce
<1>. HIDE DEF fresh
<1>7. DOMAIN fresh = 1..Len(fresh) /\ \A i \in DOMAIN fresh : fresh[i] \in keys \ RecentKeys
  BY <1>6, LenProperties
<1>8. rows \in Seq(Alerts)
  <2>1. \A i \in DOMAIN fresh : row(fresh[i]) \in Alerts
    BY <1>2, <1>4, <1>7 DEF Alerts
  <2>2. Len(fresh) \in Nat /\ rows \in [1..Len(fresh) -> Alerts]
    BY <1>6, <1>7, <2>1, LenProperties
  <2>. QED
    BY <2>2
<1>9. DOMAIN rows = DOMAIN fresh /\ \A i \in DOMAIN fresh : rows[i].key = fresh[i]
  OBVIOUS
<1>10. result.status # "ok" => result.status \in keys
  BY DEF keys
<1>. HIDE DEF rows
<1>11. \/ result.status \in {"ok"} \cup RecentKeys
       \/ \E i \in DOMAIN rows : rows[i].key = result.status
  BY <1>6, <1>9, <1>10
<1>12. routing # << >> /\ routing' = << >> /\ UNCHANGED <<lake, results, truth, died>>
  BY DEF Route
<1>13. \A i \in DOMAIN rows : rows[i].key \notin RecentKeys
  BY <1>7, <1>9
<1>14. \A i, j \in DOMAIN rows : rows[i].key = rows[j].key => i = j
  BY <1>6, <1>9
<1>15. \/ results[Len(results)].status \in {"ok"} \cup RecentKeys
       \/ \E i \in DOMAIN rows : rows[i].key = results[Len(results)].status
  BY <1>2, <1>11
<1>. HIDE DEF RecentKeys
<1>. QED
  BY <1>5, <1>8, <1>12, <1>13, <1>14, <1>15

\* What the monitor does to the table, and to nothing else.
LEMMA TableTypes ==
  ASSUME MonitorTypes,
         \/ \E n \in BatchSizes : (\E later \in 0..1 : Ingest(n, later)) \/ Refill(n)
         \/ Rewrite \/ DeleteRows \/ Expire
  PROVE  MonitorTypes'
<1>1. Total \in Nat /\ snapshots \in Seq(Snapshots) /\ committed \in Nat
  BY TotalType DEF MonitorTypes
<1>2. UNCHANGED logs
  BY DEF Ingest, Refill, Rewrite, DeleteRows, Expire, truth
<1>3. day' \in LogicalDays
  BY DEF Ingest, Refill, Rewrite, DeleteRows, Expire, MonitorTypes, LogicalDays
<1>. HIDE DEF Total
<1>4. snapshots' \in Seq(Snapshots) /\ committed' \in Nat
  <2>1. CASE Expire
    <3>1. snapshots # << >>
      BY <2>1, <1>1, EmptySeq DEF Expire
    <3>. QED
      BY <2>1, <1>1, <3>1, HeadTailProperties DEF Expire
  <2>2. ASSUME NEW operation \in {"append", "overwrite", "replace", "delete"},
               NEW added \in Nat, NEW deleted \in Nat, deleted <= Total,
               Commit(operation, added, deleted)
        PROVE  snapshots' \in Seq(Snapshots) /\ committed' \in Nat
    <3>1. PICK s \in Snapshots : snapshots' = Append(snapshots, s) /\ committed' \in Nat
      BY <2>2, CommitFacts
    <3>. QED
      BY <3>1, <1>1, AppendProperties
  <2>3. CASE \E n \in BatchSizes : (\E later \in 0..1 : Ingest(n, later)) \/ Refill(n)
    BY <2>2, <2>3, <1>1 DEF Ingest, Refill
  <2>4. CASE Rewrite
    BY <2>2, <2>4, <1>1 DEF Rewrite
  <2>5. CASE DeleteRows
    BY <2>2, <2>5, <1>1 DEF DeleteRows
  <2>. QED
    BY <2>1, <2>3, <2>4, <2>5
<1>. QED
  BY <1>2, <1>3, <1>4 DEF MonitorTypes, logs

LEMMA NextMonitorTypes == MonitorTypes /\ [Next]_vars => MonitorTypes'
<1>. SUFFICES ASSUME MonitorTypes, [Next]_vars PROVE MonitorTypes'
  OBVIOUS
<1>1. CASE \/ \E n \in BatchSizes : (\E later \in 0..1 : Ingest(n, later)) \/ Refill(n)
           \/ Rewrite \/ DeleteRows \/ Expire
  BY <1>1, TableTypes
<1>2. CASE Measure
  <2>1. PICK r \in Results : results' = Append(results, r) /\ routing' = <<r>>
    BY <1>2, MeasureFacts
  <2>2. results \in Seq(Results)
    BY DEF MonitorTypes
  <2>3. /\ results' \in Seq(Results) /\ results' # << >>
        /\ results'[Len(results')] = r
    BY <2>1, <2>2, AppendProperties, LenProperties
  <2>4. UNCHANGED <<lake, alertLog>>
    BY <1>2 DEF Measure
  <2>. QED
    BY <2>1, <2>3, <2>4 DEF MonitorTypes, lake
<1>3. ASSUME NEW others \in SUBSET OtherAlerts, NEW execute \in BOOLEAN, Route(others, execute)
      PROVE  MonitorTypes'
  <2>1. PICK rows \in Seq(Alerts) : alertLog' = alertLog \o rows
    BY <1>3, RouteFacts
  <2>2. alertLog' \in Seq(Alerts)
    BY <2>1, ConcatProperties DEF MonitorTypes
  <2>3. UNCHANGED <<lake, results>> /\ routing' = << >>
    BY <1>3 DEF Route
  <2>. QED
    BY <2>2, <2>3 DEF MonitorTypes, lake
<1>4. CASE DieBeforeRouting
  BY <1>4 DEF DieBeforeRouting, MonitorTypes, lake
<1>5. CASE UNCHANGED monitorVars
  BY <1>5 DEF monitorVars, lake, logs, MonitorTypes
<1>6. CASE Evolve \/ (\E d \in AsOf : Sense(d)) \/ Judge \/ LogFindings \/ Act \/ Die
  BY <1>5, <1>6 DEF Evolve, Sense, Judge, LogFindings, Act, Die
<1>. QED
  BY <1>1, <1>2, <1>3, <1>4, <1>5, <1>6 DEF Next, MonitorNext, vars

LEMMA InitTypes == Init => MonitorTypes /\ AgentTypes
<1>1. Init => MonitorTypes
  BY DEF Init, MonitorInit, MonitorTypes, LogicalDays
<1>2. Init => AgentTypes
  BY DEF Init, AgentTypes
<1>. QED
  BY <1>1, <1>2

-----------------------------------------------------------------------------
(* The newest batch.  Snapshots are numbered as they are committed; while  *)
(* the batch's own is retained and no rows were deleted, every snapshot    *)
(* after it is a rebuild.                                                  *)

BatchInv ==
  /\ Len(snapshots) <= committed
  /\ \A i \in DOMAIN snapshots : snapshots[i].id = committed - Len(snapshots) + i
  /\ batch \in 0..committed
  /\ ~reduced => \A i \in DOMAIN snapshots : snapshots[i].id = batch =>
       /\ snapshots[i].operation = "append"
       /\ \A j \in DOMAIN snapshots : j > i => IsFullRebuild(j)

LEMMA BatchMeasured == MonitorTypes /\ BatchInv => MeasuresTheBatch
<1>. SUFFICES ASSUME MonitorTypes, BatchInv, NEW i \in DOMAIN snapshots,
                     snapshots[i].id = batch, ~reduced
              PROVE  \/ LatestIncrement = snapshots[i].added
                     \/ i > 1 /\ Empties(snapshots[i - 1])
  BY DEF MeasuresTheBatch
<1>1. snapshots[i].operation = "append" /\ \A j \in DOMAIN snapshots : j > i => IsFullRebuild(j)
  BY DEF BatchInv
<1>2. CASE IsFullRebuild(i)
  BY <1>1, <1>2 DEF IsFullRebuild, Empties
<1>3. CASE ~IsFullRebuild(i)
  BY <1>1, <1>3, LatestFacts
<1>. QED
  BY <1>2, <1>3

LEMMA AppendedSnapshot ==
  ASSUME MonitorTypes, NEW s \in Snapshots, snapshots' = Append(snapshots, s)
  PROVE  /\ Len(snapshots') = Len(snapshots) + 1 /\ Len(snapshots) \in Nat
         /\ DOMAIN snapshots = 1..Len(snapshots)
         /\ DOMAIN snapshots' = 1..Len(snapshots) + 1
         /\ snapshots'[Len(snapshots) + 1] = s
         /\ \A j \in 1..Len(snapshots) : /\ snapshots'[j] = snapshots[j]
                                         /\ IsFullRebuild(j)' <=> IsFullRebuild(j)
<1>1. snapshots \in Seq(Snapshots)
  BY DEF MonitorTypes
<1>2. /\ Len(snapshots') = Len(snapshots) + 1 /\ Len(snapshots) \in Nat
      /\ DOMAIN snapshots = 1..Len(snapshots)
      /\ DOMAIN snapshots' = 1..Len(snapshots) + 1
      /\ snapshots'[Len(snapshots) + 1] = s
      /\ \A j \in 1..Len(snapshots) : snapshots'[j] = snapshots[j]
  BY <1>1, AppendProperties, LenProperties
<1>3. ASSUME NEW j \in 1..Len(snapshots)
      PROVE  IsFullRebuild(j)' <=> IsFullRebuild(j)
  <2>1. snapshots'[j] = snapshots[j] /\ (j > 1 => snapshots'[j - 1] = snapshots[j - 1])
    BY <1>2
  <2>. QED
    BY <2>1 DEF IsFullRebuild
<1>. QED
  BY <1>2, <1>3

\* A commit that is no batch is a rebuild, whatever it follows.
LEMMA CommitBatch ==
  ASSUME MonitorTypes, BatchInv, NEW s \in Snapshots, snapshots' = Append(snapshots, s),
         s.id = committed', committed' = committed + 1, batch' = batch,
         NEW n, n = Len(snapshots), ~reduced' => ~reduced /\ IsFullRebuild(n + 1)'
  PROVE  BatchInv'
<1>1. /\ Len(snapshots') = n + 1 /\ n \in Nat
      /\ DOMAIN snapshots = 1..n /\ DOMAIN snapshots' = 1..n + 1
      /\ snapshots'[n + 1] = s
      /\ \A j \in 1..n : /\ snapshots'[j] = snapshots[j]
                         /\ IsFullRebuild(j)' <=> IsFullRebuild(j)
  BY AppendedSnapshot
<1>2. committed \in Nat /\ batch \in 0..committed /\ n <= committed
  BY DEF MonitorTypes, BatchInv
<1>3. \A i \in 1..n : snapshots[i].id = committed - n + i
  BY <1>1 DEF BatchInv
<1>4. \A i \in DOMAIN snapshots' : snapshots'[i].id = committed' - Len(snapshots') + i
  <2>. TAKE i \in DOMAIN snapshots'
  <2>1. CASE i = n + 1
    BY <2>1, <1>1, <1>2
  <2>2. CASE i \in 1..n
    BY <2>2, <1>1, <1>2, <1>3
  <2>. QED
    BY <2>1, <2>2, <1>1
<1>5. ASSUME ~reduced', NEW i \in DOMAIN snapshots', snapshots'[i].id = batch'
      PROVE  /\ snapshots'[i].operation = "append"
             /\ \A j \in DOMAIN snapshots' : j > i => IsFullRebuild(j)'
  <2>1. i # n + 1
    BY <1>1, <1>2, <1>5
  <2>2. i \in 1..n /\ snapshots[i].id = batch /\ ~reduced
    BY <1>1, <1>5, <2>1
  <2>3. /\ snapshots[i].operation = "append"
        /\ \A j \in DOMAIN snapshots : j > i => IsFullRebuild(j)
    BY <1>1, <2>2 DEF BatchInv
  <2>4. IsFullRebuild(n + 1)'
    BY <1>5
  <2>. QED
    BY <1>1, <2>2, <2>3, <2>4
<1>. QED
  BY <1>1, <1>2, <1>4, <1>5 DEF BatchInv


LEMMA IngestBatch ==
  ASSUME MonitorTypes, BatchInv, NEW n \in BatchSizes, NEW later \in 0..1, Ingest(n, later)
  PROVE  BatchInv'
<1>. DEFINE len == Len(snapshots)
<1>1. Commit("append", n, 0) /\ batch' = committed' /\ n \in Nat
  BY DEF Ingest
<1>2. PICK s \in Snapshots :
        /\ snapshots' = Append(snapshots, s)
        /\ s.operation = "append" /\ s.id = committed'
        /\ committed' = committed + 1 /\ committed' \in Nat
  BY <1>1, CommitFacts, TotalType
<1>3. /\ Len(snapshots') = len + 1 /\ len \in Nat
      /\ DOMAIN snapshots = 1..len /\ DOMAIN snapshots' = 1..len + 1
      /\ snapshots'[len + 1] = s
      /\ \A j \in 1..len : snapshots'[j] = snapshots[j]
  BY <1>2, AppendedSnapshot
<1>4. committed \in Nat /\ len <= committed /\ \A i \in 1..len : snapshots[i].id = committed - len + i
  BY <1>3 DEF MonitorTypes, BatchInv
<1>. HIDE DEF len
<1>5. \A i \in DOMAIN snapshots' : snapshots'[i].id = committed' - Len(snapshots') + i
  <2>. TAKE i \in DOMAIN snapshots'
  <2>1. CASE i = len + 1
    BY <2>1, <1>2, <1>3, <1>4
  <2>2. CASE i \in 1..len
    BY <2>2, <1>2, <1>3, <1>4
  <2>. QED
    BY <2>1, <2>2, <1>3
<1>6. \A i \in DOMAIN snapshots' : snapshots'[i].id = batch' => i = len + 1
  BY <1>1, <1>2, <1>3, <1>4, <1>5
<1>7. Len(snapshots') <= committed'
  BY <1>2, <1>3, <1>4
<1>. QED
  BY <1>1, <1>2, <1>3, <1>5, <1>6, <1>7 DEF BatchInv

LEMMA RebuildBatch ==
  ASSUME MonitorTypes, BatchInv,
         (\E n \in BatchSizes : Refill(n)) \/ Rewrite \/ DeleteRows
  PROVE  BatchInv'
<1>1. Total \in Nat
  BY TotalType
<1>2. PICK len : len = Len(snapshots)
  OBVIOUS
<1>3. len \in Nat
  BY <1>2, LenProperties DEF MonitorTypes
<1>4. CASE \E n \in BatchSizes : Refill(n)
  <2>1. PICK n \in BatchSizes : Refill(n)
    BY <1>4
  <2>2. PICK s \in Snapshots : /\ snapshots' = Append(snapshots, s)
                               /\ s.operation = "append" /\ s.id = committed'
                               /\ committed' = committed + 1
    BY <1>1, <2>1, CommitFacts DEF Refill
  <2>3. len > 0 /\ Empties(snapshots[len])
    BY <1>2, <1>3, <2>1, EmptySeq DEF Refill, Last, MonitorTypes
  <2>4. snapshots'[len + 1] = s /\ snapshots'[len] = snapshots[len] /\ (len + 1) - 1 = len
    BY <1>2, <1>3, <2>2, <2>3, AppendedSnapshot
  <2>5. IsFullRebuild(len + 1)'
    <3>1. len + 1 > 1 /\ Empties(snapshots'[(len + 1) - 1])
      BY <1>3, <2>3, <2>4
    <3>2. snapshots'[len + 1].operation = "append"
      BY <2>2, <2>4
    <3>. QED
      BY <3>1, <3>2 DEF IsFullRebuild
  <2>6. batch' = batch /\ reduced' = reduced
    BY <2>1 DEF Refill, truth
  <2>. QED
    BY <1>2, <2>2, <2>5, <2>6, CommitBatch
<1>5. CASE Rewrite
  <2>. HIDE DEF Total
  <2>1. /\ Total > 0 /\ batch' = batch /\ reduced' = reduced
        /\ \/ Commit("overwrite", Total, Total)
           \/ Commit("replace", Total, Total)
           \/ Commit("delete", 0, Total)
    BY <1>5 DEF Rewrite, truth
  <2>2. PICK s \in Snapshots :
          /\ snapshots' = Append(snapshots, s)
          /\ s.id = committed' /\ committed' = committed + 1
          /\ \/ s.operation \in {"overwrite", "replace"}
             \/ s.operation = "delete" /\ s.deleted = Total /\ s.total = Total + 0 - Total
    BY <1>1, <2>1, CommitFacts
  <2>3. s.operation \in {"overwrite", "replace"} \/ Empties(s)
    BY <1>1, <2>1, <2>2 DEF Empties
  <2>4. snapshots'[len + 1] = s
    BY <1>2, <2>2, AppendedSnapshot
  <2>5. IsFullRebuild(len + 1)'
    BY <2>3, <2>4 DEF IsFullRebuild
  <2>. QED
    BY <1>2, <2>1, <2>2, <2>5, CommitBatch
<1>6. CASE DeleteRows
  <2>. HIDE DEF Total
  <2>1. Total > 1 /\ Commit("delete", 0, 1) /\ reduced' = TRUE /\ batch' = batch
    BY <1>6 DEF DeleteRows
  <2>2. PICK s \in Snapshots : /\ snapshots' = Append(snapshots, s)
                               /\ s.id = committed' /\ committed' = committed + 1
    BY <1>1, <2>1, CommitFacts
  <2>. QED
    BY <1>2, <2>1, <2>2, CommitBatch
<1>. QED
  BY <1>4, <1>5, <1>6

LEMMA ExpireBatch == ASSUME MonitorTypes, BatchInv, Expire PROVE BatchInv'
<1>. DEFINE len == Len(snapshots)
<1>1. snapshots \in Seq(Snapshots) /\ len \in Nat /\ DOMAIN snapshots = 1..len
  BY LenProperties DEF MonitorTypes
<1>2. snapshots # << >> /\ len > 0 /\ snapshots' = Tail(snapshots) /\ UNCHANGED <<committed, truth>>
  BY <1>1, EmptySeq DEF Expire
<1>3. /\ snapshots' \in Seq(Snapshots) /\ Len(snapshots') = len - 1
      /\ DOMAIN snapshots' = 1..len - 1
      /\ \A i \in 1..len - 1 : snapshots'[i] = snapshots[i + 1]
  BY <1>1, <1>2, HeadTailProperties, LenProperties
<1>4. committed \in Nat /\ len <= committed /\ \A i \in 1..len : snapshots[i].id = committed - len + i
  BY <1>1 DEF MonitorTypes, BatchInv
<1>. HIDE DEF len
<1>5. \A i \in DOMAIN snapshots' : snapshots'[i].id = committed' - Len(snapshots') + i
  <2>. TAKE i \in DOMAIN snapshots'
  <2>1. i \in 1..len - 1 /\ i + 1 \in 1..len
    BY <1>1, <1>3
  <2>2. snapshots'[i].id = committed - len + (i + 1)
    BY <1>3, <1>4, <2>1
  <2>. QED
    BY <1>1, <1>2, <1>3, <1>4, <2>1, <2>2
<1>6. \A j \in 1..len - 1 : j > 1 => (IsFullRebuild(j)' <=> IsFullRebuild(j + 1))
  <2>. SUFFICES ASSUME NEW j \in 1..len - 1, j > 1
                PROVE  IsFullRebuild(j)' <=> IsFullRebuild(j + 1)
    OBVIOUS
  <2>1. snapshots'[j] = snapshots[j + 1] /\ snapshots'[j - 1] = snapshots[(j + 1) - 1]
    BY <1>1, <1>3
  <2>. QED
    BY <1>1, <2>1 DEF IsFullRebuild
<1>7. ASSUME ~reduced', NEW i \in DOMAIN snapshots', snapshots'[i].id = batch'
      PROVE  /\ snapshots'[i].operation = "append"
             /\ \A j \in DOMAIN snapshots' : j > i => IsFullRebuild(j)'
  <2>1. i + 1 \in DOMAIN snapshots /\ snapshots[i + 1].id = batch /\ ~reduced
    BY <1>1, <1>2, <1>3, <1>7 DEF truth
  <2>2. /\ snapshots[i + 1].operation = "append"
        /\ \A j \in DOMAIN snapshots : j > i + 1 => IsFullRebuild(j)
    BY <2>1 DEF BatchInv
  <2>3. ASSUME NEW j \in DOMAIN snapshots', j > i PROVE IsFullRebuild(j)'
    <3>1. j > 1 /\ j + 1 \in DOMAIN snapshots /\ j + 1 > i + 1 /\ j \in 1..len - 1
      BY <1>1, <1>3, <2>3
    <3>. QED
      BY <1>6, <2>2, <3>1
  <2>. QED
    BY <1>3, <2>2, <2>3
<1>8. batch' \in 0..committed' /\ Len(snapshots') <= committed'
  BY <1>1, <1>2, <1>3, <1>4 DEF BatchInv, truth
<1>. QED
  BY <1>5, <1>7, <1>8 DEF BatchInv

LEMMA NextBatch == MonitorTypes /\ BatchInv /\ [Next]_vars => BatchInv'
<1>. SUFFICES ASSUME MonitorTypes, BatchInv, [Next]_vars PROVE BatchInv'
  OBVIOUS
<1>1. CASE UNCHANGED <<snapshots, committed, batch, reduced>>
  <2>1. \A i \in DOMAIN snapshots : IsFullRebuild(i)' <=> IsFullRebuild(i)
    BY <1>1 DEF IsFullRebuild
  <2>. QED
    BY <1>1, <2>1 DEF BatchInv
<1>2. CASE Measure \/ DieBeforeRouting \/ \E others \in SUBSET OtherAlerts, execute \in BOOLEAN :
                                            Route(others, execute)
  BY <1>1, <1>2 DEF Measure, DieBeforeRouting, Route, lake, truth
<1>3. CASE Evolve \/ (\E d \in AsOf : Sense(d)) \/ Judge \/ LogFindings \/ Act \/ Die \/ UNCHANGED vars
  BY <1>1, <1>3 DEF Evolve, Sense, Judge, LogFindings, Act, Die, vars, monitorVars, lake, truth
<1>. QED
  BY <1>2, <1>3, IngestBatch, RebuildBatch, ExpireBatch DEF Next, MonitorNext

\* While the snapshot of the newest batch is retained and no rows were deleted
\* from it, the monitor measures its rows, whatever rebuilds, compactions and
\* expiries were committed since.
THEOREM BatchIsMeasured == Spec => []MeasuresTheBatch
<1>1. Init => BatchInv
  BY DEF Init, MonitorInit, BatchInv
<1>2. Init => MonitorTypes
  BY InitTypes
<1>. QED
  BY <1>1, <1>2, NextMonitorTypes, NextBatch, BatchMeasured, PTL DEF Spec


-----------------------------------------------------------------------------
(* The agent's types                                                       *)

LEMMA FindingsFinite == IsFiniteSet(Findings)
<1>1. IsFiniteSet(Keys)
  <2>1. Keys \subseteq (({"added"} \cup {"renamed"}) \cup ({"dropped"} \cup {"type_changed"}))
                         \cup (({"enum_drift"} \cup {"volume"}) \cup {"row_count"})
    BY DEF Keys
  <2>2. IsFiniteSet((({"added"} \cup {"renamed"}) \cup ({"dropped"} \cup {"type_changed"}))
                      \cup (({"enum_drift"} \cup {"volume"}) \cup {"row_count"}))
    BY FS_Singleton, FS_Union
  <2>. QED
    BY <2>1, <2>2, FS_Subset
<1>2. IsFiniteSet(Severities)
  <2>1. Severities = (({"additive"} \cup {"widening"}) \cup ({"benign"} \cup {"enum_drift"}))
                       \cup ({"renaming"} \cup {"breaking"})
    BY DEF Severities
  <2>2. IsFiniteSet((({"additive"} \cup {"widening"}) \cup ({"benign"} \cup {"enum_drift"}))
                      \cup ({"renaming"} \cup {"breaking"}))
    BY FS_Singleton, FS_Union
  <2>. QED
    BY <2>1, <2>2
<1>. DEFINE pairs == Keys \X Severities
            finding == [p \in pairs |-> [key |-> p[1], severity |-> p[2]]]
<1>3. IsFiniteSet(pairs)
  BY <1>1, <1>2, FS_Product
<1>4. finding \in Surjection(pairs, Findings)
  <2>1. \A p \in pairs : finding[p] \in Findings
    BY DEF Findings
  <2>2. ASSUME NEW f \in Findings
        PROVE  \E p \in pairs : finding[p] = f
    <3>1. f.key \in Keys /\ f.severity \in Severities
          /\ f = [key |-> f.key, severity |-> f.severity]
      BY DEF Findings
    <3>2. <<f.key, f.severity>> \in pairs
      BY <3>1
    <3>3. finding[<<f.key, f.severity>>] = f
      BY <3>1, <3>2
    <3>. QED
      BY <3>2, <3>3
  <2>. HIDE DEF pairs
  <2>3. finding \in [pairs -> Findings]
    BY <2>1
  <2>. HIDE DEF finding
  <2>. QED
    BY <2>2, <2>3 DEF Surjection
<1>. HIDE DEF pairs, finding
<1>. QED
  BY <1>3, <1>4, FS_Surjection

LEMMA SomeFindings ==
  ASSUME NEW found \in SUBSET Findings
  PROVE  /\ IsFiniteSet(found) /\ Cardinality(found) \in Nat
         /\ Cardinality(ToAct(found)) \in Nat
<1>1. ToAct(found) \subseteq Findings
  BY DEF ToAct
<1>. QED
  BY <1>1, FindingsFinite, FS_Subset, FS_CardinalityType

\* A judgement adds one row to the log of runs and one to the history; the day
\* and what is found so far are those of the run.
LEMMA JudgeFacts ==
  ASSUME MonitorTypes, AgentTypes, Judge
  PROVE  \E baseline \in Baselines, found \in SUBSET Findings :
           LET entry == [day |-> agent[1].day, findings |-> found, metric |-> LatestIncrement,
                         results |-> Len(results), ended |-> FALSE]
           IN  /\ agent # << >> /\ agent[1] \in Runs
               /\ Verdict(LatestIncrement, baseline) = "breach" => Breach \in found
               /\ agent' = <<[agent[1] EXCEPT !.findings = found, !.next = "log"]>>
               /\ entry \in Raised /\ raised' = Append(raised, entry)
               /\ agentRuns' = Append(agentRuns, [day |-> agent[1].day,
                                                  count |-> Cardinality(found),
                                                  actioned |-> Cardinality(ToAct(found))])
               /\ UNCHANGED <<monitorVars, drift, findingLog, incidents>>
<1>1. PICK baseline \in Baselines :
        LET breach == Verdict(LatestIncrement, baseline) = "breach"
            found == agent[1].findings \cup IF breach THEN {Breach} ELSE {}
        IN  /\ agent' = <<[agent[1] EXCEPT !.findings = found, !.next = "log"]>>
            /\ agentRuns' = Append(agentRuns, [day |-> agent[1].day,
                                               count |-> Cardinality(found),
                                               actioned |-> Cardinality(ToAct(found))])
            /\ raised' = Append(raised, [day |-> agent[1].day, findings |-> found,
                                         metric |-> LatestIncrement, results |-> Len(results),
                                         ended |-> FALSE])
  BY DEF Judge
<1>. DEFINE found == agent[1].findings \cup
                     IF Verdict(LatestIncrement, baseline) = "breach" THEN {Breach} ELSE {}
            entry == [day |-> agent[1].day, findings |-> found, metric |-> LatestIncrement,
                      results |-> Len(results), ended |-> FALSE]
<1>2. agent # << >> /\ agent[1] \in Runs
  BY ElementOfSeq DEF Judge, AgentTypes
<1>3. found \in SUBSET Findings
  <2>1. Breach \in Findings
    BY DEF Breach, Findings, Keys, Severities
  <2>. QED
    BY <1>2, <2>1 DEF Runs
<1>4. LatestIncrement \in Nat /\ Len(results) \in Nat
  BY LatestFacts, LenProperties DEF MonitorTypes
<1>5. entry \in Raised
  BY <1>2, <1>3, <1>4 DEF Raised, Runs
<1>6. Verdict(LatestIncrement, baseline) = "breach" => Breach \in found
  OBVIOUS
<1>7. /\ agent' = <<[agent[1] EXCEPT !.findings = found, !.next = "log"]>>
      /\ agentRuns' = Append(agentRuns, [day |-> agent[1].day, count |-> Cardinality(found),
                                         actioned |-> Cardinality(ToAct(found))])
      /\ raised' = Append(raised, entry)
  BY <1>1
<1>8. UNCHANGED <<monitorVars, drift, findingLog, incidents>>
  BY DEF Judge
<1>. HIDE DEF found
<1>. QED
  BY <1>2, <1>3, <1>5, <1>6, <1>7, <1>8

\* The row of finding f on day d.
Row(d, f) == [day |-> d, key |-> f.key, severity |-> f.severity]

\* The rows of the log of findings that a run adds: what it found, each once.
LEMMA LogFacts ==
  ASSUME AgentTypes, LogFindings
  PROVE  /\ agent # << >> /\ agent[1] \in Runs /\ agent[1].next = "log"
         /\ agent' = <<[agent[1] EXCEPT !.next = "act"]>>
         /\ \E rows \in Seq(FindingRows) :
              /\ findingLog' = findingLog \o rows
              /\ \A i \in DOMAIN rows :
                   \E f \in agent[1].findings : rows[i] = Row(agent[1].day, f)
              /\ \A f \in agent[1].findings :
                   \E i \in DOMAIN rows : rows[i] = Row(agent[1].day, f)
         /\ UNCHANGED <<monitorVars, drift, agentRuns, incidents, raised>>
<1>1. agent # << >> /\ agent[1] \in Runs /\ agent[1].next = "log"
  BY ElementOfSeq DEF LogFindings, AgentTypes
<1>. DEFINE row(f) == [day |-> agent[1].day, key |-> f.key, severity |-> f.severity]
            found == SetToSeq(agent[1].findings)
            rows == [i \in DOMAIN found |-> row(found[i])]
<1>2. IsFiniteSet(agent[1].findings)
  BY <1>1, SomeFindings DEF Runs
<1>3. /\ found \in Seq(agent[1].findings)
      /\ \A x \in agent[1].findings : \E i \in DOMAIN found : found[i] = x
  BY <1>2, ListedOnce
<1>4. findingLog' = findingLog \o rows
  BY DEF LogFindings
<1>5. /\ agent' = <<[agent[1] EXCEPT !.next = "act"]>>
      /\ UNCHANGED <<monitorVars, drift, agentRuns, incidents, raised>>
  BY DEF LogFindings
<1>. HIDE DEF found
<1>6. DOMAIN found = 1..Len(found) /\ \A i \in DOMAIN found : found[i] \in agent[1].findings
  BY <1>3, LenProperties
<1>7. rows \in Seq(FindingRows)
  <2>1. \A i \in DOMAIN found : row(found[i]) \in FindingRows
    <3>. TAKE i \in DOMAIN found
    <3>1. found[i] \in Findings /\ agent[1].day \in LogicalDays
      BY <1>1, <1>6 DEF Runs
    <3>. QED
      BY <3>1 DEF Findings, FindingRows
  <2>2. Len(found) \in Nat /\ rows \in [1..Len(found) -> FindingRows]
    BY <1>3, <1>6, <2>1, LenProperties
  <2>. QED
    BY <2>2
<1>8. DOMAIN rows = DOMAIN found
      /\ \A i \in DOMAIN found : rows[i] = Row(agent[1].day, found[i])
  BY DEF Row
<1>. HIDE DEF rows
<1>9. \A f \in agent[1].findings : \E i \in DOMAIN rows : rows[i] = Row(agent[1].day, f)
  BY <1>3, <1>8
<1>10. \A i \in DOMAIN rows : \E f \in agent[1].findings : rows[i] = Row(agent[1].day, f)
  BY <1>6, <1>8
<1>. QED
  BY <1>1, <1>4, <1>5, <1>7, <1>9, <1>10


-----------------------------------------------------------------------------
(* The report.  Every row of the log is of a finding some run of its day   *)
(* had, a run that ended has a row of each, and so has an incident file;   *)
(* the run that is about to log or to act is the last in the history.      *)

LoggedIn(log, d, f) == \E j \in DOMAIN log : log[j] = Row(d, f)

ReportInv ==
  /\ \A j \in DOMAIN findingLog : \E i \in DOMAIN raised :
       \E f \in raised[i].findings : findingLog[j] = Row(raised[i].day, f)
  /\ \A i \in DOMAIN raised : raised[i].ended =>
       \A f \in raised[i].findings : LoggedIn(findingLog, raised[i].day, f)
  /\ \A i \in incidents : \E j \in DOMAIN findingLog : findingLog[j] = i
  /\ agent # << >> /\ agent[1].next \in {"log", "act"} =>
       /\ raised # << >>
       /\ raised[Len(raised)].day = agent[1].day
       /\ raised[Len(raised)].findings = agent[1].findings
  /\ agent # << >> /\ agent[1].next = "act" =>
       \A f \in agent[1].findings : LoggedIn(findingLog, agent[1].day, f)

LEMMA OneRun == ASSUME NEW run \in Runs PROVE <<run>> \in Seq(Runs) /\ Len(<<run>>) = 1
  OBVIOUS

\* Only that the run ended is new in the history.
LEMMA ActFacts ==
  ASSUME AgentTypes, ReportInv, Act
  PROVE  /\ raised' \in Seq(Raised) /\ DOMAIN raised' = DOMAIN raised
         /\ \A i \in DOMAIN raised : /\ raised'[i].day = raised[i].day
                                     /\ raised'[i].findings = raised[i].findings
                                     /\ raised'[i].metric = raised[i].metric
                                     /\ raised'[i].results = raised[i].results
                                     /\ raised'[i].ended => raised[i].ended \/ i = Len(raised)
<1>. DEFINE n == Len(raised)
            last == [raised[n] EXCEPT !.ended = TRUE]
<1>1. raised' = [raised EXCEPT ![n] = last]
  BY DEF Act
<1>2. raised \in Seq(Raised) /\ n \in Nat \ {0}
  BY EmptySeq DEF Act, ReportInv, AgentTypes
<1>3. \A i \in DOMAIN raised : raised[i] \in Raised
  BY <1>2, ElementOfSeq
<1>4. DOMAIN raised = 1..n /\ n \in DOMAIN raised
  BY <1>2, LenProperties
<1>5. last \in Raised /\ last.day = raised[n].day /\ last.findings = raised[n].findings
      /\ last.metric = raised[n].metric /\ last.results = raised[n].results
  <2>1. raised[n] \in Raised
    BY <1>3, <1>4
  <2>. QED
    BY <2>1 DEF Raised
<1>. HIDE DEF last
<1>6. raised' \in Seq(Raised) /\ Len(raised') = n
  BY <1>1, <1>2, <1>5, ExceptSeq
<1>7. DOMAIN raised' = DOMAIN raised
  BY <1>1
<1>8. \A i \in DOMAIN raised : raised'[i] = IF i = n THEN last ELSE raised[i]
  BY <1>1
<1>. QED
  BY <1>5, <1>6, <1>7, <1>8

LEMMA NextAgentTypes == MonitorTypes /\ AgentTypes /\ ReportInv /\ [Next]_vars => AgentTypes'
<1>. SUFFICES ASSUME MonitorTypes, AgentTypes, ReportInv, [Next]_vars PROVE AgentTypes'
  OBVIOUS
<1>1. CASE UNCHANGED agentVars
  BY <1>1 DEF agentVars, AgentTypes
<1>2. CASE Evolve
  <2>1. \A key \in Drifts : \A s \in SeveritiesOf(key) : [key |-> key, severity |-> s] \in Findings
    BY DEF SeveritiesOf, Findings, Keys, Severities
  <2>2. drift' \subseteq Findings
    BY <1>2, <2>1 DEF Evolve, AgentTypes
  <2>. QED
    BY <1>2, <2>2 DEF Evolve, AgentTypes
<1>3. ASSUME NEW d \in AsOf, Sense(d)
      PROVE  AgentTypes'
  <2>1. d \in LogicalDays
    BY LogicalDay
  <2>. DEFINE anomaly == [key |-> "volume", severity |-> "breaking"]
              run == [day |-> d, next |-> "monitor",
                      findings |-> drift \cup IF VolumeAnomaly THEN {anomaly} ELSE {}]
  <2>2. run \in Runs
    <3>1. anomaly \in Findings
      BY DEF Findings, Keys, Severities
    <3>. HIDE DEF anomaly
    <3>. QED
      BY <2>1, <3>1 DEF Runs, AgentTypes
  <2>3. agent' = <<run>>
    BY <1>3 DEF Sense
  <2>4. agent' \in Seq(Runs) /\ Len(agent') = 1
    <3>. HIDE DEF run
    <3>. QED
      BY <2>2, <2>3, OneRun
  <2>5. UNCHANGED <<drift, agentRuns, findingLog, raised>>
    BY <1>3 DEF Sense
  <2>. QED
    BY <2>4, <2>5 DEF AgentTypes
<1>4. CASE Judge
  <2>1. PICK found \in SUBSET Findings, entry \in Raised :
          /\ agent[1] \in Runs
          /\ agent' = <<[agent[1] EXCEPT !.findings = found, !.next = "log"]>>
          /\ raised' = Append(raised, entry)
          /\ agentRuns' = Append(agentRuns, [day |-> agent[1].day, count |-> Cardinality(found),
                                             actioned |-> Cardinality(ToAct(found))])
          /\ UNCHANGED <<drift, findingLog>>
    BY <1>4, JudgeFacts
  <2>2. [agent[1] EXCEPT !.findings = found, !.next = "log"] \in Runs
    BY <2>1 DEF Runs
  <2>3. Cardinality(found) \in Nat /\ Cardinality(ToAct(found)) \in Nat
    BY SomeFindings
  <2>4. [day |-> agent[1].day, count |-> Cardinality(found),
         actioned |-> Cardinality(ToAct(found))] \in RunRows
    BY <2>1, <2>3 DEF Runs, RunRows
  <2>5. raised \in Seq(Raised) /\ agentRuns \in Seq(RunRows)
    BY DEF AgentTypes
  <2>6. raised' \in Seq(Raised) /\ agentRuns' \in Seq(RunRows)
    BY <2>1, <2>4, <2>5, AppendProperties
  <2>7. agent' \in Seq(Runs) /\ Len(agent') = 1
    BY <2>1, <2>2, OneRun
  <2>. QED
    BY <2>1, <2>6, <2>7 DEF AgentTypes
<1>5. CASE LogFindings
  <2>1. /\ agent[1] \in Runs /\ agent' = <<[agent[1] EXCEPT !.next = "act"]>>
        /\ UNCHANGED <<drift, agentRuns, raised>>
    BY <1>5, LogFacts
  <2>2. PICK rows \in Seq(FindingRows) : findingLog' = findingLog \o rows
    BY <1>5, LogFacts
  <2>3. findingLog' \in Seq(FindingRows)
    BY <2>2, ConcatProperties DEF AgentTypes
  <2>4. [agent[1] EXCEPT !.next = "act"] \in Runs
    BY <2>1 DEF Runs
  <2>5. agent' \in Seq(Runs) /\ Len(agent') = 1
    BY <2>1, <2>4, OneRun
  <2>. QED
    BY <2>1, <2>3, <2>5 DEF AgentTypes
<1>6. CASE Act
  <2>1. raised' \in Seq(Raised)
    BY <1>6, ActFacts
  <2>. QED
    BY <1>6, <2>1 DEF Act, AgentTypes
<1>7. CASE Die
  BY <1>7 DEF Die, AgentTypes
<1>. QED
  BY <1>1, <1>2, <1>3, <1>4, <1>5, <1>6, <1>7 DEF Next, vars


LEMMA JudgeReport == ASSUME MonitorTypes, AgentTypes, ReportInv, Judge PROVE ReportInv'
<1>. DEFINE n == Len(raised)
<1>1. PICK found \in SUBSET Findings, entry \in Raised :
        /\ agent[1] \in Runs
        /\ agent' = <<[agent[1] EXCEPT !.findings = found, !.next = "log"]>>
        /\ entry.day = agent[1].day /\ entry.findings = found /\ entry.ended = FALSE
        /\ raised' = Append(raised, entry)
        /\ UNCHANGED <<findingLog, incidents>>
  BY JudgeFacts
<1>2. /\ Len(raised') = n + 1 /\ raised' # << >> /\ n \in Nat
      /\ DOMAIN raised = 1..n /\ DOMAIN raised' = 1..n + 1
      /\ raised'[n + 1] = entry
      /\ \A i \in 1..n : raised'[i] = raised[i]
  <2>1. raised \in Seq(Raised) /\ raised' = Append(raised, entry)
    BY <1>1 DEF AgentTypes
  <2>2. raised' \in Seq(Raised) /\ raised' # << >>
    BY <2>1, AppendProperties
  <2>3. Len(raised') = n + 1 /\ raised'[n + 1] = entry
    BY <2>1, AppendProperties
  <2>4. \A i \in 1..n : raised'[i] = raised[i]
    BY <2>1, AppendProperties
  <2>5. n \in Nat /\ DOMAIN raised = 1..n
    BY <2>1, LenProperties
  <2>6. DOMAIN raised' = 1..n + 1
    BY <2>2, <2>3, LenProperties
  <2>. QED
    BY <2>2, <2>3, <2>4, <2>5, <2>6
<1>. HIDE DEF n
<1>3. \A d, f : LoggedIn(findingLog', d, f) <=> LoggedIn(findingLog, d, f)
  BY <1>1 DEF LoggedIn
<1>4. \A j \in DOMAIN findingLog' : \E i \in DOMAIN raised' :
        \E f \in raised'[i].findings : findingLog'[j] = Row(raised'[i].day, f)
  <2>. TAKE j \in DOMAIN findingLog'
  <2>1. PICK i \in DOMAIN raised : \E f \in raised[i].findings : findingLog[j] = Row(raised[i].day, f)
    BY <1>1 DEF ReportInv
  <2>. QED
    BY <1>1, <1>2, <2>1
<1>5. ASSUME NEW i \in DOMAIN raised', raised'[i].ended
      PROVE  \A f \in raised'[i].findings : LoggedIn(findingLog', raised'[i].day, f)
  <2>1. i \in DOMAIN raised /\ raised'[i] = raised[i]
    BY <1>1, <1>2, <1>5
  <2>. QED
    BY <1>3, <1>5, <2>1 DEF ReportInv
<1>6. /\ agent'[1].day = agent[1].day /\ agent'[1].findings = found
      /\ agent'[1].next = "log"
  BY <1>1 DEF Runs
<1>7. raised'[Len(raised')].day = agent'[1].day /\ raised'[Len(raised')].findings = agent'[1].findings
  BY <1>1, <1>2, <1>6
<1>8. \A i \in incidents' : \E j \in DOMAIN findingLog' : findingLog'[j] = i
  BY <1>1 DEF ReportInv
<1>. QED
  BY <1>2, <1>4, <1>5, <1>6, <1>7, <1>8 DEF ReportInv

\* The log gains a row of each finding of the run that was judged last.
LEMMA LogReport == ASSUME MonitorTypes, AgentTypes, ReportInv, LogFindings PROVE ReportInv'
<1>. DEFINE day0 == agent[1].day
            found == agent[1].findings
            n == Len(raised)
            m == Len(findingLog)
<1>1. /\ agent # << >> /\ agent[1] \in Runs /\ agent[1].next = "log"
      /\ agent' = <<[agent[1] EXCEPT !.next = "act"]>>
      /\ UNCHANGED <<incidents, raised>>
  BY LogFacts
<1>2. PICK rows \in Seq(FindingRows) :
        /\ findingLog' = findingLog \o rows
        /\ \A i \in DOMAIN rows : \E f \in found : rows[i] = Row(day0, f)
        /\ \A f \in found : \E i \in DOMAIN rows : rows[i] = Row(day0, f)
  BY LogFacts
<1>3. n \in DOMAIN raised /\ raised[n].day = day0 /\ raised[n].findings = found
  <2>1. raised # << >> /\ raised[n].day = day0 /\ raised[n].findings = found
    BY <1>1 DEF ReportInv
  <2>. QED
    BY <2>1, EmptySeq, LenProperties DEF AgentTypes
<1>4. agent' # << >> /\ agent'[1].day = day0 /\ agent'[1].findings = found
  BY <1>1 DEF Runs
<1>5. /\ DOMAIN findingLog = 1..m /\ DOMAIN rows = 1..Len(rows) /\ m \in Nat /\ Len(rows) \in Nat
      /\ DOMAIN findingLog' = 1..m + Len(rows)
      /\ \A i \in 1..m : findingLog'[i] = findingLog[i]
      /\ \A i \in 1..Len(rows) : findingLog'[m + i] = rows[i]
  BY <1>2, ConcatProperties, LenProperties DEF AgentTypes
<1>. HIDE DEF day0, found, n, m
<1>6. \A j \in DOMAIN findingLog : j \in DOMAIN findingLog' /\ findingLog'[j] = findingLog[j]
  BY <1>5
<1>7. \A d, f : LoggedIn(findingLog, d, f) => LoggedIn(findingLog', d, f)
  BY <1>6 DEF LoggedIn
<1>8. \A f \in found : LoggedIn(findingLog', day0, f)
  <2>. TAKE f \in found
  <2>1. PICK i \in DOMAIN rows : rows[i] = Row(day0, f)
    BY <1>2
  <2>2. m + i \in DOMAIN findingLog' /\ findingLog'[m + i] = rows[i]
    BY <1>5, <2>1
  <2>. QED
    BY <2>1, <2>2 DEF LoggedIn
<1>9. ASSUME NEW j \in DOMAIN findingLog'
      PROVE  \E i \in DOMAIN raised : \E f \in raised[i].findings : findingLog'[j] = Row(raised[i].day, f)
  <2>1. CASE j \in 1..m
    <3>1. j \in DOMAIN findingLog /\ findingLog'[j] = findingLog[j]
      BY <1>5, <2>1
    <3>. QED
      BY <3>1 DEF ReportInv
  <2>2. CASE j \notin 1..m
    <3>1. j - m \in DOMAIN rows /\ findingLog'[j] = rows[j - m]
      BY <1>5, <2>2
    <3>. QED
      BY <1>2, <1>3, <3>1
  <2>. QED
    BY <2>1, <2>2
<1>10. \A i \in incidents' : \E j \in DOMAIN findingLog' : findingLog'[j] = i
  BY <1>1, <1>6 DEF ReportInv
<1>11. \A i \in DOMAIN raised' : raised'[i].ended =>
         \A f \in raised'[i].findings : LoggedIn(findingLog', raised'[i].day, f)
  BY <1>1, <1>7 DEF ReportInv
<1>12. raised' # << >> /\ raised'[Len(raised')].day = agent'[1].day
       /\ raised'[Len(raised')].findings = agent'[1].findings
  BY <1>1, <1>3, <1>4 DEF n
<1>13. \A f \in agent'[1].findings : LoggedIn(findingLog', agent'[1].day, f)
  BY <1>4, <1>8
<1>14. \A j \in DOMAIN findingLog' : \E i \in DOMAIN raised' :
         \E f \in raised'[i].findings : findingLog'[j] = Row(raised'[i].day, f)
  BY <1>1, <1>9
<1>. QED
  BY <1>10, <1>11, <1>12, <1>13, <1>14 DEF ReportInv

\* An incident of a run that has logged has its row.
LEMMA FiledLogged ==
  ASSUME ReportInv, agent # << >>, NEW done \in SUBSET ToAct(agent[1].findings),
         agent[1].next # "act" => done = {}, NEW i \in Filed(done)
  PROVE  \E j \in DOMAIN findingLog : findingLog[j] = i
<1>1. CASE i \in incidents
  BY <1>1 DEF ReportInv
<1>2. CASE i \notin incidents
  <2>1. PICK f \in done : i = Row(agent[1].day, f)
    BY <1>2 DEF Filed, Row
  <2>2. LoggedIn(findingLog, agent[1].day, f)
    BY <2>1 DEF ToAct, ReportInv
  <2>. QED
    BY <2>1, <2>2 DEF LoggedIn
<1>. QED
  BY <1>1, <1>2

LEMMA ActReport == ASSUME MonitorTypes, AgentTypes, ReportInv, Act PROVE ReportInv'
<1>1. /\ agent # << >> /\ agent[1].next = "act" /\ agent' = << >>
      /\ findingLog' = findingLog /\ incidents' = Filed(ToAct(agent[1].findings))
  BY DEF Act
<1>2. /\ DOMAIN raised' = DOMAIN raised
      /\ \A i \in DOMAIN raised : /\ raised'[i].day = raised[i].day
                                  /\ raised'[i].findings = raised[i].findings
                                  /\ raised'[i].ended => raised[i].ended \/ i = Len(raised)
  BY ActFacts
<1>3. \A i \in incidents' : \E j \in DOMAIN findingLog' : findingLog'[j] = i
  BY <1>1, FiledLogged
<1>4. ASSUME NEW i \in DOMAIN raised', raised'[i].ended
      PROVE  \A f \in raised'[i].findings : LoggedIn(findingLog', raised'[i].day, f)
  <2>1. \A f \in raised[i].findings : LoggedIn(findingLog, raised[i].day, f)
    <3>1. CASE raised[i].ended
      BY <1>2, <3>1 DEF ReportInv
    <3>2. CASE i = Len(raised)
      BY <1>1, <3>2 DEF ReportInv
    <3>. QED
      BY <1>2, <1>4, <3>1, <3>2
  <2>2. \A d, f : LoggedIn(findingLog', d, f) <=> LoggedIn(findingLog, d, f)
    BY <1>1 DEF LoggedIn
  <2>. QED
    BY <1>2, <2>1, <2>2
<1>5. \A j \in DOMAIN findingLog' : \E i \in DOMAIN raised' :
        \E f \in raised'[i].findings : findingLog'[j] = Row(raised'[i].day, f)
  <2>. TAKE j \in DOMAIN findingLog'
  <2>1. PICK i \in DOMAIN raised : \E f \in raised[i].findings : findingLog[j] = Row(raised[i].day, f)
    BY <1>1 DEF ReportInv
  <2>. QED
    BY <1>1, <1>2, <2>1
<1>. QED
  BY <1>1, <1>3, <1>4, <1>5 DEF ReportInv

LEMMA DieReport == ASSUME ReportInv, Die PROVE ReportInv'
<1>1. PICK done \in SUBSET ToAct(agent[1].findings) :
        /\ agent # << >> /\ (agent[1].next # "act" => done = {})
        /\ incidents' = Filed(done)
        /\ agent' = << >> /\ UNCHANGED <<findingLog, raised>>
  BY DEF Die
<1>2. \A i \in incidents' : \E j \in DOMAIN findingLog' : findingLog'[j] = i
  BY <1>1, FiledLogged
<1>3. \A d, f : LoggedIn(findingLog', d, f) <=> LoggedIn(findingLog, d, f)
  BY <1>1 DEF LoggedIn
<1>. QED
  BY <1>1, <1>2, <1>3 DEF ReportInv

LEMMA NextReport == MonitorTypes /\ AgentTypes /\ ReportInv /\ [Next]_vars => ReportInv'
<1>. SUFFICES ASSUME MonitorTypes, AgentTypes, ReportInv, [Next]_vars PROVE ReportInv'
  OBVIOUS
<1>1. ASSUME UNCHANGED <<findingLog, incidents, raised>>,
             agent' = agent \/ agent'[1].next = "monitor"
      PROVE  ReportInv'
  <2>1. \A d, f : LoggedIn(findingLog', d, f) <=> LoggedIn(findingLog, d, f)
    BY <1>1 DEF LoggedIn
  <2>. QED
    BY <1>1, <2>1 DEF ReportInv
<1>2. CASE UNCHANGED agentVars
  BY <1>1, <1>2 DEF agentVars
<1>3. CASE Evolve \/ \E d \in AsOf : Sense(d)
  BY <1>1, <1>3 DEF Evolve, Sense
<1>. QED
  BY <1>2, <1>3, JudgeReport, LogReport, ActReport, DieReport DEF Next, vars

LEMMA AgentInvariant == Spec => [](MonitorTypes /\ AgentTypes /\ ReportInv)
<1>1. Init => ReportInv
  BY DEF Init, ReportInv
<1>. QED
  BY <1>1, InitTypes, NextMonitorTypes, NextAgentTypes, NextReport, PTL DEF Spec

\* The keys of a day's rows are found by its runs, and those a run that ended
\* found have a row.
LEMMA KeysFound ==
  ASSUME ReportInv, NEW d
  PROVE  /\ KeysOf(d) \subseteq KeysFoundBy(RunsOf(d))
         /\ KeysFoundBy(EndedOn(d)) \subseteq KeysOf(d)
<1>1. ASSUME NEW j \in DOMAIN findingLog, findingLog[j].day = d
      PROVE  \E f \in FoundBy(RunsOf(d)) : findingLog[j].key = f.key
  <2>1. PICK i \in DOMAIN raised : \E f \in raised[i].findings : findingLog[j] = Row(raised[i].day, f)
    BY <1>1 DEF ReportInv
  <2>2. PICK f \in raised[i].findings : findingLog[j] = Row(raised[i].day, f)
    BY <2>1
  <2>3. i \in RunsOf(d) /\ findingLog[j].key = f.key
    BY <1>1, <2>2 DEF Row, RunsOf
  <2>. QED
    BY <2>2, <2>3 DEF FoundBy
<1>2. ASSUME NEW i \in EndedOn(d), NEW f \in raised[i].findings
      PROVE  f.key \in KeysOf(d)
  <2>1. LoggedIn(findingLog, d, f)
    BY <1>2 DEF EndedOn, RunsOf, ReportInv
  <2>. QED
    BY <2>1 DEF LoggedIn, Row, KeysOf
<1>3. KeysOf(d) \subseteq KeysFoundBy(RunsOf(d))
  BY <1>1 DEF KeysOf, KeysFoundBy
<1>4. KeysFoundBy(EndedOn(d)) \subseteq KeysOf(d)
  BY <1>2 DEF KeysFoundBy, FoundBy
<1>. QED
  BY <1>3, <1>4

\* A clean verdict keeps, of each key, a row some run of the day found not to
\* be actionable.
LEMMA CleanRows ==
  ASSUME ReportInv, NEW d, MayBeClean(d), NEW f \in FoundBy(EndedOn(d))
  PROVE  \E g \in FoundBy(RunsOf(d)) : g.key = f.key /\ ~Actionable(g)
<1>1. f.key \in KeysOf(d)
  BY KeysFound DEF KeysFoundBy
<1>2. PICK j \in MayKeep(d, f.key) : ~Actionable(findingLog[j])
  BY <1>1 DEF MayBeClean
<1>3. j \in DOMAIN findingLog /\ findingLog[j].day = d /\ findingLog[j].key = f.key
  BY DEF MayKeep
<1>4. PICK i \in DOMAIN raised : \E g \in raised[i].findings : findingLog[j] = Row(raised[i].day, g)
  BY <1>3 DEF ReportInv
<1>5. PICK g \in raised[i].findings : findingLog[j] = Row(raised[i].day, g)
  BY <1>4
<1>6. i \in RunsOf(d) /\ g.key = f.key /\ ~Actionable(g)
  BY <1>2, <1>3, <1>5 DEF Row, RunsOf, Actionable
<1>. QED
  BY <1>5, <1>6 DEF FoundBy

\* The daily report says what the runs of the day found, whatever the order of
\* runs, reruns and replays of old days, whatever severity a key has in each,
\* whichever row of a key the query returns last and wherever a run died.
THEOREM ReportIsFaithful == Spec => []ReportFaithful
<1>1. ReportInv => ReportFaithful
  <2>. SUFFICES ASSUME ReportInv PROVE ReportFaithful
    OBVIOUS
  <2>1. ASSUME NEW d \in LogicalDays
        PROVE  /\ New(d) \subseteq KeysFoundBy(RunsOf(d))
               /\ \A e \in PreviousRun(d) : New(d) \cap KeysFoundBy(EndedOn(e)) = {}
    BY KeysFound DEF New, Prior
  <2>2. ASSUME NEW d \in LogicalDays
        PROVE  /\ Cleared(d) \cap KeysFoundBy(EndedOn(d)) = {}
               /\ Cleared(d) \subseteq UNION {KeysFoundBy(RunsOf(e)) : e \in PreviousRun(d)}
    BY KeysFound DEF Cleared, Prior
  <2>3. \A i \in incidents : \E j \in MayKeep(i.day, i.key) : findingLog[j].severity = i.severity
    BY DEF ReportInv, MayKeep
  <2>. QED
    BY <2>1, <2>2, <2>3, CleanRows DEF ReportFaithful
<1>. QED
  BY <1>1, AgentInvariant, PTL


-----------------------------------------------------------------------------
(* The alerts.  What is not logged again was logged on one of the last     *)
(* days that have alerts; the rows of a run have distinct keys.            *)

LEMMA DaysFinite ==
  ASSUME NEW rows \in Seq(Alerts), NEW n \in 0..Len(rows), NEW d
  PROVE  /\ IsFiniteSet({e \in {rows[k].day : k \in 1..n} : e > d})
         /\ Cardinality({e \in {rows[k].day : k \in 1..n} : e > d}) \in Nat
<1>1. \A k \in 1..n : k \in 1..Len(rows)
  BY LenProperties
<1>2. \A k \in 1..n : rows[k].day \in LogicalDays
  <2>1. \A k \in 1..n : rows[k] \in Alerts
    BY <1>1, ElementOfSeq
  <2>. QED
    BY <2>1 DEF Alerts
<1>3. {e \in {rows[k].day : k \in 1..n} : e > d} \subseteq LogicalDays
  BY <1>2
<1>4. IsFiniteSet(LogicalDays)
  <2>1. MaxDay \in Nat
    BY DEF MonitorAssumption
  <2>. QED
    BY <2>1, IntervalSize DEF LogicalDays
<1>. QED
  BY <1>3, <1>4, FS_Subset, FS_CardinalityType

LEMMA RouteLogged ==
  ASSUME MonitorTypes, AlertsLoggedOnce,
         NEW others \in SUBSET OtherAlerts, NEW execute \in BOOLEAN, Route(others, execute)
  PROVE  AlertsLoggedOnce'
<1>. DEFINE n == Len(alertLog)
            status == results[Len(results)].status
            NewerDays(j, i) ==
              {d \in {alertLog[k].day : k \in 1..j - 1} : d > alertLog[i].day}
<1>1. PICK rows \in Seq(Alerts) :
        /\ alertLog' = alertLog \o rows
        /\ \A i \in DOMAIN rows : rows[i].key \notin RecentKeys
        /\ \A i, j \in DOMAIN rows : rows[i].key = rows[j].key => i = j
        /\ status \in {"ok"} \cup RecentKeys \/ \E i \in DOMAIN rows : rows[i].key = status
  BY RouteFacts
<1>2. /\ routing # << >> /\ routing' = << >> /\ UNCHANGED <<results, died>>
  BY RouteFacts
<1>3. /\ DOMAIN alertLog = 1..n /\ DOMAIN rows = 1..Len(rows) /\ n \in Nat /\ Len(rows) \in Nat
      /\ DOMAIN alertLog' = 1..n + Len(rows)
      /\ \A i \in 1..n : alertLog'[i] = alertLog[i]
      /\ \A i \in 1..Len(rows) : alertLog'[n + i] = rows[i]
  BY <1>1, ConcatProperties, LenProperties DEF MonitorTypes
<1>4. ASSUME NEW i \in DOMAIN results \ died, results[i].status # "ok"
      PROVE  \E j \in DOMAIN alertLog' : alertLog'[j].key = results[i].status
  <2>1. CASE i < Len(results)
    <3>1. PICK j \in DOMAIN alertLog : alertLog[j].key = results[i].status
      BY <1>4, <2>1 DEF AlertsLoggedOnce
    <3>2. j \in DOMAIN alertLog' /\ alertLog'[j] = alertLog[j]
      BY <1>3
    <3>. QED
      BY <3>1, <3>2
  <2>2. CASE i = Len(results)
    <3>1. CASE status \in RecentKeys
      <4>1. PICK j \in DOMAIN alertLog : alertLog[j].key = status
        BY <3>1 DEF RecentKeys
      <4>2. j \in DOMAIN alertLog' /\ alertLog'[j] = alertLog[j]
        BY <1>3
      <4>. QED
        BY <2>2, <4>1, <4>2
    <3>2. CASE \E k \in DOMAIN rows : rows[k].key = status
      <4>1. PICK k \in DOMAIN rows : rows[k].key = status
        BY <3>2
      <4>2. n + k \in DOMAIN alertLog' /\ alertLog'[n + k] = rows[k]
        BY <1>3
      <4>. QED
        BY <2>2, <4>1, <4>2
    <3>. QED
      BY <1>1, <1>4, <2>2, <3>1, <3>2
  <2>. QED
    BY <2>1, <2>2, LenProperties DEF MonitorTypes
<1>5. ASSUME NEW j \in DOMAIN alertLog', NEW i \in 1..j - 1, alertLog'[i].key = alertLog'[j].key
      PROVE  Cardinality({d \in {alertLog'[k].day : k \in 1..j - 1} : d > alertLog'[i].day})
               >= ThrottleRuns
  <2>1. CASE j <= n
    <3>1. j \in DOMAIN alertLog /\ \A k \in 1..j - 1 : alertLog'[k] = alertLog[k]
      BY <1>3, <2>1
    <3>2. alertLog'[i] = alertLog[i] /\ alertLog'[j] = alertLog[j]
      BY <1>3, <3>1
    <3>3. {alertLog'[k].day : k \in 1..j - 1} = {alertLog[k].day : k \in 1..j - 1}
      BY <3>1
    <3>4. Cardinality(NewerDays(j, i)) >= ThrottleRuns
      BY <1>5, <3>1, <3>2 DEF AlertsLoggedOnce
    <3>. QED
      BY <3>2, <3>3, <3>4
  <2>2. CASE j > n
    <3>1. j - n \in DOMAIN rows /\ alertLog'[j] = rows[j - n]
      BY <1>3, <2>2
    <3>2. i <= n
      <4>. SUFFICES ASSUME i > n PROVE FALSE
        BY <1>3
      <4>1. i - n \in DOMAIN rows /\ alertLog'[i] = rows[i - n]
        BY <1>3, <2>2
      <4>2. i - n = j - n
        BY <1>1, <1>5, <3>1, <4>1
      <4>. QED
        BY <1>3, <4>2
    <3>3. i \in DOMAIN alertLog /\ alertLog'[i] = alertLog[i]
      BY <1>3, <3>2
    <3>4. ~ (Cardinality({d \in AlertDays : d > alertLog[i].day}) < ThrottleRuns)
      <4>1. alertLog[i].key \notin RecentKeys
        BY <1>1, <1>5, <3>1, <3>3
      <4>. QED
        BY <3>3, <4>1 DEF RecentKeys
    <3>5. {d \in AlertDays : d > alertLog[i].day}
            \subseteq {d \in {alertLog'[k].day : k \in 1..j - 1} : d > alertLog'[i].day}
      <4>1. \A k \in DOMAIN alertLog : k \in 1..j - 1 /\ alertLog'[k] = alertLog[k]
        BY <1>3, <2>2
      <4>. QED
        BY <3>3, <4>1 DEF AlertDays
    <3>6. alertLog' \in Seq(Alerts) /\ j - 1 \in 0..Len(alertLog')
      BY <1>1, <1>3, ConcatProperties DEF MonitorTypes
    <3>7. /\ IsFiniteSet({d \in {alertLog'[k].day : k \in 1..j - 1} : d > alertLog'[i].day})
          /\ Cardinality({d \in {alertLog'[k].day : k \in 1..j - 1} : d > alertLog'[i].day}) \in Nat
      BY <3>6, DaysFinite
    <3>8. /\ Cardinality({d \in AlertDays : d > alertLog[i].day}) \in Nat
          /\ Cardinality({d \in AlertDays : d > alertLog[i].day})
               <= Cardinality({d \in {alertLog'[k].day : k \in 1..j - 1} : d > alertLog'[i].day})
      BY <3>5, <3>7, FS_Subset, FS_CardinalityType
    <3>. QED
      BY <3>4, <3>7, <3>8
  <2>3. j <= n \/ j > n
    BY <1>3
  <2>. QED
    BY <2>1, <2>2, <2>3
<1>. QED
  BY <1>2, <1>4, <1>5 DEF AlertsLoggedOnce


LEMMA MeasureLogged == ASSUME MonitorTypes, AlertsLoggedOnce, Measure PROVE AlertsLoggedOnce'
<1>1. PICK r \in Results : results' = Append(results, r) /\ routing' = <<r>>
  BY MeasureFacts
<1>2. routing = << >> /\ UNCHANGED <<alertLog, died>>
  BY DEF Measure
<1>3. results \in Seq(Results)
  BY DEF MonitorTypes
<1>4. /\ Len(results') = Len(results) + 1 /\ Len(results) \in Nat
      /\ DOMAIN results = 1..Len(results) /\ DOMAIN results' = 1..Len(results) + 1
      /\ \A i \in 1..Len(results) : results'[i] = results[i]
  BY <1>1, <1>3, AppendProperties, LenProperties
<1>5. ASSUME NEW i \in DOMAIN results' \ died', results'[i].status # "ok", i < Len(results')
      PROVE  \E j \in DOMAIN alertLog' : alertLog'[j].key = results'[i].status
  <2>1. i \in DOMAIN results \ died /\ results'[i] = results[i]
    BY <1>2, <1>4, <1>5
  <2>. QED
    BY <1>2, <1>5, <2>1 DEF AlertsLoggedOnce
<1>6. routing' # << >>
  BY <1>1
<1>7. \A i \in DOMAIN results' \ died' :
        results'[i].status # "ok" /\ (i < Len(results') \/ routing' = << >>)
          => \E j \in DOMAIN alertLog' : alertLog'[j].key = results'[i].status
  BY <1>5, <1>6
<1>. QED
  BY <1>2, <1>7 DEF AlertsLoggedOnce

LEMMA NextLogged == MonitorTypes /\ AlertsLoggedOnce /\ [Next]_vars => AlertsLoggedOnce'
<1>. SUFFICES ASSUME MonitorTypes, AlertsLoggedOnce, [Next]_vars PROVE AlertsLoggedOnce'
  OBVIOUS
<1>1. CASE UNCHANGED <<results, alertLog, routing, died>>
  BY <1>1 DEF AlertsLoggedOnce
<1>2. CASE DieBeforeRouting
  <2>1. /\ died' = died \cup {Len(results)} /\ UNCHANGED <<results, alertLog>>
    BY <1>2 DEF DieBeforeRouting
  <2>2. \A i \in DOMAIN results' \ died' : i < Len(results)
    BY <2>1, LenProperties DEF MonitorTypes
  <2>. QED
    BY <2>1, <2>2 DEF AlertsLoggedOnce
<1>3. CASE \/ \E n \in BatchSizes : (\E later \in 0..1 : Ingest(n, later)) \/ Refill(n)
           \/ Rewrite \/ DeleteRows \/ Expire
  BY <1>1, <1>3 DEF Ingest, Refill, Rewrite, DeleteRows, Expire, logs
<1>4. CASE Evolve \/ (\E d \in AsOf : Sense(d)) \/ Judge \/ LogFindings \/ Act \/ Die \/ UNCHANGED vars
  BY <1>1, <1>4 DEF Evolve, Sense, Judge, LogFindings, Act, Die, vars, monitorVars, logs
<1>. QED
  BY <1>2, <1>3, <1>4, MeasureLogged, RouteLogged DEF Next, MonitorNext

\* No alert is lost unless its run died, and none is repeated before alerts
\* were logged on ThrottleRuns newer days.
THEOREM AlertsAreLoggedOnce == Spec => []AlertsLoggedOnce
<1>1. Init => AlertsLoggedOnce
  BY DEF Init, MonitorInit, AlertsLoggedOnce
<1>2. Init => MonitorTypes
  BY InitTypes
<1>. QED
  BY <1>1, <1>2, NextMonitorTypes, NextLogged, PTL DEF Spec


-----------------------------------------------------------------------------
(* Collapses.  When at most twice m is measured in too few results to      *)
(* carry the middle of a baseline, both values in the middle exceed 2 m.   *)
(* No later result changes what an earlier one was judged against.         *)

LEMMA CollapseBreaches ==
  ASSUME MonitorTypes, NEW baseline \in Baselines, NEW m \in Nat, Outnumbered(m, Measured)
  PROVE  Verdict(m, baseline) = "breach"
<1>. DEFINE n == Cardinality(Measured)
            nb == IF n < BaselineRuns THEN n ELSE BaselineRuns
            low == {i \in Measured : results[i].metric <= 2 * m}
<1>1. /\ IsFiniteSet(Measured) /\ n \in Nat
      /\ \A i \in Measured : results[i].metric \in Nat
  <2>1. Measured \subseteq 1..Len(results) /\ Len(results) \in Nat
    BY DEF MonitorTypes, Measured
  <2>2. \A i \in Measured : results[i] \in Results
    BY <2>1, ElementOfSeq DEF MonitorTypes
  <2>3. IsFiniteSet(Measured)
    <3>1. IsFiniteSet(1..Len(results))
      BY <2>1, IntervalSize
    <3>. QED
      BY <2>1, <3>1, FS_Subset
  <2>4. \A i \in Measured : results[i].metric \in Nat
    BY <2>2 DEF Measured, Results
  <2>. QED
    BY <2>3, <2>4, FS_CardinalityType
<1>2. PICK S \in SUBSET Measured :
        Cardinality(S) = nb /\ baseline = [i \in S |-> results[i].metric]
  BY DEF Baselines
<1>3. nb \in Nat \ {0} /\ 2 * Cardinality(low) < nb
  <2>1. IsFiniteSet(low) /\ Cardinality(low) \in Nat
    BY <1>1, FS_Subset, FS_CardinalityType
  <2>. QED
    BY <1>1, <2>1 DEF Outnumbered
<1>4. IsFiniteSet(S) /\ baseline \in [S -> Nat] /\ DOMAIN baseline = S
  BY <1>1, <1>2, FS_Subset
<1>5. ASSUME NEW k \in 1..nb, nb <= 2 * k
      PROVE  Kth(baseline, k) \in Nat /\ 2 * m < Kth(baseline, k)
  <2>. DEFINE UpTo == {i \in S : baseline[i] <= Kth(baseline, k)}
  <2>1. Kth(baseline, k) \in Nat /\ k <= Cardinality(UpTo)
    <3>. HIDE DEF nb
    <3>. QED
      BY <1>2, <1>4, <1>5, KthFacts
  <2>. SUFFICES ASSUME Kth(baseline, k) <= 2 * m PROVE FALSE
    BY <2>1
  <2>2. UpTo \subseteq low
    BY <1>1, <1>2, <2>1
  <2>3. IsFiniteSet(low) /\ IsFiniteSet(UpTo)
    BY <1>1, <1>4, FS_Subset
  <2>4. Cardinality(UpTo) <= Cardinality(low) /\ Cardinality(low) \in Nat
        /\ Cardinality(UpTo) \in Nat
    BY <2>2, <2>3, FS_Subset, FS_CardinalityType
  <2>. QED
    BY <1>3, <1>5, <2>1, <2>4
<1>6. TwiceMedian(baseline) \in Nat /\ 4 * m < TwiceMedian(baseline)
  <2>. DEFINE k1 == (nb + 1) \div 2
              k2 == nb \div 2 + 1
  <2>1. k1 \in 1..nb /\ nb <= 2 * k1 /\ k2 \in 1..(nb + 1) /\ nb <= 2 * k2
    BY <1>3
  <2>2. CASE nb = 1
    <3>1. k1 = 1 /\ k2 = 1
      BY <2>2
    <3>2. Kth(baseline, 1) \in Nat /\ 2 * m < Kth(baseline, 1)
      BY <1>5, <2>1, <3>1
    <3>3. Cardinality(DOMAIN baseline) = 1
      BY <1>2, <1>4, <2>2
    <3>4. TwiceMedian(baseline) = Kth(baseline, 1) + Kth(baseline, 1)
      BY <3>3 DEF TwiceMedian
    <3>. QED
      BY <3>2, <3>4
  <2>3. CASE nb # 1
    <3>1. k2 \in 1..nb
      BY <1>3, <2>3
    <3>2. Kth(baseline, k1) \in Nat /\ 2 * m < Kth(baseline, k1)
      BY <1>5, <2>1
    <3>3. Kth(baseline, k2) \in Nat /\ 2 * m < Kth(baseline, k2)
      BY <1>5, <2>1, <3>1
    <3>4. TwiceMedian(baseline) = Kth(baseline, k1) + Kth(baseline, k2)
      BY <1>2, <1>4 DEF TwiceMedian
    <3>. HIDE DEF k1, k2
    <3>. QED
      BY <3>2, <3>3, <3>4
  <2>. QED
    BY <2>2, <2>3
<1>7. DOMAIN baseline # {}
  BY <1>2, <1>3, <1>4, FS_EmptySet
<1>. QED
  BY <1>6, <1>7 DEF Verdict

CollapseInv ==
  /\ CollapseReported
  /\ \A i \in DOMAIN raised : raised[i].results <= Len(results)

LEMMA MeasureCollapse ==
  ASSUME MonitorTypes, AgentTypes, CollapseInv, Measure, UNCHANGED agentVars
  PROVE  CollapseInv'
<1>. DEFINE n == Len(results)
<1>1. PICK r \in Results :
        /\ results' = Append(results, r)
        /\ r.metric # None => \E baseline \in Baselines :
                                /\ r.metric = LatestIncrement
                                /\ r.status = Verdict(LatestIncrement, baseline)
  BY MeasureFacts
<1>2. /\ n \in Nat /\ DOMAIN results = 1..n /\ DOMAIN results' = 1..n + 1
      /\ Len(results') = n + 1 /\ results'[n + 1] = r
      /\ \A i \in 1..n : results'[i] = results[i]
  BY <1>1, AppendProperties DEF MonitorTypes
<1>3. raised' = raised
  BY DEF agentVars
<1>4. \A i \in DOMAIN raised :
        raised[i].results \in Nat /\ raised[i].results <= n
  <2>1. \A i \in DOMAIN raised : raised[i] \in Raised
    BY ElementOfSeq DEF AgentTypes
  <2>. QED
    BY <2>1 DEF CollapseInv, Raised
<1>5. ASSUME NEW i \in Measured', Outnumbered(results[i].metric, {j \in Measured : j < i})'
      PROVE  results'[i].status = "breach"
  <2>. DEFINE before == {j \in Measured : j < i}
  <2>1. i \in 1..n + 1 /\ results'[i].metric # None
    BY <1>2 DEF Measured
  <2>2. before' = before /\ \A j \in before : results'[j] = results[j]
    BY <1>2, <2>1 DEF Measured
  <2>3. Outnumbered(results'[i].metric, before)
    BY <1>5, <2>2 DEF Outnumbered
  <2>4. CASE i \in 1..n
    <3>1. i \in Measured /\ results'[i] = results[i]
      BY <1>2, <2>1, <2>4 DEF Measured
    <3>. QED
      BY <2>3, <3>1 DEF CollapseInv, CollapseReported
  <2>5. CASE i = n + 1
    <3>1. before = Measured
      BY <1>2, <2>5 DEF Measured
    <3>2. PICK baseline \in Baselines :
            r.metric = LatestIncrement /\ r.status = Verdict(LatestIncrement, baseline)
      BY <1>1, <1>2, <2>1, <2>5
    <3>. QED
      BY <1>2, <2>3, <2>5, <3>1, <3>2, LatestFacts, CollapseBreaches
  <2>. QED
    BY <1>2, <2>1, <2>4, <2>5
<1>6. ASSUME NEW i \in DOMAIN raised,
             Outnumbered(raised[i].metric, {j \in Measured : j <= raised[i].results})'
      PROVE  Breach \in raised[i].findings
  <2>. DEFINE m == raised[i].metric
              k == raised[i].results
              before == {j \in Measured : j <= k}
  <2>1. k \in Nat /\ k <= n
    BY <1>2, <1>4
  <2>2. before' = before /\ \A j \in before : results'[j] = results[j]
    BY <1>2, <1>3, <2>1 DEF Measured
  <2>3. Outnumbered(m, before)
    BY <1>3, <1>6, <2>2 DEF Outnumbered
  <2>. QED
    BY <2>3 DEF CollapseInv, CollapseReported
<1>7. CollapseReported'
  BY <1>3, <1>5, <1>6 DEF CollapseReported
<1>. QED
  BY <1>2, <1>3, <1>4, <1>7 DEF CollapseInv

LEMMA JudgeCollapse == ASSUME MonitorTypes, AgentTypes, CollapseInv, Judge PROVE CollapseInv'
<1>1. PICK baseline \in Baselines, entry \in Raised :
        /\ Verdict(LatestIncrement, baseline) = "breach" => Breach \in entry.findings
        /\ entry.metric = LatestIncrement /\ entry.results = Len(results)
        /\ raised' = Append(raised, entry)
        /\ results' = results
  BY JudgeFacts DEF monitorVars, logs
<1>2. /\ DOMAIN raised = 1..Len(raised) /\ DOMAIN raised' = 1..Len(raised) + 1
      /\ Len(raised) \in Nat
      /\ raised'[Len(raised) + 1] = entry
      /\ \A i \in 1..Len(raised) : raised'[i] = raised[i]
  BY <1>1, AppendProperties DEF AgentTypes
<1>3. Outnumbered(entry.metric, {j \in Measured : j <= entry.results})
        => Breach \in entry.findings
  <2>1. {j \in Measured : j <= entry.results} = Measured
    BY <1>1 DEF Measured, MonitorTypes
  <2>. QED
    BY <1>1, <2>1, LatestFacts, CollapseBreaches
<1>4. Measured' = Measured
  BY <1>1 DEF Measured
<1>5. \A i \in Measured :
        Outnumbered(results[i].metric, {j \in Measured : j < i})'
          => results[i].status = "breach"
  BY <1>1, <1>4 DEF CollapseInv, CollapseReported, Outnumbered
<1>6. ASSUME NEW i \in DOMAIN raised',
             Outnumbered(raised[i].metric, {j \in Measured : j <= raised[i].results})'
      PROVE  Breach \in raised'[i].findings
  <2>1. Outnumbered(raised'[i].metric, {j \in Measured : j <= raised'[i].results})
    BY <1>1, <1>4, <1>6 DEF Outnumbered
  <2>2. CASE i \in 1..Len(raised)
    BY <1>2, <2>1, <2>2 DEF CollapseInv, CollapseReported
  <2>3. CASE i = Len(raised) + 1
    BY <1>2, <1>3, <2>1, <2>3
  <2>. QED
    BY <1>2, <2>2, <2>3
<1>7. \A i \in DOMAIN raised' : raised'[i].results <= Len(results)
  <2>1. Len(results) \in Nat
    BY LenProperties DEF MonitorTypes
  <2>. QED
    BY <1>1, <1>2, <2>1 DEF CollapseInv
<1>. QED
  BY <1>1, <1>4, <1>5, <1>6, <1>7 DEF CollapseInv, CollapseReported

LEMMA ActCollapse ==
  ASSUME AgentTypes, ReportInv, CollapseInv, Act
  PROVE  CollapseInv'
<1>1. results' = results
  BY DEF Act, monitorVars, logs
<1>2. /\ DOMAIN raised' = DOMAIN raised
      /\ \A i \in DOMAIN raised : /\ raised'[i].metric = raised[i].metric
                                  /\ raised'[i].results = raised[i].results
                                  /\ raised'[i].findings = raised[i].findings
  BY ActFacts
<1>3. Measured' = Measured
  BY <1>1 DEF Measured
<1>. QED
  BY SMTT(30), <1>1, <1>2, <1>3 DEF CollapseInv, CollapseReported, Outnumbered

LEMMA NextCollapse ==
  MonitorTypes /\ AgentTypes /\ ReportInv /\ CollapseInv /\ [Next]_vars => CollapseInv'
<1>. SUFFICES ASSUME MonitorTypes, AgentTypes, ReportInv, CollapseInv, [Next]_vars
              PROVE  CollapseInv'
  OBVIOUS
<1>1. CASE UNCHANGED <<results, raised>>
  <2>1. Measured' = Measured
    BY <1>1 DEF Measured
  <2>. QED
    BY <1>1, <2>1 DEF CollapseInv, CollapseReported, Outnumbered
<1>2. CASE Measure /\ UNCHANGED agentVars
  BY <1>2, MeasureCollapse
<1>3. CASE Judge
  BY <1>3, JudgeCollapse
<1>4. CASE Act
  BY <1>4, ActCollapse
<1>5. CASE MonitorNext /\ ~Measure /\ UNCHANGED agentVars
  <2>1. raised' = raised
    BY <1>5 DEF agentVars
  <2>2. results' = results
    BY <1>5 DEF MonitorNext, Ingest, Refill, Rewrite, DeleteRows, Expire, Route,
                DieBeforeRouting, logs
  <2>. QED
    BY <1>1, <2>1, <2>2
<1>6. CASE Evolve \/ (\E d \in AsOf : Sense(d)) \/ LogFindings \/ Die \/ UNCHANGED vars
  BY <1>1, <1>6 DEF Evolve, Sense, LogFindings, Die, vars, monitorVars, agentVars, logs
<1>. QED
  BY <1>2, <1>3, <1>4, <1>5, <1>6 DEF Next

\* A batch that collapses is a breach of the monitor and a finding of the
\* agent, whatever the limit cuts off the baseline, on the day it lands and on
\* reruns, until the collapse makes up half of the baseline.
THEOREM CollapsesAreReported == Spec => []CollapseReported
<1>1. Init => CollapseInv
  BY DEF Init, MonitorInit, CollapseInv, CollapseReported, Measured
<1>2. Spec => [](MonitorTypes /\ AgentTypes /\ ReportInv)
  BY AgentInvariant
<1>3. CollapseInv => CollapseReported
  BY DEF CollapseInv
<1>. QED
  BY <1>1, <1>2, <1>3, NextCollapse, PTL DEF Spec
=============================================================================
