-------------------------- MODULE RawLandingProofs --------------------------
(***************************************************************************)
(* Proofs about RawLanding, for every set of slices, runs and payloads,    *)
(* every number of faults and both kinds of move; and about the calls it   *)
(* takes for single steps (StorageAdapters), under every adapter.          *)
(*                                                                         *)
(* CompletedIsConsistent is not inductive: a status becomes completed at   *)
(* the end of a run, so what a run has done so far must be known at each   *)
(* of its steps (RunInv), and no other run may disturb it (Exclusive).     *)
(* One level down the same is known of an attempt by the operations it has *)
(* yet to do (ProgressInv), which are always in an order that allows it    *)
(* (Orderly).                                                              *)
(***************************************************************************)
EXTENDS RawLanding, StorageAdapters, TLAPS, SequenceTheorems

-----------------------------------------------------------------------------
(* Inside the calls: the operations of a run, in their order               *)

Fills(o, k) == o.do \in {"fill", "put"} /\ o.kind = k
MovesFrom(o, k) == o.do \in {"copy", "replace"} /\ o.arg = k
Touches(o, k) == o.kind = k \/ o.arg = k
Completes(o) == o.kind = "status" /\ o.arg = "completed"

Ops == [do : {"open", "fill", "put", "remove", "copy", "replace", "judge"},
        kind : DocumentKinds,
        arg : {"in_progress", "completed", "failed", "staged", "tmp", ""}]

\* An operation a run may do under adapter m.
Lawful(m, o) ==
  /\ o \in Ops
  /\ o.do \in {"open", "fill", "put"} =>
       /\ o.kind # "raw"
       /\ IF o.kind = "status" THEN o.arg \in {"in_progress", "completed", "failed"} ELSE o.arg = ""
  /\ o.do \in {"remove", "judge"} => o.kind = "staged" /\ o.arg = ""
  /\ o.do \in {"copy", "replace"} => <<o.kind, o.arg>> \in {<<"raw", "staged">>, <<"manifest", "tmp">>}
  /\ m = "aws" => o.do # "replace" /\ (o.do \in {"open", "fill"} => o.kind = "table")
  /\ m # "aws" => o.do # "copy"
  /\ m # "local" => ~Touches(o, "tmp")
  /\ m = "local" /\ o.kind = "manifest" => o.do = "replace"

\* It may be followed by the operations R.
Fits(o, R) ==
  /\ o.do = "open" => FileOp("fill", o.kind, o.arg) \in R
  /\ Completes(o) /\ o.do # "open" => R = {}
  /\ o.do = "remove" /\ (\E r \in R : MovesFrom(r, "staged")) => \E r \in R : Fills(r, "staged")
  /\ \A k \in {"staged", "tmp"} :
       /\ MovesFrom(o, k) => /\ \A r \in R : ~Fills(r, k) /\ ~MovesFrom(r, k)
                             /\ \E r \in R : Completes(r)
       /\ /\ \E r \in R : Completes(r)
          /\ Touches(o, k) /\ \A r \in R : ~Touches(r, k)
          => o.do \in {"remove", "replace"}

After(s, i) == {s[k] : k \in i + 1..Len(s)}
OpsOf(s) == After(s, 0)

\* Every operation of s is lawful and fits what follows, and then R; a file is
\* filled right after it was opened.
Orderly(m, s, R) ==
  /\ s \in Seq(Ops)
  /\ \A i \in 1..Len(s) :
       /\ Lawful(m, s[i])
       /\ Fits(s[i], After(s, i) \cup R)
       /\ s[i].do = "open" => i < Len(s) /\ s[i + 1] = FileOp("fill", s[i].kind, s[i].arg)
       /\ i > 1 /\ s[i].do = "fill" => s[i - 1].do = "open"

StartsOpen(s) == s = << >> \/ s[1].do # "fill"

\* Two orderly sequences make one.
LEMMA OrderlyConcat ==
  ASSUME NEW m, NEW s, NEW t, NEW R,
         Orderly(m, s, OpsOf(t) \cup R), Orderly(m, t, R), StartsOpen(t)
  PROVE  /\ Orderly(m, s \o t, R)
         /\ \A o : o \in OpsOf(s \o t) <=> o \in OpsOf(s) \cup OpsOf(t)
         /\ s # << >> => (s \o t) # << >> /\ (s \o t)[1] = s[1]
<1> DEFINE u == s \o t
           n == Len(s)
           p == Len(t)
<1>1. s \in Seq(Ops) /\ t \in Seq(Ops) /\ n \in Nat /\ p \in Nat
  BY DEF Orderly
<1>2. /\ u \in Seq(Ops) /\ Len(u) = n + p
      /\ \A i \in 1..n : u[i] = s[i]
      /\ \A i \in n + 1..n + p : u[i] = t[i - n] /\ i - n \in 1..p
  <2>1. /\ Len(u) = n + p
        /\ \A i \in 1..n + p : u[i] = IF i <= n THEN s[i] ELSE t[i - n]
    BY <1>1, ConcatProperties
  <2>2. u \in Seq(Ops)
    BY <1>1, ConcatProperties
  <2> QED  BY <1>1, <2>1, <2>2
<1> HIDE DEF u
<1>3. ASSUME NEW i \in 1..n PROVE After(u, i) = After(s, i) \cup OpsOf(t)
  <2>1. ASSUME NEW x \in After(u, i) PROVE x \in After(s, i) \cup OpsOf(t)
    <3>1. PICK k \in i + 1..n + p : x = u[k]
      BY <1>2, <2>1 DEF After
    <3>2. CASE k <= n
      BY <1>1, <1>2, <1>3, <3>1, <3>2 DEF After
    <3>3. CASE k > n
      <4>1. k \in n + 1..n + p
        BY <1>1, <1>3, <3>1, <3>3
      <4> QED  BY <1>2, <3>1, <4>1 DEF After, OpsOf
    <3> QED  BY <1>1, <3>1, <3>2, <3>3
  <2>2. After(s, i) \subseteq After(u, i)
    <3> SUFFICES ASSUME NEW k \in i + 1..n PROVE s[k] \in After(u, i)
      BY DEF After
    <3>1. k \in 1..n /\ k \in i + 1..n + p
      BY <1>1, <1>3
    <3>2. u[k] = s[k]
      BY <1>2, <3>1
    <3> QED  BY <1>2, <3>1, <3>2 DEF After
  <2>3. OpsOf(t) \subseteq After(u, i)
    <3> SUFFICES ASSUME NEW k \in 1..p PROVE t[k] \in After(u, i)
      BY DEF OpsOf, After
    <3>1. PICK l \in i + 1..n + p : l \in n + 1..n + p /\ l - n = k
      <4>1. n + k \in i + 1..n + p /\ n + k \in n + 1..n + p /\ n + k - n = k
        BY <1>1, <1>3
      <4> QED  BY <4>1
    <3>2. u[l] = t[k]
      BY <1>2, <3>1
    <3> QED  BY <1>2, <3>1, <3>2 DEF After
  <2> QED  BY <2>1, <2>2, <2>3
<1>4. ASSUME NEW i \in 1..p PROVE After(u, n + i) = After(t, i)
  <2>1. ASSUME NEW k \in i + 1..p PROVE t[k] \in After(u, n + i)
    <3>1. n + k \in n + i + 1..n + p /\ n + k \in n + 1..n + p /\ n + k - n = k
      BY <1>1, <1>4
    <3>2. u[n + k] = t[k]
      BY SMTT(30), <1>2, <3>1
    <3> QED  BY <1>2, <3>1, <3>2 DEF After
  <2>2. ASSUME NEW k \in n + i + 1..n + p PROVE u[k] \in After(t, i)
    <3>1. k \in n + 1..n + p /\ k - n \in i + 1..p
      BY <1>1, <1>4
    <3>2. u[k] = t[k - n]
      BY <1>2, <3>1
    <3> QED  BY <3>1, <3>2 DEF After
  <2> QED  BY <1>2, <2>1, <2>2 DEF After
<1>5. OpsOf(u) = OpsOf(s) \cup OpsOf(t)
  <2>1. ASSUME NEW k \in 1..n + p PROVE u[k] \in OpsOf(s) \cup OpsOf(t)
    <3>1. CASE k <= n
      BY <1>1, <1>2, <3>1 DEF After, OpsOf
    <3>2. CASE k > n
      <4>1. k \in n + 1..n + p
        BY <1>1, <2>1, <3>2
      <4>2. u[k] = t[k - n] /\ k - n \in 1..p
        BY <1>2, <4>1
      <4> QED  BY <4>2 DEF After, OpsOf
    <3> QED  BY <1>1, <3>1, <3>2
  <2>2. ASSUME NEW k \in 1..n PROVE s[k] \in OpsOf(u)
    BY <1>1, <1>2 DEF After, OpsOf
  <2>3. ASSUME NEW k \in 1..p PROVE t[k] \in OpsOf(u)
    <3>1. n + k \in 1..n + p /\ n + k \in n + 1..n + p /\ n + k - n = k
      BY <1>1
    <3>2. u[n + k] = t[k]
      BY <1>2, <3>1
    <3> QED  BY <1>2, <3>1, <3>2 DEF After, OpsOf
  <2>4. OpsOf(u) \subseteq OpsOf(s) \cup OpsOf(t)
    BY <1>2, <2>1 DEF After, OpsOf
  <2>5. OpsOf(s) \subseteq OpsOf(u) /\ OpsOf(t) \subseteq OpsOf(u)
    BY <2>2, <2>3 DEF After, OpsOf
  <2> QED  BY <2>4, <2>5
<1>6. ASSUME NEW i \in 1..n
      PROVE  /\ Lawful(m, u[i])
             /\ Fits(u[i], After(u, i) \cup R)
             /\ u[i].do = "open" => i < n /\ u[i + 1] = FileOp("fill", u[i].kind, u[i].arg)
             /\ i > 1 /\ u[i].do = "fill" => u[i - 1].do = "open"
  <2>1. After(u, i) \cup R = After(s, i) \cup (OpsOf(t) \cup R)
    BY <1>3
  <2>2. /\ Lawful(m, s[i]) /\ Fits(s[i], After(s, i) \cup (OpsOf(t) \cup R))
        /\ s[i].do = "open" => i < n /\ s[i + 1] = FileOp("fill", s[i].kind, s[i].arg)
        /\ i > 1 /\ s[i].do = "fill" => s[i - 1].do = "open"
    BY <1>6 DEF Orderly
  <2>3. u[i] = s[i] /\ (i < n => u[i + 1] = s[i + 1]) /\ (i > 1 => u[i - 1] = s[i - 1])
    <3>1. i \in 1..n /\ (i < n => i + 1 \in 1..n) /\ (i > 1 => i - 1 \in 1..n)
      BY <1>1, <1>6
    <3> QED  BY <1>2, <3>1
  <2> QED  BY <2>1, <2>2, <2>3
<1>7. ASSUME NEW i \in 1..p, NEW l \in Int, l = n + i
      PROVE  /\ Lawful(m, u[l])
             /\ Fits(u[l], After(u, l) \cup R)
             /\ u[l].do = "open" => i < p /\ u[l + 1] = FileOp("fill", u[l].kind, u[l].arg)
             /\ l > 1 /\ u[l].do = "fill" => u[l - 1].do = "open"
  <2>1. After(u, l) = After(t, i) /\ u[l] = t[i]
    BY <1>1, <1>2, <1>4, <1>7
  <2>2. i < p => u[l + 1] = t[i + 1]
    <3>1. i < p => l + 1 \in n + 1..n + p /\ l + 1 - n = i + 1
      BY <1>1, <1>7
    <3> QED  BY SMTT(30), <1>2, <3>1
  <2>3. i > 1 => u[l - 1] = t[i - 1]
    <3>1. i > 1 => l - 1 \in n + 1..n + p /\ l - 1 - n = i - 1
      BY <1>1, <1>7
    <3> QED  BY <1>2, <3>1
  <2>4. i = 1 => t[i].do # "fill"
    BY <1>1 DEF StartsOpen
  <2>5. /\ Lawful(m, t[i]) /\ Fits(t[i], After(t, i) \cup R)
        /\ t[i].do = "open" => i < p /\ t[i + 1] = FileOp("fill", t[i].kind, t[i].arg)
        /\ i > 1 /\ t[i].do = "fill" => t[i - 1].do = "open"
    BY DEF Orderly
  <2>6. i = 1 \/ i > 1
    BY <1>1
  <2> QED  BY <2>1, <2>2, <2>3, <2>4, <2>5, <2>6
<1>8. Orderly(m, u, R)
  <2> SUFFICES ASSUME NEW i \in 1..n + p
               PROVE  /\ Lawful(m, u[i])
                      /\ Fits(u[i], After(u, i) \cup R)
                      /\ u[i].do = "open" => i < n + p /\ u[i + 1] = FileOp("fill", u[i].kind, u[i].arg)
                      /\ i > 1 /\ u[i].do = "fill" => u[i - 1].do = "open"
    BY <1>2 DEF Orderly
  <2>1. CASE i <= n
    <3>1. i \in 1..n /\ (i < n => i < n + p)
      BY <1>1, <2>1
    <3> QED  BY <1>6, <3>1
  <2>2. CASE i > n
    <3>1. /\ i - n \in 1..p /\ n + (i - n) = i /\ i \in Int
          /\ i - n < p => i < n + p
      BY <1>1, <2>2
    <3> QED  BY <1>7, <3>1
  <2> QED  BY <1>1, <2>1, <2>2
<1>9. s # << >> => u # << >> /\ u[1] = s[1]
  BY <1>1, <1>2
<1> QED  BY <1>5, <1>8, <1>9 DEF u

\* What is left of an orderly sequence after its head.
LEMMA OrderlyTail ==
  ASSUME NEW m, NEW s, Orderly(m, s, {}), s # << >>
  PROVE  /\ Orderly(m, Tail(s), {})
         /\ Lawful(m, Head(s)) /\ Fits(Head(s), OpsOf(Tail(s)))
         /\ OpsOf(s) = {Head(s)} \cup OpsOf(Tail(s))
         /\ IF Head(s).do = "open"
            THEN Tail(s) # << >> /\ Head(Tail(s)) = FileOp("fill", Head(s).kind, Head(s).arg)
            ELSE Tail(s) = << >> \/ Head(Tail(s)).do # "fill"
<1> DEFINE t == Tail(s)
           n == Len(t)
<1>1. /\ s \in Seq(Ops) /\ t \in Seq(Ops) /\ n \in Nat
      /\ Len(s) = n + 1 /\ Head(s) = s[1] /\ \A i \in 1..n : t[i] = s[i + 1]
  <2>1. s \in Seq(Ops)
    BY DEF Orderly
  <2> QED  BY <2>1, HeadTailProperties, LenProperties
<1> HIDE DEF t
<1>2. ASSUME NEW i \in 0..n PROVE After(t, i) = After(s, i + 1)
  <2>1. ASSUME NEW k \in i + 1..n PROVE t[k] \in After(s, i + 1)
    <3>1. k + 1 \in i + 1 + 1..n + 1 /\ k \in 1..n
      BY <1>1
    <3> QED  BY <1>1, <3>1 DEF After
  <2>2. ASSUME NEW k \in i + 1 + 1..n + 1 PROVE s[k] \in After(t, i)
    <3>1. k - 1 \in 1..n /\ k - 1 + 1 = k /\ k - 1 \in i + 1..n
      BY <1>1
    <3>2. t[k - 1] = s[k]
      BY <1>1, <3>1
    <3> QED  BY <3>1, <3>2 DEF After
  <2> QED  BY <1>1, <2>1, <2>2 DEF After
<1>3. Orderly(m, t, {})
  <2> SUFFICES ASSUME NEW i \in 1..n
               PROVE  /\ Lawful(m, t[i])
                      /\ Fits(t[i], After(t, i) \cup {})
                      /\ t[i].do = "open" => i < n /\ t[i + 1] = FileOp("fill", t[i].kind, t[i].arg)
                      /\ i > 1 /\ t[i].do = "fill" => t[i - 1].do = "open"
    BY <1>1 DEF Orderly
  <2>1. After(t, i) = After(s, i + 1) /\ t[i] = s[i + 1] /\ i + 1 \in 1..Len(s)
    BY <1>1, <1>2
  <2>2. i < n => t[i + 1] = s[i + 2]
    BY <1>1
  <2>3. i > 1 => t[i - 1] = s[i]
    BY <1>1
  <2> QED  BY <1>1, <2>1, <2>2, <2>3 DEF Orderly
<1>4. 1 \in 1..Len(s) /\ After(s, 1) = OpsOf(t) /\ After(s, 1) \cup {} = OpsOf(t)
  BY <1>1, <1>2 DEF OpsOf
<1>5. Lawful(m, s[1]) /\ Fits(s[1], OpsOf(t))
  BY <1>4 DEF Orderly
<1>6. OpsOf(s) = {s[1]} \cup OpsOf(t)
  <2>1. ASSUME NEW k \in 1..n + 1 PROVE k = 1 \/ k \in 2..n + 1
    BY <1>1
  <2>2. 0 + 1 = 1 /\ 1 + 1 = 2 /\ 1 \in 1..n + 1 /\ \A k \in 2..n + 1 : k \in 1..n + 1
    BY <1>1
  <2>3. OpsOf(s) = {s[k] : k \in 1..n + 1}
    BY <1>1, <2>2 DEF OpsOf, After
  <2>4. OpsOf(t) = {s[k] : k \in 2..n + 1}
    BY <1>1, <1>4, <2>2 DEF After
  <2> QED  BY <2>1, <2>2, <2>3, <2>4
<1>7. IF s[1].do = "open" THEN t # << >> /\ t[1] = FileOp("fill", s[1].kind, s[1].arg)
                          ELSE t = << >> \/ t[1].do # "fill"
  <2>1. CASE s[1].do = "open"
    <3>1. 1 < n + 1 /\ s[1 + 1] = FileOp("fill", s[1].kind, s[1].arg)
      BY <1>1, <1>4, <2>1 DEF Orderly
    <3>2. 1 \in 1..n
      BY <1>1, <3>1
    <3> QED  BY <1>1, <2>1, <3>1, <3>2
  <2>2. CASE s[1].do # "open" /\ n > 0
    <3>1. 2 \in 1..Len(s) /\ t[1] = s[2]
      BY <1>1, <2>2
    <3> QED  BY <2>2, <3>1 DEF Orderly
  <2> QED  BY <1>1, <2>1, <2>2
<1>8. t # << >> => Head(t) = t[1]
  BY <1>1
<1> QED  BY <1>1, <1>3, <1>5, <1>6, <1>7, <1>8 DEF t

\* One operation by itself, and a file opened and filled.
LEMMA OrderlyOne ==
  ASSUME NEW m, NEW o, NEW R, Lawful(m, o), o.do \notin {"open", "fill"}, Fits(o, R)
  PROVE  /\ Orderly(m, <<o>>, R) /\ OpsOf(<<o>>) = {o}
         /\ StartsOpen(<<o>>) /\ <<o>> # << >> /\ <<o>>[1] = o
<1>1. <<o>> \in Seq(Ops) /\ Len(<<o>>) = 1 /\ <<o>>[1] = o
  <2>1. o \in Ops
    BY DEF Lawful
  <2> HIDE DEF Ops
  <2> QED  BY <2>1
<1>2. After(<<o>>, 1) = {} /\ OpsOf(<<o>>) = {o}
  BY <1>1 DEF After, OpsOf
<1>3. After(<<o>>, 1) \cup R = R
  BY <1>2
<1> HIDE DEF Lawful, Fits
<1>4. Orderly(m, <<o>>, R)
  BY <1>1, <1>3 DEF Orderly
<1> QED  BY <1>1, <1>2, <1>4 DEF StartsOpen

LEMMA OrderlyPair ==
  ASSUME NEW m, NEW kind, NEW arg, NEW R,
         Lawful(m, FileOp("open", kind, arg)), Lawful(m, FileOp("fill", kind, arg)),
         Fits(FileOp("open", kind, arg), {FileOp("fill", kind, arg)} \cup R),
         Fits(FileOp("fill", kind, arg), R)
  PROVE  LET s == <<FileOp("open", kind, arg), FileOp("fill", kind, arg)>>
         IN  /\ Orderly(m, s, R)
             /\ OpsOf(s) = {FileOp("open", kind, arg), FileOp("fill", kind, arg)}
             /\ StartsOpen(s) /\ s # << >> /\ s[1] = FileOp("open", kind, arg)
<1> DEFINE o == FileOp("open", kind, arg)
           f == FileOp("fill", kind, arg)
           s == <<o, f>>
<1>1. o \in Ops /\ f \in Ops
  BY DEF Lawful
<1>2. /\ o.do = "open" /\ f.do = "fill" /\ f = FileOp("fill", o.kind, o.arg)
  BY DEF FileOp
<1> HIDE DEF o, f
<1>3. s \in Seq(Ops) /\ Len(s) = 2 /\ s[1] = o /\ s[2] = f
  BY <1>1
<1>4. After(s, 1) = {f} /\ After(s, 2) = {} /\ OpsOf(s) = {o, f}
  <2>1. 1 + 1..2 = {2} /\ 2 + 1..2 = {} /\ 0 + 1..2 = {1, 2}
    OBVIOUS
  <2> QED  BY <1>3, <2>1 DEF After, OpsOf
<1>5. After(s, 1) \cup R = {f} \cup R /\ After(s, 2) \cup R = R
  BY <1>4
<1>6. Orderly(m, s, R)
  <2>1. Lawful(m, o) /\ Lawful(m, f) /\ Fits(o, {f} \cup R) /\ Fits(f, R)
    BY DEF o, f
  <2> SUFFICES ASSUME NEW i \in 1..2
               PROVE  /\ Lawful(m, s[i])
                      /\ Fits(s[i], After(s, i) \cup R)
                      /\ s[i].do = "open" => i < 2 /\ s[i + 1] = FileOp("fill", s[i].kind, s[i].arg)
                      /\ i > 1 /\ s[i].do = "fill" => s[i - 1].do = "open"
    BY <1>3 DEF Orderly
  <2>2. CASE i = 1
    BY <1>2, <1>3, <1>5, <2>1, <2>2
  <2>3. CASE i = 2
    BY <1>2, <1>3, <1>5, <2>1, <2>3
  <2> QED  BY <2>2, <2>3
<1>7. StartsOpen(s) /\ s # << >> /\ s[1] = o
  BY <1>2, <1>3 DEF StartsOpen
<1> QED  BY <1>4, <1>6, <1>7 DEF s, o, f

Adapters == {"local", "aws", "databricks"}

\* s is orderly before R, and consists of the operations set.
Piece(s, R, set) ==
  Orderly(adapter, s, R) /\ OpsOf(s) = set /\ StartsOpen(s) /\ s # << >> /\ s[1] \in set

\* A write of a whole file, of a status, of the partition.
WriteSet(kind, arg) ==
  IF adapter = "aws" THEN {FileOp("put", kind, arg)}
  ELSE {FileOp("open", kind, arg), FileOp("fill", kind, arg)}

StatusSet(said) ==
  IF adapter = "local" THEN {FileOp("open", "status", said), FileOp("fill", "status", said)}
  ELSE {FileOp("put", "status", said)}

TableSet ==
  IF adapter = "databricks" THEN {FileOp("put", "table", "")}
  ELSE {FileOp("open", "table", ""), FileOp("fill", "table", "")}

MoveSet(from, to) ==
  IF adapter = "aws" THEN {FileOp("copy", to, from), FileOp("remove", from, "")}
  ELSE {FileOp("replace", to, from)}

ManifestSet ==
  IF adapter = "local" THEN WriteSet("tmp", "") \cup MoveSet("tmp", "manifest")
  ELSE WriteSet("manifest", "")

LEMMA StatusPiece ==
  ASSUME NEW R, NEW said \in {"in_progress", "failed", "completed"}, adapter \in Adapters,
         said = "completed" => R = {}
  PROVE  /\ Piece(StatusUpdate(said), R, StatusSet(said))
         /\ StatusUpdate(said)[1].do \in {"open", "put"}
         /\ StatusUpdate(said)[1].kind = "status" /\ StatusUpdate(said)[1].arg = said
<1> USE DEF Lawful, Fits, Fills, MovesFrom, Touches, Completes, Ops, FileOp, DocumentKinds, Adapters
<1>1. CASE adapter = "local"
  <2>1. /\ Lawful(adapter, FileOp("open", "status", said))
        /\ Lawful(adapter, FileOp("fill", "status", said))
        /\ Fits(FileOp("fill", "status", said), R)
    BY <1>1
  <2>2. Fits(FileOp("open", "status", said), {FileOp("fill", "status", said)} \cup R)
    BY <1>1
  <2> HIDE DEF Lawful, Fits, FileOp
  <2>3. /\ StatusUpdate(said) = <<FileOp("open", "status", said), FileOp("fill", "status", said)>>
        /\ StatusSet(said) = {FileOp("open", "status", said), FileOp("fill", "status", said)}
    BY <1>1 DEF StatusUpdate, Written, StatusSet
  <2>4. Piece(StatusUpdate(said), R, StatusSet(said))
        /\ StatusUpdate(said)[1] = FileOp("open", "status", said)
    BY <2>1, <2>2, <2>3, OrderlyPair DEF Piece
  <2> QED  BY <2>4 DEF FileOp
<1>2. CASE adapter # "local"
  <2>1. Lawful(adapter, FileOp("put", "status", said)) /\ Fits(FileOp("put", "status", said), R)
        /\ FileOp("put", "status", said).do \notin {"open", "fill"}
    BY <1>2
  <2> HIDE DEF Lawful, Fits, FileOp
  <2>2. /\ StatusUpdate(said) = <<FileOp("put", "status", said)>>
        /\ StatusSet(said) = {FileOp("put", "status", said)}
    BY <1>2 DEF StatusUpdate, StatusSet
  <2>3. Piece(StatusUpdate(said), R, StatusSet(said))
        /\ StatusUpdate(said)[1] = FileOp("put", "status", said)
    BY <2>1, <2>2, OrderlyOne DEF Piece
  <2> QED  BY <2>3 DEF FileOp
<1> QED  BY <1>1, <1>2

LEMMA WritePiece ==
  ASSUME NEW R, NEW kind \in {"staged", "tmp", "manifest"}, adapter \in Adapters,
         kind = "manifest" => adapter # "local",
         kind = "tmp" => adapter = "local",
         kind # "manifest" => \E r \in R : Touches(r, kind)
  PROVE  Piece(Written(kind, ""), R, WriteSet(kind, ""))
<1> USE DEF Lawful, Fits, Fills, MovesFrom, Touches, Completes, Ops, FileOp, DocumentKinds, Adapters
<1>1. CASE adapter # "aws"
  <2>1. /\ Lawful(adapter, FileOp("open", kind, ""))
        /\ Lawful(adapter, FileOp("fill", kind, ""))
        /\ Fits(FileOp("fill", kind, ""), R)
    BY <1>1
  <2>2. Fits(FileOp("open", kind, ""), {FileOp("fill", kind, "")} \cup R)
    BY <1>1
  <2> HIDE DEF Lawful, Fits, FileOp
  <2>3. /\ Written(kind, "") = <<FileOp("open", kind, ""), FileOp("fill", kind, "")>>
        /\ WriteSet(kind, "") = {FileOp("open", kind, ""), FileOp("fill", kind, "")}
    BY <1>1 DEF Written, WriteSet
  <2>4. LET w == <<FileOp("open", kind, ""), FileOp("fill", kind, "")>>
        IN  /\ Orderly(adapter, w, R)
            /\ OpsOf(w) = {FileOp("open", kind, ""), FileOp("fill", kind, "")}
            /\ StartsOpen(w) /\ w # << >> /\ w[1] = FileOp("open", kind, "")
    BY <2>1, <2>2, OrderlyPair
  <2> QED  BY <2>3, <2>4 DEF Piece
<1>2. CASE adapter = "aws"
  <2>1. Lawful(adapter, FileOp("put", kind, "")) /\ Fits(FileOp("put", kind, ""), R)
        /\ FileOp("put", kind, "").do \notin {"open", "fill"}
    BY <1>2
  <2> HIDE DEF Lawful, Fits, FileOp
  <2>2. Written(kind, "") = <<FileOp("put", kind, "")>> /\ WriteSet(kind, "") = {FileOp("put", kind, "")}
    BY <1>2 DEF Written, WriteSet
  <2>3. LET w == <<FileOp("put", kind, "")>>
        IN  /\ Orderly(adapter, w, R) /\ OpsOf(w) = {FileOp("put", kind, "")}
            /\ StartsOpen(w) /\ w # << >> /\ w[1] = FileOp("put", kind, "")
    BY <2>1, OrderlyOne
  <2> QED  BY <2>2, <2>3 DEF Piece
<1> QED  BY <1>1, <1>2

LEMMA TablePiece ==
  ASSUME NEW R, adapter \in Adapters
  PROVE  Piece(TableWrite, R, TableSet)
<1> USE DEF Lawful, Fits, Fills, MovesFrom, Touches, Completes, Ops, FileOp, DocumentKinds, Adapters
<1>1. CASE adapter # "databricks"
  <2>1. /\ Lawful(adapter, FileOp("open", "table", ""))
        /\ Lawful(adapter, FileOp("fill", "table", ""))
        /\ Fits(FileOp("fill", "table", ""), R)
    BY <1>1
  <2>2. Fits(FileOp("open", "table", ""), {FileOp("fill", "table", "")} \cup R)
    BY <1>1
  <2> HIDE DEF Lawful, Fits, FileOp
  <2>3. /\ TableWrite = <<FileOp("open", "table", ""), FileOp("fill", "table", "")>>
        /\ TableSet = {FileOp("open", "table", ""), FileOp("fill", "table", "")}
    BY <1>1 DEF TableWrite, TableSet
  <2> QED  BY <2>1, <2>2, <2>3, OrderlyPair DEF Piece
<1>2. CASE adapter = "databricks"
  <2>1. Lawful(adapter, FileOp("put", "table", "")) /\ Fits(FileOp("put", "table", ""), R)
        /\ FileOp("put", "table", "").do \notin {"open", "fill"}
    BY <1>2
  <2> HIDE DEF Lawful, Fits, FileOp
  <2>2. TableWrite = <<FileOp("put", "table", "")>> /\ TableSet = {FileOp("put", "table", "")}
    BY <1>2 DEF TableWrite, TableSet
  <2> QED  BY <2>1, <2>2, OrderlyOne DEF Piece
<1> QED  BY <1>1, <1>2

\* staged becomes raw; tmp becomes the manifest, locally.
LEMMA MovePiece ==
  ASSUME NEW R, NEW from \in {"staged", "tmp"}, NEW to, adapter \in Adapters,
         to = IF from = "staged" THEN "raw" ELSE "manifest",
         from = "tmp" => adapter = "local",
         \A r \in R : ~Fills(r, from) /\ ~MovesFrom(r, from),
         \E r \in R : Completes(r)
  PROVE  Piece(Moved(from, to), R, MoveSet(from, to))
<1> USE DEF Lawful, Fits, Fills, MovesFrom, Touches, Completes, Ops, FileOp, DocumentKinds, Adapters
<1>1. CASE adapter # "aws"
  <2>1. Lawful(adapter, FileOp("replace", to, from)) /\ Fits(FileOp("replace", to, from), R)
        /\ FileOp("replace", to, from).do \notin {"open", "fill"}
    BY <1>1
  <2> HIDE DEF Lawful, Fits, FileOp
  <2>2. Moved(from, to) = <<FileOp("replace", to, from)>> /\ MoveSet(from, to) = {FileOp("replace", to, from)}
    BY <1>1 DEF Moved, MoveSet
  <2>3. LET w == <<FileOp("replace", to, from)>>
        IN  /\ Orderly(adapter, w, R) /\ OpsOf(w) = {FileOp("replace", to, from)}
            /\ StartsOpen(w) /\ w # << >> /\ w[1] = FileOp("replace", to, from)
    BY <2>1, OrderlyOne
  <2> QED  BY <2>2, <2>3 DEF Piece
<1>2. CASE adapter = "aws"
  <2> DEFINE c == FileOp("copy", "raw", "staged")
             d == FileOp("remove", "staged", "")
  <2>1. Lawful(adapter, c) /\ Lawful(adapter, d) /\ c.do = "copy" /\ d.do = "remove"
    BY <1>2
  <2>2. Fits(d, R)
    BY <1>2
  <2>3. Fits(c, {d} \cup R)
    <3>1. \A r \in {d} \cup R : ~Fills(r, "staged") /\ ~MovesFrom(r, "staged")
      <4>1. ~Fills(d, "staged") /\ ~MovesFrom(d, "staged") /\ from = "staged"
        BY <1>2
      <4> HIDE DEF d, Fills, MovesFrom
      <4> QED  BY <4>1
    <3>2. (\E r \in {d} \cup R : Completes(r)) /\ Touches(d, "staged") /\ d \in {d} \cup R
          /\ ~Touches(c, "tmp")
      BY <1>2
    <3>3. ~Completes(c) /\ c.do = "copy" /\ ~MovesFrom(c, "tmp")
      OBVIOUS
    <3> HIDE DEF c, d, Fills, MovesFrom, Touches, Completes, FileOp
    <3> QED  BY <3>1, <3>2, <3>3
  <2> HIDE DEF Lawful, Fits, FileOp, c, d
  <2>4. Moved(from, to) = <<c, d>> /\ MoveSet(from, to) = {c, d}
    BY <1>2 DEF Moved, MoveSet, c, d
  <2>5. <<c, d>> \in Seq(Ops) /\ Len(<<c, d>>) = 2 /\ <<c, d>>[1] = c /\ <<c, d>>[2] = d /\ <<c, d>> # << >>
    <3>1. c \in Ops /\ d \in Ops
      BY <2>1 DEF Lawful
    <3> HIDE DEF Ops
    <3> QED  BY <3>1
  <2>6. After(<<c, d>>, 1) \cup R = {d} \cup R /\ After(<<c, d>>, 2) \cup R = R /\ OpsOf(<<c, d>>) = {c, d}
    <3>1. 1 + 1..2 = {2} /\ 2 + 1..2 = {} /\ 0 + 1..2 = {1, 2}
      OBVIOUS
    <3>2. After(<<c, d>>, 1) = {d} /\ After(<<c, d>>, 2) = {} /\ OpsOf(<<c, d>>) = {c, d}
      BY <2>5, <3>1 DEF After, OpsOf
    <3> QED  BY <3>2
  <2>7. Orderly(adapter, <<c, d>>, R)
    <3> SUFFICES ASSUME NEW i \in 1..2
                 PROVE  /\ Lawful(adapter, <<c, d>>[i])
                        /\ Fits(<<c, d>>[i], After(<<c, d>>, i) \cup R)
                        /\ <<c, d>>[i].do \notin {"open", "fill"}
      BY <2>5 DEF Orderly
    <3>1. CASE i = 1
      BY <2>1, <2>3, <2>5, <2>6, <3>1
    <3>2. CASE i = 2
      BY <2>1, <2>2, <2>5, <2>6, <3>2
    <3> QED  BY <3>1, <3>2
  <2> QED  BY <2>1, <2>4, <2>5, <2>6, <2>7 DEF Piece, StartsOpen
<1> QED  BY <1>1, <1>2

\* Two pieces, the second before R, make one.
LEMMA PieceConcat ==
  ASSUME NEW s, NEW t, NEW S, NEW T, NEW R, Piece(s, T \cup R, S), Piece(t, R, T)
  PROVE  Piece(s \o t, R, S \cup T) /\ (s \o t)[1] = s[1]
<1>1. /\ Orderly(adapter, s \o t, R)
      /\ \A o : o \in OpsOf(s \o t) <=> o \in OpsOf(s) \cup OpsOf(t)
      /\ s # << >> => (s \o t) # << >> /\ (s \o t)[1] = s[1]
  <2>1. Orderly(adapter, s, OpsOf(t) \cup R)
    BY DEF Piece
  <2>2. Orderly(adapter, t, R)
    BY DEF Piece
  <2>3. StartsOpen(t)
    BY DEF Piece
  <2>4. Orderly(adapter, s \o t, R)
    BY <2>1, <2>2, <2>3, OrderlyConcat
  <2>5. \A o : o \in OpsOf(s \o t) <=> o \in OpsOf(s) \cup OpsOf(t)
    BY <2>1, <2>2, <2>3, OrderlyConcat, Zenon
  <2>6. s # << >> => (s \o t) # << >>
    BY <2>1, <2>2, <2>3, OrderlyConcat
  <2>7. s # << >> => (s \o t)[1] = s[1]
    BY <2>1, <2>2, <2>3, OrderlyConcat
  <2> QED  BY <2>4, <2>5, <2>6, <2>7
<1>2. OpsOf(s \o t) = OpsOf(s) \cup OpsOf(t)
  BY <1>1
<1> QED  BY <1>1, <1>2 DEF Piece, StartsOpen

LEMMA ManifestPiece ==
  ASSUME NEW R, adapter \in Adapters, \A r \in R : ~Touches(r, "tmp"), \E r \in R : Completes(r)
  PROVE  Piece(ManifestWrite, R, ManifestSet)
<1>1. CASE adapter = "local"
  <2> DEFINE w == Written("tmp", "")
             v == Moved("tmp", "manifest")
  <2>1. Piece(v, R, MoveSet("tmp", "manifest"))
    <3>1. \A r \in R : ~Fills(r, "tmp") /\ ~MovesFrom(r, "tmp")
      BY DEF Fills, MovesFrom, Touches
    <3> QED  BY <1>1, <3>1, MovePiece
  <2>2. Piece(w, MoveSet("tmp", "manifest") \cup R, WriteSet("tmp", ""))
    <3>1. \E r \in MoveSet("tmp", "manifest") : Touches(r, "tmp")
      BY <1>1 DEF MoveSet, FileOp, Touches
    <3>2. \E r \in MoveSet("tmp", "manifest") \cup R : Touches(r, "tmp")
      BY <3>1
    <3> QED  BY <1>1, <3>2, WritePiece
  <2>3. ManifestWrite = w \o v /\ ManifestSet = WriteSet("tmp", "") \cup MoveSet("tmp", "manifest")
    BY <1>1 DEF ManifestWrite, ManifestSet
  <2> HIDE DEF w, v
  <2> QED  BY <2>1, <2>2, <2>3, PieceConcat
<1>2. CASE adapter # "local"
  <2>1. Piece(Written("manifest", ""), R, WriteSet("manifest", ""))
    BY <1>2, WritePiece
  <2> QED  BY <1>2, <2>1 DEF ManifestWrite, ManifestSet
<1> QED  BY <1>1, <1>2

Removal == FileOp("remove", "staged", "")
Judging == FileOp("judge", "staged", "")

LandingSet ==
  StatusSet("in_progress") \cup {Removal} \cup WriteSet("staged", "") \cup {Judging}
    \cup TableSet \cup MoveSet("staged", "raw") \cup ManifestSet \cup StatusSet("completed")

\* A landing is orderly, and begins with its status.
LEMMA LandingOrder ==
  ASSUME adapter \in Adapters
  PROVE  /\ Piece(LandingOps, {}, LandingSet)
         /\ LandingOps[1].do \in {"open", "put"} /\ LandingOps[1].kind = "status"
         /\ LandingOps[1].arg = "in_progress"
<1> DEFINE R7 == StatusSet("completed") \cup {}
           R6 == ManifestSet \cup R7
           R5 == MoveSet("staged", "raw") \cup R6
           R4 == TableSet \cup R5
           R3 == {Judging} \cup R4
           R2 == WriteSet("staged", "") \cup R3
           R1 == {Removal} \cup R2
<1>1. /\ \E r \in R7 : Completes(r)
      /\ \A r \in R7 : r.kind = "status" /\ r.arg = "completed"
  <2>1. CASE adapter = "local"
    BY <2>1 DEF StatusSet, Completes, FileOp
  <2>2. CASE adapter # "local"
    <3> DEFINE p == FileOp("put", "status", "completed")
    <3>1. R7 = {p}
      BY <2>2 DEF StatusSet
    <3>2. p.kind = "status" /\ p.arg = "completed"
      BY DEF FileOp
    <3> HIDE DEF p, R7
    <3> QED  BY <3>1, <3>2 DEF Completes
  <2> QED  BY <2>1, <2>2
<1>2. Piece(StatusUpdate("completed"), {}, StatusSet("completed"))
  BY StatusPiece
<1>3. Piece(ManifestWrite, R7, ManifestSet)
  <2>1. \A r \in R7 : ~Touches(r, "tmp")
    BY <1>1 DEF Touches
  <2> HIDE DEF R7
  <2> QED  BY <1>1, <2>1, ManifestPiece
<1>4. /\ \A r \in R6 : r.kind \in {"tmp", "manifest", "status"} /\ r.arg # "staged"
      /\ \E r \in R6 : Completes(r)
  <2> HIDE DEF R7
  <2>1. \A r \in ManifestSet : r.kind \in {"tmp", "manifest"} /\ r.arg # "staged"
    <3>1. ASSUME NEW r \in WriteSet("tmp", "") \cup WriteSet("manifest", "")
          PROVE  r.kind \in {"tmp", "manifest"} /\ r.arg # "staged"
      <4>1. PICK d \in {"put", "open", "fill"}, k \in {"tmp", "manifest"} : r = FileOp(d, k, "")
        BY <3>1 DEF WriteSet
      <4>2. r.kind = k /\ r.arg = ""
        BY <4>1 DEF FileOp
      <4> QED  BY <4>2
    <3>2. ASSUME NEW r \in MoveSet("tmp", "manifest"), adapter = "local"
          PROVE  r.kind \in {"tmp", "manifest"} /\ r.arg # "staged"
      BY <3>2 DEF MoveSet, FileOp
    <3> QED  BY <3>1, <3>2 DEF ManifestSet
  <2> QED  BY <1>1, <2>1
<1>5. Piece(Moved("staged", "raw"), R6, MoveSet("staged", "raw"))
  <2>1. \A r \in R6 : ~Fills(r, "staged") /\ ~MovesFrom(r, "staged")
    BY <1>4 DEF Fills, MovesFrom
  <2> HIDE DEF R6
  <2> QED  BY <1>4, <2>1, MovePiece
<1>6. Piece(TableWrite, R5, TableSet)
  BY TablePiece
<1>7. \E r \in R4 : Touches(r, "staged")
  <2>1. \E r \in MoveSet("staged", "raw") : Touches(r, "staged")
    BY DEF MoveSet, Touches, FileOp
  <2> HIDE DEF R6
  <2> QED  BY <2>1
<1>8. Piece(<<Judging>>, R4, {Judging})
  <2>1. /\ Lawful(adapter, Judging) /\ Judging.do = "judge"
        /\ ~Completes(Judging) /\ ~MovesFrom(Judging, "staged") /\ ~MovesFrom(Judging, "tmp")
        /\ ~Touches(Judging, "tmp")
    BY DEF Judging, FileOp, Lawful, Ops, DocumentKinds, Completes, MovesFrom, Touches
  <2> HIDE DEF R4
  <2>2. Fits(Judging, R4)
    BY <1>7, <2>1 DEF Fits
  <2> QED  BY <2>1, <2>2, OrderlyOne DEF Piece
<1>9. Piece(Written("staged", ""), R3, WriteSet("staged", ""))
  <2>1. Touches(Judging, "staged")
    BY DEF Judging, FileOp, Touches
  <2> HIDE DEF R4
  <2>2. \E r \in R3 : Touches(r, "staged")
    BY <2>1
  <2> HIDE DEF R3
  <2> QED  BY <2>2, WritePiece
<1>10. Piece(<<Removal>>, R2, {Removal})
  <2>1. /\ Lawful(adapter, Removal) /\ Removal.do = "remove"
        /\ ~Completes(Removal) /\ ~MovesFrom(Removal, "staged") /\ ~MovesFrom(Removal, "tmp")
    BY DEF Removal, FileOp, Lawful, Ops, DocumentKinds, Completes, MovesFrom, Touches
  <2>2. \E r \in WriteSet("staged", "") : Fills(r, "staged")
    BY DEF WriteSet, Fills, FileOp
  <2> HIDE DEF R3
  <2>3. \E r \in R2 : Fills(r, "staged")
    BY <2>2
  <2> HIDE DEF R2
  <2>4. Fits(Removal, R2)
    BY <2>1, <2>3 DEF Fits
  <2> QED  BY <2>1, <2>4, OrderlyOne DEF Piece
<1>11. /\ Piece(StatusUpdate("in_progress"), R1, StatusSet("in_progress"))
       /\ StatusUpdate("in_progress")[1].do \in {"open", "put"}
       /\ StatusUpdate("in_progress")[1].kind = "status"
       /\ StatusUpdate("in_progress")[1].arg = "in_progress"
  <2> HIDE DEF R1
  <2> QED  BY StatusPiece
<1>12. \E s : /\ Piece(s, R7, StatusSet("in_progress") \cup {Removal} \cup WriteSet("staged", "") \cup {Judging}
                                \cup TableSet \cup MoveSet("staged", "raw") \cup ManifestSet)
              /\ s[1] = StatusUpdate("in_progress")[1]
              /\ LandingOps = s \o StatusUpdate("completed")
  <2> DEFINE s2 == StatusUpdate("in_progress") \o <<Removal>>
             s3 == s2 \o Written("staged", "")
             s4 == s3 \o <<Judging>>
             s5 == s4 \o TableWrite
             s6 == s5 \o Moved("staged", "raw")
             s7 == s6 \o ManifestWrite
  <2>1. LandingOps = s7 \o StatusUpdate("completed")
    BY DEF LandingOps, Removal, Judging
  <2> HIDE DEF R2
  <2>2. /\ Piece(s2, R2, StatusSet("in_progress") \cup {Removal})
        /\ s2[1] = StatusUpdate("in_progress")[1]
    BY <1>10, <1>11, PieceConcat
  <2> HIDE DEF s2, R3
  <2>3. /\ Piece(s3, R3, StatusSet("in_progress") \cup {Removal} \cup WriteSet("staged", ""))
        /\ s3[1] = s2[1]
    BY <1>9, <2>2, PieceConcat DEF R2
  <2> HIDE DEF s3, R4
  <2>4. /\ Piece(s4, R4, StatusSet("in_progress") \cup {Removal} \cup WriteSet("staged", "") \cup {Judging})
        /\ s4[1] = s3[1]
    BY <1>8, <2>3, PieceConcat DEF R3
  <2> HIDE DEF s4, R5
  <2>5. /\ Piece(s5, R5, StatusSet("in_progress") \cup {Removal} \cup WriteSet("staged", "") \cup {Judging}
                           \cup TableSet)
        /\ s5[1] = s4[1]
    BY <1>6, <2>4, PieceConcat DEF R4
  <2> HIDE DEF s5, R6
  <2>6. /\ Piece(s6, R6, StatusSet("in_progress") \cup {Removal} \cup WriteSet("staged", "") \cup {Judging}
                           \cup TableSet \cup MoveSet("staged", "raw"))
        /\ s6[1] = s5[1]
    BY <1>5, <2>5, PieceConcat DEF R5
  <2> HIDE DEF s6, R7
  <2>7. /\ Piece(s7, R7, StatusSet("in_progress") \cup {Removal} \cup WriteSet("staged", "") \cup {Judging}
                           \cup TableSet \cup MoveSet("staged", "raw") \cup ManifestSet)
        /\ s7[1] = s6[1]
    BY <1>3, <2>6, PieceConcat DEF R6
  <2> HIDE DEF s7
  <2> QED  BY <2>1, <2>2, <2>3, <2>4, <2>5, <2>6, <2>7
<1>13. PICK s : /\ Piece(s, R7, StatusSet("in_progress") \cup {Removal} \cup WriteSet("staged", "") \cup {Judging}
                                  \cup TableSet \cup MoveSet("staged", "raw") \cup ManifestSet)
                /\ s[1] = StatusUpdate("in_progress")[1]
                /\ LandingOps = s \o StatusUpdate("completed")
  BY <1>12
<1>14. Piece(LandingOps, {}, LandingSet) /\ LandingOps[1] = s[1]
  BY <1>2, <1>13, PieceConcat DEF LandingSet
<1> QED  BY <1>11, <1>13, <1>14

\* What a run does after an operation of it raised is orderly, and never
\* completes the job; it begins with a status unless the staged file goes first.
LEMMA RaiseOrder ==
  ASSUME NEW op, adapter \in Adapters
  PROVE  /\ Orderly(adapter, AfterRaise(op), {})
         /\ \A o \in OpsOf(AfterRaise(op)) : ~Completes(o)
         /\ AfterRaise(op) # << >> =>
              /\ AfterRaise(op)[1].do \notin {"fill"} /\ AfterRaise(op)[1].arg # "completed"
              /\ ~InLanding(op) => /\ AfterRaise(op)[1].do \in {"open", "put"}
                                   /\ AfterRaise(op)[1].kind = "status"
<1>1. CASE op.kind = "status" /\ op.arg = "failed"
  <2>1. AfterRaise(op) = << >>
    BY <1>1 DEF AfterRaise
  <2>2. << >> \in Seq(Ops) /\ Len(<< >>) = 0 /\ OpsOf(<< >>) = {}
    <3>1. 0 + 1..0 = {}
      OBVIOUS
    <3> QED  BY <3>1 DEF OpsOf, After
  <2> QED  BY <2>1, <2>2 DEF Orderly
<1> DEFINE S == StatusSet("failed")
<1>2. /\ Piece(FailureOps, {}, S)
      /\ FailureOps[1].do \in {"open", "put"} /\ FailureOps[1].kind = "status" /\ FailureOps[1].arg = "failed"
  BY StatusPiece DEF FailureOps
<1>3. \A o \in S : ~Completes(o) /\ ~MovesFrom(o, "staged")
  BY DEF StatusSet, Completes, MovesFrom, FileOp
<1> HIDE DEF S
<1>4. CASE ~(op.kind = "status" /\ op.arg = "failed") /\ InLanding(op)
  <2>1. /\ Lawful(adapter, Removal) /\ Removal.do = "remove" /\ Removal.arg = ""
        /\ ~Completes(Removal) /\ ~MovesFrom(Removal, "staged") /\ ~MovesFrom(Removal, "tmp")
    BY DEF Removal, FileOp, Lawful, Ops, DocumentKinds, Completes, MovesFrom, Touches
  <2>2. Fits(Removal, S \cup {})
    BY <1>3, <2>1 DEF Fits
  <2>3. Piece(<<Removal>>, S \cup {}, {Removal}) /\ <<Removal>>[1] = Removal
    BY <2>1, <2>2, OrderlyOne DEF Piece
  <2>4. Piece(<<Removal>> \o FailureOps, {}, {Removal} \cup S) /\ (<<Removal>> \o FailureOps)[1] = Removal
    BY <1>2, <2>3, PieceConcat
  <2>5. AfterRaise(op) = <<Removal>> \o FailureOps
    BY <1>4 DEF AfterRaise, Removal
  <2> QED  BY <1>3, <1>4, <2>1, <2>4, <2>5 DEF Piece
<1>5. CASE ~(op.kind = "status" /\ op.arg = "failed") /\ ~InLanding(op)
  <2>1. AfterRaise(op) = << >> \o FailureOps
    BY <1>5 DEF AfterRaise
  <2>2. << >> \o FailureOps = FailureOps
    <3>1. FailureOps \in Seq(Ops)
      BY <1>2 DEF Piece, Orderly
    <3> QED  BY <3>1, ConcatEmptySeq
  <2> QED  BY <1>2, <1>3, <2>1, <2>2 DEF Piece
<1> QED  BY <1>1, <1>4, <1>5

-----------------------------------------------------------------------------
(* Types, and what every operation does, whoever else is at work           *)

Handles == DocumentKinds \cup {"none", "unlinked"}

Files == {Absent, Truncated, Mixed} \cup
         [is : {"document"}, by : LandingAttempts,
          status : {"in_progress", "completed", "failed", "staged", "tmp", ""}, at : Nat]

AttemptRecords == [job : Jobs \cup {"none"}, todo : Seq(Ops), handle : Handles, at : Nat]

StorageTypes ==
  /\ adapter \in Adapters /\ clock \in Nat /\ completions \subseteq Nat
  /\ documents \in [Jobs -> [DocumentKinds -> Files]]
  /\ attempts \in [LandingAttempts -> AttemptRecords]
  /\ \A a \in LandingAttempts : AttemptAlive(a) => attempts[a].job \in Jobs

\* The next operation of a, and those that follow it.
NextOf(a) == Head(attempts[a].todo)
RestOf(a) == OpsOf(Tail(attempts[a].todo))

\* What is left to do is orderly. Files of a status and of the partition stay
\* open under their names.
AttemptInv(a) ==
  /\ Orderly(adapter, attempts[a].todo, {})
  /\ AttemptAlive(a) /\ NextOf(a).do = "fill" =>
       /\ attempts[a].handle # "none"
       /\ adapter # "local" => attempts[a].handle # "tmp"
       /\ IF NextOf(a).kind \in {"status", "table"} THEN attempts[a].handle = NextOf(a).kind
          ELSE attempts[a].handle \notin {"status", "table"}

\* On S3 only the partition is ever torn; only the local adapter has a
\* temporary manifest.
WholeInv ==
  \A j \in Jobs :
    /\ adapter = "aws" => \A k \in DocumentKinds \ {"table"} : ~Torn(documents[j][k])
    /\ adapter # "local" => documents[j].tmp = Absent

StorageInv == StorageTypes /\ (\A a \in LandingAttempts : AttemptInv(a)) /\ WholeInv

\* The attempts when the next operation of a is done, and when it raised.
LEMMA NextOpFacts ==
  ASSUME NEW a \in LandingAttempts, NEW h \in Handles, StorageTypes, AttemptAlive(a)
  PROVE  /\ NextOp(a, h) \in [LandingAttempts -> AttemptRecords]
         /\ NextOp(a, h)[a].job = attempts[a].job
         /\ NextOp(a, h)[a].todo = Tail(attempts[a].todo)
         /\ NextOp(a, h)[a].handle = h
         /\ NextOp(a, h)[a].at = IF h = "none" THEN 0 ELSE clock
         /\ \A b \in LandingAttempts : b # a => NextOp(a, h)[b] = attempts[b]
<1> DEFINE g == attempts[a]
           c == IF h = "none" THEN 0 ELSE clock
           t == Tail(g.todo)
           r == [g EXCEPT !.todo = t, !.handle = h, !.at = c]
           n == [attempts EXCEPT ![a] = r]
<1>1. attempts \in [LandingAttempts -> AttemptRecords] /\ g \in AttemptRecords /\ c \in Nat
      /\ g.todo # << >>
  BY DEF StorageTypes, AttemptAlive
<1>2. t \in Seq(Ops)
  <2>1. g.todo \in Seq(Ops)
    BY <1>1 DEF AttemptRecords
  <2> HIDE DEF g
  <2> QED  BY <1>1, <2>1, HeadTailProperties
<1>3. NextOp(a, h) = n
  BY <1>1 DEF NextOp, AttemptRecords
<1> HIDE DEF t, c
<1>4. r.job = g.job /\ r.todo = t /\ r.handle = h /\ r.at = c
  <2> HIDE DEF g
  <2> QED  BY <1>1 DEF AttemptRecords
<1>5. r \in AttemptRecords
  <2> HIDE DEF g
  <2> QED  BY <1>1, <1>2 DEF AttemptRecords
<1> HIDE DEF r
<1>6. /\ n \in [LandingAttempts -> AttemptRecords] /\ n[a] = r
      /\ \A b \in LandingAttempts : b # a => n[b] = attempts[b]
  BY <1>1, <1>5
<1> HIDE DEF n
<1> QED  BY <1>3, <1>4, <1>6 DEF g, t, c

LEMMA RaiseFacts ==
  ASSUME NEW a \in LandingAttempts, NEW op, StorageTypes, RaiseAt(a, op)
  PROVE  /\ attempts' \in [LandingAttempts -> AttemptRecords]
         /\ attempts'[a].job = attempts[a].job /\ attempts'[a].todo = AfterRaise(op)
         /\ attempts'[a].handle = "none"
         /\ \A b \in LandingAttempts : b # a => attempts'[b] = attempts[b]
<1> DEFINE g == attempts[a]
           t == AfterRaise(op)
           r == [g EXCEPT !.todo = t, !.handle = "none", !.at = 0]
<1>1. attempts \in [LandingAttempts -> AttemptRecords] /\ g \in AttemptRecords
  BY DEF StorageTypes
<1>2. t \in Seq(Ops)
  <2>1. adapter \in Adapters
    BY DEF StorageTypes
  <2> QED  BY <2>1, RaiseOrder DEF Orderly
<1> HIDE DEF t
<1>3. attempts' = [attempts EXCEPT ![a] = r]
  BY <1>1 DEF RaiseAt, AttemptRecords, t
<1>4. r.job = g.job /\ r.todo = t /\ r.handle = "none"
  <2> HIDE DEF g
  <2> QED  BY <1>1 DEF AttemptRecords
<1>5. r \in AttemptRecords
  <2> HIDE DEF g
  <2> QED  BY <1>1, <1>2 DEF AttemptRecords, Handles
<1> HIDE DEF r
<1> QED  BY <1>1, <1>3, <1>4, <1>5 DEF t

\* Open files of a job called from are now called to.
LEMMA FollowFacts ==
  ASSUME NEW all \in [LandingAttempts -> AttemptRecords], NEW j, NEW from, NEW to \in Handles
  PROVE  LET n == HandlesFollow(all, j, from, to)
         IN  /\ n \in [LandingAttempts -> AttemptRecords]
             /\ \A b \in LandingAttempts :
                  /\ n[b].job = all[b].job /\ n[b].todo = all[b].todo /\ n[b].at = all[b].at
                  /\ IF all[b].job = j /\ all[b].handle = from
                     THEN n[b].handle = to ELSE n[b] = all[b]
<1> DEFINE n == HandlesFollow(all, j, from, to)
<1>1. ASSUME NEW b \in LandingAttempts
      PROVE  /\ n[b] \in AttemptRecords
             /\ n[b].job = all[b].job /\ n[b].todo = all[b].todo /\ n[b].at = all[b].at
             /\ IF all[b].job = j /\ all[b].handle = from
                THEN n[b].handle = to ELSE n[b] = all[b]
  <2>1. all[b] \in AttemptRecords
    OBVIOUS
  <2>2. n[b] = IF all[b].job = j /\ all[b].handle = from THEN [all[b] EXCEPT !.handle = to] ELSE all[b]
    BY DEF HandlesFollow
  <2> QED  BY <2>1, <2>2 DEF AttemptRecords
<1>2. n \in [LandingAttempts -> AttemptRecords]
  BY <1>1 DEF HandlesFollow
<1> QED  BY <1>1, <1>2

\* Of the documents of j, that of kind k becomes file.
Becomes(j, k, file) ==
  \A l \in DocumentKinds : documents'[j][l] = IF l = k THEN file ELSE documents[j][l]

StampOf(o, at) == IF o.kind = "status" THEN at ELSE 0

Done(a, o, j) ==
  /\ attempts'[a].todo = Tail(attempts[a].todo)
  /\ attempts'[a].handle = IF o.do = "open" THEN o.kind ELSE "none"
  /\ \/ o.do = "open" /\ Becomes(j, o.kind, Truncated)
     \/ /\ o.do = "fill"
        /\ IF attempts[a].handle = "unlinked" THEN documents'[j] = documents[j]
           ELSE \E file \in FilledFile(documents[j][attempts[a].handle],
                              Document(a, o.arg, StampOf(o, attempts[a].at))) :
                  Becomes(j, attempts[a].handle, file)
     \/ o.do = "put" /\ Becomes(j, o.kind, Document(a, o.arg, StampOf(o, clock)))
     \/ o.do = "remove" /\ Becomes(j, "staged", Absent)
     \/ o.do = "copy" /\ Becomes(j, "raw", documents[j].staged)
     \/ /\ o.do = "replace"
        /\ \A l \in DocumentKinds :
             documents'[j][l] = IF l = o.arg THEN Absent
                                ELSE IF l = o.kind THEN documents[j][o.arg] ELSE documents[j][l]
     \/ o.do = "judge" /\ documents'[j] = documents[j]

Raised(a, o) ==
  /\ o.do \in {"copy", "replace", "judge"} /\ documents' = documents
  /\ attempts'[a].todo = AfterRaise(o) /\ attempts'[a].handle = "none"

\* Other attempts go on; those of the job may hold their files under new names.
OthersGoOn(a, j) ==
  \A b \in LandingAttempts : b # a =>
    /\ attempts'[b].job = attempts[b].job /\ attempts'[b].todo = attempts[b].todo
    /\ attempts[b].job # j => attempts'[b] = attempts[b]
    /\ \/ attempts'[b].handle = attempts[b].handle
       \/ /\ attempts[b].handle \in {"staged", "raw", "tmp", "manifest"}
          /\ attempts'[b].handle \in {"unlinked", "raw", "manifest"}

\* What an operation changes.
Effect(a, o, j) ==
  /\ attempts' \in [LandingAttempts -> AttemptRecords]
  /\ documents' \in [Jobs -> [DocumentKinds -> Files]]
  /\ attempts'[a].job = j /\ OthersGoOn(a, j)
  /\ \A i \in Jobs : i # j => documents'[i] = documents[i]
  /\ Done(a, o, j) \/ Raised(a, o)

\* A write to one document, and a rename.
LEMMA DocumentBecomes ==
  ASSUME NEW j \in Jobs, NEW k \in DocumentKinds, NEW file \in Files,
         documents \in [Jobs -> [DocumentKinds -> Files]],
         documents' = [documents EXCEPT ![j][k] = file]
  PROVE  /\ documents' \in [Jobs -> [DocumentKinds -> Files]]
         /\ Becomes(j, k, file)
         /\ \A i \in Jobs : i # j => documents'[i] = documents[i]
<1> HIDE DEF Files, DocumentKinds
<1> QED  BY DEF Becomes

LEMMA DocumentMoves ==
  ASSUME NEW j \in Jobs, NEW k \in DocumentKinds, NEW l \in DocumentKinds, k # l,
         documents \in [Jobs -> [DocumentKinds -> Files]],
         documents' = [documents EXCEPT ![j][k] = documents[j][l], ![j][l] = Absent]
  PROVE  /\ documents' \in [Jobs -> [DocumentKinds -> Files]]
         /\ \A m \in DocumentKinds : documents'[j][m] = IF m = l THEN Absent
                                       ELSE IF m = k THEN documents[j][l] ELSE documents[j][m]
         /\ \A i \in Jobs : i # j => documents'[i] = documents[i]
<1>1. Absent \in Files /\ documents[j][l] \in Files
  BY DEF Files
<1> HIDE DEF Files, DocumentKinds, Absent
<1> DEFINE f == documents[j][l]
<1>2. PICK e : e = [documents EXCEPT ![j][k] = f]
  OBVIOUS
<1> HIDE DEF f
<1>3. /\ e \in [Jobs -> [DocumentKinds -> Files]]
      /\ \A m \in DocumentKinds : e[j][m] = IF m = k THEN f ELSE documents[j][m]
      /\ \A i \in Jobs : i # j => e[i] = documents[i]
  BY <1>1, <1>2 DEF f
<1>4. documents' = [e EXCEPT ![j][l] = Absent]
  BY <1>2 DEF f
<1> QED  BY <1>1, <1>3, <1>4 DEF f

\* A document of a run is a file.
LEMMA DocumentIsFile ==
  ASSUME NEW a \in LandingAttempts, NEW o \in Ops, NEW at \in Nat,
         o.do \in {"fill", "put"}
  PROVE  Document(a, o.arg, StampOf(o, at)) \in Files
BY DEF Document, Files, Ops, StampOf

\* Every operation does what Effect says of it.
LEMMA OperationEffect ==
  ASSUME NEW a \in LandingAttempts, StorageInv, AttemptAlive(a),
         ApplyOp(a, NextOf(a), attempts[a].job)
  PROVE  Effect(a, NextOf(a), attempts[a].job)
<1> DEFINE o == NextOf(a)
           j == attempts[a].job
<1>1. /\ j \in Jobs /\ clock \in Nat
      /\ documents \in [Jobs -> [DocumentKinds -> Files]]
      /\ attempts \in [LandingAttempts -> AttemptRecords] /\ StorageTypes
      /\ attempts[a] \in AttemptRecords
  BY DEF StorageInv, StorageTypes
<1>2. Lawful(adapter, o) /\ o \in Ops
  <2>1. Orderly(adapter, attempts[a].todo, {}) /\ attempts[a].todo # << >>
    BY DEF StorageInv, AttemptInv, AttemptAlive
  <2>2. Lawful(adapter, o)
    BY <2>1, OrderlyTail DEF NextOf
  <2> QED  BY <2>2 DEF Lawful
<1>3. o.do = "fill" => attempts[a].handle \in DocumentKinds \cup {"unlinked"}
  BY <1>1 DEF StorageInv, AttemptInv, AttemptRecords, Handles
<1>4. o.kind \in DocumentKinds
  BY <1>2 DEF Ops
<1>5. ASSUME NEW h \in Handles, attempts' = NextOp(a, h)
      PROVE  /\ attempts' \in [LandingAttempts -> AttemptRecords]
             /\ attempts'[a].job = j /\ attempts'[a].todo = Tail(attempts[a].todo)
             /\ attempts'[a].handle = h
             /\ OthersGoOn(a, j)
  <2>1. /\ attempts' \in [LandingAttempts -> AttemptRecords]
        /\ attempts'[a].job = j /\ attempts'[a].todo = Tail(attempts[a].todo)
        /\ attempts'[a].handle = h
        /\ \A b \in LandingAttempts : b # a => attempts'[b] = attempts[b]
    BY <1>1, <1>5, NextOpFacts
  <2> QED  BY <2>1 DEF OthersGoOn
<1>6. {"none", "unlinked", "raw", "manifest"} \subseteq Handles /\ DocumentKinds \subseteq Handles
  BY DEF Handles, DocumentKinds
<1>7. /\ DocumentKinds = {"status", "staged", "raw", "tmp", "manifest", "table"}
      /\ Absent \in Files /\ Truncated \in Files /\ Mixed \in Files
  BY DEF DocumentKinds, Files
<1> HIDE DEF o, j
<1>8. ApplyOp(a, o, j)
  BY DEF o, j
<1> SUFFICES Effect(a, o, j)
  BY DEF o, j
<1>9. CASE o.do = "open" /\ documents' = [documents EXCEPT ![j][o.kind] = Truncated]
           /\ attempts' = NextOp(a, o.kind)
  <2>1. /\ documents' \in [Jobs -> [DocumentKinds -> Files]] /\ Becomes(j, o.kind, Truncated)
        /\ \A i \in Jobs : i # j => documents'[i] = documents[i]
    BY <1>1, <1>4, <1>7, <1>9, DocumentBecomes
  <2>2. Done(a, o, j)
    BY <1>4, <1>5, <1>6, <1>9, <2>1 DEF Done
  <2> QED  BY <1>4, <1>5, <1>6, <1>9, <2>1, <2>2 DEF Effect
<1>10. CASE /\ o.do = "fill" /\ attempts' = NextOp(a, "none")
            /\ attempts[a].handle = "unlinked" /\ documents' = documents
  <2>1. Done(a, o, j)
    BY <1>5, <1>6, <1>10 DEF Done
  <2> QED  BY <1>1, <1>5, <1>6, <1>10, <2>1 DEF Effect
<1>11. CASE /\ o.do = "fill" /\ attempts' = NextOp(a, "none")
            /\ attempts[a].handle # "unlinked"
            /\ \E file \in FilledFile(documents[j][attempts[a].handle],
                             Document(a, o.arg, StampOf(o, attempts[a].at))) :
                 documents' = [documents EXCEPT ![j][attempts[a].handle] = file]
  <2>1. PICK file \in FilledFile(documents[j][attempts[a].handle],
                        Document(a, o.arg, StampOf(o, attempts[a].at))) :
               documents' = [documents EXCEPT ![j][attempts[a].handle] = file]
    BY <1>11
  <2>2. file \in Files
    <3>1. attempts[a].at \in Nat
      BY <1>1 DEF AttemptRecords
    <3>2. Document(a, o.arg, StampOf(o, attempts[a].at)) \in Files
      BY <1>2, <1>11, <3>1, DocumentIsFile
    <3> QED  BY <1>7, <2>1, <3>2 DEF FilledFile
  <2>3. attempts[a].handle \in DocumentKinds
    BY <1>3, <1>11
  <2>4. /\ documents' \in [Jobs -> [DocumentKinds -> Files]]
        /\ Becomes(j, attempts[a].handle, file)
        /\ \A i \in Jobs : i # j => documents'[i] = documents[i]
    BY <1>1, <2>1, <2>2, <2>3, DocumentBecomes
  <2>5. Done(a, o, j)
    BY <1>5, <1>6, <1>11, <2>1, <2>4 DEF Done
  <2> QED  BY <1>5, <1>6, <1>11, <2>4, <2>5 DEF Effect
<1>12. CASE /\ o.do = "put" /\ attempts' = NextOp(a, "none")
            /\ documents' = [documents EXCEPT ![j][o.kind] = Document(a, o.arg, StampOf(o, clock))]
  <2>1. Document(a, o.arg, StampOf(o, clock)) \in Files
    BY <1>1, <1>2, <1>12, DocumentIsFile
  <2>2. /\ documents' \in [Jobs -> [DocumentKinds -> Files]]
        /\ Becomes(j, o.kind, Document(a, o.arg, StampOf(o, clock)))
        /\ \A i \in Jobs : i # j => documents'[i] = documents[i]
    BY <1>1, <1>4, <1>12, <2>1, DocumentBecomes
  <2>3. Done(a, o, j)
    BY <1>5, <1>6, <1>12, <2>2 DEF Done
  <2> QED  BY <1>5, <1>6, <1>12, <2>2, <2>3 DEF Effect
<1>13. CASE /\ o.do = "remove" /\ documents' = [documents EXCEPT ![j][o.kind] = Absent]
            /\ attempts' = HandlesFollow(NextOp(a, "none"), j, o.kind, "unlinked")
  <2>1. o.kind = "staged"
    BY <1>2, <1>13 DEF Lawful
  <2>2. PICK n : n = NextOp(a, "none")
    OBVIOUS
  <2>3. /\ n \in [LandingAttempts -> AttemptRecords]
        /\ n[a].job = j /\ n[a].todo = Tail(attempts[a].todo) /\ n[a].handle = "none"
        /\ \A b \in LandingAttempts : b # a => n[b] = attempts[b]
    BY <1>1, <1>6, <2>2, NextOpFacts DEF j
  <2>4. /\ attempts' \in [LandingAttempts -> AttemptRecords]
        /\ \A b \in LandingAttempts :
             /\ attempts'[b].job = n[b].job /\ attempts'[b].todo = n[b].todo
             /\ IF n[b].job = j /\ n[b].handle = "staged"
                THEN attempts'[b].handle = "unlinked" ELSE attempts'[b] = n[b]
    BY <1>6, <1>13, <2>1, <2>2, <2>3, FollowFacts
  <2>5. /\ documents' \in [Jobs -> [DocumentKinds -> Files]] /\ Becomes(j, "staged", Absent)
        /\ \A i \in Jobs : i # j => documents'[i] = documents[i]
    BY <1>1, <1>4, <1>7, <1>13, <2>1, DocumentBecomes
  <2>6. Done(a, o, j) /\ attempts'[a].job = j
    BY <1>13, <2>3, <2>4, <2>5 DEF Done
  <2>7. OthersGoOn(a, j)
    BY <2>3, <2>4 DEF OthersGoOn
  <2> QED  BY <2>4, <2>5, <2>6, <2>7 DEF Effect
<1>14. CASE /\ o.do = "copy" /\ documents' = [documents EXCEPT ![j][o.kind] = documents[j][o.arg]]
            /\ attempts' = NextOp(a, "none")
  <2>1. o.kind = "raw" /\ o.arg = "staged"
    BY <1>2, <1>14 DEF Lawful, Touches
  <2>2. documents[j].staged \in Files
    BY <1>1, <1>7
  <2>3. /\ documents' \in [Jobs -> [DocumentKinds -> Files]] /\ Becomes(j, "raw", documents[j].staged)
        /\ \A i \in Jobs : i # j => documents'[i] = documents[i]
    BY <1>1, <1>4, <1>14, <2>1, <2>2, DocumentBecomes
  <2>4. Done(a, o, j)
    BY <1>5, <1>6, <1>14, <2>3 DEF Done
  <2> QED  BY <1>5, <1>6, <1>14, <2>3, <2>4 DEF Effect
<1>15. CASE /\ o.do = "replace"
            /\ documents' = [documents EXCEPT ![j][o.kind] = documents[j][o.arg], ![j][o.arg] = Absent]
            /\ attempts' = HandlesFollow(HandlesFollow(NextOp(a, "none"), j, o.kind, "unlinked"),
                                         j, o.arg, o.kind)
  <2>1. <<o.kind, o.arg>> \in {<<"raw", "staged">>, <<"manifest", "tmp">>}
    BY <1>2, <1>15 DEF Lawful
  <2>2. PICK n : n = NextOp(a, "none")
    OBVIOUS
  <2>3. /\ n \in [LandingAttempts -> AttemptRecords]
        /\ n[a].job = j /\ n[a].todo = Tail(attempts[a].todo) /\ n[a].handle = "none"
        /\ \A b \in LandingAttempts : b # a => n[b] = attempts[b]
    BY <1>1, <1>6, <2>2, NextOpFacts DEF j
  <2>4. PICK m : m = HandlesFollow(n, j, o.kind, "unlinked")
    OBVIOUS
  <2>5. /\ m \in [LandingAttempts -> AttemptRecords]
        /\ \A b \in LandingAttempts :
             /\ m[b].job = n[b].job /\ m[b].todo = n[b].todo
             /\ IF n[b].job = j /\ n[b].handle = o.kind THEN m[b].handle = "unlinked" ELSE m[b] = n[b]
    BY <1>6, <2>3, <2>4, FollowFacts
  <2>6. attempts' = HandlesFollow(m, j, o.arg, o.kind) /\ o.kind \in Handles
    BY <1>4, <1>6, <1>15, <2>2, <2>4
  <2>7. /\ attempts' \in [LandingAttempts -> AttemptRecords]
        /\ \A b \in LandingAttempts :
             /\ attempts'[b].job = m[b].job /\ attempts'[b].todo = m[b].todo
             /\ IF m[b].job = j /\ m[b].handle = o.arg
                THEN attempts'[b].handle = o.kind ELSE attempts'[b] = m[b]
    BY <2>5, <2>6, FollowFacts
  <2>8. o.kind # o.arg /\ o.arg \in DocumentKinds
        /\ o.kind \in {"raw", "manifest"} /\ o.arg \in {"staged", "tmp"}
    BY <1>7, <2>1
  <2>9. /\ documents' \in [Jobs -> [DocumentKinds -> Files]]
        /\ \A l \in DocumentKinds :
             documents'[j][l] = IF l = o.arg THEN Absent
                                ELSE IF l = o.kind THEN documents[j][o.arg] ELSE documents[j][l]
        /\ \A i \in Jobs : i # j => documents'[i] = documents[i]
    BY <1>1, <1>4, <1>15, <2>8, DocumentMoves
  <2>10. attempts'[a].job = j /\ attempts'[a].todo = Tail(attempts[a].todo) /\ attempts'[a].handle = "none"
    BY <2>3, <2>5, <2>7, <2>8
  <2>11. Done(a, o, j)
    BY <1>15, <2>9, <2>10 DEF Done
  <2>12. ASSUME NEW b \in LandingAttempts, b # a
         PROVE  /\ attempts'[b].job = attempts[b].job /\ attempts'[b].todo = attempts[b].todo
                /\ attempts[b].job # j => attempts'[b] = attempts[b]
                /\ \/ attempts'[b].handle = attempts[b].handle
                   \/ /\ attempts[b].handle \in {"staged", "raw", "tmp", "manifest"}
                      /\ attempts'[b].handle \in {"unlinked", "raw", "manifest"}
    BY <2>3, <2>5, <2>7, <2>8, <2>12
  <2>13. OthersGoOn(a, j)
    BY <2>12 DEF OthersGoOn
  <2> QED  BY <2>7, <2>9, <2>10, <2>11, <2>13 DEF Effect
<1>16. CASE o.do \in {"copy", "replace", "judge"} /\ RaiseAt(a, o) /\ documents' = documents
  <2>1. /\ attempts' \in [LandingAttempts -> AttemptRecords]
        /\ attempts'[a].job = j /\ attempts'[a].todo = AfterRaise(o)
        /\ attempts'[a].handle = "none"
        /\ \A b \in LandingAttempts : b # a => attempts'[b] = attempts[b]
    BY <1>1, <1>16, RaiseFacts DEF j
  <2>2. OthersGoOn(a, j)
    BY <2>1 DEF OthersGoOn
  <2>3. Raised(a, o)
    BY <1>16, <2>1 DEF Raised
  <2> QED  BY <1>1, <1>16, <2>1, <2>2, <2>3 DEF Effect
<1>17. CASE o.do = "judge" /\ documents' = documents /\ attempts' = NextOp(a, "none")
  <2>1. Done(a, o, j)
    BY <1>5, <1>6, <1>17 DEF Done
  <2> QED  BY <1>1, <1>5, <1>6, <1>17, <2>1 DEF Effect
<1> QED
  BY <1>8, <1>9, <1>10, <1>11, <1>12, <1>13, <1>14, <1>15, <1>16, <1>17 DEF ApplyOp, StampOf

LEMMA InitStorage == StorageInit => StorageInv
<1> SUFFICES ASSUME StorageInit PROVE StorageInv
  OBVIOUS
<1> USE DEF StorageInit
<1>1. << >> \in Seq(Ops) /\ Len(<< >>) = 0
  OBVIOUS
<1>2. attempts \in [LandingAttempts -> AttemptRecords]
  <2>1. NoAttempt \in AttemptRecords
    BY <1>1 DEF NoAttempt, AttemptRecords, Handles
  <2> HIDE DEF NoAttempt, AttemptRecords
  <2> QED  BY <2>1
<1>3. \A a \in LandingAttempts : attempts[a].todo = << >>
  BY DEF NoAttempt
<1>4. documents \in [Jobs -> [DocumentKinds -> Files]]
  <2>1. Absent \in Files
    BY DEF Files
  <2> HIDE DEF Files, Absent, DocumentKinds
  <2> QED  BY <2>1
<1>5. StorageTypes
  BY <1>2, <1>3, <1>4 DEF StorageTypes, Adapters, AttemptAlive
<1>6. \A a \in LandingAttempts : AttemptInv(a)
  <2>1. Orderly(adapter, << >>, {})
    BY <1>1 DEF Orderly
  <2> QED  BY <1>3, <2>1 DEF AttemptInv, AttemptAlive
<1>7. WholeInv
  BY DEF WholeInv, Torn, Absent, Truncated, Mixed, DocumentKinds
<1> QED  BY <1>5, <1>6, <1>7 DEF StorageInv

\* A run that begins has a landing before it.
LEMMA BeginFacts ==
  ASSUME NEW a \in LandingAttempts, NEW j \in Jobs, StorageInv, BeginAttempt(a, j)
  PROVE  /\ attempts' \in [LandingAttempts -> AttemptRecords]
         /\ attempts'[a].job = j /\ attempts'[a].todo = LandingOps
         /\ \A b \in LandingAttempts : b # a => attempts'[b] = attempts[b]
         /\ attempts[a].todo = << >>
<1> DEFINE g == attempts[a]
           t == LandingOps
           r == [g EXCEPT !.job = j, !.todo = t]
<1>1. attempts \in [LandingAttempts -> AttemptRecords] /\ g \in AttemptRecords
  BY DEF StorageInv, StorageTypes
<1>2. t \in Seq(Ops)
  BY LandingOrder DEF StorageInv, StorageTypes, Piece, Orderly
<1>3. attempts' = [attempts EXCEPT ![a] = r]
  BY DEF BeginAttempt
<1>4. g.todo = << >>
  BY DEF BeginAttempt, NoAttempt
<1> HIDE DEF t
<1>5. r.job = j /\ r.todo = t /\ r \in AttemptRecords
  <2> HIDE DEF g
  <2> QED  BY <1>1, <1>2 DEF AttemptRecords
<1> HIDE DEF r
<1> QED  BY <1>1, <1>3, <1>4, <1>5 DEF t

\* A call fails, or the process dies.
LEMMA FaultFacts ==
  ASSUME NEW a \in LandingAttempts, StorageInv, CallFault(a)
  PROVE  /\ attempts' \in [LandingAttempts -> AttemptRecords]
         /\ attempts'[a].job = attempts[a].job
         /\ attempts'[a].todo \in {<< >>, AfterRaise(NextOf(a))}
         /\ \A b \in LandingAttempts : b # a => attempts'[b] = attempts[b]
<1>1. CASE RaiseAt(a, NextOf(a))
  BY <1>1, RaiseFacts DEF StorageInv
<1>2. CASE attempts' = [attempts EXCEPT ![a].todo = << >>]
  <2> DEFINE g == attempts[a]
             r == [g EXCEPT !.todo = << >>]
  <2>1. attempts \in [LandingAttempts -> AttemptRecords] /\ g \in AttemptRecords
    BY DEF StorageInv, StorageTypes
  <2>2. attempts' = [attempts EXCEPT ![a] = r]
    BY <1>2, <2>1 DEF AttemptRecords
  <2>3. r.job = g.job /\ r.todo = << >> /\ r \in AttemptRecords
    <3> DEFINE e == << >>
    <3>1. e \in Seq(Ops)
      OBVIOUS
    <3>2. r = [g EXCEPT !.todo = e]
      OBVIOUS
    <3> HIDE DEF g, e, r
    <3>3. r.job = g.job /\ r.todo = e /\ r \in AttemptRecords
      BY <2>1, <3>1, <3>2 DEF AttemptRecords
    <3> QED  BY <3>3 DEF e
  <2> HIDE DEF r
  <2> QED  BY <2>1, <2>2, <2>3
<1> QED  BY <1>1, <1>2 DEF CallFault, NextOf

\* What the next operation of a live attempt is like, and what follows it.
LEMMA NextOrder ==
  ASSUME NEW a \in LandingAttempts, StorageInv, AttemptAlive(a)
  PROVE  /\ attempts[a].job \in Jobs /\ attempts[a].todo # << >>
         /\ Orderly(adapter, Tail(attempts[a].todo), {})
         /\ Lawful(adapter, NextOf(a)) /\ Fits(NextOf(a), RestOf(a))
         /\ OpsOf(attempts[a].todo) = {NextOf(a)} \cup RestOf(a)
         /\ IF NextOf(a).do = "open"
            THEN /\ Tail(attempts[a].todo) # << >>
                 /\ Head(Tail(attempts[a].todo)) = FileOp("fill", NextOf(a).kind, NextOf(a).arg)
            ELSE Tail(attempts[a].todo) = << >> \/ Head(Tail(attempts[a].todo)).do # "fill"
<1>1. Orderly(adapter, attempts[a].todo, {}) /\ attempts[a].todo # << >> /\ attempts[a].job \in Jobs
  BY DEF StorageInv, StorageTypes, AttemptInv, AttemptAlive
<1> QED  BY <1>1, OrderlyTail DEF NextOf, RestOf

\* An operation keeps the types, the order and what is whole.
LEMMA DoKeepsStorage ==
  ASSUME NEW a \in LandingAttempts, StorageInv, DoOperation(a)
  PROVE  StorageInv'
<1> DEFINE o == NextOf(a)
           j == attempts[a].job
<1>1. /\ AttemptAlive(a) /\ ApplyOp(a, o, j) /\ adapter' = adapter /\ clock' = clock
      /\ completions' = IF ~(o.do \in {"fill", "put"} /\ o.arg = "completed") THEN completions
                        ELSE completions \cup {IF o.do = "put" THEN clock ELSE attempts[a].at}
  BY DEF DoOperation, NextOf
<1>2. Effect(a, o, j)
  BY <1>1, OperationEffect
<1>3. /\ j \in Jobs /\ attempts[a].todo # << >>
      /\ Orderly(adapter, Tail(attempts[a].todo), {})
      /\ Lawful(adapter, o)
      /\ IF o.do = "open"
         THEN /\ Tail(attempts[a].todo) # << >>
              /\ Head(Tail(attempts[a].todo)) = FileOp("fill", o.kind, o.arg)
         ELSE Tail(attempts[a].todo) = << >> \/ Head(Tail(attempts[a].todo)).do # "fill"
  BY <1>1, NextOrder
<1>4. /\ StorageTypes /\ clock \in Nat /\ attempts[a].at \in Nat /\ adapter \in Adapters
      /\ attempts \in [LandingAttempts -> AttemptRecords]
      /\ \A b \in LandingAttempts : AttemptInv(b)
  BY DEF StorageInv, StorageTypes, AttemptRecords
<1> HIDE DEF o, j
<1>5. StorageTypes'
  <2>1. ASSUME NEW b \in LandingAttempts, AttemptAlive(b)' PROVE attempts'[b].job \in Jobs
    BY <1>2, <1>3, <1>4, <2>1 DEF Effect, OthersGoOn, StorageTypes, AttemptAlive
  <2>2. completions' \subseteq Nat
    BY <1>1, <1>4 DEF StorageTypes
  <2> QED  BY <1>1, <1>2, <1>4, <2>1, <2>2 DEF StorageTypes, Effect
<1>6. ASSUME NEW b \in LandingAttempts PROVE AttemptInv(b)'
  <2>1. CASE b # a
    <3>1. attempts'[b].todo = attempts[b].todo /\ AttemptInv(b)
          /\ \/ attempts'[b].handle = attempts[b].handle
             \/ /\ attempts[b].handle \in {"staged", "raw", "tmp", "manifest"}
                /\ attempts'[b].handle \in {"unlinked", "raw", "manifest"}
      BY <1>2, <1>4, <2>1 DEF Effect, OthersGoOn
    <3> QED  BY <1>1, <3>1 DEF AttemptInv, AttemptAlive, NextOf
  <2>2. CASE b = a /\ Done(a, o, j)
    <3>1. attempts'[a].todo = Tail(attempts[a].todo)
          /\ attempts'[a].handle = IF o.do = "open" THEN o.kind ELSE "none"
      BY <2>2 DEF Done
    <3>2. Orderly(adapter, attempts[a].todo, {})'
      BY <1>1, <1>3, <3>1
    <3>3. ASSUME AttemptAlive(a)', NextOf(a)'.do = "fill"
          PROVE  /\ o.do = "open" /\ NextOf(a)'.kind = o.kind
                 /\ attempts'[a].handle = o.kind
      BY <1>3, <3>1, <3>3 DEF AttemptAlive, NextOf, FileOp
    <3>4. o.kind \in DocumentKinds /\ (adapter # "local" => o.kind # "tmp")
      BY <1>3 DEF Lawful, Ops, Touches
    <3> QED  BY <1>1, <2>2, <3>2, <3>3, <3>4 DEF AttemptInv, DocumentKinds
  <2>3. CASE b = a /\ Raised(a, o)
    <3>1. attempts'[a].todo = AfterRaise(o)
      BY <2>3 DEF Raised
    <3>2. Orderly(adapter, AfterRaise(o), {})
          /\ (AfterRaise(o) # << >> => AfterRaise(o)[1].do # "fill")
      BY <1>4, RaiseOrder
    <3>3. AfterRaise(o) # << >> => Head(AfterRaise(o)) = AfterRaise(o)[1]
      BY <3>2 DEF Orderly
    <3> QED  BY <1>1, <2>3, <3>1, <3>2, <3>3 DEF AttemptInv, AttemptAlive, NextOf
  <2> QED  BY <1>2, <2>1, <2>2, <2>3 DEF Effect
<1>7. ASSUME NEW i \in Jobs
      PROVE  /\ adapter' = "aws" => \A k \in DocumentKinds \ {"table"} : ~Torn(documents'[i][k])
             /\ adapter' # "local" => documents'[i].tmp = Absent
  <2>1. /\ adapter = "aws" => \A k \in DocumentKinds \ {"table"} : ~Torn(documents[i][k])
        /\ adapter # "local" => documents[i].tmp = Absent
    BY DEF StorageInv, WholeInv
  <2>2. CASE documents'[i] = documents[i]
    BY <1>1, <2>1, <2>2
  <2>3. CASE i = j /\ Done(a, o, j)
    <3>1. ~Torn(Absent) /\ \A at, arg : ~Torn(Document(a, arg, at))
      BY DEF Torn, Absent, Document, Truncated, Mixed
    <3>2. "tmp" \in DocumentKinds /\ "staged" \in DocumentKinds
      BY DEF DocumentKinds
    <3>3. CASE o.do = "open" /\ Becomes(j, o.kind, Truncated)
      BY <1>1, <1>3, <2>1, <2>3, <3>2, <3>3 DEF Becomes, Lawful, Touches
    <3>4. CASE /\ o.do = "fill" /\ attempts[a].handle # "unlinked"
               /\ \E file \in FilledFile(documents[j][attempts[a].handle],
                              Document(a, o.arg, StampOf(o, attempts[a].at))) :
                    Becomes(j, attempts[a].handle, file)
      <4>1. /\ adapter # "local" => attempts[a].handle # "tmp"
            /\ adapter = "aws" => attempts[a].handle = "table"
        BY <1>1, <1>3, <1>4, <3>4 DEF AttemptInv, Lawful, o
      <4> QED  BY <1>1, <2>1, <2>3, <3>2, <3>4, <4>1 DEF Becomes
    <3>5. CASE o.do = "put" /\ Becomes(j, o.kind, Document(a, o.arg, StampOf(o, clock)))
      <4>1. adapter # "local" => o.kind # "tmp"
        BY <1>3 DEF Lawful, Touches
      <4>2. \A k \in DocumentKinds :
              documents'[i][k] = IF k = o.kind THEN Document(a, o.arg, StampOf(o, clock))
                                 ELSE documents[i][k]
        BY <2>3, <3>5 DEF Becomes
      <4>3. adapter # "local" => documents'[i].tmp = Absent
        BY <2>1, <3>2, <4>1, <4>2
      <4>4. adapter = "aws" => \A k \in DocumentKinds \ {"table"} : ~Torn(documents'[i][k])
        BY <2>1, <3>1, <4>2
      <4> QED  BY <1>1, <4>3, <4>4
    <3>6. CASE o.do = "remove" /\ Becomes(j, "staged", Absent)
      BY <1>1, <2>1, <2>3, <3>1, <3>2, <3>6 DEF Becomes
    <3>7. CASE o.do = "copy" /\ Becomes(j, "raw", documents[j].staged)
      BY <1>1, <2>1, <2>3, <3>1, <3>2, <3>7 DEF Becomes
    <3>8. CASE /\ o.do = "replace"
               /\ \A l \in DocumentKinds :
                    documents'[j][l] = IF l = o.arg THEN Absent
                                       ELSE IF l = o.kind THEN documents[j][o.arg] ELSE documents[j][l]
      BY <1>1, <1>3, <2>1, <2>3, <3>1, <3>2, <3>8 DEF Lawful, Touches
    <3> QED  BY <2>2, <2>3, <3>3, <3>4, <3>5, <3>6, <3>7, <3>8 DEF Done
  <2> QED  BY <1>2, <2>2, <2>3 DEF Effect, Raised
<1> QED  BY <1>5, <1>6, <1>7 DEF StorageInv, WholeInv

\* Every step keeps them.
LEMMA NextStorage == StorageInv /\ [StorageNext]_storageVars => StorageInv'
<1> SUFFICES ASSUME StorageInv, [StorageNext]_storageVars PROVE StorageInv'
  OBVIOUS
<1> USE DEF StorageInv
<1>1. ASSUME NEW a \in LandingAttempts, NEW j \in Jobs, BeginAttempt(a, j) PROVE StorageInv'
  <2>1. /\ adapter' = adapter /\ clock' = clock /\ documents' = documents
        /\ completions' = completions
    BY <1>1 DEF BeginAttempt
  <2>2. /\ attempts' \in [LandingAttempts -> AttemptRecords]
        /\ attempts'[a].job = j /\ attempts'[a].todo = LandingOps
        /\ \A b \in LandingAttempts : b # a => attempts'[b] = attempts[b]
    BY <1>1, BeginFacts
  <2>3. StorageTypes'
    BY <2>1, <2>2 DEF StorageTypes, AttemptAlive
  <2>4. ASSUME NEW b \in LandingAttempts PROVE AttemptInv(b)'
    <3>1. CASE b # a
      BY <2>1, <2>2, <3>1 DEF AttemptInv, AttemptAlive, NextOf
    <3>2. Orderly(adapter, LandingOps, {}) /\ LandingOps[1].do # "fill" /\ Head(LandingOps) = LandingOps[1]
      BY LandingOrder DEF StorageTypes, Piece, Orderly
    <3> QED  BY <2>1, <2>2, <3>1, <3>2 DEF AttemptInv, AttemptAlive, NextOf
  <2>5. WholeInv'
    BY <2>1 DEF WholeInv
  <2> QED  BY <2>3, <2>4, <2>5
<1>2. ASSUME NEW a \in LandingAttempts, DoOperation(a) PROVE StorageInv'
  BY <1>2, DoKeepsStorage
<1>3. ASSUME NEW a \in LandingAttempts, CallFault(a) PROVE StorageInv'
  <2>1. /\ adapter' = adapter /\ clock' = clock /\ documents' = documents
        /\ completions' = completions /\ AttemptAlive(a)
    BY <1>3 DEF CallFault
  <2>2. /\ attempts' \in [LandingAttempts -> AttemptRecords]
        /\ attempts'[a].job = attempts[a].job
        /\ attempts'[a].todo \in {<< >>, AfterRaise(NextOf(a))}
        /\ \A b \in LandingAttempts : b # a => attempts'[b] = attempts[b]
    BY <1>3, FaultFacts
  <2>3. StorageTypes'
    BY <2>1, <2>2 DEF StorageTypes, AttemptAlive
  <2>4. ASSUME NEW b \in LandingAttempts PROVE AttemptInv(b)'
    <3>1. CASE b # a
      BY <2>1, <2>2, <3>1 DEF AttemptInv, AttemptAlive, NextOf
    <3>2. CASE b = a /\ attempts'[a].todo = << >>
      <4>1. Orderly(adapter, << >>, {})
        <5>1. << >> \in Seq(Ops) /\ Len(<< >>) = 0
          OBVIOUS
        <5> QED  BY <5>1 DEF Orderly
      <4> QED  BY <2>1, <3>2, <4>1 DEF AttemptInv, AttemptAlive
    <3>3. CASE b = a /\ attempts'[a].todo = AfterRaise(NextOf(a))
      <4>1. Orderly(adapter, AfterRaise(NextOf(a)), {})
            /\ (AfterRaise(NextOf(a)) # << >> => AfterRaise(NextOf(a))[1].do # "fill")
        BY RaiseOrder DEF StorageTypes
      <4>2. AfterRaise(NextOf(a)) # << >> => Head(AfterRaise(NextOf(a))) = AfterRaise(NextOf(a))[1]
        BY <4>1 DEF Orderly
      <4> QED  BY <2>1, <3>3, <4>1, <4>2 DEF AttemptInv, AttemptAlive, NextOf
    <3> QED  BY <2>2, <3>1, <3>2, <3>3
  <2>5. WholeInv'
    BY <2>1 DEF WholeInv
  <2> QED  BY <2>3, <2>4, <2>5
<1>4. ASSUME adapter' = adapter, clock' \in Nat, documents' = documents, attempts' = attempts,
             completions' = completions
      PROVE  StorageInv'
  BY <1>4 DEF StorageTypes, AttemptInv, AttemptAlive, NextOf, WholeInv
<1>5. CASE ClockTick
  BY <1>4, <1>5 DEF ClockTick, StorageTypes
<1>6. CASE ListStatuses \/ JudgeFreshness \/ \E j \in Jobs : ReadStatus(j)
  BY <1>4, <1>6 DEF ListStatuses, JudgeFreshness, ReadStatus, storageOthers, StorageTypes
<1>7. CASE UNCHANGED storageVars
  BY <1>4, <1>7 DEF storageVars, StorageTypes
<1> QED  BY <1>1, <1>2, <1>3, <1>5, <1>6, <1>7 DEF StorageNext

-----------------------------------------------------------------------------
(* The freshness check                                                     *)

CheckTypes ==
  check \in [pc : {"idle", "reading", "judged"}, left : SUBSET Jobs, seen : SUBSET Files,
             steady : SUBSET [job : Jobs, at : Nat], now : Nat, fresh : BOOLEAN]

\* A status that says completed, read or not, is of a completion.
CompletionsKnown ==
  /\ \A j \in Jobs : CompletedIn(documents[j].status) => documents[j].status.at \in completions
  /\ \A r \in check.seen : CompletedIn(r) => r.at \in completions

\* While the check reads, a completion that stood there since is still there,
\* and is yet to be read or was.
SteadyIsRead ==
  check.pc = "reading" =>
    \A c \in check.steady :
      /\ CompletedIn(documents[c.job].status) /\ documents[c.job].status.at = c.at
      /\ c.job \in check.left \/ \E r \in check.seen : CompletedIn(r) /\ r.at = c.at

FreshInv == CheckTypes /\ CompletionsKnown /\ SteadyIsRead /\ FreshnessTells

LEMMA InitFresh == StorageInit => FreshInv
<1> SUFFICES ASSUME StorageInit PROVE FreshInv
  OBVIOUS
<1>1. check = [pc |-> "idle", left |-> {}, seen |-> {}, steady |-> {}, now |-> 0, fresh |-> FALSE]
  BY DEF StorageInit
<1>2. CheckTypes
  BY <1>1 DEF CheckTypes
<1>3. \A j \in Jobs : ~CompletedIn(documents[j].status)
  BY DEF StorageInit, CompletedIn, Whole, Absent, DocumentKinds
<1> QED  BY <1>1, <1>2, <1>3 DEF FreshInv, CompletionsKnown, SteadyIsRead, FreshnessTells

\* Who writes that a job completed, adds to the completions when.
LEMMA DoCompletes ==
  ASSUME NEW a \in LandingAttempts, StorageInv, DoOperation(a), NEW i \in Jobs,
         CompletedIn(documents[i].status) => documents[i].status.at \in completions
  PROVE  /\ completions \subseteq completions'
         /\ CompletedIn(documents'[i].status) => documents'[i].status.at \in completions'
<1> DEFINE o == NextOf(a)
           j == attempts[a].job
<1>1. /\ AttemptAlive(a) /\ ApplyOp(a, o, j)
      /\ completions' = IF ~(o.do \in {"fill", "put"} /\ o.arg = "completed") THEN completions
                        ELSE completions \cup {IF o.do = "put" THEN clock ELSE attempts[a].at}
  BY DEF DoOperation, NextOf
<1>2. Effect(a, o, j)
  BY <1>1, OperationEffect
<1>3. Lawful(adapter, o) /\ j \in Jobs
  BY <1>1, NextOrder
<1>4. o.do = "fill" => IF o.kind = "status" THEN attempts[a].handle = "status"
                       ELSE attempts[a].handle # "status"
  BY <1>1 DEF StorageInv, AttemptInv
<1> HIDE DEF o, j
<1>5. completions \subseteq completions'
  BY <1>1
<1>6. CASE documents'[i].status = documents[i].status
  BY <1>5, <1>6
<1>7. CASE i = j /\ Done(a, o, j) /\ documents'[i].status # documents[i].status
  <2>1. /\ "status" \in DocumentKinds
        /\ \A at, arg : Document(a, arg, at).status = arg /\ Document(a, arg, at).at = at
        /\ ~CompletedIn(Truncated) /\ ~CompletedIn(Mixed)
    BY DEF DocumentKinds, Document, CompletedIn, Whole, Truncated, Mixed
  <2>2. CASE o.do = "open" /\ Becomes(j, o.kind, Truncated)
    <3>1. documents'[i].status = Truncated
      BY <1>7, <2>1, <2>2 DEF Becomes
    <3> QED  BY <1>5, <2>1, <3>1
  <2>3. CASE /\ o.do = "fill" /\ attempts[a].handle # "unlinked"
             /\ \E file \in FilledFile(documents[j][attempts[a].handle],
                            Document(a, o.arg, StampOf(o, attempts[a].at))) :
                  Becomes(j, attempts[a].handle, file)
    <3>1. attempts[a].handle = "status" /\ o.kind = "status"
      BY <1>4, <1>7, <2>1, <2>3 DEF Becomes
    <3>2. documents'[i].status \in {Mixed, Document(a, o.arg, attempts[a].at)}
      BY <1>7, <2>1, <2>3, <3>1 DEF Becomes, FilledFile, StampOf
    <3>3. CASE documents'[i].status = Document(a, o.arg, attempts[a].at)
      <4>1. documents'[i].status.status = o.arg /\ documents'[i].status.at = attempts[a].at
        BY <2>1, <3>3
      <4>2. o.arg = "completed" => documents'[i].status.at \in completions'
        BY <1>1, <2>3, <4>1
      <4> QED  BY <1>5, <4>1, <4>2 DEF CompletedIn
    <3> QED  BY <1>5, <2>1, <3>2, <3>3
  <2>4. CASE o.do = "put" /\ Becomes(j, o.kind, Document(a, o.arg, StampOf(o, clock)))
    <3>1. o.kind = "status"
      BY <1>7, <2>1, <2>4 DEF Becomes
    <3>2. documents'[i].status = Document(a, o.arg, clock)
      BY <1>7, <2>1, <2>4, <3>1 DEF Becomes, StampOf
    <3>3. documents'[i].status.status = o.arg /\ documents'[i].status.at = clock
      BY <2>1, <3>2
    <3> QED  BY <1>1, <1>5, <2>4, <3>3 DEF CompletedIn
  <2>5. CASE o.do = "remove" /\ Becomes(j, "staged", Absent)
    BY <1>7, <2>1, <2>5 DEF Becomes
  <2>6. CASE o.do = "copy" /\ Becomes(j, "raw", documents[j].staged)
    BY <1>7, <2>1, <2>6 DEF Becomes
  <2>7. CASE /\ o.do = "replace"
             /\ \A l \in DocumentKinds :
                  documents'[j][l] = IF l = o.arg THEN Absent
                                     ELSE IF l = o.kind THEN documents[j][o.arg] ELSE documents[j][l]
    BY <1>3, <1>7, <2>1, <2>7 DEF Lawful
  <2> QED  BY <1>7, <2>2, <2>3, <2>4, <2>5, <2>6, <2>7 DEF Done
<1> QED  BY <1>2, <1>5, <1>6, <1>7 DEF Effect, Raised

\* A step of the landings or of the clock, as the check sees it.
LEMMA WatchedKeepsFresh ==
  ASSUME StorageInv, FreshInv, Watching, completions \subseteq completions',
         \A j \in Jobs : CompletedIn(documents'[j].status) => documents'[j].status.at \in completions'
  PROVE  FreshInv'
<1>1. CASE check.pc # "reading"
  <2>1. check' = check
    BY <1>1 DEF Watching
  <2> QED  BY <1>1, <2>1 DEF FreshInv, CheckTypes, CompletionsKnown, SteadyIsRead, FreshnessTells
<1>2. CASE check.pc = "reading"
  <2> DEFINE st == {c \in check.steady : documents'[c.job].status = documents[c.job].status}
  <2>1. check' = [check EXCEPT !.steady = st]
    BY <1>2 DEF Watching
  <2>2. st \subseteq check.steady /\ \A c \in st : documents'[c.job].status = documents[c.job].status
    OBVIOUS
  <2> HIDE DEF st
  <2>3. /\ check'.pc = check.pc /\ check'.left = check.left /\ check'.seen = check.seen
        /\ check'.steady = st /\ CheckTypes'
    BY <2>1, <2>2 DEF FreshInv, CheckTypes
  <2> QED  BY <1>2, <2>2, <2>3 DEF FreshInv, CompletionsKnown, SteadyIsRead, FreshnessTells
<1> QED  BY <1>1, <1>2

LEMMA NextFresh == StorageInv /\ FreshInv /\ [StorageNext]_storageVars => FreshInv'
<1> SUFFICES ASSUME StorageInv, FreshInv, [StorageNext]_storageVars PROVE FreshInv'
  OBVIOUS
<1>1. ASSUME NEW a \in LandingAttempts, NEW j \in Jobs, BeginAttempt(a, j), Watching PROVE FreshInv'
  BY <1>1, WatchedKeepsFresh DEF BeginAttempt, FreshInv, CompletionsKnown
<1>2. ASSUME NEW a \in LandingAttempts, DoOperation(a), Watching PROVE FreshInv'
  <2>1. ASSUME NEW i \in Jobs
        PROVE  /\ completions \subseteq completions'
               /\ CompletedIn(documents'[i].status) => documents'[i].status.at \in completions'
    BY <1>2, DoCompletes DEF FreshInv, CompletionsKnown
  <2>2. completions \subseteq completions'
    BY <1>2 DEF DoOperation
  <2> QED  BY <1>2, <2>1, <2>2, WatchedKeepsFresh
<1>3. ASSUME NEW a \in LandingAttempts, CallFault(a), Watching PROVE FreshInv'
  BY <1>3, WatchedKeepsFresh DEF CallFault, FreshInv, CompletionsKnown
<1>4. ASSUME ClockTick, Watching PROVE FreshInv'
  BY <1>4, WatchedKeepsFresh DEF ClockTick, FreshInv, CompletionsKnown
<1>5. CASE ListStatuses
  <2> DEFINE l == {j \in Jobs : adapter = "aws" \/ documents[j].status # Absent}
             st == {[job |-> j, at |-> documents[j].status.at] :
                      j \in {i \in Jobs : CompletedIn(documents[i].status)}}
  <2>1. /\ check' = [check EXCEPT !.pc = "reading", !.left = l, !.steady = st]
        /\ documents' = documents /\ completions' = completions
    BY <1>5 DEF ListStatuses, storageOthers
  <2>2. l \subseteq Jobs
    OBVIOUS
  <2>3. ASSUME NEW c \in st
        PROVE  /\ CompletedIn(documents[c.job].status) /\ documents[c.job].status.at = c.at
               /\ c.job \in l /\ c \in [job : Jobs, at : Nat]
    <3>1. PICK j \in Jobs : CompletedIn(documents[j].status) /\ c = [job |-> j, at |-> documents[j].status.at]
      BY <2>3
    <3>2. documents[j].status \in completions \/ documents[j].status.at \in completions
      BY <3>1 DEF FreshInv, CompletionsKnown
    <3>3. documents[j].status.at \in Nat
      BY <3>1 DEF FreshInv, CompletionsKnown, StorageInv, StorageTypes
    <3>4. documents[j].status # Absent
      BY <3>1 DEF CompletedIn, Whole, Absent
    <3> QED  BY <3>1, <3>3, <3>4
  <2> HIDE DEF l, st
  <2>4. /\ check'.pc = "reading" /\ check'.left = l /\ check'.steady = st /\ check'.seen = check.seen
        /\ CheckTypes'
    BY <2>1, <2>2, <2>3 DEF FreshInv, CheckTypes
  <2> QED  BY <2>1, <2>3, <2>4 DEF FreshInv, CompletionsKnown, SteadyIsRead, FreshnessTells
<1>6. ASSUME NEW j \in Jobs, ReadStatus(j) PROVE FreshInv'
  <2> DEFINE f == documents[j].status
             s == IF Whole(f) THEN check.seen \cup {f} ELSE check.seen
             l == check.left \ {j}
  <2>1. /\ check.pc = "reading" /\ check' = [check EXCEPT !.left = l, !.seen = s]
        /\ documents' = documents /\ completions' = completions
    BY <1>6 DEF ReadStatus, storageOthers
  <2>2. f \in Files
    BY DEF StorageInv, StorageTypes, DocumentKinds
  <2>3. s \subseteq Files /\ l \subseteq Jobs /\ check.seen \subseteq s
        /\ (CompletedIn(f) => f \in s) /\ \A r \in s : r \in check.seen \/ r = f
    BY <2>2 DEF FreshInv, CheckTypes, CompletedIn
  <2> HIDE DEF s
  <2>4. /\ check'.pc = "reading" /\ check'.left = l /\ check'.steady = check.steady /\ check'.seen = s
        /\ CheckTypes'
    <3> HIDE DEF l
    <3> QED  BY <2>1, <2>3 DEF FreshInv, CheckTypes
  <2>5. CompletionsKnown'
    BY <2>1, <2>3, <2>4 DEF FreshInv, CompletionsKnown
  <2>6. ASSUME NEW c \in check.steady
        PROVE  /\ CompletedIn(documents[c.job].status) /\ documents[c.job].status.at = c.at
               /\ c.job \in l \/ \E r \in s : CompletedIn(r) /\ r.at = c.at
    <3>1. /\ CompletedIn(documents[c.job].status) /\ documents[c.job].status.at = c.at
          /\ c.job \in check.left \/ \E r \in check.seen : CompletedIn(r) /\ r.at = c.at
      BY <2>1 DEF FreshInv, SteadyIsRead
    <3> QED  BY <2>3, <3>1
  <2> QED  BY <2>1, <2>4, <2>5, <2>6 DEF FreshInv, SteadyIsRead, FreshnessTells
<1>7. CASE JudgeFreshness
  <2> DEFINE fr == \E r \in check.seen : CompletedIn(r) /\ clock - r.at <= Sla
  <2>1. /\ check.pc = "reading" /\ check.left = {}
        /\ check' = [check EXCEPT !.pc = "judged", !.now = clock, !.fresh = fr]
        /\ documents' = documents /\ completions' = completions
    BY <1>7 DEF JudgeFreshness, storageOthers
  <2>2. clock \in Nat /\ fr \in BOOLEAN
    BY DEF StorageInv, StorageTypes
  <2>3. fr => \E t \in completions : clock - t <= Sla
    BY DEF FreshInv, CompletionsKnown
  <2>4. ASSUME ~fr, NEW c \in check.steady PROVE clock - c.at > Sla
    <3>1. PICK r \in check.seen : CompletedIn(r) /\ r.at = c.at
      BY <2>1 DEF FreshInv, SteadyIsRead
    <3>2. ~(clock - c.at <= Sla)
      BY <2>4, <3>1
    <3>3. c.at \in Nat /\ Sla \in Nat
      BY StorageAssumption DEF FreshInv, CheckTypes
    <3> QED  BY <2>2, <3>2, <3>3
  <2> HIDE DEF fr
  <2>5. /\ check'.pc = "judged" /\ check'.now = clock /\ check'.fresh = fr
        /\ check'.steady = check.steady /\ check'.seen = check.seen /\ CheckTypes'
    BY <2>1, <2>2 DEF FreshInv, CheckTypes
  <2> QED  BY <2>1, <2>3, <2>4, <2>5 DEF FreshInv, CompletionsKnown, SteadyIsRead, FreshnessTells
<1>8. CASE UNCHANGED storageVars
  BY <1>8 DEF storageVars, FreshInv, CheckTypes, CompletionsKnown, SteadyIsRead, FreshnessTells
<1> QED  BY <1>1, <1>2, <1>3, <1>4, <1>5, <1>6, <1>7, <1>8 DEF StorageNext

\* The freshness check passes only on a completion within the SLA and fails
\* only without one that stood there while it read, however many attempts write
\* statuses meanwhile, overlap, fail or die.
THEOREM FreshnessIsTold == StorageSpec => []FreshnessTells
<1>1. StorageInit => StorageInv /\ FreshInv
  BY InitStorage, InitFresh
<1>2. StorageInv /\ FreshInv /\ [StorageNext]_storageVars => (StorageInv /\ FreshInv)'
  BY NextStorage, NextFresh
<1>3. StorageInv /\ FreshInv => FreshnessTells
  BY DEF FreshInv
<1> QED  BY <1>1, <1>2, <1>3, PTL DEF StorageSpec

-----------------------------------------------------------------------------
(* A job no two attempts of which were alive together                      *)

WholeBy(file, a) == Whole(file) /\ file.by = a

OpsLeft(a) == OpsOf(attempts[a].todo)

\* What the attempt at work has done, by what it has yet to do: a document it
\* will not touch again is as it should be in the end, and one it will only
\* move is written.
ProgressInv(a, j) ==
  /\ NextOf(a).do = "fill" => /\ attempts[a].handle = NextOf(a).kind
                              /\ documents[j][NextOf(a).kind] = Truncated
  /\ (\E r \in OpsLeft(a) : Completes(r)) =>
       /\ \A k \in {"raw", "manifest", "table"} :
            (\A r \in OpsLeft(a) : r.kind # k) => WholeBy(documents[j][k], a)
       /\ \A k \in {"staged", "tmp"} :
            /\ (\A r \in OpsLeft(a) : ~Fills(r, k)) /\ (\E r \in OpsLeft(a) : MovesFrom(r, k))
                 => WholeBy(documents[j][k], a)
            /\ (\A r \in OpsLeft(a) : ~Touches(r, k)) => documents[j][k] = Absent

Working(a, j) == AttemptAlive(a) /\ attempts[a].job = j

\* One attempt at a time; and while the status says completed, all is in place
\* and the next thing an attempt does is to write another status.
JobInv(j) ==
  /\ \A a, b \in LandingAttempts : Working(a, j) /\ Working(b, j) => a = b
  /\ ~Torn(documents[j].raw) /\ (adapter = "local" => ~Torn(documents[j].manifest))
  /\ CompletedIn(documents[j].status) =>
       /\ \A k \in {"raw", "manifest", "table"} : WholeBy(documents[j][k], documents[j].status.by)
       /\ documents[j].staged = Absent /\ documents[j].tmp = Absent
       /\ \A a \in LandingAttempts : Working(a, j) =>
            /\ NextOf(a).do \in {"open", "put"} /\ NextOf(a).kind = "status"
            /\ NextOf(a).arg # "completed"
  /\ \A a \in LandingAttempts : Working(a, j) => ProgressInv(a, j)

JobsInv == \A j \in Jobs : j \notin overlapped => JobInv(j)

LEMMA InitJobs == StorageInit => JobsInv
<1> SUFFICES ASSUME StorageInit, NEW j \in Jobs PROVE JobInv(j)
  BY DEF JobsInv
<1>1. \A k \in DocumentKinds : documents[j][k] = Absent
  BY DEF StorageInit
<1>2. \A a \in LandingAttempts : ~Working(a, j)
  BY DEF StorageInit, NoAttempt, Working, AttemptAlive
<1>3. ~Torn(Absent) /\ ~CompletedIn(Absent) /\ {"status", "raw", "manifest"} \subseteq DocumentKinds
  BY DEF Torn, CompletedIn, Whole, Absent, Truncated, Mixed, DocumentKinds
<1> QED  BY <1>1, <1>2, <1>3 DEF JobInv

\* A step that leaves a job alone.
LEMMA JobFrame ==
  ASSUME NEW i \in Jobs, JobInv(i), adapter' = adapter, documents'[i] = documents[i],
         \A b \in LandingAttempts :
           attempts'[b].job = i \/ attempts[b].job = i => attempts'[b] = attempts[b]
  PROVE  JobInv(i)'
<1>1. \A b \in LandingAttempts : Working(b, i)' => Working(b, i) /\ attempts'[b] = attempts[b]
  BY DEF Working, AttemptAlive
<1>2. \A b \in LandingAttempts : Working(b, i)' => /\ NextOf(b)' = NextOf(b)
                                                  /\ (ProgressInv(b, i) => ProgressInv(b, i)')
  BY <1>1 DEF NextOf, ProgressInv, OpsLeft
<1> QED  BY <1>1, <1>2 DEF JobInv

\* A landing touches every document, and writes what it moves.
LEMMA LandingContents ==
  ASSUME adapter \in Adapters
  PROVE  /\ \A k \in {"raw", "manifest", "table"} : \E r \in LandingSet : r.kind = k
         /\ \E r \in LandingSet : Fills(r, "staged") /\ Touches(r, "staged")
         /\ adapter = "local" => \E r \in LandingSet : Fills(r, "tmp") /\ Touches(r, "tmp")
         /\ adapter # "local" => \A r \in LandingSet : ~MovesFrom(r, "tmp")
<1>2. \E r \in LandingSet : r.kind = "raw"
  <2>1. PICK do \in {"copy", "replace"} : FileOp(do, "raw", "staged") \in MoveSet("staged", "raw")
    BY DEF MoveSet
  <2>2. FileOp(do, "raw", "staged").kind = "raw"
    BY DEF FileOp
  <2> QED  BY <2>1, <2>2 DEF LandingSet
<1>3. \E r \in LandingSet : r.kind = "manifest"
  <2>1. PICK do \in {"replace", "put", "open"}, arg \in {"tmp", ""} :
               FileOp(do, "manifest", arg) \in ManifestSet
    BY DEF ManifestSet, MoveSet, WriteSet
  <2>2. FileOp(do, "manifest", arg).kind = "manifest"
    BY DEF FileOp
  <2> QED  BY <2>1, <2>2 DEF LandingSet
<1>4. \E r \in LandingSet : r.kind = "table"
  <2>1. PICK do \in {"put", "open"} : FileOp(do, "table", "") \in TableSet
    BY DEF TableSet
  <2>2. FileOp(do, "table", "").kind = "table"
    BY DEF FileOp
  <2> QED  BY <2>1, <2>2 DEF LandingSet
<1>5. \E r \in LandingSet : Fills(r, "staged") /\ Touches(r, "staged")
  <2>1. PICK do \in {"put", "fill"} : FileOp(do, "staged", "") \in WriteSet("staged", "")
    BY DEF WriteSet
  <2>2. Fills(FileOp(do, "staged", ""), "staged") /\ Touches(FileOp(do, "staged", ""), "staged")
    BY DEF Fills, Touches, FileOp
  <2> QED  BY <2>1, <2>2 DEF LandingSet
<1>6. adapter = "local" => \E r \in LandingSet : Fills(r, "tmp") /\ Touches(r, "tmp")
  <2>1. adapter = "local" => FileOp("fill", "tmp", "") \in ManifestSet
    BY DEF ManifestSet, WriteSet
  <2>2. Fills(FileOp("fill", "tmp", ""), "tmp") /\ Touches(FileOp("fill", "tmp", ""), "tmp")
    BY DEF Fills, Touches, FileOp
  <2> QED  BY <2>1, <2>2 DEF LandingSet
<1>7. adapter # "local" => \A r \in LandingSet : ~MovesFrom(r, "tmp")
  <2>1. ASSUME NEW r \in LandingSet, adapter # "local" PROVE Lawful(adapter, r)
    <3>1. Orderly(adapter, LandingOps, {}) /\ OpsOf(LandingOps) = LandingSet
      BY LandingOrder DEF Piece
    <3>2. PICK i \in 0 + 1..Len(LandingOps) : r = LandingOps[i]
      BY <2>1, <3>1 DEF OpsOf, After
    <3> QED  BY <3>1, <3>2 DEF Orderly
  <2> QED  BY <2>1 DEF Lawful, Touches, MovesFrom
<1> QED  BY <1>2, <1>3, <1>4, <1>5, <1>6, <1>7

\* A sequence that is not empty holds its head.
LEMMA HeadIsLeft ==
  ASSUME NEW s \in Seq(Ops), s # << >>
  PROVE  Head(s) \in OpsOf(s)
<1>1. Len(s) \in Nat /\ Len(s) >= 1 /\ Head(s) = s[1]
  BY LenProperties
<1>2. 1 \in 0 + 1..Len(s)
  BY <1>1
<1> QED  BY <1>1, <1>2 DEF OpsOf, After

\* A fresh attempt of a job no other attempt of which is at work.
LEMMA BeginKeepsJob ==
  ASSUME NEW a \in LandingAttempts, NEW j \in Jobs, StorageInv, BeginAttempt(a, j),
         j \notin overlapped', JobInv(j)
  PROVE  JobInv(j)'
<1>1. /\ adapter' = adapter /\ documents' = documents /\ adapter \in Adapters
      /\ \A b \in LandingAttempts : ~Working(b, j)
  BY DEF BeginAttempt, Working, StorageInv, StorageTypes
<1>2. /\ attempts'[a].job = j /\ attempts'[a].todo = LandingOps
      /\ \A b \in LandingAttempts : b # a => attempts'[b] = attempts[b]
  BY BeginFacts
<1>3. \A b \in LandingAttempts : Working(b, j)' => b = a
  BY <1>1, <1>2 DEF Working, AttemptAlive
<1>4. /\ Orderly(adapter, LandingOps, {}) /\ OpsOf(LandingOps) = LandingSet
      /\ LandingOps[1].do \in {"open", "put"} /\ LandingOps[1].kind = "status"
      /\ LandingOps[1].arg = "in_progress" /\ Head(LandingOps) = LandingOps[1]
  BY <1>1, LandingOrder DEF Piece, Orderly
<1>5. /\ NextOf(a)'.do \in {"open", "put"} /\ NextOf(a)'.kind = "status"
      /\ NextOf(a)'.arg = "in_progress" /\ OpsLeft(a)' = LandingSet
  BY <1>2, <1>4 DEF NextOf, OpsLeft
<1>6. adapter # "local" => documents[j].tmp = Absent
  BY DEF StorageInv, WholeInv
<1>7. ProgressInv(a, j)'
  <2>1. (\A r \in LandingSet : ~Touches(r, "tmp")) => documents[j].tmp = Absent
    BY <1>1, <1>6, LandingContents
  <2>2. ~((\A r \in LandingSet : ~Fills(r, "tmp")) /\ (\E r \in LandingSet : MovesFrom(r, "tmp")))
    BY <1>1, LandingContents
  <2>3. /\ \A k \in {"raw", "manifest", "table"} : ~\A r \in LandingSet : r.kind # k
        /\ ~\A r \in LandingSet : ~Fills(r, "staged")
        /\ ~\A r \in LandingSet : ~Touches(r, "staged")
    BY <1>1, LandingContents
  <2> QED  BY <1>1, <1>5, <2>1, <2>2, <2>3 DEF ProgressInv
<1> QED  BY <1>1, <1>3, <1>5, <1>7 DEF JobInv

\* What is left to do is what is to be done after an operation raised, or
\* nothing: it completes nothing.
LEMMA RaiseKeepsJob ==
  ASSUME NEW a \in LandingAttempts, NEW j \in Jobs, StorageInv, JobInv(j), Working(a, j),
         adapter' = adapter, documents'[j] = documents[j], attempts'[a].job = j,
         attempts'[a].todo \in {<< >>, AfterRaise(NextOf(a))},
         \A b \in LandingAttempts :
           b # a => attempts'[b].job = attempts[b].job /\ attempts'[b].todo = attempts[b].todo
  PROVE  JobInv(j)'
<1> DEFINE t == AfterRaise(NextOf(a))
<1>1. \A b \in LandingAttempts : Working(b, j)' => b = a /\ attempts'[a].todo = t /\ t # << >>
  BY DEF Working, AttemptAlive, JobInv
<1>2. /\ Orderly(adapter, t, {}) /\ \A o \in OpsOf(t) : ~Completes(o)
      /\ t # << >> => /\ t[1].do # "fill" /\ t[1].arg # "completed"
                      /\ ~InLanding(NextOf(a)) => t[1].do \in {"open", "put"} /\ t[1].kind = "status"
  BY RaiseOrder DEF StorageInv, StorageTypes
<1>3. t # << >> => Head(t) = t[1]
  BY <1>2 DEF Orderly
<1> HIDE DEF t
<1>4. ASSUME Working(a, j)' PROVE NextOf(a)' = t[1] /\ OpsLeft(a)' = OpsOf(t) /\ t # << >>
  BY <1>1, <1>3, <1>4 DEF NextOf, OpsLeft
<1>5. Working(a, j)' => ProgressInv(a, j)'
  BY <1>2, <1>4 DEF ProgressInv
<1>6. ASSUME CompletedIn(documents[j].status), Working(a, j)'
      PROVE  NextOf(a)'.do \in {"open", "put"} /\ NextOf(a)'.kind = "status" /\ NextOf(a)'.arg # "completed"
  <2>1. NextOf(a).do \in {"open", "put"} /\ NextOf(a).kind = "status"
    BY <1>6 DEF JobInv
  <2>2. ~InLanding(NextOf(a))
    BY <2>1 DEF InLanding
  <2> QED  BY <1>2, <1>4, <1>6, <2>2
<1> QED  BY <1>1, <1>5, <1>6 DEF JobInv

\* The attempt at work does its next operation.
LEMMA DoneKeepsJob ==
  ASSUME NEW a \in LandingAttempts, NEW j \in Jobs, StorageInv, JobInv(j), Working(a, j),
         adapter' = adapter, Effect(a, NextOf(a), j), Done(a, NextOf(a), j)
  PROVE  JobInv(j)'
<1> DEFINE o == NextOf(a)
           R == RestOf(a)
           L == OpsLeft(a)
           t == Tail(attempts[a].todo)
<1>1. /\ Lawful(adapter, o) /\ Fits(o, R) /\ L = {o} \cup R /\ t \in Seq(Ops) /\ R = OpsOf(t)
      /\ IF o.do = "open" THEN t # << >> /\ Head(t) = FileOp("fill", o.kind, o.arg)
         ELSE t = << >> \/ Head(t).do # "fill"
  <2>1. AttemptAlive(a)
    BY DEF Working
  <2>2. /\ Lawful(adapter, o) /\ Fits(o, R) /\ L = {o} \cup R /\ Orderly(adapter, t, {})
        /\ IF o.do = "open" THEN t # << >> /\ Head(t) = FileOp("fill", o.kind, o.arg)
           ELSE t = << >> \/ Head(t).do # "fill"
    BY <2>1, NextOrder DEF OpsLeft
  <2> QED  BY <2>2 DEF Orderly, RestOf
<1>2. /\ ProgressInv(a, j)
      /\ \A b \in LandingAttempts : Working(b, j) => b = a
      /\ ~Torn(documents[j].raw) /\ (adapter = "local" => ~Torn(documents[j].manifest))
      /\ CompletedIn(documents[j].status) => o.do \in {"open", "put"} /\ o.kind = "status"
  BY DEF JobInv
<1>3. /\ o.do = "fill" => attempts[a].handle = o.kind /\ documents[j][o.kind] = Truncated
      /\ (\E r \in L : Completes(r)) =>
           /\ \A k \in {"raw", "manifest", "table"} :
                (\A r \in L : r.kind # k) => WholeBy(documents[j][k], a)
           /\ \A k \in {"staged", "tmp"} :
                /\ (\A r \in L : ~Fills(r, k)) /\ (\E r \in L : MovesFrom(r, k))
                     => WholeBy(documents[j][k], a)
                /\ (\A r \in L : ~Touches(r, k)) => documents[j][k] = Absent
  BY <1>2 DEF ProgressInv
<1>4. /\ attempts'[a].todo = t /\ attempts'[a].handle = IF o.do = "open" THEN o.kind ELSE "none"
      /\ attempts'[a].job = j
  BY DEF Done, Effect
<1>5. \A b \in LandingAttempts : Working(b, j)' => b = a
  BY <1>2 DEF Effect, OthersGoOn, Working, AttemptAlive
<1>6. Working(a, j)' => /\ t # << >> /\ NextOf(a)' = Head(t) /\ OpsLeft(a)' = R
                       /\ Head(t) \in R
  BY <1>1, <1>4, HeadIsLeft DEF Working, AttemptAlive, NextOf, OpsLeft
<1>7. Done(a, o, j)
  OBVIOUS
<1> HIDE DEF o, R, L, t
\* What becomes of the document of each kind.
<1>8. /\ o.do \in {"open", "fill", "put", "remove", "copy", "replace", "judge"}
      /\ o.do \in {"open", "fill", "put"} => o.kind # "raw"
      /\ o.do \in {"remove", "judge"} => o.kind = "staged" /\ o.arg = ""
      /\ o.do \in {"copy", "replace"} =>
           \/ o.kind = "raw" /\ o.arg = "staged" /\ MovesFrom(o, "staged")
           \/ o.kind = "manifest" /\ o.arg = "tmp" /\ MovesFrom(o, "tmp")
      /\ adapter # "aws" => o.do # "copy"
      /\ adapter = "local" /\ o.kind = "manifest" => o.do = "replace"
      /\ o.do = "copy" => o.kind = "raw" /\ o.arg = "staged"
      /\ o.kind \in DocumentKinds
      /\ o.arg \in {"staged", "tmp"} => o.do \in {"copy", "replace"}
  <2>1. adapter = "aws" => ~MovesFrom(o, "tmp")
    BY <1>1 DEF Lawful, Touches, MovesFrom
  <2> QED  BY <1>1, <2>1 DEF Lawful, Ops, MovesFrom
<1>9. DocumentKinds = {"status", "staged", "raw", "tmp", "manifest", "table"}
  BY DEF DocumentKinds
<1>10. \A k \in DocumentKinds : o.kind # k /\ o.arg # k => documents'[j][k] = documents[j][k]
  BY <1>3, <1>7, <1>8, <1>9 DEF Done, Becomes
<1>11. o.do = "open" => documents'[j][o.kind] = Truncated
  BY <1>7, <1>8 DEF Done, Becomes
<1>12. \A b, arg, at : WholeBy(Document(b, arg, at), b) /\ Document(b, arg, at).status = arg
  BY DEF WholeBy, Whole, Document
<1>13. o.do \in {"fill", "put"} =>
         /\ WholeBy(documents'[j][o.kind], a) /\ documents'[j][o.kind].status = o.arg
  <2>1. CASE o.do = "fill"
    <3>1. attempts[a].handle = o.kind /\ o.kind # "unlinked" /\ documents[j][o.kind] = Truncated
      BY <1>3, <1>8, <1>9, <2>1
    <3>2. \E at : documents'[j][o.kind] = Document(a, o.arg, at)
      BY <1>7, <1>8, <2>1, <3>1 DEF Done, Becomes, FilledFile
    <3> QED  BY <1>12, <3>2
  <2>2. CASE o.do = "put"
    <3>1. \E at : documents'[j][o.kind] = Document(a, o.arg, at)
      BY <1>7, <1>8, <2>2 DEF Done, Becomes
    <3> QED  BY <1>12, <3>1
  <2> QED  BY <2>1, <2>2
<1>14. o.do \in {"copy", "replace"} => documents'[j][o.kind] = documents[j][o.arg]
  BY <1>7, <1>8, <1>9 DEF Done, Becomes
<1>15. /\ o.do = "remove" => documents'[j].staged = Absent
       /\ o.do = "replace" => documents'[j][o.arg] = Absent
  BY <1>7, <1>8, <1>9 DEF Done, Becomes
<1>16. o.do = "judge" => documents'[j] = documents[j]
  BY <1>7 DEF Done
<1>17. o.do = "copy" => documents'[j].staged = documents[j].staged
  BY <1>7, <1>8, <1>9 DEF Done, Becomes
\* What is moved is whole and of a.
<1>18. o.do \in {"copy", "replace"} => WholeBy(documents[j][o.arg], a)
  <2>1. ASSUME NEW k \in {"staged", "tmp"}, MovesFrom(o, k) PROVE WholeBy(documents[j][k], a)
    <3>1. (\A r \in R : ~Fills(r, k)) /\ (\E r \in R : Completes(r))
      BY <1>1, <2>1 DEF Fits
    <3>2. ~Fills(o, k)
      BY <2>1 DEF Fills, MovesFrom
    <3>3. (\A r \in L : ~Fills(r, k)) /\ (\E r \in L : Completes(r)) /\ (\E r \in L : MovesFrom(r, k))
      BY <1>1, <2>1, <3>1, <3>2
    <3> QED  BY <1>3, <3>3
  <2> QED  BY <1>8, <2>1
<1>19. \A file : WholeBy(file, a) => ~Torn(file)
  BY DEF WholeBy, Whole, Torn, Truncated, Mixed
<1>20. ~Torn(documents'[j].raw)
  <2>1. CASE o.kind = "raw"
    BY <1>8, <1>14, <1>18, <1>19, <2>1
  <2>2. CASE o.kind # "raw"
    BY <1>1, <1>2, <1>9, <1>10, <2>2 DEF Lawful, Ops
  <2> QED  BY <2>1, <2>2
<1>21. adapter' = "local" => ~Torn(documents'[j].manifest)
  <2>1. CASE o.kind = "manifest"
    BY <1>8, <1>14, <1>18, <1>19, <2>1
  <2>2. CASE o.kind # "manifest"
    BY <1>1, <1>2, <1>9, <1>10, <2>2 DEF Lawful, Ops
  <2> QED  BY <2>1, <2>2
<1>22. ASSUME Working(a, j)' PROVE ProgressInv(a, j)'
  <2>1. NextOf(a)' = Head(t) /\ OpsLeft(a)' = R /\ t # << >>
    BY <1>6, <1>22
  <2>2. Head(t).do = "fill" => /\ attempts'[a].handle = Head(t).kind
                               /\ documents'[j][Head(t).kind] = Truncated
    BY <1>1, <1>4, <1>11, <2>1 DEF FileOp
  <2>3. ASSUME \E r \in R : Completes(r), NEW k \in {"raw", "manifest", "table"},
               \A r \in R : r.kind # k
        PROVE  WholeBy(documents'[j][k], a)
    <3>1. CASE o.kind = k
      <4>1. o.do # "open"
        <5>1. o.do = "open" => FileOp("fill", o.kind, o.arg) \in R
          BY <1>1 DEF Fits
        <5>2. FileOp("fill", o.kind, o.arg).kind = o.kind
          BY DEF FileOp
        <5> QED  BY <2>3, <3>1, <5>1, <5>2
      <4> QED  BY <1>8, <1>13, <1>14, <1>18, <3>1, <4>1
    <3>2. CASE o.kind # k
      <4>1. WholeBy(documents[j][k], a)
        BY <1>1, <1>3, <2>3, <3>2
      <4>2. k \in DocumentKinds /\ o.arg # k
        BY <1>1, <1>9 DEF Lawful, Ops
      <4> QED  BY <1>10, <3>2, <4>1, <4>2
    <3> QED  BY <3>1, <3>2
  <2>4. ASSUME \E r \in R : Completes(r), NEW k \in {"staged", "tmp"},
               \A r \in R : ~Fills(r, k), \E r \in R : MovesFrom(r, k)
        PROVE  WholeBy(documents'[j][k], a)
    <3>1. CASE Fills(o, k)
      BY <1>13, <3>1 DEF Fills
    <3>2. CASE ~Fills(o, k)
      <4>1. WholeBy(documents[j][k], a)
        BY <1>1, <1>3, <2>4, <3>2
      <4>2. ~MovesFrom(o, k)
        BY <1>1, <2>4 DEF Fits
      <4>3. o.do # "open" \/ o.kind # k
        <5>1. o.do = "open" => FileOp("fill", o.kind, o.arg) \in R
          BY <1>1 DEF Fits
        <5>2. Fills(FileOp("fill", o.kind, o.arg), o.kind)
          BY DEF FileOp, Fills
        <5> QED  BY <2>4, <5>1, <5>2
      <4>4. ~(o.do = "remove" /\ k = "staged")
        BY <1>1, <2>4 DEF Fits
      <4>5. documents'[j][k] = documents[j][k]
        <5>1. CASE o.do = "judge"
          BY <1>16, <5>1
        <5>2. CASE o.do # "judge"
          <6>1. o.kind # k
            BY <1>8, <3>2, <4>3, <4>4, <5>2 DEF Fills
          <6>2. o.arg # k
            BY <1>8, <4>2 DEF MovesFrom
          <6> QED  BY <1>9, <1>10, <6>1, <6>2
        <5> QED  BY <5>1, <5>2
      <4> QED  BY <4>1, <4>5
    <3> QED  BY <3>1, <3>2
  <2>5. ASSUME \E r \in R : Completes(r), NEW k \in {"staged", "tmp"}, \A r \in R : ~Touches(r, k)
        PROVE  documents'[j][k] = Absent
    <3>1. CASE Touches(o, k)
      <4>1. o.do \in {"remove", "replace"}
        BY <1>1, <2>5, <3>1 DEF Fits
      <4>2. (o.do = "remove" => k = "staged") /\ (o.do = "replace" => o.arg = k)
        BY <1>8, <3>1 DEF Touches
      <4> QED  BY <1>15, <4>1, <4>2
    <3>2. CASE ~Touches(o, k)
      <4>1. documents[j][k] = Absent
        BY <1>1, <1>3, <2>5, <3>2
      <4>2. o.kind # k /\ o.arg # k /\ k \in DocumentKinds
        BY <1>9, <3>2 DEF Touches
      <4> QED  BY <1>10, <4>1, <4>2
    <3> QED  BY <3>1, <3>2
  <2> QED  BY <2>1, <2>2, <2>3, <2>4, <2>5 DEF ProgressInv
<1>23. ASSUME CompletedIn(documents'[j].status)
       PROVE  /\ \A k \in {"raw", "manifest", "table"} :
                   WholeBy(documents'[j][k], documents'[j].status.by)
              /\ documents'[j].staged = Absent /\ documents'[j].tmp = Absent
              /\ ~Working(a, j)'
  <2>1. o.kind = "status"
    <3>1. o.kind # "status" => documents'[j].status = documents[j].status
      BY <1>1, <1>9, <1>10 DEF Lawful, Ops
    <3> QED  BY <1>2, <1>23, <3>1
  <2>2. o.do \in {"fill", "put"}
    <3>1. o.do # "open"
      BY <1>11, <1>23, <2>1 DEF CompletedIn, Whole, Truncated
    <3> QED  BY <1>8, <2>1, <3>1
  <2>3. o.arg = "completed" /\ documents'[j].status.by = a
    BY <1>13, <1>23, <2>1, <2>2 DEF WholeBy, CompletedIn
  <2>4. R = {} /\ L = {o} /\ Completes(o)
    BY <1>1, <2>1, <2>2, <2>3 DEF Fits, Completes
  <2>5. \A k \in DocumentKinds : k # "status" => documents'[j][k] = documents[j][k]
    BY <1>9, <1>10, <2>1, <2>3
  <2>6. /\ \A k \in {"raw", "manifest", "table"} : WholeBy(documents[j][k], a)
        /\ \A k \in {"staged", "tmp"} : documents[j][k] = Absent
    BY <1>3, <2>1, <2>3, <2>4 DEF Touches
  <2>7. ~Working(a, j)'
    BY <1>6, <2>4
  <2> QED  BY <1>9, <2>3, <2>5, <2>6, <2>7
<1> QED  BY <1>5, <1>20, <1>21, <1>22, <1>23 DEF JobInv

LEMMA NextJobs == StorageInv /\ JobsInv /\ [StorageNext]_storageVars => JobsInv'
<1> SUFFICES ASSUME StorageInv, JobsInv, [StorageNext]_storageVars, NEW i \in Jobs, i \notin overlapped'
             PROVE  JobInv(i)'
  BY DEF JobsInv
<1>1. overlapped \subseteq overlapped'
  BY DEF StorageNext, BeginAttempt, DoOperation, CallFault, ClockTick, ListStatuses, JudgeFreshness,
         ReadStatus, storageOthers, storageVars
<1>2. JobInv(i)
  BY <1>1 DEF JobsInv
<1>3. ASSUME NEW a \in LandingAttempts, NEW j \in Jobs, BeginAttempt(a, j) PROVE JobInv(i)'
  <2>1. CASE j = i
    BY <1>2, <1>3, <2>1, BeginKeepsJob
  <2>2. CASE j # i
    <3>1. /\ attempts'[a].job = j /\ attempts[a].todo = << >>
          /\ \A b \in LandingAttempts : b # a => attempts'[b] = attempts[b]
      BY <1>3, BeginFacts
    <3>2. \A b \in LandingAttempts : Working(b, i)' => Working(b, i) /\ attempts'[b] = attempts[b]
      BY <2>2, <3>1 DEF Working, AttemptAlive
    <3>3. adapter' = adapter /\ documents' = documents
      BY <1>3 DEF BeginAttempt
    <3>4. \A b \in LandingAttempts :
            Working(b, i)' => NextOf(b)' = NextOf(b) /\ (ProgressInv(b, i) => ProgressInv(b, i)')
      BY <3>2, <3>3 DEF NextOf, ProgressInv, OpsLeft
    <3> QED  BY <1>2, <3>2, <3>3, <3>4 DEF JobInv
  <2> QED  BY <2>1, <2>2
<1>4. ASSUME NEW a \in LandingAttempts, DoOperation(a) PROVE JobInv(i)'
  <2> DEFINE j == attempts[a].job
  <2>1. AttemptAlive(a) /\ ApplyOp(a, NextOf(a), j) /\ adapter' = adapter /\ j \in Jobs
    BY <1>4 DEF DoOperation, NextOf, StorageInv, StorageTypes
  <2>2. Effect(a, NextOf(a), j)
    BY <2>1, OperationEffect
  <2>3. CASE i # j
    <3>1. \A b \in LandingAttempts :
            attempts'[b].job = i \/ attempts[b].job = i => attempts'[b] = attempts[b]
      BY <2>2, <2>3 DEF Effect, OthersGoOn
    <3>2. documents'[i] = documents[i]
      BY <2>2, <2>3 DEF Effect
    <3> QED  BY <1>2, <2>1, <3>1, <3>2, JobFrame
  <2>4. CASE i = j /\ Done(a, NextOf(a), j)
    <3>1. Working(a, i)
      BY <2>1, <2>4 DEF Working
    <3> QED  BY <1>2, <2>1, <2>2, <2>4, <3>1, DoneKeepsJob
  <2>5. CASE i = j /\ Raised(a, NextOf(a))
    <3>1. Working(a, i)
      BY <2>1, <2>5 DEF Working
    <3>2. /\ documents'[i] = documents[i] /\ attempts'[a].job = i
          /\ attempts'[a].todo \in {<< >>, AfterRaise(NextOf(a))}
          /\ \A b \in LandingAttempts :
               b # a => attempts'[b].job = attempts[b].job /\ attempts'[b].todo = attempts[b].todo
      BY <2>2, <2>5 DEF Effect, OthersGoOn, Raised
    <3> QED  BY <1>2, <2>1, <3>1, <3>2, RaiseKeepsJob
  <2> QED  BY <2>2, <2>3, <2>4, <2>5 DEF Effect
<1>5. ASSUME NEW a \in LandingAttempts, CallFault(a) PROVE JobInv(i)'
  <2>1. adapter' = adapter /\ documents' = documents /\ AttemptAlive(a)
    BY <1>5 DEF CallFault
  <2>2. /\ attempts'[a].job = attempts[a].job
        /\ attempts'[a].todo \in {<< >>, AfterRaise(NextOf(a))}
        /\ \A b \in LandingAttempts : b # a => attempts'[b] = attempts[b]
    BY <1>5, FaultFacts
  <2>3. CASE i # attempts[a].job
    BY <1>2, <2>1, <2>2, <2>3, JobFrame
  <2>4. CASE i = attempts[a].job
    <3>1. Working(a, i)
      BY <2>1, <2>4 DEF Working
    <3> QED  BY <1>2, <2>1, <2>2, <2>4, <3>1, RaiseKeepsJob
  <2> QED  BY <2>3, <2>4
<1>6. ASSUME adapter' = adapter, documents' = documents, attempts' = attempts PROVE JobInv(i)'
  BY <1>2, <1>6, JobFrame
<1>7. CASE ClockTick
  BY <1>6, <1>7 DEF ClockTick
<1>8. CASE ListStatuses \/ JudgeFreshness \/ \E j \in Jobs : ReadStatus(j)
  BY <1>6, <1>8 DEF ListStatuses, JudgeFreshness, ReadStatus, storageOthers
<1>9. CASE UNCHANGED storageVars
  BY <1>6, <1>9 DEF storageVars
<1> QED  BY <1>3, <1>4, <1>5, <1>7, <1>8, <1>9 DEF StorageNext

\* The calls RawLanding takes for single steps keep their promises under every
\* adapter, for every set of jobs and attempts, whichever calls raise and
\* processes die: no torn document on S3, and none in a job whose attempts were
\* never alive together, where completed means all in place, of one attempt.
THEOREM CallsAreWhole == StorageSpec => []CallsHold
<1>1. StorageInit => StorageInv /\ JobsInv
  BY InitStorage, InitJobs
<1>2. StorageInv /\ JobsInv /\ [StorageNext]_storageVars => (StorageInv /\ JobsInv)'
  BY NextStorage, NextJobs
<1>3. StorageInv /\ JobsInv => CallsHold
  <2> SUFFICES ASSUME StorageInv, JobsInv, NEW j \in Jobs
               PROVE  /\ adapter = "aws" => \A k \in DocumentKinds \ {"table"} : ~Torn(documents[j][k])
                      /\ j \notin overlapped =>
                           /\ ~Torn(documents[j].raw)
                           /\ ManifestOf(j) = "unreadable" =>
                                adapter = "databricks" /\ ~CompletedIn(documents[j].status)
                           /\ CompletedIn(documents[j].status) =>
                                /\ \A k \in {"raw", "manifest", "table"} :
                                     /\ Whole(documents[j][k])
                                     /\ documents[j][k].by = documents[j].status.by
                                /\ documents[j].staged = Absent /\ documents[j].tmp = Absent
    BY DEF CallsHold
  <2>1. /\ adapter = "aws" => \A k \in DocumentKinds \ {"table"} : ~Torn(documents[j][k])
        /\ adapter \in Adapters
    BY DEF StorageInv, WholeInv, StorageTypes
  <2>2. ManifestOf(j) = "unreadable" => Torn(documents[j].manifest)
    BY DEF ManifestOf
  <2>3. j \notin overlapped => JobInv(j)
    BY DEF JobsInv
  <2>4. \A file : Whole(file) => ~Torn(file)
    BY DEF Whole, Torn, Truncated, Mixed
  <2>5. "manifest" \in DocumentKinds \ {"table"}
    BY DEF DocumentKinds
  <2> QED  BY <2>1, <2>2, <2>3, <2>4, <2>5 DEF JobInv, WholeBy, Adapters
<1> QED  BY <1>1, <1>2, <1>3, PTL DEF StorageSpec

-----------------------------------------------------------------------------
(* The landings, whose calls are single steps                              *)

USE PayloadAssumption, SettingsAssumption
USE DEF Live, Ended, InBlock, OutsideBlock, Labels, Goto

HasContent == {"discard", "stage", "parse", "quarantine", "gate", "write",
               "promote", "unstage", "publish", "complete"}
HasStaged  == {"parse", "quarantine", "gate", "write", "promote", "unstage"}
HasParsed  == {"quarantine", "gate", "write", "promote", "unstage", "publish",
               "complete"}
TableWritten == {"promote", "unstage", "publish", "complete"}
Promoted   == {"unstage", "publish", "complete"}
Unstaged   == {"publish", "complete"}

-----------------------------------------------------------------------------
(* Types and the quarantine gate, whether or not runs overlap              *)

\* What run r holds when it stands at pc[r], and that it passed the gate.
HoldsInv(r) ==
  /\ Live(r) => slice[r] \in Slices
  /\ pc[r] \in HasContent => content[r] \in Payloads
  /\ pc[r] \in HasParsed => parsed[r] \in Payloads
  /\ pc[r] = "write" => ~RatioRefused(parsed[r])

GateInv ==
  /\ TypeOK
  /\ \A r \in Runs : HoldsInv(r)
  /\ RefusedNeverInTable

\* Initially no run holds anything and every partition is absent.
LEMMA InitGate == Init => GateInv
  BY DEF Init, GateInv, TypeOK, RunsTypeOK, StoresTypeOK, HoldsInv,
         HasContent, HasParsed, RefusedNeverInTable

\* Every step keeps the types and the gate's verdict.
LEMMA NextGate == GateInv /\ [Next]_vars => GateInv'
<1> SUFFICES ASSUME GateInv, [Next]_vars PROVE GateInv'
  OBVIOUS
<1> USE DEF GateInv, TypeOK, RunsTypeOK, StoresTypeOK, runVars, stores
<1>1. ASSUME NEW r \in Runs, NEW s \in Slices, Start(r, s) PROVE GateInv'
  <2> USE <1>1 DEF Start
  <2>1. RunsTypeOK' /\ StoresTypeOK'
    OBVIOUS
  <2>2. (faults \in 0..MaxFaults)'
    OBVIOUS
  <2>3. ASSUME NEW q \in Runs PROVE HoldsInv(q)'
    BY DEF HoldsInv, HasContent, HasParsed, RatioRefused
  <2>4. RefusedNeverInTable'
    BY DEF RefusedNeverInTable, RatioRefused
  <2> QED  BY <2>1, <2>2, <2>3, <2>4
<1>2. ASSUME NEW r \in Runs, Fetch(r) PROVE GateInv'
  <2> USE <1>2 DEF Fetch
  <2>1. /\ slice[r] \in Slices
        /\ pc[r] \in HasContent => content[r] \in Payloads
        /\ pc[r] \in HasParsed => parsed[r] \in Payloads
    BY DEF HoldsInv
  <2>2. RunsTypeOK'
    OBVIOUS
  <2>3. StoresTypeOK'
    BY <2>1 DEF HasContent, HasParsed, Overwritten
  <2>4. (faults \in 0..MaxFaults)'
    OBVIOUS
  <2>5. ASSUME NEW q \in Runs PROVE HoldsInv(q)'
    BY <2>1 DEF HoldsInv, HasContent, HasParsed, RatioRefused
  <2>6. RefusedNeverInTable'
    BY <2>1 DEF RefusedNeverInTable, HoldsInv, Overwritten, RatioRefused
  <2> QED  BY <2>2, <2>3, <2>4, <2>5, <2>6
<1>3. ASSUME NEW r \in Runs, DiscardStale(r) PROVE GateInv'
  <2> USE <1>3 DEF DiscardStale
  <2>1. /\ slice[r] \in Slices
        /\ pc[r] \in HasContent => content[r] \in Payloads
        /\ pc[r] \in HasParsed => parsed[r] \in Payloads
    BY DEF HoldsInv
  <2>2. RunsTypeOK'
    OBVIOUS
  <2>3. StoresTypeOK'
    BY <2>1 DEF HasContent, HasParsed, Overwritten
  <2>4. (faults \in 0..MaxFaults)'
    OBVIOUS
  <2>5. ASSUME NEW q \in Runs PROVE HoldsInv(q)'
    BY <2>1 DEF HoldsInv, HasContent, HasParsed, RatioRefused
  <2>6. RefusedNeverInTable'
    BY <2>1 DEF RefusedNeverInTable, HoldsInv, Overwritten, RatioRefused
  <2> QED  BY <2>2, <2>3, <2>4, <2>5, <2>6
<1>4. ASSUME NEW r \in Runs, Stage(r) PROVE GateInv'
  <2> USE <1>4 DEF Stage
  <2>1. /\ slice[r] \in Slices
        /\ pc[r] \in HasContent => content[r] \in Payloads
        /\ pc[r] \in HasParsed => parsed[r] \in Payloads
    BY DEF HoldsInv
  <2>2. RunsTypeOK'
    OBVIOUS
  <2>3. StoresTypeOK'
    BY <2>1 DEF HasContent, HasParsed, Overwritten
  <2>4. (faults \in 0..MaxFaults)'
    OBVIOUS
  <2>5. ASSUME NEW q \in Runs PROVE HoldsInv(q)'
    BY <2>1 DEF HoldsInv, HasContent, HasParsed, RatioRefused
  <2>6. RefusedNeverInTable'
    BY <2>1 DEF RefusedNeverInTable, HoldsInv, Overwritten, RatioRefused
  <2> QED  BY <2>2, <2>3, <2>4, <2>5, <2>6
<1>5. ASSUME NEW r \in Runs, Parse(r) PROVE GateInv'
  <2> USE <1>5 DEF Parse
  <2>1. /\ slice[r] \in Slices
        /\ pc[r] \in HasContent => content[r] \in Payloads
        /\ pc[r] \in HasParsed => parsed[r] \in Payloads
    BY DEF HoldsInv
  <2>2. RunsTypeOK'
    <3>1. CASE staged[slice[r]] = None
      BY <3>1
    <3>2. CASE staged[slice[r]] # None
      <4>1. staged[slice[r]] \in Payloads
        BY <2>1, <3>2
      <4>2. parsed' \in [Runs -> Payloads \cup {None}]
        BY <3>2, <4>1
      <4> QED  BY <3>2, <4>2
    <3> QED  BY <3>1, <3>2
  <2>3. StoresTypeOK'
    BY <2>1 DEF HasContent, HasParsed, Overwritten
  <2>4. (faults \in 0..MaxFaults)'
    OBVIOUS
  <2>5. ASSUME NEW q \in Runs PROVE HoldsInv(q)'
    BY <2>1 DEF HoldsInv, HasContent, HasParsed, RatioRefused
  <2>6. RefusedNeverInTable'
    BY <2>1 DEF RefusedNeverInTable, HoldsInv, Overwritten, RatioRefused
  <2> QED  BY <2>2, <2>3, <2>4, <2>5, <2>6
<1>6. ASSUME NEW r \in Runs, Quarantine(r) PROVE GateInv'
  <2> USE <1>6 DEF Quarantine
  <2>1. /\ slice[r] \in Slices
        /\ pc[r] \in HasContent => content[r] \in Payloads
        /\ pc[r] \in HasParsed => parsed[r] \in Payloads
    BY DEF HoldsInv
  <2>2. RunsTypeOK'
    OBVIOUS
  <2>3. StoresTypeOK'
    <3>1. quarantine' \in [Slices -> SUBSET (Runs \X Payloads)]
      BY <2>1 DEF HasParsed
    <3> QED  BY <3>1
  <2>4. (faults \in 0..MaxFaults)'
    OBVIOUS
  <2>5. ASSUME NEW q \in Runs PROVE HoldsInv(q)'
    BY <2>1 DEF HoldsInv, HasContent, HasParsed, RatioRefused
  <2>6. RefusedNeverInTable'
    BY <2>1 DEF RefusedNeverInTable, HoldsInv, Overwritten, RatioRefused
  <2> QED  BY <2>2, <2>3, <2>4, <2>5, <2>6
<1>7. ASSUME NEW r \in Runs, Gate(r) PROVE GateInv'
  <2> USE <1>7 DEF Gate
  <2>1. /\ slice[r] \in Slices
        /\ pc[r] \in HasContent => content[r] \in Payloads
        /\ pc[r] \in HasParsed => parsed[r] \in Payloads
    BY DEF HoldsInv
  <2>2. RunsTypeOK'
    OBVIOUS
  <2>3. StoresTypeOK'
    BY <2>1 DEF HasContent, HasParsed, Overwritten
  <2>4. (faults \in 0..MaxFaults)'
    OBVIOUS
  <2>5. ASSUME NEW q \in Runs PROVE HoldsInv(q)'
    BY <2>1 DEF HoldsInv, HasContent, HasParsed, RatioRefused
  <2>6. RefusedNeverInTable'
    BY <2>1 DEF RefusedNeverInTable, HoldsInv, Overwritten, RatioRefused
  <2> QED  BY <2>2, <2>3, <2>4, <2>5, <2>6
<1>8. ASSUME NEW r \in Runs, WriteTable(r) PROVE GateInv'
  <2> USE <1>8 DEF WriteTable
  <2>1. /\ slice[r] \in Slices
        /\ pc[r] \in HasContent => content[r] \in Payloads
        /\ pc[r] \in HasParsed => parsed[r] \in Payloads
    BY DEF HoldsInv
  <2>2. RunsTypeOK'
    OBVIOUS
  <2>3. StoresTypeOK'
    BY <2>1 DEF HasContent, HasParsed, Overwritten
  <2>4. (faults \in 0..MaxFaults)'
    OBVIOUS
  <2>5. ASSUME NEW q \in Runs PROVE HoldsInv(q)'
    BY <2>1 DEF HoldsInv, HasContent, HasParsed, RatioRefused
  <2>6. RefusedNeverInTable'
    BY <2>1 DEF RefusedNeverInTable, HoldsInv, Overwritten, RatioRefused
  <2> QED  BY <2>2, <2>3, <2>4, <2>5, <2>6
<1>9. ASSUME NEW r \in Runs, Promote(r) PROVE GateInv'
  <2> USE <1>9 DEF Promote
  <2>1. /\ slice[r] \in Slices
        /\ pc[r] \in HasContent => content[r] \in Payloads
        /\ pc[r] \in HasParsed => parsed[r] \in Payloads
    BY DEF HoldsInv
  <2>2. RunsTypeOK'
    OBVIOUS
  <2>3. StoresTypeOK'
    BY <2>1 DEF HasContent, HasParsed, Overwritten
  <2>4. (faults \in 0..MaxFaults)'
    OBVIOUS
  <2>5. ASSUME NEW q \in Runs PROVE HoldsInv(q)'
    BY <2>1 DEF HoldsInv, HasContent, HasParsed, RatioRefused
  <2>6. RefusedNeverInTable'
    BY <2>1 DEF RefusedNeverInTable, HoldsInv, Overwritten, RatioRefused
  <2> QED  BY <2>2, <2>3, <2>4, <2>5, <2>6
<1>10. ASSUME NEW r \in Runs, Unstage(r) PROVE GateInv'
  <2> USE <1>10 DEF Unstage
  <2>1. /\ slice[r] \in Slices
        /\ pc[r] \in HasContent => content[r] \in Payloads
        /\ pc[r] \in HasParsed => parsed[r] \in Payloads
    BY DEF HoldsInv
  <2>2. RunsTypeOK'
    OBVIOUS
  <2>3. StoresTypeOK'
    BY <2>1 DEF HasContent, HasParsed, Overwritten
  <2>4. (faults \in 0..MaxFaults)'
    OBVIOUS
  <2>5. ASSUME NEW q \in Runs PROVE HoldsInv(q)'
    BY <2>1 DEF HoldsInv, HasContent, HasParsed, RatioRefused
  <2>6. RefusedNeverInTable'
    BY <2>1 DEF RefusedNeverInTable, HoldsInv, Overwritten, RatioRefused
  <2> QED  BY <2>2, <2>3, <2>4, <2>5, <2>6
<1>11. ASSUME NEW r \in Runs, Publish(r) PROVE GateInv'
  <2> USE <1>11 DEF Publish
  <2>1. /\ slice[r] \in Slices
        /\ pc[r] \in HasContent => content[r] \in Payloads
        /\ pc[r] \in HasParsed => parsed[r] \in Payloads
    BY DEF HoldsInv
  <2>2. RunsTypeOK'
    OBVIOUS
  <2>3. StoresTypeOK'
    BY <2>1 DEF HasContent, HasParsed, Overwritten
  <2>4. (faults \in 0..MaxFaults)'
    OBVIOUS
  <2>5. ASSUME NEW q \in Runs PROVE HoldsInv(q)'
    BY <2>1 DEF HoldsInv, HasContent, HasParsed, RatioRefused
  <2>6. RefusedNeverInTable'
    BY <2>1 DEF RefusedNeverInTable, HoldsInv, Overwritten, RatioRefused
  <2> QED  BY <2>2, <2>3, <2>4, <2>5, <2>6
<1>12. ASSUME NEW r \in Runs, Complete(r) PROVE GateInv'
  <2> USE <1>12 DEF Complete
  <2>1. /\ slice[r] \in Slices
        /\ pc[r] \in HasContent => content[r] \in Payloads
        /\ pc[r] \in HasParsed => parsed[r] \in Payloads
    BY DEF HoldsInv
  <2>2. RunsTypeOK'
    OBVIOUS
  <2>3. StoresTypeOK'
    BY <2>1 DEF HasContent, HasParsed, Overwritten
  <2>4. (faults \in 0..MaxFaults)'
    OBVIOUS
  <2>5. ASSUME NEW q \in Runs PROVE HoldsInv(q)'
    BY <2>1 DEF HoldsInv, HasContent, HasParsed, RatioRefused
  <2>6. RefusedNeverInTable'
    BY <2>1 DEF RefusedNeverInTable, HoldsInv, Overwritten, RatioRefused
  <2> QED  BY <2>2, <2>3, <2>4, <2>5, <2>6
<1>13. ASSUME NEW r \in Runs, Abort(r) PROVE GateInv'
  <2> USE <1>13 DEF Abort
  <2>1. /\ slice[r] \in Slices
        /\ pc[r] \in HasContent => content[r] \in Payloads
        /\ pc[r] \in HasParsed => parsed[r] \in Payloads
    BY DEF HoldsInv
  <2>2. RunsTypeOK'
    OBVIOUS
  <2>3. StoresTypeOK'
    BY <2>1 DEF HasContent, HasParsed, Overwritten
  <2>4. (faults \in 0..MaxFaults)'
    OBVIOUS
  <2>5. ASSUME NEW q \in Runs PROVE HoldsInv(q)'
    BY <2>1 DEF HoldsInv, HasContent, HasParsed, RatioRefused
  <2>6. RefusedNeverInTable'
    BY <2>1 DEF RefusedNeverInTable, HoldsInv, Overwritten, RatioRefused
  <2> QED  BY <2>2, <2>3, <2>4, <2>5, <2>6
<1>14. ASSUME NEW r \in Runs, MarkFailed(r) PROVE GateInv'
  <2> USE <1>14 DEF MarkFailed
  <2>1. /\ slice[r] \in Slices
        /\ pc[r] \in HasContent => content[r] \in Payloads
        /\ pc[r] \in HasParsed => parsed[r] \in Payloads
    BY DEF HoldsInv
  <2>2. RunsTypeOK'
    OBVIOUS
  <2>3. StoresTypeOK'
    <3>1. status' \in [Slices -> {"none", "in_progress", "completed", "failed"}]
      OBVIOUS
    <3> QED  BY <3>1
  <2>4. (faults \in 0..MaxFaults)'
    OBVIOUS
  <2>5. ASSUME NEW q \in Runs PROVE HoldsInv(q)'
    BY <2>1 DEF HoldsInv, HasContent, HasParsed, RatioRefused
  <2>6. RefusedNeverInTable'
    BY <2>1 DEF RefusedNeverInTable, HoldsInv, Overwritten, RatioRefused
  <2> QED  BY <2>2, <2>3, <2>4, <2>5, <2>6
<1>15. ASSUME NEW r \in Runs, Raise(r) PROVE GateInv'
  <2> USE <1>15 DEF Raise
  <2>1. /\ slice[r] \in Slices
        /\ pc[r] \in HasContent => content[r] \in Payloads
        /\ pc[r] \in HasParsed => parsed[r] \in Payloads
    BY DEF HoldsInv
  <2>2. RunsTypeOK'
    OBVIOUS
  <2>3. StoresTypeOK'
    BY <2>1 DEF HasContent, HasParsed, Overwritten
  <2>4. (faults \in 0..MaxFaults)'
    OBVIOUS
  <2>5. ASSUME NEW q \in Runs PROVE HoldsInv(q)'
    BY <2>1 DEF HoldsInv, HasContent, HasParsed, RatioRefused
  <2>6. RefusedNeverInTable'
    BY <2>1 DEF RefusedNeverInTable, HoldsInv, Overwritten, RatioRefused
  <2> QED  BY <2>2, <2>3, <2>4, <2>5, <2>6
<1>16. ASSUME NEW r \in Runs, Crash(r) PROVE GateInv'
  <2> USE <1>16 DEF Crash
  <2>1. /\ slice[r] \in Slices
        /\ pc[r] \in HasContent => content[r] \in Payloads
        /\ pc[r] \in HasParsed => parsed[r] \in Payloads
    BY DEF HoldsInv
  <2>2. RunsTypeOK'
    OBVIOUS
  <2>3. StoresTypeOK'
    BY <2>1 DEF HasContent, HasParsed, Overwritten
  <2>4. (faults \in 0..MaxFaults)'
    OBVIOUS
  <2>5. ASSUME NEW q \in Runs PROVE HoldsInv(q)'
    BY <2>1 DEF HoldsInv, HasContent, HasParsed, RatioRefused
  <2>6. RefusedNeverInTable'
    BY <2>1 DEF RefusedNeverInTable, HoldsInv, Overwritten, RatioRefused
  <2> QED  BY <2>2, <2>3, <2>4, <2>5, <2>6
<1>17. CASE UNCHANGED vars
  BY <1>17 DEF vars, HoldsInv, RefusedNeverInTable, RatioRefused
<1> QED
  BY <1>1, <1>2, <1>3, <1>4, <1>5, <1>6, <1>7, <1>8, <1>9, <1>10, <1>11, <1>12, <1>13, <1>14, <1>15, <1>16, <1>17
  DEF Next, Proceed

\* Every variable keeps its type.
THEOREM TypeCorrect == Spec => []TypeOK
<1>1. GateInv => TypeOK
  BY DEF GateInv
<1> QED  BY <1>1, InitGate, NextGate, PTL DEF Spec

\* No batch over the quarantine ratio is ever in the table, for overlapping
\* runs too: the check and the write use the same cached rows.
THEOREM RefusedBatchStaysOut == Spec => []RefusedNeverInTable
<1>1. GateInv => RefusedNeverInTable
  BY DEF GateInv
<1> QED  BY <1>1, InitGate, NextGate, PTL DEF Spec

-----------------------------------------------------------------------------
(* Consistency, while runs of one slice do not overlap                     *)

\* No two live runs work on one slice.
Exclusive ==
  \A r, q \in Runs : Live(r) /\ Live(q) /\ slice[r] = slice[q] => r = q

\* What run r has achieved when it stands at pc[r].
RunInv(r) ==
  /\ Live(r) => slice[r] \in Slices
  /\ Live(r) /\ pc[r] # "failing" => status[slice[r]] = "in_progress"
  /\ pc[r] \in HasContent => content[r] \in Payloads
  /\ pc[r] \in HasStaged => staged[slice[r]] = content[r]
  /\ pc[r] \in HasParsed => parsed[r] = content[r]
  /\ pc[r] \in TableWritten /\ ValidRows[content[r]] > 0 =>
       table[slice[r]] = content[r]
  /\ pc[r] \in Promoted => raw[slice[r]] = content[r]
  /\ pc[r] \in Unstaged => staged[slice[r]] = None
  /\ pc[r] = "complete" =>
       manifest[slice[r]] = [sha |-> content[r], rows |-> content[r]]

Inv ==
  /\ TypeOK
  /\ Exclusive
  /\ \A r \in Runs : RunInv(r)
  /\ CompletedIsConsistent

\* Initially every run is idle and every slice untouched.
LEMMA InitInv == Init => Inv
  BY DEF Init, Inv, TypeOK, RunsTypeOK, StoresTypeOK, Exclusive, RunInv,
         CompletedIsConsistent, HasContent, HasStaged, HasParsed, TableWritten,
         Promoted, Unstaged

\* A step of run r changes no other run, and no slice but its own.
OnlyOwn(r) ==
  /\ slice' = slice
  /\ \A q \in Runs \ {r} : /\ pc'[q] = pc[q]
                           /\ content'[q] = content[q]
                           /\ parsed'[q] = parsed[q]
  /\ \A s \in Slices \ {slice[r]} : /\ status'[s] = status[s]
                                   /\ staged'[s] = staged[s]
                                   /\ raw'[s] = raw[s]
                                   /\ table'[s] = table[s]
                                   /\ manifest'[s] = manifest[s]

Consistent(s) ==
  status[s] = "completed" =>
    /\ staged[s] = None
    /\ \E p \in Payloads : LandedFrom(s, p)

\* Two live runs work on different slices, so a step that keeps to its run
\* and its slice preserves what the other runs and slices are owed.
LEMMA OwnStep ==
  ASSUME Inv, NEW r \in Runs, Live(r), OnlyOwn(r), TypeOK',
         RunInv(r)', Consistent(slice[r])'
  PROVE  Inv'
<1>1. slice[r] \in Slices
  BY DEF Inv, RunInv
<1>2. \A q \in Runs : Live(q)' => Live(q)
  BY DEF OnlyOwn
<1>3. Exclusive'
  BY <1>2 DEF Inv, Exclusive, OnlyOwn
<1>4. ASSUME NEW q \in Runs PROVE RunInv(q)'
  <2>1. CASE q = r
    BY <2>1
  <2>2. CASE q # r
    <3>1. Live(q) => slice[q] \in Slices \ {slice[r]}
      BY <2>2 DEF Inv, Exclusive, RunInv
    <3>2. /\ pc'[q] = pc[q] /\ slice'[q] = slice[q]
          /\ content'[q] = content[q] /\ parsed'[q] = parsed[q]
      BY <2>2 DEF OnlyOwn
    <3>3. CASE Live(q)
      <4>1. LET s == slice[q] IN
              /\ status'[s] = status[s] /\ staged'[s] = staged[s]
              /\ raw'[s] = raw[s] /\ table'[s] = table[s]
              /\ manifest'[s] = manifest[s]
        BY <3>1, <3>3 DEF OnlyOwn
      <4> QED  BY <3>1, <3>2, <4>1 DEF Inv, RunInv
    <3>4. CASE ~Live(q)
      BY <3>2, <3>4 DEF RunInv, HasContent, HasStaged, HasParsed, TableWritten,
         Promoted, Unstaged
    <3> QED  BY <3>3, <3>4
  <2> QED  BY <2>1, <2>2
<1>5. ASSUME NEW s \in Slices PROVE Consistent(s)'
  <2>1. CASE s = slice[r]
    BY <2>1 DEF OnlyOwn, Consistent, LandedFrom
  <2>2. CASE s # slice[r]
    <3>1. Consistent(s)
      BY DEF Inv, CompletedIsConsistent, Consistent
    <3> QED  BY <2>2, <3>1 DEF OnlyOwn, Consistent, LandedFrom
  <2> QED  BY <2>1, <2>2
<1> QED
  BY <1>3, <1>4, <1>5 DEF Inv, CompletedIsConsistent, Consistent

\* A live run that is not failing works on a slice that is in progress.
LEMMA AtWork ==
  ASSUME Inv, NEW r \in Runs, Live(r)
  PROVE  /\ slice[r] \in Slices
         /\ pc[r] # "failing" => status[slice[r]] = "in_progress"
         /\ pc[r] \in HasContent => content[r] \in Payloads
         /\ pc[r] \in HasStaged => staged[slice[r]] = content[r]
  BY DEF Inv, RunInv

\* A run starts on a slice no live run is working on.
LEMMA StartStep ==
  ASSUME Inv, TypeOK', ~Overlap, NEW r \in Runs, NEW s \in Slices, Start(r, s)
  PROVE  Inv'
<1> USE DEF Start, stores
<1>1. \A q \in Runs : Live(q) => slice[q] # s
  OBVIOUS
<1>2. slice'[r] = s /\ \A q \in Runs : q # r =>
        slice'[q] = slice[q] /\ pc'[q] = pc[q]
  BY DEF Inv, TypeOK, RunsTypeOK
<1>3. ~Live(r) /\ pc'[r] \in {"fetch", "failing"}
  BY DEF Inv, TypeOK, RunsTypeOK
<1>4. Exclusive'
  BY <1>1, <1>2, <1>3 DEF Inv, Exclusive
<1>5. ASSUME NEW q \in Runs PROVE RunInv(q)'
  <2>1. CASE q = r
    BY <2>1, <1>2, <1>3 DEF Inv, TypeOK, StoresTypeOK, RunsTypeOK, RunInv,
       HasContent, HasStaged, HasParsed, TableWritten, Promoted, Unstaged
  <2>2. CASE q # r
    BY <2>2, <1>1, <1>2 DEF Inv, TypeOK, StoresTypeOK, RunInv, HasContent,
       HasStaged, HasParsed, TableWritten, Promoted, Unstaged
  <2> QED  BY <2>1, <2>2
<1>6. ASSUME NEW d \in Slices PROVE Consistent(d)'
  <2>1. Consistent(d)
    BY DEF Inv, CompletedIsConsistent, Consistent
  <2>2. status'[d] = "completed" => status[d] = "completed"
    BY DEF Inv, TypeOK, StoresTypeOK
  <2> QED  BY <2>1, <2>2 DEF Consistent, LandedFrom
<1> QED  BY <1>4, <1>5, <1>6 DEF Inv, CompletedIsConsistent, Consistent

\* Fetching changes the run's own content only.
LEMMA FetchStep ==
  ASSUME Inv, TypeOK', NEW r \in Runs, Fetch(r) PROVE Inv'
<1> USE DEF Fetch, runVars, stores
<1>1. Live(r)
  OBVIOUS
<1>2. OnlyOwn(r)
  BY DEF Inv, TypeOK, RunsTypeOK, StoresTypeOK, OnlyOwn
<1>3. RunInv(r)'
  <2>1. pc'[r] = "discard" /\ content'[r] \in Payloads
    BY DEF Inv, TypeOK, RunsTypeOK
  <2>2. pc[r] = "fetch"
    OBVIOUS
  <2> QED
    BY <2>1, <2>2 DEF Inv, RunInv, HasContent,
       HasStaged, HasParsed, TableWritten, Promoted, Unstaged
<1>4. Consistent(slice[r])'
  BY <1>1, AtWork DEF Consistent
<1> QED  BY <1>1, <1>2, <1>3, <1>4, OwnStep

\* Dropping stale bytes empties the run's own staging path.
LEMMA DiscardStaleStep ==
  ASSUME Inv, TypeOK', NEW r \in Runs, DiscardStale(r) PROVE Inv'
<1> USE DEF DiscardStale, runVars, stores
<1>1. Live(r)
  OBVIOUS
<1>2. OnlyOwn(r)
  BY DEF Inv, TypeOK, RunsTypeOK, StoresTypeOK, OnlyOwn
<1>3. RunInv(r)'
  BY <1>1 DEF Inv, TypeOK, RunsTypeOK, StoresTypeOK, RunInv, HasContent,
     HasStaged, HasParsed, TableWritten, Promoted, Unstaged
<1>4. Consistent(slice[r])'
  BY <1>1, AtWork DEF Consistent
<1> QED  BY <1>1, <1>2, <1>3, <1>4, OwnStep

\* Staging puts the fetched bytes at the run's own staging path.
LEMMA StageStep ==
  ASSUME Inv, TypeOK', NEW r \in Runs, Stage(r) PROVE Inv'
<1> USE DEF Stage, runVars, stores
<1>1. Live(r)
  OBVIOUS
<1>2. OnlyOwn(r)
  BY DEF Inv, TypeOK, RunsTypeOK, StoresTypeOK, OnlyOwn
<1>3. RunInv(r)'
  BY <1>1 DEF Inv, TypeOK, RunsTypeOK, StoresTypeOK, RunInv, HasContent,
     HasStaged, HasParsed, TableWritten, Promoted, Unstaged
<1>4. Consistent(slice[r])'
  BY <1>1, AtWork DEF Consistent
<1> QED  BY <1>1, <1>2, <1>3, <1>4, OwnStep

\* What Spark reads back is what the run staged, as no other run is at it.
LEMMA ParseStep ==
  ASSUME Inv, TypeOK', NEW r \in Runs, Parse(r) PROVE Inv'
<1> USE DEF Parse, runVars, stores
<1>1. Live(r)
  OBVIOUS
<1>2. OnlyOwn(r)
  BY DEF Inv, TypeOK, RunsTypeOK, StoresTypeOK, OnlyOwn
<1>3. RunInv(r)'
  <2>1. staged[slice[r]] = content[r] /\ content[r] \in Payloads
    BY <1>1, AtWork DEF HasStaged, HasContent
  <2>2. pc'[r] = "quarantine" /\ parsed'[r] = content[r]
    BY <2>1 DEF Inv, TypeOK, RunsTypeOK
  <2> QED
    BY <2>1, <2>2 DEF Inv, RunInv, HasContent,
       HasStaged, HasParsed, TableWritten, Promoted, Unstaged
<1>4. Consistent(slice[r])'
  BY <1>1, AtWork DEF Consistent
<1> QED  BY <1>1, <1>2, <1>3, <1>4, OwnStep

\* Quarantining touches nothing the artefacts depend on.
LEMMA QuarantineStep ==
  ASSUME Inv, TypeOK', NEW r \in Runs, Quarantine(r) PROVE Inv'
<1> USE DEF Quarantine, runVars, stores
<1>1. Live(r)
  OBVIOUS
<1>2. OnlyOwn(r)
  BY DEF Inv, TypeOK, RunsTypeOK, StoresTypeOK, OnlyOwn
<1>3. RunInv(r)'
  BY <1>1 DEF Inv, TypeOK, RunsTypeOK, StoresTypeOK, RunInv, HasContent,
     HasStaged, HasParsed, TableWritten, Promoted, Unstaged
<1>4. Consistent(slice[r])'
  BY <1>1, AtWork DEF Consistent
<1> QED  BY <1>1, <1>2, <1>3, <1>4, OwnStep

\* The checks change no artefact.
LEMMA GateStep ==
  ASSUME Inv, TypeOK', NEW r \in Runs, Gate(r) PROVE Inv'
<1> USE DEF Gate, runVars, stores
<1>1. Live(r)
  OBVIOUS
<1>2. OnlyOwn(r)
  BY DEF Inv, TypeOK, RunsTypeOK, StoresTypeOK, OnlyOwn
<1>3. RunInv(r)'
  <2>1. pc'[r] \in {"abort", "write"}
    BY DEF Inv, TypeOK, RunsTypeOK
  <2> QED
    BY <2>1 DEF Inv, RunInv, HasContent,
       HasStaged, HasParsed, TableWritten, Promoted, Unstaged
<1>4. Consistent(slice[r])'
  BY <1>1, AtWork DEF Consistent
<1> QED  BY <1>1, <1>2, <1>3, <1>4, OwnStep

\* After the table write the partition holds the batch, unless it is empty.
LEMMA WriteTableStep ==
  ASSUME Inv, TypeOK', NEW r \in Runs, WriteTable(r) PROVE Inv'
<1> USE DEF WriteTable, runVars, stores
<1>1. Live(r)
  OBVIOUS
<1>2. OnlyOwn(r)
  BY DEF Inv, TypeOK, RunsTypeOK, StoresTypeOK, OnlyOwn
<1>3. RunInv(r)'
  <2>1. pc'[r] \in {"abort", "promote"}
    BY DEF Inv, TypeOK, RunsTypeOK
  <2>2. slice[r] \in Slices /\ parsed[r] = content[r]
    BY <1>1, AtWork DEF Inv, RunInv, HasParsed
  <2>3. ValidRows[content[r]] > 0 => table'[slice[r]] = content[r]
    BY <2>2 DEF Inv, TypeOK, StoresTypeOK, Overwritten
  <2> QED
    BY <2>1, <2>2, <2>3 DEF Inv, RunInv, HasContent,
       HasStaged, HasParsed, TableWritten, Promoted, Unstaged
<1>4. Consistent(slice[r])'
  BY <1>1, AtWork DEF Consistent
<1> QED  BY <1>1, <1>2, <1>3, <1>4, OwnStep

\* Promotion puts the run's bytes at the final path.
LEMMA PromoteStep ==
  ASSUME Inv, TypeOK', NEW r \in Runs, Promote(r) PROVE Inv'
<1> USE DEF Promote, runVars, stores
<1>1. Live(r)
  OBVIOUS
<1>2. OnlyOwn(r)
  BY DEF Inv, TypeOK, RunsTypeOK, StoresTypeOK, OnlyOwn
<1>3. RunInv(r)'
  <2>1. staged[slice[r]] = content[r] /\ content[r] \in Payloads
    BY <1>1, AtWork DEF HasStaged, HasContent
  <2>2. slice[r] \in Slices
    BY <1>1, AtWork
  <2>3. raw'[slice[r]] = content[r]
    BY <2>1, <2>2 DEF Inv, TypeOK, StoresTypeOK
  <2>4. CASE CopyThenDelete
    <3>1. pc'[r] = "unstage" /\ staged' = staged
      BY <2>1, <2>4 DEF Inv, TypeOK, RunsTypeOK
    <3> QED
      BY <2>1, <2>2, <2>3, <3>1 DEF Inv, RunInv, HasContent, HasStaged,
         HasParsed, TableWritten, Promoted, Unstaged
  <2>5. CASE ~CopyThenDelete
    <3>1. pc'[r] = "publish" /\ staged'[slice[r]] = None
      BY <2>1, <2>2, <2>5 DEF Inv, TypeOK, RunsTypeOK, StoresTypeOK
    <3> QED
      BY <2>1, <2>2, <2>3, <3>1 DEF Inv, RunInv, HasContent, HasStaged,
         HasParsed, TableWritten, Promoted, Unstaged
  <2> QED  BY <2>4, <2>5
<1>4. Consistent(slice[r])'
  BY <1>1, AtWork DEF Consistent
<1> QED  BY <1>1, <1>2, <1>3, <1>4, OwnStep

\* The delete of a copied move empties the staging path.
LEMMA UnstageStep ==
  ASSUME Inv, TypeOK', NEW r \in Runs, Unstage(r) PROVE Inv'
<1> USE DEF Unstage, runVars, stores
<1>1. Live(r)
  OBVIOUS
<1>2. OnlyOwn(r)
  BY DEF Inv, TypeOK, RunsTypeOK, StoresTypeOK, OnlyOwn
<1>3. RunInv(r)'
  BY <1>1 DEF Inv, TypeOK, RunsTypeOK, StoresTypeOK, RunInv, HasContent,
     HasStaged, HasParsed, TableWritten, Promoted, Unstaged
<1>4. Consistent(slice[r])'
  BY <1>1, AtWork DEF Consistent
<1> QED  BY <1>1, <1>2, <1>3, <1>4, OwnStep

\* The manifest is about the bytes promoted before it.
LEMMA PublishStep ==
  ASSUME Inv, TypeOK', NEW r \in Runs, Publish(r) PROVE Inv'
<1> USE DEF Publish, runVars, stores
<1>1. Live(r)
  OBVIOUS
<1>2. OnlyOwn(r)
  BY DEF Inv, TypeOK, RunsTypeOK, StoresTypeOK, OnlyOwn
<1>3. RunInv(r)'
  BY <1>1 DEF Inv, TypeOK, RunsTypeOK, StoresTypeOK, RunInv, HasContent,
     HasStaged, HasParsed, TableWritten, Promoted, Unstaged
<1>4. Consistent(slice[r])'
  BY <1>1, AtWork DEF Consistent
<1> QED  BY <1>1, <1>2, <1>3, <1>4, OwnStep

\* The status becomes completed when everything agrees.
LEMMA CompleteStep ==
  ASSUME Inv, TypeOK', NEW r \in Runs, Complete(r) PROVE Inv'
<1> USE DEF Complete, runVars, stores
<1>1. Live(r)
  OBVIOUS
<1>2. OnlyOwn(r)
  BY DEF Inv, TypeOK, RunsTypeOK, StoresTypeOK, OnlyOwn
<1>3. RunInv(r)'
  BY <1>1 DEF Inv, TypeOK, RunsTypeOK, StoresTypeOK, RunInv, HasContent,
     HasStaged, HasParsed, TableWritten, Promoted, Unstaged
<1>4. Consistent(slice[r])'
  <2>1. content[r] \in Payloads /\ slice[r] \in Slices
    BY <1>1, AtWork DEF HasContent
  <2>2. staged[slice[r]] = None /\ LandedFrom(slice[r], content[r])
    BY DEF Inv, RunInv, TableWritten, Promoted, Unstaged, LandedFrom
  <2> QED  BY <2>1, <2>2 DEF Consistent, LandedFrom
<1> QED  BY <1>1, <1>2, <1>3, <1>4, OwnStep

\* Aborting deletes the staged file only.
LEMMA AbortStep ==
  ASSUME Inv, TypeOK', NEW r \in Runs, Abort(r) PROVE Inv'
<1> USE DEF Abort, runVars, stores
<1>1. Live(r)
  OBVIOUS
<1>2. OnlyOwn(r)
  BY DEF Inv, TypeOK, RunsTypeOK, StoresTypeOK, OnlyOwn
<1>3. RunInv(r)'
  BY <1>1 DEF Inv, TypeOK, RunsTypeOK, StoresTypeOK, RunInv, HasContent,
     HasStaged, HasParsed, TableWritten, Promoted, Unstaged
<1>4. Consistent(slice[r])'
  BY <1>1, AtWork DEF Consistent
<1> QED  BY <1>1, <1>2, <1>3, <1>4, OwnStep

\* Marking a job failed leaves its artefacts as they are.
LEMMA MarkFailedStep ==
  ASSUME Inv, TypeOK', NEW r \in Runs, MarkFailed(r) PROVE Inv'
<1> USE DEF MarkFailed, runVars, stores
<1>1. Live(r)
  OBVIOUS
<1>2. OnlyOwn(r)
  BY DEF Inv, TypeOK, RunsTypeOK, StoresTypeOK, OnlyOwn
<1>3. RunInv(r)'
  BY <1>1 DEF Inv, TypeOK, RunsTypeOK, StoresTypeOK, RunInv, HasContent,
     HasStaged, HasParsed, TableWritten, Promoted, Unstaged
<1>4. Consistent(slice[r])'
  <2>1. slice[r] \in Slices
    BY <1>1, AtWork
  <2>2. Consistent(slice[r])
    BY <2>1 DEF Inv, CompletedIsConsistent, Consistent
  <2>3. status'[slice[r]] \in {status[slice[r]], "failed"}
    BY <2>1 DEF Inv, TypeOK, StoresTypeOK
  <2> QED  BY <2>2, <2>3 DEF Consistent, LandedFrom
<1> QED  BY <1>1, <1>2, <1>3, <1>4, OwnStep

\* A call that raises moves the run to its error path.
LEMMA RaiseStep ==
  ASSUME Inv, TypeOK', NEW r \in Runs, Raise(r) PROVE Inv'
<1> USE DEF Raise, runVars, stores
<1>1. Live(r)
  OBVIOUS
<1>2. OnlyOwn(r)
  BY DEF Inv, TypeOK, RunsTypeOK, StoresTypeOK, OnlyOwn
<1>3. RunInv(r)'
  BY <1>1 DEF Inv, TypeOK, RunsTypeOK, StoresTypeOK, RunInv, HasContent,
     HasStaged, HasParsed, TableWritten, Promoted, Unstaged
<1>4. Consistent(slice[r])'
  BY <1>1, AtWork DEF Consistent
<1> QED  BY <1>1, <1>2, <1>3, <1>4, OwnStep

\* A crash leaves every file as it is.
LEMMA CrashStep ==
  ASSUME Inv, TypeOK', NEW r \in Runs, Crash(r) PROVE Inv'
<1> USE DEF Crash, runVars, stores
<1>1. Live(r)
  OBVIOUS
<1>2. OnlyOwn(r)
  BY DEF Inv, TypeOK, RunsTypeOK, StoresTypeOK, OnlyOwn
<1>3. RunInv(r)'
  BY <1>1 DEF Inv, TypeOK, RunsTypeOK, StoresTypeOK, RunInv, HasContent,
     HasStaged, HasParsed, TableWritten, Promoted, Unstaged
<1>4. Consistent(slice[r])'
  <2>1. Consistent(slice[r])
    BY <1>1, AtWork DEF Inv, CompletedIsConsistent, Consistent
  <2> QED  BY <2>1 DEF Consistent, LandedFrom
<1> QED  BY <1>1, <1>2, <1>3, <1>4, OwnStep

\* Every step of a specification without overlapping runs keeps Inv.
LEMMA NextInv ==
  ASSUME ~Overlap, Inv, TypeOK', [Next]_vars PROVE Inv'
<1>1. CASE UNCHANGED vars
  BY <1>1 DEF vars, Inv, TypeOK, RunsTypeOK, StoresTypeOK, Exclusive, RunInv,
     CompletedIsConsistent, LandedFrom
<1>2. ASSUME NEW r \in Runs,
             (\E s \in Slices : Start(r, s)) \/ Proceed(r) \/ Raise(r) \/ Crash(r)
      PROVE  Inv'
  <2>1. CASE \E s \in Slices : Start(r, s)
    BY <2>1, StartStep
  <2>2. CASE Fetch(r)
    BY <2>2, <1>2, FetchStep
  <2>3. CASE DiscardStale(r)
    BY <2>3, <1>2, DiscardStaleStep
  <2>4. CASE Stage(r)
    BY <2>4, <1>2, StageStep
  <2>5. CASE Parse(r)
    BY <2>5, <1>2, ParseStep
  <2>6. CASE Quarantine(r)
    BY <2>6, <1>2, QuarantineStep
  <2>7. CASE Gate(r)
    BY <2>7, <1>2, GateStep
  <2>8. CASE WriteTable(r)
    BY <2>8, <1>2, WriteTableStep
  <2>9. CASE Promote(r)
    BY <2>9, <1>2, PromoteStep
  <2>10. CASE Unstage(r)
    BY <2>10, <1>2, UnstageStep
  <2>11. CASE Publish(r)
    BY <2>11, <1>2, PublishStep
  <2>12. CASE Complete(r)
    BY <2>12, <1>2, CompleteStep
  <2>13. CASE Abort(r)
    BY <2>13, <1>2, AbortStep
  <2>14. CASE MarkFailed(r)
    BY <2>14, <1>2, MarkFailedStep
  <2>15. CASE Raise(r)
    BY <2>15, <1>2, RaiseStep
  <2>16. CASE Crash(r)
    BY <2>16, <1>2, CrashStep
  <2> QED
    BY <1>2, <2>1, <2>2, <2>3, <2>4, <2>5, <2>6, <2>7, <2>8, <2>9, <2>10, <2>11, <2>12, <2>13, <2>14, <2>15, <2>16 DEF Proceed
<1> QED  BY <1>1, <1>2 DEF Next

\* While runs of a slice do not overlap, a completed status means that raw
\* file, manifest and partition are from the same bytes and nothing is
\* staged, after any number of crashes, exceptions and re-runs.
THEOREM CompletedConsistent ==
  ASSUME ~Overlap PROVE Spec => []CompletedIsConsistent
<1>1. Inv => CompletedIsConsistent
  BY DEF Inv
<1>2. Inv /\ TypeOK' /\ [Next]_vars => Inv'
  BY NextInv
<1> QED  BY <1>1, <1>2, InitInv, TypeCorrect, PTL DEF Spec

\* Only Promote changes a raw file, to bytes its run has put in the table.
LEMMA NextRaw == ASSUME Inv, [Next]_vars PROVE [RawStep]_vars
<1>1. ASSUME NEW r \in Runs, Promote(r) PROVE RawStep
  <2>1. /\ slice[r] \in Slices
        /\ staged[slice[r]] = content[r] /\ content[r] \in Payloads
    BY <1>1, AtWork DEF Promote, HasStaged, HasContent
  <2>2. ValidRows[content[r]] > 0 => table[slice[r]] = content[r]
    BY <1>1 DEF Promote, Inv, RunInv, TableWritten
  <2>3. raw' = [raw EXCEPT ![slice[r]] = content[r]]
    BY <1>1, <2>1 DEF Promote
  <2> QED  BY <2>1, <2>2, <2>3 DEF RawStep, Inv, TypeOK, StoresTypeOK
<1>2. CASE UNCHANGED raw
  BY <1>2 DEF RawStep
<1> QED
  BY <1>1, <1>2 DEF Next, Proceed, Start, Fetch, DiscardStale, Stage, Parse,
     Quarantine, Gate, WriteTable, Unstage, Publish, Complete, Abort,
     MarkFailed, Raise, Crash, stores, vars

\* Only Publish changes a manifest, to describe bytes already promoted.
LEMMA NextManifest == ASSUME Inv, [Next]_vars PROVE [ManifestStep]_vars
<1>1. ASSUME NEW r \in Runs, Publish(r) PROVE ManifestStep
  <2>1. slice[r] \in Slices /\ content[r] \in Payloads
    BY <1>1, AtWork DEF Publish, HasContent
  <2>2. /\ parsed[r] = content[r] /\ raw[slice[r]] = content[r]
        /\ ValidRows[content[r]] > 0 => table[slice[r]] = content[r]
    BY <1>1 DEF Publish, Inv, RunInv, HasParsed, Promoted, TableWritten
  <2>3. manifest' = [manifest EXCEPT ![slice[r]] =
                       [sha |-> content[r], rows |-> content[r]]]
    BY <1>1, <2>2 DEF Publish
  <2> QED  BY <2>1, <2>2, <2>3 DEF ManifestStep, Inv, TypeOK, StoresTypeOK
<1>2. CASE UNCHANGED manifest
  BY <1>2 DEF ManifestStep
<1> QED
  BY <1>1, <1>2 DEF Next, Proceed, Start, Fetch, DiscardStale, Stage, Parse,
     Quarantine, Gate, WriteTable, Promote, Unstage, Complete, Abort,
     MarkFailed, Raise, Crash, stores, vars

\* The file at the final path never runs ahead of the partition, and a manifest
\* is published after the file and the partition it describes.
THEOREM PublishesInOrder == ASSUME ~Overlap PROVE Spec => PublishedInOrder
<1>1. Inv /\ TypeOK' /\ [Next]_vars => Inv'
  BY NextInv
<1>2. Inv /\ [Next]_vars => [RawStep /\ ManifestStep]_vars
  BY NextRaw, NextManifest
<1> QED
  BY <1>1, <1>2, InitInv, TypeCorrect, PTL DEF Spec, PublishedInOrder

-----------------------------------------------------------------------------
(* RawLanding implements SettledSlices                                     *)

\* A slice that is completed before and after a step looks the same: the only
\* run that may be alive on it is about to mark its job failed.
LEMMA SettledStays ==
  ASSUME Inv, [Next]_vars, NEW s \in Slices,
         status[s] = "completed", status'[s] = "completed"
  PROVE  View(s)' = View(s)
<1>1. raw'[s] = raw[s] /\ table'[s] = table[s] /\ manifest'[s] = manifest[s]
  <2>1. ASSUME NEW r \in Runs, WriteTable(r) \/ Promote(r) \/ Publish(r)
        PROVE  slice[r] \in Slices /\ slice[r] # s
    BY <2>1, AtWork DEF WriteTable, Promote, Publish
  <2>2. CASE \E r \in Runs : WriteTable(r) \/ Promote(r) \/ Publish(r)
    BY <2>1, <2>2 DEF WriteTable, Promote, Publish, Inv, TypeOK, StoresTypeOK
  <2>3. CASE UNCHANGED <<raw, table, manifest>>
    BY <2>3
  <2> QED
    BY <2>2, <2>3 DEF Next, Proceed, Start, Fetch, DiscardStale, Stage, Parse,
       Quarantine, Gate, Unstage, Complete, Abort, MarkFailed, Raise, Crash,
       stores, vars
<1> QED  BY <1>1 DEF View

\* What a consumer sees of a slice a step completes is an agreeing view.
LEMMA CompletedAgrees ==
  ASSUME StoresTypeOK', CompletedIsConsistent', NEW s \in Slices,
         status'[s] = "completed"
  PROVE  View(s)' \in Settled!Agreeing
<1>1. PICK p \in Payloads : LandedFrom(s, p)'
  BY DEF CompletedIsConsistent
<1>2. View(s)' = [raw |-> p, sha |-> p, rows |-> p, table |-> table'[s]]
  BY <1>1 DEF View, LandedFrom
<1>3. table'[s] \in Payloads \cup {None}
  BY DEF StoresTypeOK
<1> QED  BY <1>1, <1>2, <1>3 DEF LandedFrom, Settled!Agreeing

\* A step changes the status of at most one slice.
LEMMA OneStatus ==
  ASSUME StoresTypeOK, [Next]_vars, NEW s \in Slices, status'[s] # status[s]
  PROVE  \A d \in Slices \ {s} : status'[d] = status[d]
<1>1. CASE \E r \in Runs : (\E d \in Slices : Start(r, d)) \/ Complete(r)
                           \/ MarkFailed(r)
  BY <1>1 DEF StoresTypeOK, Start, Complete, MarkFailed
<1>2. CASE UNCHANGED status
  BY <1>2
<1> QED
  BY <1>1, <1>2 DEF Next, Proceed, Fetch, DiscardStale, Stage, Parse,
     Quarantine, Gate, WriteTable, Promote, Unstage, Publish, Abort, Raise,
     Crash, vars

\* Every step settles one slice, unsettles one slice or changes no view.
LEMMA NextSettled ==
  ASSUME Inv, Inv', [Next]_vars PROVE [Settled!Next]_views
<1> USE DEF Inv, TypeOK
<1>1. \A s \in Slices : status[s] # "completed" => View(s) = None
  BY DEF View
<1>2. \A s \in Slices : status'[s] # "completed" => View(s)' = None
  BY DEF View
<1>3. \A s \in Slices : status'[s] = status[s] => View(s)' = View(s)
  BY <1>1, <1>2, SettledStays
<1>4. CASE \A s \in Slices : status'[s] = status[s]
  BY <1>3, <1>4 DEF views
<1>5. CASE \E s \in Slices : status'[s] # status[s]
  <2>1. PICK s \in Slices : status'[s] # status[s]
    BY <1>5
  <2>2. \A d \in Slices \ {s} : View(d)' = View(d)
    BY <2>1, <1>3, OneStatus
  <2>3. views' = [views EXCEPT ![s] = View(s)'] /\ views[s] = View(s)
    BY <2>2 DEF views
  <2>4. CASE status'[s] = "completed"
    <3>1. View(s)' \in Settled!Agreeing
      BY <2>4, CompletedAgrees
    <3>2. View(s) = None
      BY <2>1, <2>4, <1>1
    <3>3. Settled!Settle(s)
      BY <3>1, <3>2, <2>3 DEF Settled!Settle
    <3> QED  BY <3>3 DEF Settled!Next
  <2>5. CASE status'[s] # "completed"
    <3>1. views' = [views EXCEPT ![s] = None]
      BY <2>3, <2>5, <1>2
    <3>2. CASE View(s) = None
      BY <2>3, <3>1, <3>2 DEF views
    <3>3. CASE View(s) # None
      BY <2>3, <3>1, <3>3 DEF Settled!Unsettle, Settled!Next
    <3> QED  BY <3>2, <3>3
  <2> QED  BY <2>4, <2>5
<1> QED  BY <1>4, <1>5

\* A consumer that reads slices only while their status is completed cannot
\* tell the landing from one that writes the three artefacts at once.
THEOREM ImplementsSettledSlices == ASSUME ~Overlap PROVE Spec => SettledSpec
<1>1. Init => Settled!Init
  BY DEF Init, Settled!Init, views, View
<1>2. Inv /\ TypeOK' /\ [Next]_vars => Inv'
  BY NextInv
<1>3. Inv /\ Inv' /\ [Next]_vars => [Settled!Next]_views
  BY NextSettled
<1> QED
  BY <1>1, <1>2, <1>3, InitInv, TypeCorrect, PTL
  DEF Spec, SettledSpec, Settled!Spec
=============================================================================
