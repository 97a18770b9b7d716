------------------------- MODULE GoldPromotionProofs ------------------------
(***************************************************************************)
(* Blue-green promotion, for any number of sessions, releases and kept     *)
(* schemas: log, schemas and gold agree (GoldMatchesLog), and a rollback   *)
(* undoes a promotion (RollbackRestores).                                  *)
(*                                                                         *)
(* GoldMatchesLog speaks of two cases, in which a session may rely on what *)
(* it has read for two reasons.  While nothing is dropped, an inactive     *)
(* release keeps its schema, so that a swap that is possible is one of the *)
(* present gold.  While calls do not overlap, what the one call has read   *)
(* is still true (SoloInv).  For the rollback the log is a chain           *)
(* (ChainInv): each release superseded the newest one before it that was   *)
(* not rolled back, and retention keeps the newest ones.                   *)
(***************************************************************************)
EXTENDS GoldPromotion, FiniteSetTheorems, TLAPS

USE SessionAssumption, BoundAssumption

Labels == {"idle", "built", "target", "swap", "waiting", "commit"}
Statuses == {"none", "active", "superseded", "rolled_back"}

TypeOK ==
  /\ pc \in [Sessions -> Labels]
  /\ mine \in [Sessions -> Releases \cup {None}]
  /\ active \in [Sessions -> Releases \cup {None}]
  /\ target \in [Sessions -> Releases \cup {None}]
  /\ holder \in Sessions \cup {None}
  /\ next \in Nat \ {0}
  /\ status \in [Releases -> Statuses]
  /\ retained \in [Releases -> BOOLEAN]
  /\ schema \in [Releases -> Releases \cup {None}]
  /\ gold \in Releases \cup {None}
  /\ before \in [Releases -> Releases \cup {None}]
  /\ overlapped \in BOOLEAN

\* The id of a promotion under way is its own, and not in the log yet.
IdInv ==
  /\ \A r \in Releases : status[r] # "none" => r < next
  /\ \A s \in Promoters : pc[s] # "idle" =>
       /\ mine[s] \in Releases /\ mine[s] < next
       /\ status[mine[s]] = "none"
  /\ \A s, t \in Promoters :
       pc[s] # "idle" /\ pc[t] # "idle" /\ s # t => mine[s] # mine[t]

\* What a session has read was in the log, and the one about to commit holds
\* gold and can swap it.
SessionInv ==
  \A s \in Sessions :
    /\ pc[s] = "built" => s \in Promoters
    /\ pc[s] = "target" => s \in Operators
    /\ pc[s] = "commit" <=> holder = s
    /\ pc[s] = "commit" => Swappable(s)
    /\ pc[s] \in {"target", "swap", "waiting", "commit"} =>
         IF active[s] \in Releases THEN status[active[s]] # "none" ELSE s \in Promoters
    /\ pc[s] \in {"swap", "waiting", "commit"} /\ s \in Operators =>
         /\ target[s] \in Releases /\ status[target[s]] # "none"

\* While calls do not overlap, the one call has read what is so.
SoloInv ==
  ~overlapped =>
    /\ \A s, t \in Sessions : pc[s] # "idle" /\ pc[t] # "idle" => s = t
    /\ \A s \in Sessions :
         /\ pc[s] \in {"target", "swap", "waiting", "commit"} => active[s] = gold
         /\ pc[s] \in {"swap", "waiting", "commit"} /\ s \in Operators =>
              target[s] \in Newest(Restorable)
         /\ pc[s] # "idle" /\ s \in Promoters =>
              \A r \in Releases : status[r] # "none" => r < mine[s]

\* Of a log in order: the active release is gold and retained, and the inactive
\* ones that are retained have their schemas.
Matches ==
  \A r \in Releases :
    /\ status[r] = "active" <=> r = gold
    /\ status[r] = "active" => retained[r]
    /\ schema[r] = IF r \in Inactive(status, retained) THEN r ELSE None

MatchInv == NothingDropped \/ ~overlapped => Matches

\* Releases that were not rolled back supersede one another in order, and
\* retention keeps the newest releases.
ChainInv ==
  ~overlapped =>
    /\ \A r \in Releases : status[r] = "superseded" => gold \in Releases /\ r < gold
    /\ \A r \in Releases : status[r] \in {"active", "superseded"} =>
         /\ \A q \in Releases : status[q] = "superseded" /\ q < r =>
              before[r] \in Releases /\ q <= before[r]
         /\ before[r] \in Releases => before[r] < r /\ status[before[r]] = "superseded"
    /\ \A p, q \in Releases :
         status[p] # "none" /\ status[q] # "none" /\ q < p /\ retained[q] => retained[p]

PromotionInv == TypeOK /\ IdInv /\ SessionInv /\ SoloInv /\ MatchInv /\ ChainInv

-----------------------------------------------------------------------------
(* Steps before the commit: the log and the schemas stay as they are.      *)

LEMMA ReleaseFacts ==
  /\ \A r \in Releases : r \in Nat \ {0}
  /\ None \notin Releases
  /\ None \notin Sessions
  /\ IsFiniteSet(Releases)
BY FS_Interval DEF Releases

LEMMA InitPromotion == Init => PromotionInv
<1>. SUFFICES ASSUME Init PROVE PromotionInv
  OBVIOUS
<1>1. TypeOK
  <2>1. next \in Nat \ {0}
    BY DEF Init
  <2>. QED
    BY <2>1, Zenon DEF Init, TypeOK, Labels, Statuses
<1>2. /\ \A s \in Sessions : pc[s] = "idle"
      /\ \A r \in Releases : status[r] = "none" /\ schema[r] = None
  BY DEF Init
<1>3. IdInv
  BY <1>2 DEF IdInv, Sessions
<1>4. SessionInv
  BY <1>2, ReleaseFacts DEF Init, SessionInv
<1>5. SoloInv
  BY <1>2 DEF SoloInv, Sessions
<1>6. MatchInv /\ ChainInv
  BY <1>2, ReleaseFacts DEF Init, MatchInv, ChainInv, Matches, Inactive
<1>. QED
  BY <1>1, <1>3, <1>4, <1>5, <1>6 DEF PromotionInv

\* Overlaps are remembered, so that what holds without them is kept.
LEMMA CatalogKept ==
  ASSUME PromotionInv, UNCHANGED catalog, overlapped => overlapped'
  PROVE  MatchInv' /\ ChainInv'
BY DEF PromotionInv, MatchInv, ChainInv, Matches, NothingDropped, Inactive, catalog

LEMMA BuildKeeps ==
  ASSUME PromotionInv, NEW s \in Sessions, Build(s)
  PROVE  PromotionInv'
<1>1. TypeOK'
  BY ReleaseFacts DEF PromotionInv, TypeOK, Build, Call, Goto, Labels, Releases, catalog
<1>2. IdInv'
  BY ReleaseFacts DEF PromotionInv, TypeOK, IdInv, Build, Call, Goto, Labels, Releases, catalog
<1>3. SessionInv'
  BY ReleaseFacts DEF PromotionInv, TypeOK, SessionInv, Swappable, Build, Call, Goto, Labels,
     catalog, Sessions
<1>4. SoloInv'
  <2>. SUFFICES ASSUME ~overlapped' PROVE SoloInv'
    BY DEF SoloInv
  <2>1. \A t \in Sessions : pc[t] = "idle"
    BY DEF Build, Call
  <2>2. /\ \A t \in Sessions : pc'[t] = IF t = s THEN "built" ELSE "idle"
        /\ s \in Promoters => mine'[s] = next
        /\ status' = status
    BY <2>1 DEF PromotionInv, TypeOK, Build, Goto, catalog
  <2>3. \A r \in Releases : status[r] # "none" => r < next
    BY DEF PromotionInv, IdInv
  <2>4. \A t \in Sessions : pc'[t] # "idle" => t = s /\ pc'[t] = "built"
    BY <2>2
  <2>5. \A t \in Sessions : pc'[t] # "idle" /\ t \in Promoters =>
          \A r \in Releases : status'[r] # "none" => r < mine'[t]
    BY <2>2, <2>3, <2>4
  <2>. QED
    BY <2>4, <2>5 DEF SoloInv
<1>5. MatchInv' /\ ChainInv'
  BY CatalogKept DEF Build, Call
<1>. QED
  BY <1>1, <1>2, <1>3, <1>4, <1>5 DEF PromotionInv

LEMMA ReadPreviousKeeps ==
  ASSUME PromotionInv, NEW s \in Sessions, ReadPrevious(s)
  PROVE  PromotionInv'
<1>1. TypeOK'
  BY ReleaseFacts DEF PromotionInv, TypeOK, ReadPrevious, OneOf, ActiveReleases, Goto, Labels, catalog
<1>2. IdInv'
  BY ReleaseFacts DEF PromotionInv, TypeOK, IdInv, ReadPrevious, Goto, Labels, catalog
<1>3. SessionInv'
  BY ReleaseFacts DEF PromotionInv, TypeOK, SessionInv, Swappable, ReadPrevious, OneOf,
     ActiveReleases, Goto, Labels, catalog, Sessions
<1>4. SoloInv'
  <2>. SUFFICES ASSUME ~overlapped PROVE SoloInv'
    BY DEF ReadPrevious, SoloInv
  <2>1. active' = [active EXCEPT ![s] = gold]
    <3>1. PICK r \in OneOf(ActiveReleases) : active' = [active EXCEPT ![s] = r]
      BY DEF ReadPrevious
    <3>2. \A q \in Releases : q \in ActiveReleases <=> q = gold
      BY DEF PromotionInv, MatchInv, Matches, ActiveReleases
    <3>3. r = gold
      BY <3>2, ReleaseFacts DEF PromotionInv, TypeOK, OneOf, ActiveReleases
    <3>. QED
      BY <3>1, <3>3
  <2>2. s \in Promoters /\ s \notin Operators
    BY DEF PromotionInv, SessionInv, ReadPrevious
  <2>. QED
    BY <2>1, <2>2 DEF PromotionInv, TypeOK, SoloInv, Newest, Restorable, ReadPrevious, Goto,
       Labels, catalog
<1>5. MatchInv' /\ ChainInv'
  BY CatalogKept DEF ReadPrevious
<1>. QED
  BY <1>1, <1>2, <1>3, <1>4, <1>5 DEF PromotionInv

LEMMA ReadCurrentKeeps ==
  ASSUME PromotionInv, NEW s \in Sessions, ReadCurrent(s)
  PROVE  PromotionInv'
<1>1. TypeOK'
  BY ReleaseFacts DEF PromotionInv, TypeOK, ReadCurrent, Call, ActiveReleases, Goto, Labels, catalog
<1>2. IdInv'
  BY ReleaseFacts DEF PromotionInv, TypeOK, IdInv, ReadCurrent, Call, Goto, Labels, catalog
<1>3. SessionInv'
  BY ReleaseFacts DEF PromotionInv, TypeOK, SessionInv, Swappable, ReadCurrent, Call,
     ActiveReleases, Goto, Labels, catalog, Sessions
<1>4. SoloInv'
  BY ReleaseFacts DEF PromotionInv, TypeOK, SoloInv, MatchInv, Matches, Newest, Restorable,
     ReadCurrent, Call, ActiveReleases, Goto, Labels, catalog
<1>5. MatchInv' /\ ChainInv'
  BY CatalogKept DEF ReadCurrent, Call
<1>. QED
  BY <1>1, <1>2, <1>3, <1>4, <1>5 DEF PromotionInv

LEMMA ReadTargetKeeps ==
  ASSUME PromotionInv, NEW s \in Sessions, ReadTarget(s)
  PROVE  PromotionInv'
<1>1. TypeOK'
  BY ReleaseFacts DEF PromotionInv, TypeOK, ReadTarget, Newest, Restorable, Goto, Labels, catalog
<1>2. IdInv'
  BY ReleaseFacts DEF PromotionInv, TypeOK, IdInv, ReadTarget, Goto, Labels, catalog
<1>3. SessionInv'
  BY ReleaseFacts DEF PromotionInv, TypeOK, SessionInv, Swappable, ReadTarget, Newest,
     Restorable, Goto, Labels, catalog, Sessions
<1>4. SoloInv'
  BY ReleaseFacts DEF PromotionInv, TypeOK, SoloInv, SessionInv, Newest, Restorable, ReadTarget, Goto,
     Labels, catalog
<1>5. MatchInv' /\ ChainInv'
  BY CatalogKept DEF ReadTarget
<1>. QED
  BY <1>1, <1>2, <1>3, <1>4, <1>5 DEF PromotionInv

\* Waiting, taking the row of gold, and rolling back touch no release.
LEMMA TurnKeeps ==
  ASSUME PromotionInv, NEW s \in Sessions, Wait(s) \/ Swap(s) \/ Raise(s)
  PROVE  PromotionInv'
<1>. USE DEF Wait, Swap, Raise, Goto
<1>1. TypeOK'
  BY ReleaseFacts DEF PromotionInv, TypeOK, Labels, catalog
<1>2. IdInv'
  <2>1. UNCHANGED <<mine, next, status>>
    BY DEF catalog
  <2>2. \A t \in Sessions : pc'[t] # "idle" => pc[t] # "idle"
    BY DEF PromotionInv, TypeOK
  <2>. QED
    BY <2>1, <2>2 DEF PromotionInv, IdInv, Sessions
<1>3. SessionInv'
  BY ReleaseFacts DEF PromotionInv, TypeOK, SessionInv, Swappable, Labels, catalog
<1>4. SoloInv'
  BY ReleaseFacts DEF PromotionInv, TypeOK, SoloInv, Newest, Restorable, Labels, catalog
<1>5. MatchInv' /\ ChainInv'
  BY CatalogKept
<1>. QED
  BY <1>1, <1>2, <1>3, <1>4, <1>5 DEF PromotionInv

-----------------------------------------------------------------------------
(* The commits                                                             *)

\* What the committing session has read is so: the release it takes out is in
\* gold, and the one a rollback() goes back to is in its own schema.
LEMMA SwapIsCurrent ==
  ASSUME PromotionInv, NothingDropped \/ ~overlapped, NEW s \in Sessions, pc[s] = "commit"
  PROVE  /\ Matches
         /\ active[s] = gold
         /\ s \in Operators =>
              /\ gold \in Releases
              /\ target[s] \in Inactive(status, retained)
              /\ target[s] # gold
              /\ schema[target[s]] = target[s]
<1>1. Matches
  BY DEF PromotionInv, MatchInv
<1>2. Swappable(s)
  BY DEF PromotionInv, SessionInv
<1>3. IF active[s] \in Releases THEN status[active[s]] # "none"
      ELSE active[s] = None /\ s \in Promoters
  BY DEF PromotionInv, SessionInv, TypeOK
<1>4. s \in Operators => target[s] \in Releases /\ status[target[s]] # "none"
  BY DEF PromotionInv, SessionInv
<1>5. active[s] = gold
  <2>1. CASE ~overlapped
    BY <2>1 DEF PromotionInv, SoloInv
  <2>2. CASE NothingDropped /\ active[s] \in Releases
    <3>1. schema[active[s]] = None /\ retained[active[s]]
      BY <1>2, <1>3, <2>2, ReleaseFacts DEF Swappable, NothingDropped
    <3>2. active[s] \notin Inactive(status, retained)
      BY <1>1, <2>2, <3>1, ReleaseFacts DEF Matches
    <3>3. status[active[s]] \in Statuses
      BY <2>2 DEF PromotionInv, TypeOK
    <3>. QED
      BY <1>1, <1>3, <2>2, <3>1, <3>2, <3>3 DEF Matches, Inactive, Statuses
  <2>3. CASE active[s] \notin Releases
    BY <1>2, <1>3, <2>3 DEF Swappable
  <2>. QED
    BY <2>1, <2>2, <2>3
<1>6. ASSUME s \in Operators
      PROVE  target[s] \in Inactive(status, retained)
  BY <1>1, <1>2, <1>4, <1>6 DEF Swappable, Matches
<1>7. s \in Operators => gold \in Releases
  BY <1>3, <1>5
<1>. QED
  BY <1>1, <1>4, <1>5, <1>6, <1>7 DEF Matches, Inactive

\* A commit leaves nobody waiting and, without overlaps, nobody at work.
LEMMA SessionsReleased ==
  ASSUME PromotionInv, NEW s \in Sessions, pc[s] = "commit", Release(s),
         UNCHANGED <<mine, active, target, next, overlapped>>,
         status' \in [Releases -> Statuses],
         \A r \in Releases : status[r] # "none" => status'[r] # "none",
         \A r \in Releases : status[r] = "none" /\ status'[r] # "none" =>
           s \in Promoters /\ r = mine[s]
  PROVE  /\ pc' \in [Sessions -> Labels] /\ holder' \in Sessions \cup {None}
         /\ IdInv' /\ SessionInv' /\ SoloInv'
<1>1. \A t \in Sessions : pc'[t] \in {"idle", pc[t]} /\ pc'[t] # "commit"
  BY DEF Release, PromotionInv, SessionInv
<1>2. pc'[s] = "idle" /\ holder' = None
  BY DEF Release
<1>3. pc' \in [Sessions -> Labels]
  BY DEF Release, PromotionInv, TypeOK, Labels
<1>4. IdInv'
  <2>1. \A r \in Releases : status'[r] # "none" => r < next
    BY DEF PromotionInv, IdInv
  <2>2. \A t \in Promoters : pc'[t] # "idle" =>
          pc[t] # "idle" /\ t # s
    BY <1>1, <1>2 DEF Sessions
  <2>3. \A t \in Promoters : pc'[t] # "idle" =>
          /\ mine[t] \in Releases /\ mine[t] < next
          /\ status'[mine[t]] = "none"
    BY <2>2 DEF PromotionInv, IdInv
  <2>. QED
    BY <2>1, <2>2, <2>3 DEF PromotionInv, IdInv
<1>5. SessionInv'
  BY <1>1, <1>2, ReleaseFacts DEF PromotionInv, SessionInv
<1>6. SoloInv'
  <2>1. ASSUME ~overlapped, NEW t \in Sessions PROVE pc'[t] = "idle"
    BY <1>1, <1>2, <2>1 DEF PromotionInv, SoloInv
  <2>. QED
    BY <2>1 DEF SoloInv, Sessions
<1>. QED
  BY <1>2, <1>3, <1>4, <1>5, <1>6

\* Retention drops the oldest: with a release, every inactive one before it.
LEMMA OldestDropped ==
  ASSUME NEW found \in SUBSET Releases, NEW p \in BeyondRetention(found),
         NEW q \in found, q < p
  PROVE  q \in BeyondRetention(found)
<1>. DEFINE above(r) == {x \in found : x > r}
<1>1. above(p) \subseteq above(q)
  <2>1. p \in Int /\ q \in Int /\ \A x \in found : x \in Int
    BY ReleaseFacts DEF BeyondRetention
  <2>2. \A x \in found : x > p => x > q
    BY <2>1
  <2>. QED
    BY <2>2
<1>2. IsFiniteSet(above(q)) /\ IsFiniteSet(above(p))
  BY ReleaseFacts, FS_Subset
<1>3. /\ Cardinality(above(p)) <= Cardinality(above(q))
      /\ Cardinality(above(p)) \in Nat /\ Cardinality(above(q)) \in Nat
  BY <1>1, <1>2, FS_Subset, FS_CardinalityType
<1>4. Cardinality(above(p)) >= Kept
  BY DEF BeyondRetention
<1>5. Cardinality(above(q)) >= Kept
  BY <1>3, <1>4
<1>. QED
  BY <1>5 DEF BeyondRetention

LEMMA CommitPromoteKeeps ==
  ASSUME PromotionInv, NEW s \in Sessions, CommitPromote(s)
  PROVE  PromotionInv'
<1>. DEFINE m == mine[s]
            kept == [retained EXCEPT ![m] = TRUE]
            inactive == Inactive(Superseded(s), kept)
            dropped == BeyondRetention(inactive)
<1>1. /\ pc[s] = "commit" /\ s \in Promoters
      /\ status' = Superseded(s)
      /\ retained' = [r \in Releases |-> kept[r] /\ r \notin dropped]
      /\ schema' = [r \in Releases |-> IF r \in dropped THEN None
                                       ELSE IF r = active[s] THEN gold
                                       ELSE schema[r]]
      /\ gold' = m
      /\ before' = [before EXCEPT ![m] = gold]
      /\ Release(s)
      /\ UNCHANGED <<mine, active, target, next, overlapped>>
  BY DEF CommitPromote
<1>2. m \in Releases /\ m < next /\ status[m] = "none"
  BY <1>1 DEF PromotionInv, IdInv
<1>3. /\ status' \in [Releases -> Statuses]
      /\ retained' \in [Releases -> BOOLEAN]
      /\ kept \in [Releases -> BOOLEAN]
      /\ \A r \in Releases : r # m => kept[r] = retained[r]
      /\ kept[m] = TRUE
  BY <1>1, <1>2 DEF PromotionInv, TypeOK, Superseded, Statuses
<1>4. \A r \in Releases :
        status'[r] = IF r = m THEN "active" ELSE IF r = active[s] THEN "superseded" ELSE status[r]
  BY <1>1 DEF Superseded
<1>5. \A r \in Releases : retained'[r] <=> kept[r] /\ r \notin dropped
  BY <1>1
<1>6. /\ inactive = {r \in Releases : status'[r] \in {"superseded", "rolled_back"} /\ kept[r]}
      /\ dropped \subseteq inactive
  BY <1>1 DEF Inactive, BeyondRetention
<1>7. m \notin dropped
  BY <1>2, <1>4, <1>6
<1>8. active[s] \in Releases => status[active[s]] # "none"
  BY <1>1 DEF PromotionInv, SessionInv
<1>. HIDE DEF m, kept, inactive, dropped
<1>9. /\ pc' \in [Sessions -> Labels] /\ holder' \in Sessions \cup {None}
      /\ IdInv' /\ SessionInv' /\ SoloInv'
  <2>1. \A r \in Releases : status[r] # "none" => status'[r] # "none"
    BY <1>4
  <2>2. \A r \in Releases : status[r] = "none" /\ status'[r] # "none" =>
          s \in Promoters /\ r = mine[s]
    BY <1>1, <1>4, <1>8 DEF m
  <2>. QED
    BY <1>1, <1>3, <2>1, <2>2, SessionsReleased
<1>10. TypeOK'
  <2>1. schema' \in [Releases -> Releases \cup {None}]
    BY <1>1 DEF PromotionInv, TypeOK
  <2>2. gold' \in Releases \cup {None} /\ before' \in [Releases -> Releases \cup {None}]
    BY <1>1, <1>2 DEF PromotionInv, TypeOK
  <2>. QED
    BY <1>1, <1>3, <1>9, <2>1, <2>2 DEF PromotionInv, TypeOK
\* Nothing that was dropped comes back.
<1>11. NothingDropped' => NothingDropped
  BY <1>2, <1>3, <1>4, <1>5, <1>8 DEF NothingDropped
<1>12. ASSUME NothingDropped \/ ~overlapped PROVE Matches /\ active[s] = gold
  BY <1>1, <1>12, SwapIsCurrent
<1>13. MatchInv'
  <2>. SUFFICES ASSUME NothingDropped \/ ~overlapped PROVE Matches'
    BY <1>1, <1>11 DEF MatchInv
  <2>. SUFFICES ASSUME NEW r \in Releases
                PROVE  /\ status'[r] = "active" <=> r = gold'
                       /\ status'[r] = "active" => retained'[r]
                       /\ schema'[r] = IF r \in Inactive(status', retained') THEN r ELSE None
    BY DEF Matches
  <2>1. /\ status[r] = "active" <=> r = gold
        /\ status[r] = "active" => retained[r]
        /\ schema[r] = IF r \in Inactive(status, retained) THEN r ELSE None
        /\ active[s] = gold
    BY <1>12 DEF Matches
  <2>2. status'[r] = "active" <=> r = gold'
    BY <1>1, <1>2, <1>4, <2>1
  <2>3. status'[r] = "active" => retained'[r]
    BY <1>1, <1>2, <1>3, <1>5, <1>7, <2>2
  <2>4. schema'[r] = IF r \in dropped THEN None ELSE IF r = gold THEN gold ELSE schema[r]
    BY <1>1, <2>1
  <2>5. r \in Inactive(status', retained') <=>
          status'[r] \in {"superseded", "rolled_back"} /\ kept[r] /\ r \notin dropped
    BY <1>5 DEF Inactive
  <2>6. r \in Inactive(status, retained) <=>
          status[r] \in {"superseded", "rolled_back"} /\ retained[r]
    BY DEF Inactive
  <2>. QED
    BY <1>2, <1>3, <1>4, <2>1, <2>2, <2>3, <2>4, <2>5, <2>6
<1>14. ChainInv'
  <2>. SUFFICES ASSUME ~overlapped PROVE ChainInv'
    BY <1>1 DEF ChainInv
  <2>1. Matches /\ active[s] = gold
    BY <1>12
  <2>2. \A r \in Releases : status[r] # "none" => r < m
    BY <1>1 DEF PromotionInv, SoloInv, m
  <2>3. \A r \in Releases : status'[r] = "superseded" <=> r = gold \/ status[r] = "superseded"
    BY <1>2, <1>4, <2>1 DEF Matches
  <2>4. /\ \A r \in Releases : status[r] = "superseded" => gold \in Releases /\ r < gold
        /\ \A r \in Releases : status[r] \in {"active", "superseded"} =>
             /\ \A q \in Releases : status[q] = "superseded" /\ q < r =>
                  before[r] \in Releases /\ q <= before[r]
             /\ before[r] \in Releases => before[r] < r /\ status[before[r]] = "superseded"
        /\ \A p, q \in Releases :
             status[p] # "none" /\ status[q] # "none" /\ q < p /\ retained[q] => retained[p]
    BY DEF PromotionInv, ChainInv
  <2>5. gold \in Releases => status[gold] = "active"
    BY <2>1 DEF Matches
  <2>6. gold' = m /\ \A r \in Releases : before'[r] = IF r = m THEN gold ELSE before[r]
    BY <1>1 DEF PromotionInv, TypeOK
  <2>7. \A r \in Releases : status'[r] = "superseded" => gold' \in Releases /\ r < gold'
    BY <1>2, <2>2, <2>3, <2>5, <2>6
  <2>8. ASSUME NEW r \in Releases, status'[r] \in {"active", "superseded"}
        PROVE  /\ \A q \in Releases : status'[q] = "superseded" /\ q < r =>
                    before'[r] \in Releases /\ q <= before'[r]
               /\ before'[r] \in Releases => before'[r] < r /\ status'[before'[r]] = "superseded"
    <3>1. CASE r = m
      <4>1. before'[r] = gold
        BY <2>6, <3>1
      <4>2. ASSUME NEW q \in Releases, status'[q] = "superseded"
            PROVE  gold \in Releases /\ q <= gold
        <5>1. q = gold \/ (gold \in Releases /\ q < gold)
          BY <2>3, <2>4, <4>2
        <5>. QED
          BY <5>1, ReleaseFacts
      <4>3. gold \in Releases => gold < m /\ status'[gold] = "superseded"
        BY <2>2, <2>3, <2>5
      <4>. QED
        BY <3>1, <4>1, <4>2, <4>3
    <3>2. CASE r # m
      <4>1. status[r] \in {"active", "superseded"} /\ before'[r] = before[r]
        BY <1>4, <2>3, <2>5, <2>6, <2>8, <3>2
      <4>2. \A q \in Releases : status'[q] = "superseded" /\ q < r => status[q] = "superseded"
        BY <2>3, <2>4, <2>5, <4>1, ReleaseFacts, <2>1 DEF Matches
      <4>. QED
        BY <2>3, <2>4, <4>1, <4>2
    <3>. QED
      BY <3>1, <3>2
  <2>9. ASSUME NEW p \in Releases, NEW q \in Releases,
               status'[p] # "none", status'[q] # "none", q < p, retained'[q]
        PROVE  retained'[p]
    <3>1. CASE p = m
      BY <1>3, <1>5, <1>7, <3>1
    <3>2. CASE p # m
      <4>1. q # m
        BY <1>2, <1>4, <1>8, <2>2, <2>9, <3>2, ReleaseFacts
      <4>2. status[p] # "none" /\ status[q] # "none"
        BY <1>4, <1>8, <2>9, <3>2, <4>1
      <4>3. retained[q] /\ kept[q] /\ q \notin dropped
        BY <1>3, <1>5, <2>9, <4>1
      <4>4. retained[p] /\ kept[p]
        BY <1>3, <2>4, <2>9, <3>2, <4>2, <4>3
      <4>5. status'[q] \in {"superseded", "rolled_back"}
        BY <1>3, <1>4, <2>1, <2>9, <4>1 DEF Statuses, Matches
      <4>6. q \in inactive
        BY <1>6, <4>3, <4>5
      <4>7. p \notin dropped
        BY <1>6, <2>9, <4>3, <4>6, OldestDropped DEF dropped
      <4>. QED
        BY <1>5, <4>4, <4>7
    <3>. QED
      BY <3>1, <3>2
  <2>. QED
    BY <2>7, <2>8, <2>9 DEF ChainInv
<1>. QED
  BY <1>9, <1>10, <1>13, <1>14 DEF PromotionInv

\* The release a rollback() goes back to is what gold held before the present one.
LEMMA TargetIsBefore ==
  ASSUME PromotionInv, ~overlapped, NEW s \in Operators, pc[s] = "commit"
  PROVE  target[s] = before[gold]
<1>1. /\ Matches
      /\ active[s] = gold
      /\ gold \in Releases
      /\ target[s] # gold
  BY SwapIsCurrent DEF Sessions
<1>2. /\ target[s] \in Restorable
      /\ \A q \in Restorable : q <= target[s]
  BY DEF PromotionInv, SoloInv, Newest, Sessions
<1>3. status[gold] = "active"
  BY <1>1 DEF Matches
<1>4. /\ target[s] \in Releases
      /\ status[target[s]] = "superseded" /\ retained[target[s]]
      /\ target[s] < gold
  BY <1>2 DEF Restorable, PromotionInv, ChainInv
<1>5. /\ before[gold] \in Releases /\ target[s] <= before[gold]
      /\ status[before[gold]] = "superseded"
  BY <1>1, <1>3, <1>4 DEF PromotionInv, ChainInv
<1>6. target[s] # before[gold] => retained[before[gold]]
  BY <1>4, <1>5, ReleaseFacts DEF PromotionInv, ChainInv
<1>7. before[gold] \in Restorable
  BY <1>4, <1>5, <1>6 DEF Restorable
<1>. QED
  BY <1>2, <1>4, <1>5, <1>7, ReleaseFacts

LEMMA CommitRollbackKeeps ==
  ASSUME PromotionInv, NEW s \in Sessions, CommitRollback(s)
  PROVE  PromotionInv'
<1>. DEFINE a == active[s]
            b == target[s]
<1>1. /\ pc[s] = "commit" /\ s \in Operators
      /\ status' = [status EXCEPT ![a] = "rolled_back", ![b] = "active"]
      /\ schema' = [schema EXCEPT ![a] = gold, ![b] = None]
      /\ gold' = schema[b]
      /\ Release(s)
      /\ UNCHANGED <<mine, active, target, next, retained, before, overlapped>>
  BY DEF CommitRollback
<1>2. /\ a \in Releases /\ status[a] # "none"
      /\ b \in Releases /\ status[b] # "none"
  BY <1>1 DEF PromotionInv, SessionInv
<1>. HIDE DEF a, b
<1>3. \A r \in Releases :
        status'[r] = IF r = b THEN "active" ELSE IF r = a THEN "rolled_back" ELSE status[r]
  BY <1>1, <1>2 DEF PromotionInv, TypeOK
<1>4. status' \in [Releases -> Statuses]
  BY <1>1, <1>2 DEF PromotionInv, TypeOK, Statuses
<1>5. /\ pc' \in [Sessions -> Labels] /\ holder' \in Sessions \cup {None}
      /\ IdInv' /\ SessionInv' /\ SoloInv'
  <2>1. \A r \in Releases : status[r] = "none" <=> status'[r] = "none"
    BY <1>2, <1>3
  <2>. QED
    BY <1>1, <1>4, <2>1, SessionsReleased
<1>6. TypeOK'
  <2>1. schema' \in [Releases -> Releases \cup {None}] /\ gold' \in Releases \cup {None}
    BY <1>1, <1>2 DEF PromotionInv, TypeOK
  <2>. QED
    BY <1>1, <1>4, <1>5, <2>1 DEF PromotionInv, TypeOK
<1>7. NothingDropped' => NothingDropped
  <2>1. \A r \in Releases : status[r] # "none" => status'[r] # "none"
    BY <1>3
  <2>2. retained' = retained
    BY <1>1
  <2>. QED
    BY <2>1, <2>2 DEF NothingDropped
<1>8. ASSUME NothingDropped \/ ~overlapped
      PROVE  /\ Matches /\ a = gold /\ b # a /\ gold' = b
             /\ b \in Inactive(status, retained)
  BY <1>1, <1>8, SwapIsCurrent DEF a, b
<1>9. MatchInv'
  <2>. SUFFICES ASSUME NothingDropped \/ ~overlapped, NEW r \in Releases
                PROVE  /\ status'[r] = "active" <=> r = gold'
                       /\ status'[r] = "active" => retained'[r]
                       /\ schema'[r] = IF r \in Inactive(status', retained') THEN r ELSE None
    BY <1>1, <1>7 DEF MatchInv, Matches
  <2>1. /\ status[r] = "active" <=> r = gold
        /\ status[r] = "active" => retained[r]
        /\ schema[r] = IF r \in Inactive(status, retained) THEN r ELSE None
        /\ status[a] = "active" /\ retained[a]
    BY <1>2, <1>8 DEF Matches
  <2>2. schema'[r] = IF r = b THEN None ELSE IF r = a THEN gold ELSE schema[r]
    BY <1>1, <1>2 DEF PromotionInv, TypeOK
  <2>3. /\ r \in Inactive(status, retained) <=>
             status[r] \in {"superseded", "rolled_back"} /\ retained[r]
        /\ r \in Inactive(status', retained') <=>
             status'[r] \in {"superseded", "rolled_back"} /\ retained[r]
        /\ retained[b]
    BY <1>1, <1>8 DEF Inactive
  <2>. QED
    BY <1>1, <1>3, <1>8, <2>1, <2>2, <2>3
<1>10. ChainInv'
  <2>. SUFFICES ASSUME ~overlapped PROVE ChainInv'
    BY <1>1 DEF ChainInv
  <2>1. /\ Matches /\ a = gold /\ b # a /\ gold' = b
        /\ status[a] = "active"
    BY <1>2, <1>8 DEF Matches
  <2>2. b = before[a]
    BY <1>1, <2>1, TargetIsBefore DEF b
  <2>3. /\ \A r \in Releases : status[r] = "superseded" => r < a
        /\ \A r \in Releases : status[r] \in {"active", "superseded"} =>
             /\ \A q \in Releases : status[q] = "superseded" /\ q < r =>
                  before[r] \in Releases /\ q <= before[r]
             /\ before[r] \in Releases => before[r] < r /\ status[before[r]] = "superseded"
        /\ \A p, q \in Releases :
             status[p] # "none" /\ status[q] # "none" /\ q < p /\ retained[q] => retained[p]
    BY <2>1 DEF PromotionInv, ChainInv
  <2>4. \A r \in Releases : status'[r] = "superseded" => status[r] = "superseded" /\ r < b
    <3>1. ASSUME NEW r \in Releases, status'[r] = "superseded"
          PROVE  status[r] = "superseded" /\ r # b
      BY <1>3, <3>1
    <3>2. ASSUME NEW r \in Releases, status'[r] = "superseded" PROVE r <= b
      BY <1>2, <2>1, <2>2, <2>3, <3>1, <3>2
    <3>. QED
      BY <1>2, <3>1, <3>2, ReleaseFacts
  <2>5. status[b] = "superseded"
    BY <1>2, <2>1, <2>2, <2>3
  <2>6. ASSUME NEW r \in Releases, status'[r] \in {"active", "superseded"}
        PROVE  /\ \A q \in Releases : status'[q] = "superseded" /\ q < r =>
                    before[r] \in Releases /\ q <= before[r]
               /\ before[r] \in Releases => before[r] < r /\ status'[before[r]] = "superseded"
    <3>1. status[r] = "superseded"
      BY <1>3, <2>1, <2>4, <2>5, <2>6 DEF Matches
    <3>2. r = b \/ r < b
      BY <1>3, <2>1, <2>4, <2>6, <3>1 DEF Matches
    <3>3. before[r] \in Releases => before[r] < r /\ status[before[r]] = "superseded"
      BY <2>3, <3>1
    <3>4. before[r] \in Releases => before[r] # b /\ before[r] # a
      BY <1>2, <2>1, <3>2, <3>3, ReleaseFacts
    <3>. QED
      BY <1>3, <2>3, <2>4, <3>1, <3>3, <3>4
  <2>7. \A r \in Releases : status'[r] = "none" <=> status[r] = "none"
    BY <1>2, <1>3
  <2>8. \A r \in Releases : status'[r] = "superseded" => gold' \in Releases /\ r < gold'
    BY <1>2, <2>1, <2>4
  <2>9. \A p, q \in Releases :
          status'[p] # "none" /\ status'[q] # "none" /\ q < p /\ retained'[q] => retained'[p]
    BY <1>1, <2>3, <2>7
  <2>10. before' = before
    BY <1>1
  <2>. QED
    BY <2>6, <2>8, <2>9, <2>10 DEF ChainInv
<1>. QED
  BY <1>5, <1>6, <1>9, <1>10 DEF PromotionInv

-----------------------------------------------------------------------------

LEMMA NextPromotion == PromotionInv /\ [Next]_vars => PromotionInv'
<1>. SUFFICES ASSUME PromotionInv, [Next]_vars PROVE PromotionInv'
  OBVIOUS
<1>1. ASSUME NEW s \in Sessions,
             Build(s) \/ ReadPrevious(s) \/ ReadCurrent(s) \/ ReadTarget(s)
      PROVE  PromotionInv'
  BY <1>1, BuildKeeps, ReadPreviousKeeps, ReadCurrentKeeps, ReadTargetKeeps
<1>2. ASSUME NEW s \in Sessions, Wait(s) \/ Swap(s) \/ Raise(s)
      PROVE  PromotionInv'
  BY <1>2, TurnKeeps
<1>3. ASSUME NEW s \in Sessions, CommitPromote(s) \/ CommitRollback(s)
      PROVE  PromotionInv'
  BY <1>3, CommitPromoteKeeps, CommitRollbackKeeps
<1>4. CASE UNCHANGED vars
  <2>1. UNCHANGED <<pc, mine, active, target, holder, next, overlapped>> /\ UNCHANGED catalog
    BY <1>4 DEF vars, catalog
  <2>2. MatchInv' /\ ChainInv'
    BY <2>1, CatalogKept
  <2>. QED
    BY <2>1, <2>2 DEF PromotionInv, TypeOK, IdInv, SessionInv, SoloInv, Swappable, Newest,
       Restorable, catalog
<1>. QED
  BY <1>1, <1>2, <1>3, <1>4 DEF Next

LEMMA PromotionInvariant == Spec => []PromotionInv
BY InitPromotion, NextPromotion, PTL DEF Spec

\* For any number of sessions that promote and roll back at once, and wherever
\* they raise: the release the log calls active is the one in gold, and the
\* schemas are those of the inactive releases it calls retained, until a schema
\* is dropped, or without overlaps (promote() and rollback()).
THEOREM GoldAgreesWithLog == Spec => []GoldMatchesLog
<1>1. PromotionInv => GoldMatchesLog
  BY DEF PromotionInv, MatchInv, Matches, GoldMatchesLog
<1>. QED
  BY <1>1, PromotionInvariant, PTL

\* A rollback() that overlaps no other call puts back what gold held when the
\* release it takes out was promoted, however often releases were promoted,
\* rolled back and dropped before.
THEOREM RollbackUndoes == Spec => RollbackRestores
<1>1. ASSUME PromotionInv, [Next]_vars PROVE RollbackStep
  <2>. SUFFICES ASSUME NEW r \in Releases, ~overlapped,
                       status[r] = "active", status'[r] = "rolled_back"
                PROVE  gold' = before[r]
    BY DEF RollbackStep
  <2>1. r = gold
    BY <1>1 DEF PromotionInv, MatchInv, Matches
  <2>2. status' # status
    OBVIOUS
  <2>3. ASSUME NEW s \in Sessions, CommitPromote(s) PROVE FALSE
    BY <2>3 DEF CommitPromote, Superseded
  <2>4. PICK s \in Sessions : CommitRollback(s)
    BY <1>1, <2>2, <2>3 DEF Next, vars, Build, ReadPrevious, ReadCurrent, ReadTarget, Wait, Swap,
       Raise, catalog
  <2>5. s \in Operators /\ pc[s] = "commit" /\ gold' = schema[target[s]]
    BY <2>4 DEF CommitRollback
  <2>6. schema[target[s]] = target[s]
    BY <1>1, <2>5, SwapIsCurrent
  <2>. QED
    BY <1>1, <2>1, <2>5, <2>6, TargetIsBefore
<1>. QED
  BY <1>1, PromotionInvariant, PTL DEF Spec, RollbackRestores
=============================================================================
