--------------------------- MODULE GoldPromotion ----------------------------
(***************************************************************************)
(* Blue-green promotion of releases into the gold schema:                  *)
(* gold_ops.promote() and gold_ops.rollback() of                           *)
(* mcp_deployment/sql/002_gold_promotion.sql, called by sessions that run  *)
(* concurrently, each call one transaction at READ COMMITTED.              *)
(*                                                                         *)
(* A statement sees what was committed when it began. Renaming or dropping *)
(* the schema gold takes its catalog row until the transaction ends; a     *)
(* session that waits for it raises when the holder commits and goes on    *)
(* when it rolls back. What a transaction does after it has that row no    *)
(* other session sees before the commit, or can undo, so it is one step.   *)
(***************************************************************************)
EXTENDS Integers, FiniteSets

CONSTANTS
  Promoters,    \* sessions that call promote()
  Operators,    \* sessions that call rollback()
  None,         \* no release, no session
  Kept,         \* inactive releases retention keeps: 3 in the code
  MaxReleases   \* bound: release ids the serial column gives out

Sessions == Promoters \cup Operators
Releases == 1..MaxReleases

ASSUME SessionAssumption ==
  /\ Promoters \cap Operators = {}
  /\ None \notin Sessions \cup Nat

ASSUME BoundAssumption ==
  /\ Kept \in Nat
  /\ MaxReleases \in Nat

VARIABLES
  pc,        \* pc[s]: where the call of session s is
  mine,      \* mine[s]: the new release id of a promote()
  active,    \* active[s]: the active release the call has read
  target,    \* target[s]: the release a rollback() goes back to
  holder,    \* the session that has renamed gold and not ended
  next,      \* next value of the release_id serial
  status,    \* status[r]: of the release's row in the log
  retained,  \* retained[r]: its schema_retained
  schema,    \* schema[r]: the release whose tables are in gold_release_<r>
  gold,      \* the release whose tables are in gold
  before,    \* before[r]: what gold held when r was promoted (history)
  overlapped \* TRUE once a call began while another was under way (history)

vars == <<pc, mine, active, target, holder, next, status, retained, schema,
          gold, before, overlapped>>
catalog == <<status, retained, schema, gold, before>>

\* The schema gold is there from the start, empty.
Init ==
  /\ pc = [s \in Sessions |-> "idle"]
  /\ mine = [s \in Sessions |-> None]
  /\ active = [s \in Sessions |-> None]
  /\ target = [s \in Sessions |-> None]
  /\ holder = None
  /\ next = 1
  /\ status = [r \in Releases |-> "none"]
  /\ retained = [r \in Releases |-> FALSE]
  /\ schema = [r \in Releases |-> None]
  /\ gold = None
  /\ before = [r \in Releases |-> None]
  /\ overlapped = FALSE

-----------------------------------------------------------------------------
Goto(s, l) == pc' = [pc EXCEPT ![s] = l]

ActiveReleases == {r \in Releases : status[r] = "active"}

\* SELECT ... INTO: a row of the result, the null when there is none.
OneOf(found) == IF found = {} THEN {None} ELSE found

\* Variant of Newest for the mutants: the sort is ascending.
Oldest(found) == {r \in found : \A q \in found : r <= q}

Newest(found) == {r \in found : \A q \in found : q <= r}

-----------------------------------------------------------------------------
(* promote()                                                               *)

\* A call begins, beside any number of others.
Call(s) ==
  /\ pc[s] = "idle"
  /\ overlapped' = (overlapped \/ \E t \in Sessions : pc[t] # "idle")

\* The row, its schema and the copies of the tables: all new, and invisible
\* until the commit. The id is gone whatever becomes of the call.
Build(s) ==
  /\ Call(s)
  /\ s \in Promoters
  /\ next <= MaxReleases
  /\ mine' = [mine EXCEPT ![s] = next]
  /\ next' = next + 1
  /\ Goto(s, "built")
  /\ UNCHANGED <<active, target, holder, catalog>>

ReadPrevious(s) ==
  /\ pc[s] = "built"
  /\ \E r \in OneOf(ActiveReleases) : active' = [active EXCEPT ![s] = r]
  /\ Goto(s, "swap")
  /\ UNCHANGED <<mine, target, holder, next, catalog, overlapped>>

-----------------------------------------------------------------------------
(* rollback()                                                              *)

\* Without an active release the call raises.
ReadCurrent(s) ==
  /\ Call(s)
  /\ s \in Operators
  /\ \E r \in ActiveReleases : active' = [active EXCEPT ![s] = r]
  /\ Goto(s, "target")
  /\ UNCHANGED <<mine, target, holder, next, catalog>>

\* The newest superseded release that is retained; without one it raises.
Restorable == {r \in Releases : status[r] = "superseded" /\ retained[r]}

ReadTarget(s) ==
  /\ pc[s] = "target"
  /\ \E r \in Newest(Restorable) : target' = [target EXCEPT ![s] = r]
  /\ Goto(s, "swap")
  /\ UNCHANGED <<mine, active, holder, next, catalog, overlapped>>

-----------------------------------------------------------------------------
(* The swap                                                                *)

\* ALTER SCHEMA gold RENAME fails when the new name is taken, DROP SCHEMA gold
\* when it is not empty, and a rollback when its target's schema is gone.
Swappable(s) ==
  /\ IF active[s] = None THEN gold = None ELSE schema[active[s]] = None
  /\ s \in Operators => schema[target[s]] # None

\* A session that finds the row of gold taken waits for its holder to end.
Wait(s) ==
  /\ pc[s] = "swap"
  /\ holder # None
  /\ Goto(s, "waiting")
  /\ UNCHANGED <<mine, active, target, holder, next, catalog, overlapped>>

Swap(s) ==
  /\ pc[s] \in {"swap", "waiting"}
  /\ holder = None
  /\ Swappable(s)
  /\ holder' = s
  /\ Goto(s, "commit")
  /\ UNCHANGED <<mine, active, target, next, catalog, overlapped>>

\* The call raises, here or anywhere else, or its connection is lost: the
\* transaction rolls back, and gives the row of gold to who waits for it.
Raise(s) ==
  /\ pc[s] # "idle"
  /\ Goto(s, "idle")
  /\ holder' = IF holder = s THEN None ELSE holder
  /\ UNCHANGED <<mine, active, target, next, catalog, overlapped>>

\* At the commit, the ones that waited raise: the row was updated.
Release(s) ==
  /\ pc' = [t \in Sessions |->
              IF t = s \/ pc[t] = "waiting" THEN "idle" ELSE pc[t]]
  /\ holder' = None

\* The log after the swap of a promote, before retention.
Superseded(s) ==
  [r \in Releases |-> IF r = mine[s] THEN "active"
                      ELSE IF r = active[s] THEN "superseded" ELSE status[r]]

Inactive(st, kept) ==
  {r \in Releases : st[r] \in {"superseded", "rolled_back"} /\ kept[r]}

\* ORDER BY release_id DESC OFFSET Kept.
BeyondRetention(found) ==
  {r \in found : Cardinality({q \in found : q > r}) >= Kept}

CommitPromote(s) ==
  LET kept    == [retained EXCEPT ![mine[s]] = TRUE]
      dropped == BeyondRetention(Inactive(Superseded(s), kept))
  IN  /\ pc[s] = "commit"
      /\ s \in Promoters
      /\ status' = Superseded(s)
      /\ retained' = [r \in Releases |-> kept[r] /\ r \notin dropped]
      /\ schema' = [r \in Releases |-> IF r \in dropped THEN None
                                       ELSE IF r = active[s] THEN gold
                                       ELSE schema[r]]
      /\ gold' = mine[s]
      /\ before' = [before EXCEPT ![mine[s]] = gold]
      /\ Release(s)
      /\ UNCHANGED <<mine, active, target, next, overlapped>>

\* Variant of CommitRollback: the target's schema keeps its tables.
RollbackByCopy(s) ==
  /\ pc[s] = "commit"
  /\ s \in Operators
  /\ status' = [status EXCEPT ![active[s]] = "rolled_back",
                              ![target[s]] = "active"]
  /\ schema' = [schema EXCEPT ![active[s]] = gold]
  /\ gold' = schema[target[s]]
  /\ Release(s)
  /\ UNCHANGED <<mine, active, target, next, retained, before, overlapped>>

CommitRollback(s) ==
  /\ pc[s] = "commit"
  /\ s \in Operators
  /\ status' = [status EXCEPT ![active[s]] = "rolled_back",
                              ![target[s]] = "active"]
  /\ schema' = [schema EXCEPT ![active[s]] = gold, ![target[s]] = None]
  /\ gold' = schema[target[s]]
  /\ Release(s)
  /\ UNCHANGED <<mine, active, target, next, retained, before, overlapped>>

-----------------------------------------------------------------------------
Next ==
  \E s \in Sessions :
    \/ Build(s) \/ ReadPrevious(s) \/ ReadCurrent(s) \/ ReadTarget(s)
    \/ Wait(s) \/ Swap(s) \/ Raise(s) \/ CommitPromote(s) \/ CommitRollback(s)

Spec == Init /\ [][Next]_vars

-----------------------------------------------------------------------------
(* Properties                                                              *)

\* No schema has been dropped by retention yet.
NothingDropped ==
  \A r \in Releases : status[r] # "none" => retained[r]

\* The release the log calls active is the one readers of gold get, and the
\* only one; an inactive release the log calls retained has its own tables in
\* its own schema, and no other has one. So it is whatever calls overlap and
\* raise until a schema is dropped, and after that as long as calls do not
\* overlap: a rollback that read its release before retention dropped it would
\* rename gold's tables to the freed name.
GoldMatchesLog ==
  NothingDropped \/ ~overlapped =>
    \A r \in Releases :
      /\ status[r] = "active" <=> r = gold
      /\ schema[r] = IF r \in Inactive(status, retained) THEN r ELSE None

\* A rollback puts back what gold held when the release it takes out was
\* promoted, as long as calls do not overlap: ids then follow the order of the
\* commits.
RollbackStep ==
  \A r \in Releases :
    ~overlapped /\ status[r] = "active" /\ status'[r] = "rolled_back" =>
      gold' = before[r]
RollbackRestores == [][RollbackStep]_vars
=============================================================================
