----------------------------- MODULE MCStorage -----------------------------
(***************************************************************************)
(* Attempts that overlap, looked at twice: landings whose calls are single *)
(* steps, and the documents those calls write piece by piece, with faults  *)
(* or with the freshness check beside.  The focus says which one a         *)
(* behaviour is of; the other stays as it began.                           *)
(***************************************************************************)
EXTENDS MCRawLanding, StorageAdapters

CONSTANTS j1, j2, t1, t2

VARIABLE focus

\* The slice of j1 is the day before that of j2.
MCPriorJobs == [j \in Jobs |-> IF j = j2 THEN {j1} ELSE {}]

\* Attempts with faults and no freshness check, only those of one job together;
\* or one at a time without faults, and the check beside. Of two attempts, which
\* are alike, t1 begins first.
StorageWithin ==
  /\ \/ focus = "documents" /\ check.pc = "idle" /\ clock = 0
     \/ focus = "freshness" /\ storageFaults = 0 /\ overlapped = {}
  /\ \A t, u \in LandingAttempts : AttemptAlive(t) /\ AttemptAlive(u) =>
       t = u \/ (focus = "documents" /\ attempts[t].job = attempts[u].job)
  /\ attempts[t1] = NoAttempt => attempts[t2] = NoAttempt

MCInit ==
  /\ focus \in {"landings", "documents", "freshness"}
  /\ Init /\ StorageInit
  /\ focus = "landings" => adapter = "local"

MCNext ==
  \/ focus = "landings" /\ Next /\ UNCHANGED <<storageVars, focus>>
  \/ /\ focus # "landings" /\ StorageNext /\ UNCHANGED <<vars, focus>>
     /\ StorageWithin'

MCSpec == MCInit /\ [][MCNext]_<<vars, storageVars, focus>>
=============================================================================
