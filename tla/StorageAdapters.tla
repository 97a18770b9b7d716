--------------------------- MODULE StorageAdapters ---------------------------
(***************************************************************************)
(* Inside the calls that RawLanding takes for single steps: what the       *)
(* local, S3 and Databricks adapters of utils/storage.py do to the         *)
(* documents of a job (its status, the staged and the final raw file, the  *)
(* manifest and its temporary file, the partition), and the Airflow        *)
(* freshness check, which reads statuses one by one meanwhile.             *)
(*                                                                         *)
(* A run of api_pull is the sequence of file operations it has still to    *)
(* do. Files are opened and filled in two steps; an open file keeps its    *)
(* handle when it is renamed. A PUT to S3 or DynamoDB and a commit of      *)
(* Delta are one step.                                                     *)
(***************************************************************************)
EXTENDS Integers, Sequences

CONSTANTS
  Jobs,             \* job_ids, one per slice
  PriorJobs,        \* PriorJobs[j]: those of the baseline days of j's slice
  LandingAttempts,  \* processes of api_pull
  Sla,              \* FRESHNESS_SLA_MINUTES
  MaxMinutes,       \* bound on the clock
  MaxStorageFaults  \* bound on calls that raise and processes that die

ASSUME StorageAssumption ==
  /\ PriorJobs \in [Jobs -> SUBSET Jobs]
  /\ Sla \in Nat /\ MaxMinutes \in Nat /\ MaxStorageFaults \in Nat

VARIABLES
  adapter,     \* "local", "aws" or "databricks"
  clock,
  documents,       \* documents[j][k]: what there is of kind k for job j
  attempts,    \* job, operations to do, open file and time stamp of each
  overlapped,  \* jobs of which two attempts were alive together
  completions, \* when a run of a job wrote that it completed
  storageFaults,
  check        \* the freshness check

storageVars == <<adapter, clock, documents, attempts, overlapped, completions, storageFaults, check>>

DocumentKinds == {"status", "staged", "raw", "tmp", "manifest", "table"}

\* A file that was truncated, and one with the bytes of two writers.
Absent == [is |-> "absent"]
Truncated == [is |-> "empty"]
Mixed == [is |-> "mixed"]
Document(a, status, at) == [is |-> "document", by |-> a, status |-> status, at |-> at]

Whole(file) == file.is = "document"
Torn(file) == file \in {Truncated, Mixed}

NoAttempt == [job |-> "none", todo |-> << >>, handle |-> "none", at |-> 0]
AttemptAlive(a) == attempts[a].todo # << >>

StorageInit ==
  /\ adapter \in {"local", "aws", "databricks"}
  /\ clock = 0
  /\ documents = [j \in Jobs |-> [k \in DocumentKinds |-> Absent]]
  /\ attempts = [a \in LandingAttempts |-> NoAttempt]
  /\ overlapped = {} /\ completions = {} /\ storageFaults = 0
  /\ check = [pc |-> "idle", left |-> {}, seen |-> {}, steady |-> {}, now |-> 0, fresh |-> FALSE]

-----------------------------------------------------------------------------
(* What a run does                                                         *)

FileOp(do, kind, arg) == [do |-> do, kind |-> kind, arg |-> arg]

Written(kind, status) ==
  IF adapter = "aws" THEN <<FileOp("put", kind, status)>>
  ELSE <<FileOp("open", kind, status), FileOp("fill", kind, status)>>

\* On Databricks the status is an appended row; a job's status is its newest.
StatusUpdate(status) ==
  IF adapter = "local" THEN Written("status", status) ELSE <<FileOp("put", "status", status)>>

Moved(from, to) ==
  IF adapter = "aws" THEN <<FileOp("copy", to, from), FileOp("remove", from, "")>>
  ELSE <<FileOp("replace", to, from)>>

\* Variant: the manifest is written in place everywhere.
ManifestInPlace == Written("manifest", "")

\* The local adapter alone writes the manifest aside and renames it.
ManifestWrite ==
  IF adapter = "local" THEN Written("tmp", "") \o Moved("tmp", "manifest")
  ELSE Written("manifest", "")

\* A dynamic overwrite of a parquet partition removes the old files and then
\* moves the new ones in; one of Delta is a commit.
TableWrite ==
  IF adapter = "databricks" THEN <<FileOp("put", "table", "")>>
  ELSE <<FileOp("open", "table", ""), FileOp("fill", "table", "")>>

LandingOps ==
  StatusUpdate("in_progress") \o <<FileOp("remove", "staged", "")>> \o Written("staged", "")
    \o <<FileOp("judge", "staged", "")>> \o TableWrite \o Moved("staged", "raw")
    \o ManifestWrite \o StatusUpdate("completed")

FailureOps == StatusUpdate("failed")

InLanding(op) == op.do = "judge" \/ op.kind = "table"

\* What is left to do when op raised: in the with-block the staged file goes
\* first; a failure to record the failure is swallowed.
AfterRaise(op) ==
  IF op.kind = "status" /\ op.arg = "failed" THEN << >>
  ELSE (IF InLanding(op) THEN <<FileOp("remove", "staged", "")>> ELSE << >>) \o FailureOps

\* read_raw_manifest, and the manifest of the quality sources.
ManifestOf(j) ==
  CASE documents[j].manifest = Absent -> "none"
    [] Torn(documents[j].manifest) -> "unreadable"
    [] OTHER -> "manifest"

-----------------------------------------------------------------------------
(* One attempt                                                             *)

BeginAttempt(a, j) ==
  /\ attempts[a] = NoAttempt
  /\ attempts' = [attempts EXCEPT ![a] = [@ EXCEPT !.job = j, !.todo = LandingOps]]
  /\ overlapped' = IF \E b \in LandingAttempts : AttemptAlive(b) /\ attempts[b].job = j
                   THEN overlapped \cup {j} ELSE overlapped
  /\ UNCHANGED <<adapter, clock, documents, completions, storageFaults>>

\* The attempts with the next operation of a done and its handle h.
NextOp(a, h) ==
  [attempts EXCEPT ![a].todo = Tail(@), ![a].handle = h, ![a].at = IF h = "none" THEN 0 ELSE clock]

\* Open files of j called from are now called to.
HandlesFollow(all, j, from, to) ==
  [b \in LandingAttempts |-> IF all[b].job = j /\ all[b].handle = from
                      THEN [all[b] EXCEPT !.handle = to] ELSE all[b]]

\* Of a document that another writer filled since it was opened, a shorter one
\* leaves the end.
FilledFile(old, document) == IF old = Truncated THEN {document} ELSE {document, Mixed}

RaiseAt(a, op) ==
  attempts' = [attempts EXCEPT ![a].todo = AfterRaise(op), ![a].handle = "none", ![a].at = 0]

ApplyOp(a, op, j) ==
  LET stamp(at) == IF op.kind = "status" THEN at ELSE 0
      put(k, file) == documents' = [documents EXCEPT ![j][k] = file]
  IN \/ /\ op.do = "open"
        /\ put(op.kind, Truncated)
        /\ attempts' = NextOp(a, op.kind)
     \/ /\ op.do = "fill"
        /\ IF attempts[a].handle = "unlinked" THEN UNCHANGED documents
           ELSE \E file \in FilledFile(documents[j][attempts[a].handle],
                                   Document(a, op.arg, stamp(attempts[a].at))) :
                  put(attempts[a].handle, file)
        /\ attempts' = NextOp(a, "none")
     \/ /\ op.do = "put"
        /\ put(op.kind, Document(a, op.arg, stamp(clock)))
        /\ attempts' = NextOp(a, "none")
     \/ /\ op.do = "remove"
        /\ put(op.kind, Absent)
        /\ attempts' = HandlesFollow(NextOp(a, "none"), j, op.kind, "unlinked")
     \/ /\ op.do = "copy" /\ documents[j][op.arg] # Absent
        /\ put(op.kind, documents[j][op.arg])
        /\ attempts' = NextOp(a, "none")
     \/ /\ op.do = "replace" /\ documents[j][op.arg] # Absent
        /\ documents' = [documents EXCEPT ![j][op.kind] = documents[j][op.arg], ![j][op.arg] = Absent]
        /\ attempts' = HandlesFollow(HandlesFollow(NextOp(a, "none"), j, op.kind, "unlinked"), j, op.arg, op.kind)
     \/ /\ op.do \in {"copy", "replace"} /\ documents[j][op.arg] = Absent
        /\ RaiseAt(a, op)
        /\ UNCHANGED documents
     \* read_csv, the gates and their baseline: no staged file and a manifest
     \* that cannot be read raise, and a batch may be refused.
     \/ /\ op.do = "judge"
        /\ UNCHANGED documents
        /\ \/ /\ documents[j].staged # Absent /\ \A p \in PriorJobs[j] : ManifestOf(p) # "unreadable"
              /\ attempts' = NextOp(a, "none")
           \/ RaiseAt(a, op)

DoOperation(a) ==
  /\ AttemptAlive(a)
  /\ LET op == Head(attempts[a].todo)
         j == attempts[a].job
         done == op.do \in {"fill", "put"} /\ op.arg = "completed"
     IN  /\ ApplyOp(a, op, j)
         /\ completions' = IF ~done THEN completions
                           ELSE completions \cup {IF op.do = "put" THEN clock ELSE attempts[a].at}
  /\ UNCHANGED <<adapter, clock, overlapped, storageFaults>>

\* A call storageFaults without effect, or the process dies.
CallFault(a) ==
  /\ AttemptAlive(a) /\ storageFaults < MaxStorageFaults
  /\ storageFaults' = storageFaults + 1
  /\ \/ RaiseAt(a, Head(attempts[a].todo))
     \/ attempts' = [attempts EXCEPT ![a].todo = << >>]
  /\ UNCHANGED <<adapter, clock, documents, overlapped, completions>>

ClockTick ==
  /\ clock < MaxMinutes
  /\ clock' = clock + 1
  /\ UNCHANGED <<adapter, documents, attempts, overlapped, completions, storageFaults>>

-----------------------------------------------------------------------------
(* The freshness check                                                     *)

storageOthers == <<adapter, clock, documents, attempts, overlapped, completions, storageFaults>>

CompletedIn(file) == Whole(file) /\ file.status = "completed"

\* The directory is listed once; a scan of DynamoDB asks for every item. It
\* knows no Databricks.
ListStatuses ==
  /\ check.pc = "idle" /\ adapter # "databricks"
  /\ check' = [check EXCEPT
       !.pc = "reading",
       !.left = {j \in Jobs : adapter = "aws" \/ documents[j].status # Absent},
       !.steady = {[job |-> j, at |-> documents[j].status.at] : j \in {i \in Jobs : CompletedIn(documents[i].status)}}]
  /\ UNCHANGED storageOthers

\* Variant: a status that cannot be read ends the check.
ReadStatusOrStop(j) ==
  /\ check.pc = "reading" /\ j \in check.left
  /\ check' = IF Torn(documents[j].status) THEN [check EXCEPT !.left = {}]
              ELSE [check EXCEPT !.left = @ \ {j},
                                 !.seen = IF Whole(documents[j].status) THEN @ \cup {documents[j].status} ELSE @]
  /\ UNCHANGED storageOthers

\* A status that cannot be read is skipped.
ReadStatus(j) ==
  /\ check.pc = "reading" /\ j \in check.left
  /\ check' = [check EXCEPT !.left = @ \ {j},
                            !.seen = IF Whole(documents[j].status) THEN @ \cup {documents[j].status} ELSE @]
  /\ UNCHANGED storageOthers

\* The clock is read when all are.
JudgeFreshness ==
  /\ check.pc = "reading" /\ check.left = {}
  /\ check' = [check EXCEPT
       !.pc = "judged", !.now = clock,
       !.fresh = \E r \in check.seen : CompletedIn(r) /\ clock - r.at <= Sla]
  /\ UNCHANGED storageOthers

\* The completions that have stood there since the check began to read.
Watching ==
  check' = IF check.pc # "reading" THEN check
           ELSE [check EXCEPT !.steady = {c \in @ : documents'[c.job].status = documents[c.job].status}]

StorageNext ==
  \/ /\ \/ \E a \in LandingAttempts, j \in Jobs : BeginAttempt(a, j)
        \/ \E a \in LandingAttempts : DoOperation(a) \/ CallFault(a)
        \/ ClockTick
     /\ Watching
  \/ ListStatuses \/ JudgeFreshness \/ \E j \in Jobs : ReadStatus(j)

StorageSpec == StorageInit /\ [][StorageNext]_storageVars

-----------------------------------------------------------------------------
(* Properties                                                              *)

\* What RawLanding takes for granted of a call. On S3 no document is ever half
\* there, whoever writes. Elsewhere, of a job no two attempts of which were
\* alive together: the raw file is whole, so is the local manifest, and that of
\* Databricks unless an attempt died in it; and a job whose status says
\* completed has its raw file, manifest and partition whole and of one attempt,
\* with nothing left beside them.
CallsHold ==
  \A j \in Jobs :
    /\ adapter = "aws" => \A k \in DocumentKinds \ {"table"} : ~Torn(documents[j][k])
    /\ j \notin overlapped =>
         /\ ~Torn(documents[j].raw)
         /\ ManifestOf(j) = "unreadable" =>
              adapter = "databricks" /\ ~CompletedIn(documents[j].status)
         /\ CompletedIn(documents[j].status) =>
              /\ \A k \in {"raw", "manifest", "table"} :
                   Whole(documents[j][k]) /\ documents[j][k].by = documents[j].status.by
              /\ documents[j].staged = Absent /\ documents[j].tmp = Absent

\* The check passes only if some run completed within the SLA, and fails only
\* if none did whose status stood there as long as the check was reading:
\* statuses it catches half-written, or of jobs run again, hide no other.
FreshnessTells ==
  check.pc = "judged" =>
    /\ check.fresh => \E t \in completions : check.now - t <= Sla
    /\ ~check.fresh => \A c \in check.steady : check.now - c.at > Sla
=============================================================================
