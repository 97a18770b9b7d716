----------------------------- MODULE RawLanding -----------------------------
(***************************************************************************)
(* Transactional landing of one hour of impressions: the api_pull job of   *)
(* spark_applications and the landed_raw_file protocol it runs inside.     *)
(*                                                                         *)
(* A run is one process started by Airflow (an attempt, a retry, a cleared *)
(* task) for one slice, a (page_type, date, hour). It stages the bytes it  *)
(* fetched, reads them back with Spark, quarantines bad rows, checks the   *)
(* batch, overwrites the table partition, promotes the staged file and     *)
(* publishes the manifest. Every storage call is a step of its own; a call *)
(* may raise, and the process may die between any two of them.             *)
(*                                                                         *)
(* A payload is the content of one API response. Two fetches of the same   *)
(* slice may return different payloads, as the generator behind the API    *)
(* draws fresh users for every request.                                    *)
(***************************************************************************)
EXTENDS Integers, Sequences, FiniteSets, VolumeCheck

CONSTANTS
  Slices,         \* the (page_type, date, hour) triples
  Runs,           \* attempts: each process is one run
  Payloads,       \* contents an API response may have
  None,           \* absent file, partition, manifest or value
  Prior,          \* Prior[s]: the same slice on the baseline days before s
  ValidRows,      \* ValidRows[p]: rows of p that satisfy the contract
  BadRows,        \* BadRows[p]: rows of p that do not
  QuarantinePct,  \* MAX_QUARANTINE_RATIO, in percent
  VolumeMode,     \* VOLUME_CHECK_MODE: "warn" or "fail"
  CopyThenDelete, \* TRUE on S3, where a move is a copy and a delete
  Overlap,        \* TRUE if two runs of one slice may be alive together
  MaxFaults       \* bound: raised storage calls and crashes in a behaviour

ASSUME PayloadAssumption ==
  /\ None \notin Payloads
  /\ ValidRows \in [Payloads -> Nat]
  /\ BadRows \in [Payloads -> Nat]

ASSUME SettingsAssumption ==
  /\ Prior \in [Slices -> Seq(Slices)]
  /\ QuarantinePct \in Nat
  /\ VolumeMode \in {"warn", "fail"}
  /\ CopyThenDelete \in BOOLEAN
  /\ Overlap \in BOOLEAN
  /\ MaxFaults \in Nat

VARIABLES
  pc,         \* pc[r]: the step run r takes next
  slice,      \* slice[r]: the slice of run r's job_id
  content,    \* content[r]: raw_content, the bytes run r fetched
  parsed,     \* parsed[r]: the bytes run r's cached data frame was read from
  status,     \* status[s]: the status record of the slice's job_id
  staged,     \* staged[s]: file under _staging/<job_id>/
  raw,        \* raw[s]: file at the final path
  table,      \* table[s]: the payload whose rows fill the partition
  manifest,   \* manifest[s]: checksum and row counts published for s
  quarantine, \* quarantine[s]: appends made for the job_id, as <<run, payload>>
  faults      \* raised calls and crashes so far

vars == <<pc, slice, content, parsed, status, staged, raw, table, manifest,
          quarantine, faults>>

runVars == <<slice, content, parsed>>
stores  == <<staged, raw, table, manifest, quarantine>>

\* Inside the with-block: an exception here aborts the landing.
InBlock == {"parse", "quarantine", "gate", "write"}
\* Outside it: an exception only marks the job failed.
OutsideBlock ==
  {"fetch", "discard", "stage", "promote", "unstage", "publish", "complete",
   "abort"}
Ended == {"done", "failed", "crashed"}
Labels == {"idle", "failing"} \cup InBlock \cup OutsideBlock \cup Ended

Live(r) == pc[r] \notin {"idle"} \cup Ended

RunsTypeOK ==
  /\ pc \in [Runs -> Labels]
  /\ slice \in [Runs -> Slices \cup {None}]
  /\ content \in [Runs -> Payloads \cup {None}]
  /\ parsed \in [Runs -> Payloads \cup {None}]

StoresTypeOK ==
  /\ status \in [Slices -> {"none", "in_progress", "completed", "failed"}]
  /\ staged \in [Slices -> Payloads \cup {None}]
  /\ raw \in [Slices -> Payloads \cup {None}]
  /\ table \in [Slices -> Payloads \cup {None}]
  /\ manifest \in [Slices -> [sha : Payloads, rows : Payloads] \cup {None}]
  /\ quarantine \in [Slices -> SUBSET (Runs \X Payloads)]

TypeOK == RunsTypeOK /\ StoresTypeOK /\ faults \in 0..MaxFaults

Init ==
  /\ pc = [r \in Runs |-> "idle"]
  /\ slice = [r \in Runs |-> None]
  /\ content = [r \in Runs |-> None]
  /\ parsed = [r \in Runs |-> None]
  /\ status = [s \in Slices |-> "none"]
  /\ staged = [s \in Slices |-> None]
  /\ raw = [s \in Slices |-> None]
  /\ table = [s \in Slices |-> None]
  /\ manifest = [s \in Slices |-> None]
  /\ quarantine = [s \in Slices |-> {}]
  /\ faults = 0

-----------------------------------------------------------------------------
(* The checks a batch goes through before the table is written             *)

\* rows_written of the manifests the baseline days have; days without one are
\* skipped. The reads of the (at most seven) manifests are one step here.
BaselineRowCounts(s) ==
  LET landed == SelectSeq(Prior[s], LAMBDA d : manifest[d] # None)
  IN  [i \in DOMAIN landed |-> ValidRows[manifest[landed[i]].rows]]

RatioRefused(p) ==
  QuarantineRefused(ValidRows[p] + BadRows[p], BadRows[p], QuarantinePct)

VolumeRefused(s, p) ==
  /\ VolumeMode = "fail"
  /\ CheckVolume(ValidRows[p], BaselineRowCounts(s)) = "anomaly"

\* Dynamic partition overwrite replaces the partitions present in the data
\* frame: one with no rows has none, and the old partition stays.
Overwritten(old, p) == IF ValidRows[p] > 0 THEN p ELSE old

-----------------------------------------------------------------------------
(* One run                                                                 *)

Goto(r, l) == pc' = [pc EXCEPT ![r] = l]

\* Variant of Start for the mutants: the job leaves the old status in place.
StartQuietly(r, s) ==
  /\ pc[r] = "idle"
  /\ \A q \in Runs : Live(q) => slice[q] # s
  /\ slice' = [slice EXCEPT ![r] = s]
  /\ Goto(r, "fetch")
  /\ UNCHANGED <<content, parsed, status, stores, faults>>

\* Airflow starts an attempt; the job's first call marks it in_progress. If
\* that call raises, the status keeps its value and the job fails. Unless
\* Overlap, Airflow does not start an attempt while one is alive.
Start(r, s) ==
  /\ pc[r] = "idle"
  /\ Overlap \/ \A q \in Runs : Live(q) => slice[q] # s
  /\ slice' = [slice EXCEPT ![r] = s]
  /\ \/ /\ Goto(r, "fetch")
        /\ status' = [status EXCEPT ![s] = "in_progress"]
        /\ UNCHANGED faults
     \/ /\ faults < MaxFaults
        /\ Goto(r, "failing")
        /\ faults' = faults + 1
        /\ UNCHANGED status
  /\ UNCHANGED <<content, parsed, stores>>

\* fetch_impression_data: the four attempts end in a response or an exception
\* (Raise).
Fetch(r) ==
  /\ pc[r] = "fetch"
  /\ \E p \in Payloads : content' = [content EXCEPT ![r] = p]
  /\ Goto(r, "discard")
  /\ UNCHANGED <<slice, parsed, status, stores, faults>>

\* Variant of DiscardStale: a stale staged file fails the job.
RefuseStale(r) ==
  /\ pc[r] = "discard"
  /\ Goto(r, IF staged[slice[r]] = None THEN "stage" ELSE "failing")
  /\ UNCHANGED <<runVars, status, stores, faults>>

\* Staged bytes a crashed run of the same job left behind are dropped.
DiscardStale(r) ==
  /\ pc[r] = "discard"
  /\ staged' = [staged EXCEPT ![slice[r]] = None]
  /\ Goto(r, "stage")
  /\ UNCHANGED <<runVars, status, raw, table, manifest, quarantine, faults>>

Stage(r) ==
  /\ pc[r] = "stage"
  /\ staged' = [staged EXCEPT ![slice[r]] = content[r]]
  /\ Goto(r, "parse")
  /\ UNCHANGED <<runVars, status, raw, table, manifest, quarantine, faults>>

\* read_csv and the first count of the cached split: what is at the staging
\* path now is what the rest of the run works on. No file raises.
Parse(r) ==
  /\ pc[r] = "parse"
  /\ IF staged[slice[r]] = None
     THEN Goto(r, "abort") /\ UNCHANGED parsed
     ELSE /\ Goto(r, "quarantine")
          /\ parsed' = [parsed EXCEPT ![r] = staged[slice[r]]]
  /\ UNCHANGED <<slice, content, status, stores, faults>>

\* Bad rows are appended, before any check of the batch.
Quarantine(r) ==
  /\ pc[r] = "quarantine"
  /\ quarantine' =
       [quarantine EXCEPT ![slice[r]] =
          IF BadRows[parsed[r]] > 0 THEN @ \cup {<<r, parsed[r]>>} ELSE @]
  /\ Goto(r, "gate")
  /\ UNCHANGED <<runVars, status, staged, raw, table, manifest, faults>>

\* Variant of Gate: the fetched bytes are judged.
GateOnFetched(r) ==
  /\ pc[r] = "gate"
  /\ Goto(r, IF RatioRefused(content[r]) THEN "abort" ELSE "write")
  /\ UNCHANGED <<runVars, status, stores, faults>>

\* check_quarantine_ratio and, in "fail" mode, check_volume.
Gate(r) ==
  /\ pc[r] = "gate"
  /\ IF RatioRefused(parsed[r]) \/ VolumeRefused(slice[r], parsed[r])
     THEN Goto(r, "abort")
     ELSE Goto(r, "write")
  /\ UNCHANGED <<runVars, status, stores, faults>>

\* Variant of WriteTable: the manifest is published before the promotion.
WriteThenPublish(r) ==
  /\ pc[r] = "write"
  /\ table' = [table EXCEPT ![slice[r]] = Overwritten(@, parsed[r])]
  /\ Goto(r, "publish")
  /\ UNCHANGED <<runVars, status, staged, raw, manifest, quarantine, faults>>

\* The table write ends the block. A write that raises after its commit has
\* taken effect aborts the landing all the same.
WriteTable(r) ==
  /\ pc[r] = "write"
  /\ table' = [table EXCEPT ![slice[r]] = Overwritten(@, parsed[r])]
  /\ \/ Goto(r, "promote") /\ UNCHANGED faults
     \/ Goto(r, "abort") /\ faults < MaxFaults /\ faults' = faults + 1
  /\ UNCHANGED <<runVars, status, staged, raw, manifest, quarantine>>

\* Variant of Promote: the staged copy is left behind.
PromoteByCopy(r) ==
  /\ pc[r] = "promote"
  /\ raw' = [raw EXCEPT ![slice[r]] = staged[slice[r]]]
  /\ Goto(r, "publish")
  /\ UNCHANGED <<runVars, status, staged, table, manifest, quarantine, faults>>

\* move_raw_file: one rename, or a copy whose delete is a second call. A
\* missing source raises, outside the block.
Promote(r) ==
  /\ pc[r] = "promote"
  /\ IF staged[slice[r]] = None
     THEN Goto(r, "failing") /\ UNCHANGED <<raw, staged>>
     ELSE /\ raw' = [raw EXCEPT ![slice[r]] = staged[slice[r]]]
          /\ IF CopyThenDelete
             THEN Goto(r, "unstage") /\ UNCHANGED staged
             ELSE /\ Goto(r, "publish")
                  /\ staged' = [staged EXCEPT ![slice[r]] = None]
  /\ UNCHANGED <<runVars, status, table, manifest, quarantine, faults>>

Unstage(r) ==
  /\ pc[r] = "unstage"
  /\ staged' = [staged EXCEPT ![slice[r]] = None]
  /\ Goto(r, "publish")
  /\ UNCHANGED <<runVars, status, raw, table, manifest, quarantine, faults>>

\* write_raw_manifest: the checksum is of the fetched bytes, the row counts
\* of the bytes Spark read.
Publish(r) ==
  /\ pc[r] = "publish"
  /\ manifest' = [manifest EXCEPT ![slice[r]] =
                    [sha |-> content[r], rows |-> parsed[r]]]
  /\ Goto(r, "complete")
  /\ UNCHANGED <<runVars, status, staged, raw, table, quarantine, faults>>

Complete(r) ==
  /\ pc[r] = "complete"
  /\ status' = [status EXCEPT ![slice[r]] = "completed"]
  /\ Goto(r, "done")
  /\ UNCHANGED <<runVars, stores, faults>>

\* The block raised: the staged file is deleted, nothing else is touched.
Abort(r) ==
  /\ pc[r] = "abort"
  /\ staged' = [staged EXCEPT ![slice[r]] = None]
  /\ Goto(r, "failing")
  /\ UNCHANGED <<runVars, status, raw, table, manifest, quarantine, faults>>

\* The except clause of main. Its own failure is swallowed.
MarkFailed(r) ==
  /\ pc[r] = "failing"
  /\ Goto(r, "failed")
  /\ \/ /\ status' = [status EXCEPT ![slice[r]] = "failed"]
        /\ UNCHANGED faults
     \/ /\ faults < MaxFaults
        /\ faults' = faults + 1
        /\ UNCHANGED status
  /\ UNCHANGED <<runVars, stores>>

\* A call raises without taking effect.
Raise(r) ==
  /\ faults < MaxFaults
  /\ \/ pc[r] \in InBlock /\ Goto(r, "abort")
     \/ pc[r] \in OutsideBlock /\ Goto(r, "failing")
  /\ faults' = faults + 1
  /\ UNCHANGED <<runVars, status, stores>>

\* The process dies: no except clause runs.
Crash(r) ==
  /\ faults < MaxFaults
  /\ Live(r)
  /\ Goto(r, "crashed")
  /\ faults' = faults + 1
  /\ UNCHANGED <<runVars, status, stores>>

-----------------------------------------------------------------------------
Proceed(r) ==
  \/ Fetch(r) \/ DiscardStale(r) \/ Stage(r) \/ Parse(r) \/ Quarantine(r)
  \/ Gate(r) \/ WriteTable(r) \/ Promote(r) \/ Unstage(r) \/ Publish(r)
  \/ Complete(r) \/ Abort(r) \/ MarkFailed(r)

Next ==
  \E r \in Runs :
    \/ \E s \in Slices : Start(r, s)
    \/ Proceed(r)
    \/ Raise(r)
    \/ Crash(r)

Spec == Init /\ [][Next]_vars

\* Airflow retries a task that has not succeeded (retries: 3), and a process
\* that is alive keeps running. Nothing makes a call raise or a process die.
Retry(s) == status[s] # "completed" /\ \E r \in Runs : Start(r, s)

Fairness ==
  /\ \A r \in Runs : WF_vars(Proceed(r))
  /\ \A s \in Slices : WF_vars(Retry(s))

FairSpec == Spec /\ Fairness

-----------------------------------------------------------------------------
(* Properties                                                              *)

\* Raw file, manifest and partition of s come from the bytes p.
LandedFrom(s, p) ==
  /\ raw[s] = p
  /\ manifest[s] = [sha |-> p, rows |-> p]
  /\ ValidRows[p] > 0 => table[s] = p

\* A slice whose status record says completed has its raw file, manifest and
\* partition from the same bytes and nothing staged, whatever earlier runs
\* crashed or raised, as long as runs of one slice do not overlap.
CompletedIsConsistent ==
  \A s \in Slices : status[s] = "completed" =>
    /\ staged[s] = None
    /\ \E p \in Payloads : LandedFrom(s, p)

\* The file at the final path changes only to bytes whose rows are in the
\* partition at that moment: no orphan is left.
RawStep ==
  \A s \in Slices :
    raw'[s] # raw[s] /\ ValidRows[raw'[s]] > 0 => table[s] = raw'[s]

\* A manifest appears or changes only for the bytes at the final path, and
\* only when they are in the partition: it is never published ahead of them.
ManifestStep ==
  \A s \in Slices : manifest'[s] # manifest[s] =>
    \E p \in Payloads : /\ manifest'[s] = [sha |-> p, rows |-> p]
                        /\ raw[s] = p
                        /\ ValidRows[p] > 0 => table[s] = p

\* Table, raw file, manifest: nothing is published ahead of what it describes.
PublishedInOrder == [][RawStep /\ ManifestStep]_vars

\* No batch over the quarantine ratio reaches the partition, even when runs
\* of one slice overlap and read each other's staged bytes.
RefusedNeverInTable ==
  \A s \in Slices : table[s] # None => ~RatioRefused(table[s])

\* No batch at the gates is one they would refuse.
NoneRefused ==
  \A r \in Runs : pc[r] = "gate" =>
    ~RatioRefused(parsed[r]) /\ ~VolumeRefused(slice[r], parsed[r])

\* With fewer faults than attempts every slice is landed, whatever the faults
\* left behind, unless a response was one the gates refuse.
EventuallyLanded ==
  []NoneRefused => \A s \in Slices : <>(status[s] = "completed")

\* Consumers that read a slice only while its status is completed see the
\* three artefacts as if they were written at once (SettledSlices).
View(s) ==
  IF status[s] # "completed" THEN None
  ELSE [raw |-> raw[s], sha |-> manifest[s].sha, rows |-> manifest[s].rows,
        table |-> table[s]]

views == [s \in Slices |-> View(s)]

Settled == INSTANCE SettledSlices WITH view <- views

\* RawLanding implements SettledSlices while runs of a slice do not overlap.
SettledSpec == Settled!Spec
=============================================================================
