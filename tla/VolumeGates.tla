---------------------------- MODULE VolumeGates -----------------------------
(***************************************************************************)
(* The same row counts are judged three times: by the landing job (the     *)
(* gates of VolumeCheck), by the Rust port of its volume check, and, once  *)
(* the hour is aggregated, by the Airflow check on the landed manifests.   *)
(* This module sets the three side by side, over a batch and a history of  *)
(* earlier days, some without a manifest, that grows day by day.           *)
(***************************************************************************)
EXTENDS VolumeCheck, Functions

CONSTANTS
  Reads,       \* rows_read of a batch
  Bads,        \* rows_quarantined of a batch
  DayCounts,   \* rows_written of an earlier day
  NoManifest,  \* what there is of a day that did not land
  BaselineDays \* how many earlier days are looked at

ASSUME GatesAssumption ==
  /\ Reads \subseteq Nat /\ Bads \subseteq Nat /\ DayCounts \subseteq Nat
  /\ BaselineDays \in Nat

VARIABLES
  read, bad,   \* the batch: rows read, and how many of them are quarantined
  days         \* of each earlier day looked at, rows_written or NoManifest

batch == <<read, bad, days>>

Written == read - bad

BatchInit ==
  /\ read \in Reads
  /\ bad \in {b \in Bads : b <= read}
  /\ days = << >>

\* One more of the baseline days is looked up.
EarlierDay ==
  /\ Len(days) < BaselineDays
  /\ \E n \in DayCounts \cup {NoManifest} : days' = Append(days, n)
  /\ UNCHANGED <<read, bad>>

GatesSpec == BatchInit /\ [][EarlierDay]_batch

\* Of the manifests looked up, the counts of those that are there, in order: a
\* day without a manifest is skipped, not counted as zero.
Landed(manifests) ==
  LET found == {i \in DOMAIN manifests : manifests[i] # NoManifest}
      nth(k) == CHOOSE i \in found : Cardinality({j \in found : j <= i}) = k
  IN  [k \in 1..Cardinality(found) |-> manifests[nth(k)]]

\* baseline_row_counts
baselines == Landed(days)
-----------------------------------------------------------------------------
(* The Rust port. *)

\* values.sort_unstable()
Sorted(values) ==
  LET places == DOMAIN values
      order == CHOOSE p \in Bijection(places, places) :
                 \A i, j \in places : i <= j => values[p[i]] <= values[p[j]]
  IN  [i \in places |-> values[order[i]]]

\* Twice fn median: the vector is indexed from 0.
TwiceMedianRs(values) ==
  LET n == Len(values)
      at(i) == Sorted(values)[i + 1]
  IN  IF n % 2 = 0 THEN at(n \div 2 - 1) + at(n \div 2) ELSE 2 * at(n \div 2)

CheckVolumeRs(current, values) ==
  IF current = 0 THEN "anomaly"
  ELSE IF values = << >> THEN "no_baseline"
  ELSE LET twice == TwiceMedianRs(values)
       IN  IF twice = 0 THEN "no_baseline"
           ELSE IF 4 * current < twice \/ current > twice THEN "anomaly" ELSE "ok"
-----------------------------------------------------------------------------
(* The Airflow check, on the manifest of a landed batch. *)

\* Variant: the ceiling is compared to the median's double, twice over.
OutOfDoubleRange(written, counts) ==
  /\ counts # << >>
  /\ TwiceMedian(counts) # 0
  /\ 4 * written < TwiceMedian(counts) \/ written > 2 * TwiceMedian(counts)

\* Outside [0.5, 2.0] of the median, where there is a median to compare to.
OutOfRange(written, counts) ==
  /\ counts # << >>
  /\ TwiceMedian(counts) # 0
  /\ 4 * written < TwiceMedian(counts) \/ written > TwiceMedian(counts)

\* volume_from_manifests raises: a missing manifest of an earlier day is a
\* warning.
CheckFails(rowsRead, rowsBad, manifests) ==
  \/ 100 * rowsBad > rowsRead
  \/ OutOfRange(rowsRead - rowsBad, Landed(manifests))
-----------------------------------------------------------------------------
(* Properties. *)

\* With VOLUME_CHECK_MODE=fail and the default thresholds the job lands it.
JobLands ==
  /\ ~QuarantineRefused(read, bad, 1)
  /\ CheckVolume(Written, baselines) # "anomaly"

\* The port decides as check_volume of utils/quality.py does
\* (test_check_volume.py:1), whatever the order of the earlier days: the
\* median by rank and the median by sorting are one number.
PortAgrees == CheckVolumeRs(Written, baselines) = CheckVolume(Written, baselines)

\* The two gates of the pipeline agree on every batch the job would land, and
\* on every batch it would not, but one: the empty batch with no earlier day
\* to compare it to, which the job refuses and the check passes with a warning.
GatesAgree ==
  LET passes  == ~CheckFails(read, bad, days)
      unheard == read = 0 /\ (baselines = << >> \/ TwiceMedian(baselines) = 0)
  IN  passes <=> JobLands \/ unheard

\* All three come to one judgement of a batch.
JudgementsAgree == PortAgrees /\ GatesAgree
=============================================================================
