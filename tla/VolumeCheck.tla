----------------------------- MODULE VolumeCheck -----------------------------
(***************************************************************************)
(* The row-count gates of utils/quality.py: the volume check against the   *)
(* median of the same slice on earlier days, and the quarantine ratio.     *)
(* Ratios are kept as integer cross-products, so nothing is rounded:       *)
(* current / median < 1/2  is  4 * current < (twice the median).           *)
(***************************************************************************)
EXTENDS Integers, Sequences, FiniteSets

\* The k-th smallest element of a non-empty sequence (k counts from 1), as
\* the sorted list statistics.median indexes.
KthSmallest(counts, k) ==
  CHOOSE x \in {counts[i] : i \in DOMAIN counts} :
    /\ Cardinality({i \in DOMAIN counts : counts[i] < x}) < k
    /\ k <= Cardinality({i \in DOMAIN counts : counts[i] <= x})

\* Twice statistics.median: the two middle elements, which coincide when the
\* length is odd.
TwiceMedian(counts) ==
  LET n == Len(counts)
  IN  KthSmallest(counts, (n + 1) \div 2) + KthSmallest(counts, n \div 2 + 1)

\* check_volume: "ok", "anomaly" or "no_baseline", with the default bounds
\* 0.5 and 2.0 on current / median.
CheckVolume(current, baselines) ==
  IF current = 0 THEN "anomaly"
  ELSE IF baselines = << >> THEN "no_baseline"
  ELSE LET twice == TwiceMedian(baselines)
       IN  IF twice = 0 THEN "no_baseline"
           ELSE IF 4 * current < twice \/ current > twice THEN "anomaly" ELSE "ok"

\* check_quarantine_ratio with the ratio given in percent: TRUE when the
\* batch is refused. An empty batch is never refused here (0 > 0 is false).
QuarantineRefused(read, bad, percent) == 100 * bad > percent * read
==============================================================================
