---------------------------- MODULE MCRawLanding ----------------------------
(* Instances of RawLanding for TLC. *)
EXTENDS RawLanding, TLC

CONSTANTS day1, day2, run1, run2, run3, clean, dirty, broken, empty

\* day1 is the baseline day of day2.
MCPrior == [s \in Slices |-> IF s = day1 \/ day1 \notin Slices THEN << >>
                             ELSE <<day1>>]

\* clean lands; dirty lands with a quarantined row; broken is over
\* the quarantine ratio and short of half of clean's rows; empty has no row.
MCValidRows ==
  [p \in Payloads |-> CASE p = clean -> 300
                        [] p = dirty -> 200 [] p = broken -> 90
                        [] p = empty -> 0]
MCBadRows ==
  [p \in Payloads |-> CASE p = dirty -> 1 [] p = broken -> 10 [] OTHER -> 0]

RunSymmetry == Permutations(Runs)
=============================================================================
