---------------------------- MODULE MCFlinkRollup ----------------------------
(* An instance of FlinkRollup for TLC: two partitions, windows of two time   *)
(* units and a delay of one.                                                 *)
EXTENDS FlinkRollup, TLC

CONSTANTS p1, p2

\* The partitions progress at different times; or one starts with a record that
\* is no JSON and the other is out of order by the delay.
MCLogs ==
  {(p1 :> <<0, 4>> @@ p2 :> <<1, 2>>),
   (p1 :> <<-1, 2>> @@ p2 :> <<2, 1>>)}
=============================================================================
