--------------------------- MODULE MCEventConsumer --------------------------
(* Instances of EventConsumer for TLC. *)
EXTENDS EventConsumer

CONSTANTS c1, c2, p1, p2

Topic(first, second) == [p \in Partitions |-> IF p = p1 THEN first ELSE second]

\* Topics whose good records are all stored in the end, and topics with a
\* record that ClickHouse refuses, or that is no JSON.
MCLogs == {Topic(<<"good", "malformed", "good">>, << >>),
           Topic(<<"good">>, <<"good">>),
           Topic(<<"good", "poison">>, << >>),
           Topic(<<"good", "undecodable">>, << >>)}
=============================================================================
