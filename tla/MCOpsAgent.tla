----------------------------- MODULE MCOpsAgent -----------------------------
(***************************************************************************)
(* Instances of OpsAgent for TLC, chosen in the initial state by what may  *)
(* happen often: commits to the table, runs of the monitor with their      *)
(* alerts, runs of the agent beside the monitor while batches land, or     *)
(* runs of the agent while the findings about columns come and go.         *)
(***************************************************************************)
EXTENDS OpsAgent

VARIABLE focus

OnlyBatches == \A i \in DOMAIN snapshots : snapshots[i].operation = "append"

\* The bounds of each instance, below those of OpsAgent.
Within ==
  CASE focus = "table"  -> results = << >> /\ agent = << >> /\ drift = {}
    [] focus = "alerts" -> /\ agent = << >> /\ drift = {}
                           /\ committed <= 2 /\ OnlyBatches
    [] focus = "agent"  -> /\ Len(results) <= 1 /\ alertLog = << >> /\ died = {}
                           /\ committed <= 2 /\ OnlyBatches
                           /\ Len(snapshots) = committed /\ drift = {}
    [] focus = "drift"  -> results = << >> /\ committed <= 1

MCInit == Init /\ focus \in {"table", "alerts", "agent", "drift"}
MCSpec == MCInit /\ [][Next /\ UNCHANGED focus /\ Within']_<<vars, focus>>
=============================================================================
