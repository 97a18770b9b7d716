---------------------------- MODULE MCDataPaths ----------------------------
(***************************************************************************)
(* Five paths of data that share nothing, each by itself: files through    *)
(* the serverless pipeline, changes through Debezium and Flink, batches    *)
(* into the Iceberg table, the timed loop of the realtime consumer,        *)
(* and conversations in the analytics store (with two tenants, or with     *)
(* faults and a rebuild of the views).  The focus says which one a         *)
(* behaviour is of; the others stay as they began.                         *)
(***************************************************************************)
EXTENDS ServerlessPipeline, CdcCounts, IcebergTable, FlushDeadline, AnalyticsStore

CONSTANTS a1, a2

VARIABLE focus

Change(op, impression, at) == [op |-> op, impression |-> impression, at |-> at]

\* Changes in order, with a delete of what is counted; and changes out of order
\* by the disorder, the first of them a snapshot read. The last change of each
\* is late enough to close every minute before.
MCWals == {
  <<Change("c", "i1", 0), Change("u", "i1", 1), Change("c", "i2", 1), Change("d", "i1", 2),
    Change("c", "i3", 5)>>,
  <<Change("r", "i1", 1), Change("c", "i2", 2), Change("d", "i2", 1), Change("u", "i1", 3),
    Change("c", "i3", 6)>>}

ASSUME MCWithinDisorder == WithinDisorder

Row(id, event, value) == [id |-> id, event |-> event, value |-> value]

\* A batch with two events of an impression, and one that corrects the first and
\* brings another impression.
MCBatches == <<<<Row("x", "a", 1), Row("x", "b", 1)>>, <<Row("x", "a", 2), Row("y", "a", 1)>>>>

Said(kind, hour, slow) == [kind |-> kind, hour |-> hour, slow |-> slow]

\* A conversation that goes on past the hour it began in, and a late one.
MCConversations == {
  [account |-> a1,
   events |-> <<Said("conversation_started", 0, FALSE), Said("message_sent", 0, FALSE),
                Said("agent_response", 1, TRUE), Said("escalation", 1, FALSE)>>],
  [account |-> a2,
   events |-> <<Said("conversation_started", -1, FALSE), Said("message_sent", -1, FALSE),
                Said("agent_response", -1, FALSE), Said("resolution", 0, FALSE)>>]}

\* Two conversations that nothing happens to, or one of them with faults.
StoreWithin ==
  \/ focus = "tenants" /\ faults = 0 /\ rebuilds = 0
  \/ focus = "rebuild" /\ \A i \in DOMAIN sent : i <= 4 /\ sent[i].account = a1

MCInit ==
  /\ focus \in {"files", "changes", "batches", "loop", "tenants", "rebuild"}
  /\ AwsInit /\ CdcInit /\ TableInit /\ Init /\ StoreInit
  /\ focus # "changes" => wal = CHOOSE w \in Wals : TRUE

MCNext ==
  \/ focus = "files" /\ AwsNext /\ UNCHANGED <<cdcVars, tableVars, vars, storeVars, focus>>
  \/ focus = "changes" /\ CdcNext /\ UNCHANGED <<awsVars, tableVars, vars, storeVars, focus>>
  \/ focus = "batches" /\ TableNext /\ UNCHANGED <<awsVars, cdcVars, vars, storeVars, focus>>
  \/ focus = "loop" /\ Next /\ UNCHANGED <<awsVars, cdcVars, tableVars, storeVars, focus>>
  \/ /\ StoreNext /\ UNCHANGED <<awsVars, cdcVars, tableVars, vars, focus>>
     /\ StoreWithin'

MCSpec == MCInit /\ [][MCNext]_<<awsVars, cdcVars, tableVars, vars, storeVars, focus>>
=============================================================================
