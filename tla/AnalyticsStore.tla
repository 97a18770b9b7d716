--------------------------- MODULE AnalyticsStore ---------------------------
(***************************************************************************)
(* realtime_analytics: what the query API answers from.  Conversations are *)
(* produced to a topic (producer.py, events.py); ClickHouse's Kafka engine *)
(* moves blocks of it into the raw table (20_kafka_ingest.sql), and three  *)
(* materialized views count each inserted block (10_production.sql).  Raw  *)
(* rows expire, the views can be rebuilt from those left (the procedure of *)
(* bench_clickhouse.py that the schema names as its backstop), and the     *)
(* queries read views or raw rows over windows that end in the future      *)
(* (queries.py, api.py).                                                   *)
(*                                                                         *)
(* A row is known by its place in the topic.  The sums a view holds are    *)
(* represented by how often each event was counted in them.                *)
(***************************************************************************)
EXTENDS Integers, Sequences, FiniteSets, FiniteSetsExt, Functions

CONSTANTS
  Accounts,         \* tenants
  Conversations,    \* what the producer may send, times relative to the hour
  HoursPerDay,
  RawDays,          \* TTL of raw events
  MaxDays,          \* MAX_LOOKBACK_DAYS
  MaxHours,         \* MAX_LOOKBACK_HOURS
  MaxHour,          \* bound: hours that pass
  MaxConversations, \* bound: conversations sent
  BlockSize,        \* kafka_max_block_size
  MaxInsertFaults,  \* bound: inserts that fail or are not committed
  MaxRebuilds       \* bound: rebuilds of the views

Terminals == {"resolution", "escalation"}
Kinds == {"conversation_started", "message_sent", "agent_response"} \cup Terminals

\* A conversation starts, has turns of a message and a response, and ends in
\* one terminal event; its times do not go back. The model keeps one turn.
IsConversation(c) ==
  LET n == Len(c.events)
      kind(i) == c.events[i].kind
  IN  /\ c.account \in Accounts
      /\ c.events \in Seq([kind : Kinds, slow : BOOLEAN, hour : Int])
      /\ kind(1) = "conversation_started" /\ kind(n) \in Terminals
      /\ n % 2 = 0
      /\ \A i \in 2..n - 1 :
           kind(i) = IF i % 2 = 0 THEN "message_sent" ELSE "agent_response"
      /\ \A i, j \in 1..n : i < j => c.events[i].hour <= c.events[j].hour

ASSUME StoreAssumption ==
  /\ \A c \in Conversations : IsConversation(c)
  /\ HoursPerDay \in Nat \ {0} /\ BlockSize \in Nat \ {0}
  /\ RawDays \in Nat /\ MaxDays \in 1..RawDays /\ MaxHours \in Nat

Views == {"conversation_daily", "agent_hourly", "platform_daily"}

VARIABLES
  now,       \* the hour it is
  sent,      \* the topic: events in order, over all time
  committed, \* events whose offset is committed
  raw,       \* raw[i]: copies of event i in conversation_events
  views,     \* views[v][i]: how often event i was counted in view v
  attached,  \* views that fire on inserts
  todo,      \* views a rebuild has yet to fill, in order
  written,   \* events inserted at least once (history)
  doubled,   \* doubled[v]: events v may have counted again (history)
  faults, rebuilds

storeVars == <<now, sent, committed, raw, views, attached, todo, written, doubled,
               faults, rebuilds>>

None == [i \in 1..0 |-> 0]

StoreInit ==
  /\ now = HoursPerDay
  /\ sent = << >> /\ committed = 0 /\ written = 0
  /\ raw = None
  /\ views = [v \in Views |-> None]
  /\ attached = Views /\ todo = << >>
  /\ doubled = [v \in Views |-> {}]
  /\ faults = 0 /\ rebuilds = 0

HourPasses ==
  /\ now < MaxHour
  /\ now' = now + 1
  /\ UNCHANGED <<sent, committed, raw, views, attached, todo, written, doubled,
                 faults, rebuilds>>

\* A conversation is stamped from now on, or from a while ago when it is late;
\* its last events may be stamped past the hour.
Produce(c) ==
  /\ Len(sent) < MaxConversations * Len(c.events)
  /\ sent' = sent \o [i \in 1..Len(c.events) |->
                        [account |-> c.account, kind |-> c.events[i].kind,
                         slow |-> c.events[i].slow, hour |-> now + c.events[i].hour]]
  /\ raw' = [i \in DOMAIN sent' |-> IF i \in DOMAIN raw THEN raw[i] ELSE 0]
  /\ views' = [v \in Views |->
                 [i \in DOMAIN sent' |-> IF i \in DOMAIN raw THEN views[v][i] ELSE 0]]
  /\ UNCHANGED <<now, committed, attached, todo, written, doubled, faults, rebuilds>>

DayOf(hour) == hour \div HoursPerDay

\* The rows a view's SELECT keeps.
Selects(v, i) == v = "agent_hourly" => sent[i].kind = "agent_response"

-----------------------------------------------------------------------------
(* Inserts                                                                 *)

Blocks == {committed + 1..committed + n : n \in 1..BlockSize} \cap SUBSET (DOMAIN sent)

\* A block is written to the raw table, and then counted by views.
Insert(block, firing) ==
  /\ raw' = [i \in DOMAIN sent |-> raw[i] + (IF i \in block THEN 1 ELSE 0)]
  /\ views' = [v \in Views |-> [i \in DOMAIN sent |->
       views[v][i] + (IF v \in firing /\ i \in block /\ Selects(v, i) THEN 1 ELSE 0)]]
  /\ doubled' = [v \in Views |->
       doubled[v] \cup {i \in block : i <= written \/ (v \in attached /\ v \in Range(todo))}]
  /\ written' = IF Max(block) > written THEN Max(block) ELSE written

\* Variant of IngestBlock: the commit does not wait for the views.
IngestAndCommit ==
  /\ \E block \in Blocks, firing \in SUBSET attached :
       Insert(block, firing) /\ committed' = Max(block)
  /\ UNCHANGED <<now, sent, attached, todo, faults, rebuilds>>

\* Offsets are committed once the block is written.
IngestBlock ==
  /\ \E block \in Blocks : Insert(block, attached) /\ committed' = Max(block)
  /\ UNCHANGED <<now, sent, attached, todo, faults, rebuilds>>

\* The insert fails between two views, or the server dies before the commit:
\* the block will be read again, and perhaps be cut elsewhere.
IngestUncommitted ==
  /\ faults < MaxInsertFaults
  /\ faults' = faults + 1
  /\ \E block \in Blocks, firing \in SUBSET attached : Insert(block, firing)
  /\ UNCHANGED <<now, sent, committed, attached, todo, rebuilds>>

-----------------------------------------------------------------------------
(* Merges, expiry, rebuilds                                                *)

\* ReplacingMergeTree merges parts some time: the copies of a row collapse, and
\* rows that reached their TTL are dropped. The rows of a day are merged
\* together here.
MergeDay ==
  /\ \E d \in {DayOf(sent[i].hour) : i \in DOMAIN raw} :
       raw' = [i \in DOMAIN raw |->
         IF DayOf(sent[i].hour) # d \/ raw[i] = 0 THEN raw[i]
         ELSE IF sent[i].hour + RawDays * HoursPerDay <= now THEN 0 ELSE 1]
  /\ raw' # raw
  /\ UNCHANGED <<now, sent, committed, views, attached, todo, written, doubled,
                 faults, rebuilds>>

DropViews ==
  /\ todo = << >> /\ rebuilds < MaxRebuilds
  /\ rebuilds' = rebuilds + 1
  /\ attached' = {}
  /\ views' = [v \in Views |-> [i \in DOMAIN sent |-> 0]]
  /\ todo' = <<"conversation_daily", "agent_hourly", "platform_daily">>
  /\ doubled' = [v \in Views |-> {}]
  /\ UNCHANGED <<now, sent, committed, raw, written, faults>>

\* From here on the view counts what is inserted.
CreateView ==
  /\ todo # << >> /\ Head(todo) \notin attached
  /\ attached' = attached \cup {Head(todo)}
  /\ UNCHANGED <<now, sent, committed, raw, views, todo, written, doubled, faults,
                 rebuilds>>

\* INSERT INTO target SELECT: what the raw table holds, unmerged copies too.
Backfill ==
  /\ todo # << >> /\ Head(todo) \in attached
  /\ LET v == Head(todo) IN
       /\ views' = [views EXCEPT ![v] = [i \in DOMAIN sent |->
                      @[i] + IF Selects(v, i) THEN raw[i] ELSE 0]]
       /\ doubled' = [doubled EXCEPT ![v] = @ \cup {i \in DOMAIN raw : raw[i] > 1}]
  /\ todo' = Tail(todo)
  /\ UNCHANGED <<now, sent, committed, raw, attached, written, faults, rebuilds>>

StoreNext ==
  \/ HourPasses \/ \E c \in Conversations : Produce(c)
  \/ IngestBlock \/ IngestUncommitted
  \/ MergeDay \/ DropViews \/ CreateView \/ Backfill

StoreSpec == StoreInit /\ [][StoreNext]_storeVars

-----------------------------------------------------------------------------
(* Queries                                                                 *)

\* How much a bag holds of S: its elements are counted one by one.
Sum(bag, S) == Cardinality(UNION {{i} \X (1..bag[i]) : i \in S})
Of(kind, S) == {i \in S : sent[i].kind = kind}

\* Rows of some tenants stamped from start until before end.
Stamped(accounts, start, end) ==
  {i \in DOMAIN sent : sent[i].account \in accounts /\ sent[i].hour \in start..end - 1}

\* GROUP BY day, for the days that have rows.
ByDay(bag, S) ==
  LET rows == {i \in S : bag[i] > 0}
      on(d) == {i \in rows : DayOf(sent[i].hour) = d}
  IN  [d \in {DayOf(sent[i].hour) : i \in rows} |->
         [events |-> Sum(bag, on(d)),
          conversations |-> Sum(bag, Of("conversation_started", on(d))),
          resolutions |-> Sum(bag, Of("resolution", on(d))),
          escalations |-> Sum(bag, Of("escalation", on(d))),
          agent_responses |-> Sum(bag, Of("agent_response", on(d)))]]

\* The dashboard of one tenant, or of all: from the raw rows, and from a view,
\* whose days are those from the day of start until before the day of end.
Typed(accounts, start, end) == ByDay(raw, Stamped(accounts, start, end))
Mv(v, accounts, start, end) ==
  ByDay(views[v], Stamped(accounts, DayOf(start) * HoursPerDay, DayOf(end) * HoursPerDay))
Platform(start, end) == Mv("platform_daily", Accounts, start, end)

\* Agent responses by hour, and how many of them were slow.
ByHour(bag, S) ==
  LET rows == {i \in S : bag[i] > 0 /\ sent[i].kind = "agent_response"}
      at(h) == {i \in rows : sent[i].hour = h}
  IN  [h \in {sent[i].hour : i \in rows} |->
         [responses |-> Sum(bag, at(h)),
          slow_responses |-> Sum(bag, {i \in at(h) : sent[i].slow})]]

Rows(answer, column) == Sum([d \in DOMAIN answer |-> answer[d][column]], DOMAIN answer)

Window(from, until) == [from |-> from, until |-> until]

\* The window of hours ends with the next full hour, the window of days
\* tomorrow; it has one day more than was asked for.
HourWindow(hours) == Window(now + 1 - hours, now + 1)
DayWindow(days) ==
  LET end == DayOf(now) + 1
  IN  Window((end - (days + 1)) * HoursPerDay, end * HoursPerDay)

\* The slow responses of one tenant in a bag of rows.
Slow(bag, account, w) ==
  Sum(bag, {i \in Of("agent_response", Stamped({account}, w.from, w.until)) : sent[i].slow})

\* What the endpoints ask of the views, and of a bag of rows.
ConversationSummary(account, w) == Mv("conversation_daily", {account}, w.from, w.until)
HourlyRows(account, w) == ByHour(views["agent_hourly"], Stamped({account}, w.from, w.until))
IntentRows(bag, account, w) == ByDay(bag, Stamped({account}, w.from, w.until))

\* The endpoints: the summary by day, the responses by hour, those of all hours
\* with the slow ones among them, and the intents.
Summary(account, days) == ConversationSummary(account, DayWindow(days))
HourlyVolume(account, hours) == HourlyRows(account, HourWindow(hours))
AgentLatency(account, hours) ==
  LET rows == HourlyRows(account, HourWindow(hours))
  IN  [column \in {"responses", "slow_responses"} |-> Rows(rows, column)]
TopIntents(bag, account, days) == IntentRows(bag, account, HourWindow(days * HoursPerDay))

-----------------------------------------------------------------------------
(* Properties                                                              *)

StoreTypeOK ==
  /\ now \in HoursPerDay..MaxHour
  /\ committed \in 0..written /\ written \in 0..Len(sent)
  /\ raw \in [DOMAIN sent -> Nat]
  /\ views \in [Views -> [DOMAIN sent -> Nat]]
  /\ attached \subseteq Views /\ todo \in Seq(Views)
  /\ doubled \in [Views -> SUBSET (DOMAIN sent)]

Filled(v) == v \notin Range(todo)

\* Who has sent something: the answers to others are empty.
Tenants == {sent[i].account : i \in DOMAIN sent}

\* The committed rows that raw still has, each once, as after all merges.
Merged == [i \in DOMAIN sent |-> IF i <= committed /\ raw[i] > 0 THEN 1 ELSE 0]

\* Nothing happened to these rows but one insert.
Undisturbed(v, S) ==
  \A i \in S : i <= written => i <= committed /\ raw[i] > 0 /\ i \notin doubled[v]

\* An answer is short of none of the reference's counts, and if the rows were
\* not disturbed it is the same as another.
Follows(v, S, answer, reference, same) ==
  Filled(v) =>
    /\ \A g \in DOMAIN reference :
         g \in DOMAIN answer /\ \A c \in DOMAIN reference[g] : answer[g][c] >= reference[g][c]
    /\ Undisturbed(v, S) => answer = same

\* Over whole days the views answer what the raw rows do ("every variant
\* computes the same numbers"): never less than the committed rows that are
\* left, whatever was replayed, failed between two views or was rebuilt while
\* inserts went on, and exactly that for rows nothing happened to.
ViewsFollowRaw ==
  \A a \in Accounts, d \in {DayOf(sent[i].hour) : i \in DOMAIN sent} :
    LET start == d * HoursPerDay
        end == start + HoursPerDay
        own == Stamped({a}, start, end)
        all == Stamped(Accounts, start, end)
    IN  /\ Follows("conversation_daily", own, Mv("conversation_daily", {a}, start, end),
                   ByDay(Merged, own), Typed({a}, start, end))
        /\ Follows("platform_daily", all, Platform(start, end),
                   ByDay(Merged, all), Typed(Accounts, start, end))
        /\ Follows("agent_hourly", own, ByHour(views["agent_hourly"], own),
                   ByHour(Merged, own), ByHour(raw, own))

\* The longest lookback of the endpoint that reads raw rows does not meet their
\* TTL: every committed event of its window is still there. And the summary of
\* as many days shows at least the escalations it shows.
IntentsComplete ==
  \A a \in Tenants, days \in 1..MaxDays :
    LET w == HourWindow(days * HoursPerDay) IN
      /\ \A i \in Stamped({a}, w.from, w.until) : i <= committed => raw[i] > 0
      /\ Filled("conversation_daily") =>
           Rows(Summary(a, days), "escalations")
             >= Rows(TopIntents(Merged, a, days), "escalations")

\* The latency endpoint misses no slow response that the raw rows of its window
\* still show, whatever was replayed or rebuilt, and if nothing happened to them
\* it shows those, in no more responses than the summary of as many days has.
LatencyComplete ==
  Filled("agent_hourly") =>
    \A a \in Tenants, hours \in 1..MaxHours :
      LET w == HourWindow(hours)
          slow == AgentLatency(a, hours)["slow_responses"]
      IN  /\ slow >= Slow(Merged, a, w)
          /\ Undisturbed("agent_hourly", Stamped({a}, w.from, w.until)) =>
               /\ slow = Slow(raw, a, w)
               /\ \A days \in 1..MaxDays :
                    hours <= days * HoursPerDay /\ Filled("conversation_daily") =>
                      Rows(HourlyVolume(a, hours), "responses")
                        <= Rows(Summary(a, days), "agent_responses")

\* What the API answers is what happened: its views follow the raw rows whatever
\* inserts, merges, expiry and rebuilds came between, what it still counts from
\* raw rows is not cut short by their TTL, and its endpoints agree.
AnswersFollowRows == ViewsFollowRaw /\ IntentsComplete /\ LatencyComplete
=============================================================================
