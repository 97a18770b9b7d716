------------------------- MODULE ServerlessPipeline -------------------------
(***************************************************************************)
(* The AWS pipeline (aws_deployment): objects landed in S3 are announced   *)
(* to a Lambda, which starts an execution of the state machine for each:   *)
(* encoding check, crawl, Glue ETL, crawl again, count in Athena           *)
(* (lambda/, glue/etl_job.py, cloudformation/main.yaml).                   *)
(*                                                                         *)
(* Executions overlap.  They share one crawler, which refuses to start     *)
(* while it runs, and the Glue job, of which MaxConcurrentRuns run at a    *)
(* time.  An announcement may be delivered twice or name two objects; a    *)
(* call may fail for once; a failed invocation is repeated twice.          *)
(***************************************************************************)
EXTENDS Integers, Sequences, FiniteSets

CONSTANTS
  Keys,               \* objects: one of each partition
  MaxConcurrentRuns,  \* of the Glue job: 1
  MaxStartAttempts,   \* of a start the state machine retries: 10 and 20
  MaxLandings,        \* bound
  MaxCallFaults       \* bound: calls that fail, deliveries that are repeated

ASSUME RunsAssumption ==
  /\ MaxConcurrentRuns \in Nat \ {0} /\ MaxStartAttempts \in Nat \ {0}
  /\ MaxLandings \in Nat

VARIABLES
  landed,      \* the landings, in order: key and content
  announced,   \* number of them that an invocation was made for
  invocations, \* the records, the next of them, and the attempts left
  execution,   \* execution[l]: << >>, or of landing l, its state
  crawler,     \* << >>, or the partitions that the crawl under way will catalog
  cataloged,   \* keys the processed table has in the catalog
  processed,   \* processed[k]: the landing whose rows the partition has, or last had
  emptiedBy,   \* emptiedBy[k]: 0, or the execution whose run removed the files of the
               \* partition and has put no new one there
  overlaps,    \* TRUE once a landing came while another's was under way (history)
  callFaults

awsVars == <<landed, announced, invocations, execution, crawler, cataloged, processed,
             emptiedBy, overlaps, callFaults>>

Landings == 1..MaxLandings
Contents == {"rows", "binary", "corrupt"}
Attempts == 3  \* of an asynchronous invocation
Ended == {"done", "failed"}

Newest(k) == CHOOSE l \in DOMAIN landed :
               /\ landed[l].key = k
               /\ \A m \in DOMAIN landed : landed[m].key = k => m <= l

Started == {l \in Landings : execution[l] # << >>}
At(l) == execution[l][1].at
Move(l, state) ==
  execution' = [execution EXCEPT
    ![l] = <<[@[1] EXCEPT !.at = state, !.attempts = MaxStartAttempts]>>]
Running == {l \in Started : At(l) \in {"read", "write", "land"}}

AwsInit ==
  /\ landed = << >> /\ announced = 0 /\ invocations = {}
  /\ execution = [l \in Landings |-> << >>]
  /\ crawler = << >> /\ cataloged = {}
  /\ processed = [k \in Keys |-> 0] /\ emptiedBy = [k \in Keys |-> 0]
  /\ overlaps = FALSE /\ callFaults = 0

-----------------------------------------------------------------------------
(* The trigger                                                             *)

UnderWay == announced < Len(landed) \/ invocations # {}
            \/ \E l \in Started : At(l) \notin Ended

Put(k, content) ==
  /\ Len(landed) < MaxLandings
  /\ landed' = Append(landed, [key |-> k, content |-> content])
  /\ overlaps' = (overlaps \/ UnderWay)
  /\ UNCHANGED <<announced, invocations, execution, crawler, cataloged, processed,
                 emptiedBy, callFaults>>

\* S3 invokes the Lambda with the next landing, or the next two.
Announce(n) ==
  /\ n > 0 /\ announced + n <= Len(landed)
  /\ invocations' = invocations \cup
       {[records |-> [i \in 1..n |-> announced + i], next |-> 1, left |-> Attempts]}
  /\ announced' = announced + n
  /\ UNCHANGED <<landed, execution, crawler, cataloged, processed, emptiedBy, overlaps,
                 callFaults>>

\* And may do so again.
AnnounceAgain(l) ==
  /\ callFaults < MaxCallFaults /\ l <= announced
  /\ invocations' = invocations \cup {[records |-> <<l>>, next |-> 1, left |-> Attempts]}
  /\ callFaults' = callFaults + 1
  /\ UNCHANGED <<landed, announced, execution, crawler, cataloged, processed, emptiedBy,
                 overlaps>>

\* An invocation that raises is made again with all its records.
Raise(i) ==
  invocations' = (invocations \ {i}) \cup
    IF i.left > 1 THEN {[i EXCEPT !.next = 1, !.left = @ - 1]} ELSE {}

Proceed(i) ==
  invocations' = (invocations \ {i}) \cup
    IF i.next < Len(i.records) THEN {[i EXCEPT !.next = @ + 1]} ELSE {}

\* lambda_handler, for one record. The execution's name is the landing's: the
\* start has no effect while that execution runs, and raises once it has ended.
StartExecution(i) ==
  /\ i \in invocations
  /\ LET l == i.records[i.next]
     IN  IF execution[l] = << >>
         THEN /\ execution' = [execution EXCEPT
                   ![l] = <<[at |-> "check", attempts |-> MaxStartAttempts, reads |-> 0,
                             reran |-> FALSE, counted |-> 0, emptied |-> 0]>>]
              /\ Proceed(i)
         ELSE /\ UNCHANGED execution
              /\ IF At(l) \in Ended THEN Raise(i) ELSE Proceed(i)
  /\ UNCHANGED <<landed, announced, crawler, cataloged, processed, emptiedBy, overlaps,
                 callFaults>>

StartThrottled(i) ==
  /\ i \in invocations
  /\ callFaults < MaxCallFaults /\ callFaults' = callFaults + 1
  /\ Raise(i)
  /\ UNCHANGED <<landed, announced, execution, crawler, cataloged, processed, emptiedBy,
                 overlaps>>

-----------------------------------------------------------------------------
(* The state machine                                                       *)

NotCalling == UNCHANGED <<landed, announced, invocations, overlaps, callFaults>>

\* check_encoding reads the object as it is by then.
CheckEncoding(l) ==
  /\ l \in Started /\ At(l) = "check"
  /\ Move(l, IF landed[Newest(landed[l].key)].content = "binary" THEN "failed" ELSE "crawl")
  /\ UNCHANGED <<crawler, cataloged, processed, emptiedBy>> /\ NotCalling

\* A crawl lists the processed partitions that have files when it starts.
Crawl == crawler' = <<{k \in Keys : processed[k] # 0 /\ emptiedBy[k] = 0}>>

\* RunGlueCrawler: a running crawler fails the execution.
RunGlueCrawler(l) ==
  /\ l \in Started /\ At(l) = "crawl"
  /\ IF crawler = << >> THEN Crawl /\ Move(l, "crawling")
     ELSE Move(l, "failed") /\ UNCHANGED crawler
  /\ UNCHANGED <<cataloged, processed, emptiedBy>> /\ NotCalling

CrawlEnds ==
  /\ crawler # << >>
  /\ cataloged' = cataloged \cup crawler[1]
  /\ crawler' = << >>
  /\ UNCHANGED <<execution, processed, emptiedBy>> /\ NotCalling

\* Variant of CrawlerReady: one look, without the wait.
CrawlerAssumed(l) ==
  /\ l \in Started /\ At(l) \in {"crawling", "recrawling"}
  /\ Move(l, IF At(l) = "crawling" THEN "queued" ELSE "verify")
  /\ UNCHANGED <<crawler, cataloged, processed, emptiedBy>> /\ NotCalling

\* WaitForCrawler and IsCrawlerDone, after either crawl: whoever's it is.
CrawlerReady(l) ==
  /\ l \in Started /\ At(l) \in {"crawling", "recrawling"} /\ crawler = << >>
  /\ Move(l, IF At(l) = "crawling" THEN "queued" ELSE "verify")
  /\ UNCHANGED <<crawler, cataloged, processed, emptiedBy>> /\ NotCalling

\* A start that is refused is tried again, as often as the state machine says.
Refused(l) ==
  IF execution[l][1].attempts > 0
  THEN execution' = [execution EXCEPT ![l][1].attempts = @ - 1]
  ELSE Move(l, "failed")

\* Variant of RunGlueETL: the job has no limit.
RunUnlimited(l) ==
  /\ l \in Started /\ At(l) = "queued"
  /\ Move(l, "read")
  /\ UNCHANGED <<crawler, cataloged, processed, emptiedBy>> /\ NotCalling

RunGlueETL(l) ==
  /\ l \in Started /\ At(l) = "queued"
  /\ IF Cardinality(Running) < MaxConcurrentRuns THEN Move(l, "read") ELSE Refused(l)
  /\ UNCHANGED <<crawler, cataloged, processed, emptiedBy>> /\ NotCalling

\* read_raw: the object as it is by then.
ReadRaw(l) ==
  /\ l \in Started /\ At(l) = "read"
  /\ execution' = [execution EXCEPT
       ![l] = <<[@[1] EXCEPT !.at = "write", !.reads = Newest(landed[l].key)]>>]
  /\ UNCHANGED <<crawler, cataloged, processed, emptiedBy>> /\ NotCalling

\* write_partitioned: the files of each partition the rows are in are removed
\* before the new one lands. Without a valid row there is no such partition.
RemoveFiles(l) ==
  /\ l \in Started /\ At(l) = "write"
  /\ IF landed[execution[l][1].reads].content = "rows"
     THEN Move(l, "land") /\ emptiedBy' = [emptiedBy EXCEPT ![landed[l].key] = l]
     ELSE Move(l, "recrawl") /\ UNCHANGED emptiedBy
  /\ UNCHANGED <<crawler, cataloged, processed>> /\ NotCalling

Land(l) ==
  /\ processed' = [processed EXCEPT ![landed[l].key] = execution[l][1].reads]
  /\ emptiedBy' = [emptiedBy EXCEPT ![landed[l].key] = 0]

LandFiles(l) ==
  /\ l \in Started /\ At(l) = "land"
  /\ Land(l) /\ Move(l, "recrawl")
  /\ UNCHANGED <<crawler, cataloged>> /\ NotCalling

\* The run dies: before it removes files, with the partition empty, or after the
\* new file landed. Glue runs the job once more.
GlueRunFails(l) ==
  /\ l \in Running
  /\ callFaults < MaxCallFaults /\ callFaults' = callFaults + 1
  /\ \/ UNCHANGED <<processed, emptiedBy>>
     \/ At(l) = "land" /\ Land(l)
  /\ execution' = [execution EXCEPT
       ![l] = <<[@[1] EXCEPT !.at = IF execution[l][1].reran THEN "failed" ELSE "read",
                             !.reran = TRUE]>>]
  /\ UNCHANGED <<landed, announced, invocations, crawler, cataloged, overlaps>>

\* The execution's recrawl begins; whose run had emptied the partition it is about
\* is remembered (history).
Recrawls(l) ==
  execution' = [execution EXCEPT
    ![l] = <<[@[1] EXCEPT !.at = "recrawling", !.emptied = emptiedBy[landed[l].key]]>>]

\* Variant of RecrawlProcessed: a crawl that is under way will do.
RecrawlShared(l) ==
  /\ l \in Started /\ At(l) = "recrawl"
  /\ Recrawls(l)
  /\ IF crawler = << >> THEN Crawl ELSE UNCHANGED crawler
  /\ UNCHANGED <<cataloged, processed, emptiedBy>> /\ NotCalling

RecrawlProcessed(l) ==
  /\ l \in Started /\ At(l) = "recrawl"
  /\ IF crawler = << >> THEN Crawl /\ Recrawls(l)
     ELSE Refused(l) /\ UNCHANGED crawler
  /\ UNCHANGED <<cataloged, processed, emptiedBy>> /\ NotCalling

\* athena_lineage: the count of the landed partition, when it is cataloged and has
\* files.
VerifyInAthena(l) ==
  /\ l \in Started /\ At(l) = "verify"
  /\ LET k == landed[l].key
         there == k \in cataloged /\ emptiedBy[k] = 0
     IN  execution' = [execution EXCEPT
           ![l] = <<[@[1] EXCEPT !.at = "done",
                                 !.counted = IF there THEN processed[k] ELSE 0,
                                 !.emptied = IF emptiedBy[k] # 0 THEN emptiedBy[k]
                                               ELSE execution[l][1].emptied]>>]
  /\ UNCHANGED <<crawler, cataloged, processed, emptiedBy>> /\ NotCalling

AthenaFails(l) ==
  /\ l \in Started /\ At(l) = "verify"
  /\ callFaults < MaxCallFaults /\ callFaults' = callFaults + 1
  /\ Move(l, "failed")
  /\ UNCHANGED <<landed, announced, invocations, crawler, cataloged, processed, emptiedBy,
                 overlaps>>

AwsNext ==
  \/ \E k \in Keys, content \in Contents : Put(k, content)
  \/ \E n \in 1..2 : Announce(n)
  \/ \E l \in Landings : AnnounceAgain(l)
  \/ \E i \in invocations : StartExecution(i) \/ StartThrottled(i)
  \/ CrawlEnds
  \/ \E l \in Landings :
       \/ CheckEncoding(l) \/ RunGlueCrawler(l) \/ CrawlerReady(l)
       \/ RunGlueETL(l) \/ ReadRaw(l) \/ RemoveFiles(l) \/ LandFiles(l)
       \/ GlueRunFails(l)
       \/ RecrawlProcessed(l) \/ VerifyInAthena(l) \/ AthenaFails(l)

AwsSpec == AwsInit /\ [][AwsNext]_awsVars

-----------------------------------------------------------------------------
(* Properties                                                              *)

\* A partition is never given the rows of an earlier landing of its object than
\* those it has, or last had, whatever executions, repeated runs, runs that die
\* with its files removed, and landings come between.
ProcessedNeverBack == [][\A k \in Keys : processed'[k] >= processed[k]]_awsVars

\* The count an execution reports is over a cataloged partition with the rows
\* its own ETL run read, or newer ones, although the crawler is shared. Only
\* another execution's run may keep it from that: one that had removed the files
\* of the partition, and was under way or had died, when the recrawl listed it or
\* Athena counted. Then the count is none, never one of older rows.
CountsWhatItWrote ==
  \A l \in Started :
    LET e == execution[l][1]
    IN  At(l) = "done" /\ landed[e.reads].content = "rows" =>
          e.counted >= e.reads \/ (e.counted = 0 /\ e.emptied \notin {0, l})

\* When every landing came after the one before was through, and no call
\* failed, the newest rows of every object are in the table and cataloged.
LandedAloneIsProcessed ==
  ~overlaps /\ callFaults = 0 /\ ~UnderWay =>
    \A k \in {landed[l].key : l \in DOMAIN landed} :
      landed[Newest(k)].content = "rows" =>
        processed[k] = Newest(k) /\ emptiedBy[k] = 0 /\ k \in cataloged
=============================================================================
