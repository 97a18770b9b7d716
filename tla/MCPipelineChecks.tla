-------------------------- MODULE MCPipelineChecks --------------------------
(***************************************************************************)
(* One instance for TLC of the hourly pipeline and of what is made of its  *)
(* table: the three judgements of a batch's row counts (VolumeGates), the  *)
(* salted join (SaltedJoin) and the analyses of the impressions            *)
(* (ImpressionAnalyses), each over inputs of its own while the others'     *)
(* stay put.                                                               *)
(***************************************************************************)
EXTENDS MCHourlyPipeline, VolumeGates, SaltedJoin, ImpressionAnalyses, TLC

CONSTANTS r1, r2, r3

VARIABLE subject  \* whose behaviour it is: "hours", "gates", "join", and of the last
                  \* "loads" into any store or "copies" of Postgres

KeySymmetry == Permutations(Keys)

NoBatch == read = 0 /\ bad = 0 /\ days = << >>

NoJoin ==
  /\ large = {} /\ small = {}
  /\ key = [r \in Rows |-> Null]
  /\ salt = [r \in Rows |-> 0]

Slice(p, d, h) == [page |-> p, date |-> d, hour |-> h]
Impression(s, u, minute, second, depth) ==
  [user |-> u, page |-> s.page, date |-> s.date, hour |-> s.hour,
   minute |-> minute, second |-> second, depth |-> depth]

\* What fetches bring: users of one slice and of several, every depth, a user
\* who sees two pages equally often, and a page's eight impressions of two
\* hours whose mean depth lies half-way between two hundredths.
MCFetches ==
  LET s1 == Slice(1, "day", 1)  s2 == Slice(2, "day", 1)  s3 == Slice(1, "day", 2)
      s4 == Slice(2, "NOPE", 1)  s5 == Slice(1, "0231", 1)
  IN  (s1 :> {{Impression(s1, 1, 0, 54, 6), Impression(s1, 1, 1, 3, 2), Impression(s1, 2, 0, 0, 1)},
              {Impression(s1, 1, m, 7, IF m = 0 THEN 3 ELSE 2) : m \in 0..3}})
      @@ (s2 :> {{Impression(s2, 1, 0, 0, 4), Impression(s2, 1, 5, 9, 5)}})
      @@ (s3 :> {{Impression(s3, 1, m, 0, 2) : m \in 0..3}})
      @@ (s4 :> {{Impression(s4, 2, 9, 1, 5)}})
      @@ (s5 :> {{Impression(s5, 3, 9, 1, 1)}})

NoStore ==
  /\ store = "polars" /\ table = EmptyBag /\ doomed = EmptyBag /\ loads = << >>
  /\ loaded = [s \in Slices |-> {}] /\ settled = [s \in Slices |-> TRUE]
  /\ gold = << >>
  /\ copies = [c \in {"lake", "cluster"} |-> [rows |-> EmptyBag, of |-> << >>]]

MCInit ==
  /\ Init
  /\ \/ subject = "hours" /\ NoBatch /\ NoJoin /\ NoStore
     \/ subject = "gates" /\ BatchInit /\ NoJoin /\ NoStore
     \/ subject = "join" /\ JoinInit /\ NoBatch /\ NoStore
     \/ subject = "loads" /\ StoresInit /\ NoBatch /\ NoJoin
     \/ subject = "copies" /\ StoresInit /\ store = "postgres" /\ NoBatch /\ NoJoin

HoursStep == subject = "hours" /\ Next /\ UNCHANGED <<batch, joinVars, stores, subject>>
GatesStep == subject = "gates" /\ EarlierDay /\ UNCHANGED <<vars, joinVars, stores, subject>>
JoinStep == subject = "join" /\ JoinNext /\ UNCHANGED <<vars, batch, stores, subject>>
\* The last load comes when the two before it, which may overlap, are over.
LoadStep ==
  /\ subject \in {"loads", "copies"}
  /\ StoresNext
  /\ subject = "loads" => gold' = gold /\ copies' = copies
  /\ Len(loads') > Len(loads) /\ Len(loads') = MaxLoads => \A n \in DOMAIN loads : ~Active(n)
  /\ subject = "copies" => Len(loads') < MaxLoads
  /\ UNCHANGED <<vars, batch, joinVars, subject>>

MCNext == HoursStep \/ GatesStep \/ JoinStep \/ LoadStep

MCSpec == MCInit /\ [][MCNext]_<<subject, vars, batch, joinVars, stores>>
=============================================================================
