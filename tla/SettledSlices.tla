--------------------------- MODULE SettledSlices ----------------------------
(***************************************************************************)
(* What the landing promises a consumer that waits for the completed       *)
(* status of a slice before it reads: while the slice is settled, the raw  *)
(* file, the manifest and the partition it finds agree and do not change.  *)
(***************************************************************************)
EXTENDS Integers

CONSTANTS Slices, Payloads, None, ValidRows

VARIABLE view  \* view[s]: None, or what a consumer of the settled slice reads

\* The artefacts of payload p; the partition of an empty batch is whatever it
\* was.
Agreeing ==
  {v \in [raw : Payloads, sha : Payloads, rows : Payloads,
          table : Payloads \cup {None}] :
     /\ v.sha = v.raw
     /\ v.rows = v.raw
     /\ ValidRows[v.raw] > 0 => v.table = v.raw}

Init == view = [s \in Slices |-> None]

\* A run settles the slice, on all artefacts at once.
Settle(s) ==
  /\ view[s] = None
  /\ \E v \in Agreeing : view' = [view EXCEPT ![s] = v]

\* A new run takes the slice, before it touches any artefact.
Unsettle(s) ==
  /\ view[s] # None
  /\ view' = [view EXCEPT ![s] = None]

Next == \E s \in Slices : Settle(s) \/ Unsettle(s)

Spec == Init /\ [][Next]_view
=============================================================================
