----------------------------- MODULE SaltedJoin -----------------------------
(***************************************************************************)
(* The salted equi-join of spark_applications/salted_join.py: every row of *)
(* the large side draws a salt, the small side is exploded to every salt,  *)
(* and the two are joined on the pair of key and salt.                     *)
(*                                                                         *)
(* A row is an identity with a key; a joined row is the pair of the rows   *)
(* it was built from, <<row, NoRow>> where a left join found no partner.   *)
(* The salted key is the pair of key and salt: the concatenation with "_"  *)
(* is injective, as the salt is a number without one. It is null, and      *)
(* equal to nothing, for a null key.                                       *)
(***************************************************************************)
EXTENDS Integers

CONSTANTS
  Rows,      \* identities of rows, of either side
  Keys,      \* join keys
  Null,      \* the null key
  NoRow,     \* no partner
  SaltRange  \* SALT_RANGE

ASSUME JoinAssumption ==
  /\ Null \notin Keys
  /\ NoRow \notin Rows
  /\ SaltRange \in Nat \ {0}

VARIABLES
  large,  \* the rows of the large side
  small,  \* the rows of the small side
  key,    \* key[r]: the join key of row r
  salt    \* salt[r]: what F.rand() drew for r, were it on the large side

joinVars == <<large, small, key, salt>>

Salts == 0..(SaltRange - 1)

JoinTypeOK ==
  /\ large \subseteq Rows
  /\ small \subseteq Rows
  /\ key \in [Rows -> Keys \cup {Null}]
  /\ salt \in [Rows -> Salts]

JoinInit ==
  /\ large = {}
  /\ small = {}
  /\ key \in [Rows -> Keys \cup {Null}]
  /\ salt \in [Rows -> Salts]

\* The two inputs, row by row.
AddLarge(r) == r \notin large /\ large' = large \cup {r} /\ UNCHANGED <<small, key, salt>>
AddSmall(r) == r \notin small /\ small' = small \cup {r} /\ UNCHANGED <<large, key, salt>>

JoinNext == \E r \in Rows : AddLarge(r) \/ AddSmall(r)

JoinSpec == JoinInit /\ [][JoinNext]_joinVars
-----------------------------------------------------------------------------
\* Variant: the last salt is missing from the explode.
ExplodedShort == {[row |-> s, salt |-> i] : s \in small, i \in 0..(SaltRange - 2)}

\* explode_for_salt: every row of the small side, once per salt.
Exploded == {[row |-> s, salt |-> i] : s \in small, i \in Salts}

\* The salted keys of l and of the exploded row x are equal.
SameSaltedKey(l, x) ==
  /\ key[l] # Null
  /\ key[x.row] = key[l]
  /\ x.salt = salt[l]

Partners(l) == {x \in Exploded : SameSaltedKey(l, x)}

\* salted_join, how = "inner" and how = "left", without the salt columns.
SaltedInner == {j \in large \X small : \E x \in Partners(j[1]) : x.row = j[2]}
SaltedLeft  == SaltedInner \cup {<<l, NoRow>> : l \in {r \in large : Partners(r) = {}}}
-----------------------------------------------------------------------------
(* What it stands for: large.join(small, on=key_col, how=how). *)

Matches(l, s) == key[l] # Null /\ key[s] = key[l]
Inner == {j \in large \X small : Matches(j[1], j[2])}
Left  == Inner \cup {<<l, NoRow>> : l \in {r \in large : \A s \in small : ~Matches(r, s)}}

\* "A drop-in for large.join(small, on=key_col, how=how)": the same rows, for
\* every draw of the salts.
DropIn ==
  /\ SaltedInner = Inner
  /\ SaltedLeft = Left

\* No row of the small side meets a row of the large one twice, though the
\* explode repeats it.
NoDuplicates ==
  \A l \in large : \A x, y \in Partners(l) : x.row = y.row => x = y
=============================================================================
