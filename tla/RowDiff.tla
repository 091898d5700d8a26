------------------------------- MODULE RowDiff -------------------------------
(***************************************************************************)
(* diff of server/src/create_server/websocket_handler.rs: one pass over    *)
(* the old and the new vector of rows, both ascending by key, that sorts   *)
(* the rows into added, modified and deleted ones.  A row is a pair of its *)
(* key and the rest of it.  old_curr and new_curr are the rows at          *)
(* positions i and j, None past the end.                                   *)
(***************************************************************************)
EXTENDS LiveViews, Sequences, Functions

CONSTANT Vectors   \* results a query may return

Ascending(s) == \A m, n \in DOMAIN s : m < n => s[m][1] < s[n][1]

ASSUME KeysAssumption    == Keys \subseteq Nat
ASSUME VectorsAssumption == \A s \in Vectors : s \in Seq(Keys \X Values) /\ Ascending(s)

VARIABLES old, new, i, j, diff

diffVars == <<old, new, i, j, diff>>

DiffTypeOK ==
  /\ old \in Vectors /\ new \in Vectors
  /\ i \in 1 .. Len(old) + 1
  /\ j \in 1 .. Len(new) + 1
  /\ diff \in [modify : Seq(Keys \X Values), add : Seq(Keys \X Values), delete : Seq(Keys)]

DiffInit ==
  /\ old \in Vectors /\ new \in Vectors
  /\ i = 1 /\ j = 1
  /\ diff = [modify |-> << >>, add |-> << >>, delete |-> << >>]

MoreOld == i <= Len(old)
MoreNew == j <= Len(new)

\* Seeded fault: a deletion takes the next new row along.
DeletedSkips ==
  /\ MoreOld
  /\ MoreNew => old[i][1] < new[j][1]
  /\ diff' = [diff EXCEPT !.delete = Append(@, old[i][1])]
  /\ i' = i + 1
  /\ j' = IF MoreNew THEN j + 1 ELSE j
  /\ UNCHANGED <<old, new>>

Deleted ==
  /\ MoreOld
  /\ MoreNew => old[i][1] < new[j][1]
  /\ diff' = [diff EXCEPT !.delete = Append(@, old[i][1])]
  /\ i' = i + 1
  /\ UNCHANGED <<old, new, j>>

Added ==
  /\ MoreNew
  /\ MoreOld => old[i][1] > new[j][1]
  /\ diff' = [diff EXCEPT !.add = Append(@, new[j])]
  /\ j' = j + 1
  /\ UNCHANGED <<old, new, i>>

SameKey ==
  /\ MoreOld /\ MoreNew
  /\ old[i][1] = new[j][1]
  /\ diff' = IF old[i] # new[j] THEN [diff EXCEPT !.modify = Append(@, new[j])] ELSE diff
  /\ i' = i + 1
  /\ j' = j + 1
  /\ UNCHANGED <<old, new>>

Finished == ~ MoreOld /\ ~ MoreNew

Returned == Finished /\ UNCHANGED diffVars

DiffNext == Deleted \/ Added \/ SameKey \/ Returned

DiffSpec == DiffInit /\ [][DiffNext]_diffVars

-----------------------------------------------------------------------------
(* Properties.                                                             *)

ViewOf(s) == [k \in {p[1] : p \in Range(s)} |-> (CHOOSE p \in Range(s) : p[1] = k)[2]]

AsChanges(d) == [add |-> Range(d.add), modify |-> Range(d.modify), delete |-> Range(d.delete)]

(* At every turn of the loop the vectors hold the changes between what has *)
(* been passed of the old rows and of the new ones, and no key passed on   *)
(* one side is still to come on the other.                                 *)
LoopInvariant ==
  LET passedOld == SubSeq(old, 1, i - 1)
      passedNew == SubSeq(new, 1, j - 1)
  IN /\ DiffTypeOK
     /\ AsChanges(diff) = DiffOf(ViewOf(passedNew), ViewOf(passedOld))
     /\ \A m \in 1 .. (i - 1), n \in j .. Len(new) : old[m][1] < new[n][1]
     /\ \A m \in i .. Len(old), n \in 1 .. (j - 1) : new[n][1] < old[m][1]

(* The page that applies the finished message shows exactly the new result,*)
(* and there is a message only when something changed.                     *)
DiffIsRight ==
  Finished =>
    /\ Applied(ViewOf(old), AsChanges(diff)) = ViewOf(new)
    /\ AsChanges(diff) = NoChange <=> old = new
=============================================================================
