------------------------------ MODULE LiveViews ------------------------------
(***************************************************************************)
(* What a live query shows and how it changes.  The rows of a query's      *)
(* result have unique keys, so a result is a function from the keys present*)
(* to the rest of the row; changes travel as a record of added, modified   *)
(* and deleted rows (websocket_handler.rs, struct Diff).                   *)
(***************************************************************************)
EXTENDS Naturals

CONSTANTS Keys, Values

View == UNION {[K -> Values] : K \in SUBSET Keys}

Changes == [add : SUBSET (Keys \X Values), modify : SUBSET (Keys \X Values),
            delete : SUBSET Keys]

NoChange == [add |-> {}, modify |-> {}, delete |-> {}]

\* The changes from old to new.  RowDiff shows that the code's merge of two
\* ascending vectors computes this.
DiffOf(new, old) ==
  [add    |-> {<<k, new[k]>> : k \in DOMAIN new \ DOMAIN old},
   modify |-> {<<k, new[k]>> : k \in {x \in DOMAIN new \cap DOMAIN old : new[x] # old[x]}},
   delete |-> DOMAIN old \ DOMAIN new]

\* What the page in the browser does with a message of changes.
Applied(v, d) ==
  LET put == d.add \cup d.modify
      set == {p[1] : p \in put}
  IN [k \in (DOMAIN v \ d.delete) \cup set |->
        IF k \in set THEN (CHOOSE p \in put : p[1] = k)[2] ELSE v[k]]
=============================================================================
