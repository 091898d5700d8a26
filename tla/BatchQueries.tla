---------------------------- MODULE BatchQueries ----------------------------
(***************************************************************************)
(* The two queries behind the batch pages (server/src/db.rs, ActiveBatches *)
(* and Batch): what they make of the tables.  Both join the people of a    *)
(* batch with one envelope of each, by ROW_NUMBER() over date_created; the *)
(* index envelope_ssn keeps a person's dates apart, so there are no ties.  *)
(* A result is a function of its keys, batches or people.                  *)
(***************************************************************************)
EXTENDS EnvelopeTables

Envelopes(t, s) == {i \in DOMAIN t.envs : t.envs[i].ssn = s}

Later(t, i, k) == t.envs[i].date > t.envs[k].date

\* rn = 1 with ORDER BY date_created DESC, and with ORDER BY date_created.
Last(t, s) == t.envs[CHOOSE i \in Envelopes(t, s) : \A k \in Envelopes(t, s) : ~ Later(t, k, i)]

First(t, s) == t.envs[CHOOSE i \in Envelopes(t, s) : \A k \in Envelopes(t, s) : ~ Later(t, i, k)]

People(t, b) == {s \in Ssns : <<b, s>> \in t.relat}

\* Seeded fault: a row nobody has tried to send is left out.
ShownStarted(t, b) == {s \in People(t, b) : \E i \in Envelopes(t, s) : t.envs[i].status # None}

\* The join drops a person without an envelope.
Shown(t, b) == {s \in People(t, b) : Envelopes(t, s) # {}}

(***************************************************************************)
(* BatchSummary.  ignore_error is always 0 and created_account always NULL,*)
(* so `complete' counts nobody.  host_api_err is NULL, and a text as a     *)
(* condition is 0 unless it starts with a number: docusign_api_err never   *)
(* does, a void reason stands on voided rows only.  The status decides.    *)
(***************************************************************************)
Working(t, s) == Last(t, s).status \notin Terminal \cup {None}
Failed(t, s)  == Last(t, s).status \in {"declined", "voided", "cancelled"}

Summary(t, b) ==
  [total    |-> Cardinality(Shown(t, b)),
   working  |-> Cardinality({s \in Shown(t, b) : Working(t, s)}),
   complete |-> 0,
   err      |-> Cardinality({s \in Shown(t, b) : Failed(t, s)})]

\* A batch that joins with nobody has no row.
ActiveBatches(t) ==
  [b \in {x \in t.batches : Shown(t, x) # {}} |-> Summary(t, b)]

\* BatchDetail: the columns of an envelope that change.
Detail(e) == [status |-> e.status, reason |-> e.reason, apiErr |-> e.apiErr]

Batch(t, b) == [s \in Shown(t, b) |-> Detail(First(t, s))]
=============================================================================
