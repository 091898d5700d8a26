--------------------------- MODULE EnvelopeTables ---------------------------
(***************************************************************************)
(* The SQLite tables of server/src/schema.sql, the statements the writer   *)
(* thread of server/src/db.rs runs on them and the queries of its reader   *)
(* threads, as operators on one record of tables.                          *)
(*                                                                         *)
(* A row of `envelopes' keeps the columns the control flow looks at.       *)
(* void_reason and docusign_api_err are kept as "is it non-NULL".          *)
(* created_account and host_api_err are left out: the only statement that  *)
(* would set them, UpdateAcct, always fails (it binds :ssn, a parameter    *)
(* its SQL does not have), so both stay NULL.  end_date of a batch is      *)
(* never set either, which makes batch_name unique.                        *)
(***************************************************************************)
EXTENDS Naturals, Sequences, FiniteSets, Functions

CONSTANTS
  Batches,   \* batch names
  Ssns,      \* people
  MaxDate,   \* bound on the wall clock, in seconds
  None       \* SQL NULL, Rust's None

Terminal == {"completed", "declined", "voided", "cancelled"}

(* What docusign answers a create with, the two statuses the server writes *)
(* itself, and the last word of each event name the server subscribes to.  *)
Status == Terminal \cup
          {"sent", "resent", "delivered", "corrected", "purge", "deleted"}

ASSUME NoneAssumption ==
  /\ None \notin Nat
  /\ None \notin Status

ASSUME MaxDateAssumption == MaxDate \in Nat

Row == [ssn : Ssns, gid : Nat \cup {None}, status : Status \cup {None},
        reason : BOOLEAN, apiErr : BOOLEAN, date : 0 .. MaxDate]

Tables == [batches : SUBSET Batches, accts : SUBSET Ssns,
           relat : SUBSET (Batches \X Ssns), envs : Seq(Row),
           pdfs : SUBSET Nat]

EmptyTables == [batches |-> {}, accts |-> {}, relat |-> {}, envs |-> << >>,
                pdfs |-> {}]

(***************************************************************************)
(* The constraints on `envelopes'.                                         *)
(***************************************************************************)

\* Seeded fault: the index covers no row whose status is NULL.
IsActiveNotNull(e) == e.status \notin Terminal \cup {None}

\* envelopes_restrict_active covers the rows that are NULL or not terminal.
IsActive(e) == e.status \notin Terminal

\* Seeded fault: gid is not UNIQUE.
RowOKNoGidIndex(t, i, e) ==
  \A j \in DOMAIN t.envs \ {i} :
    IsActive(e) /\ t.envs[j].ssn = e.ssn => ~ IsActive(t.envs[j])

\* May row i of t become e?  gid's UNIQUE and the partial index look at every
\* other row, the foreign key of `pdf' at the documents filed under the old gid.
RowOK(t, i, e) ==
  /\ \A j \in DOMAIN t.envs \ {i} :
       /\ IsActive(e) /\ t.envs[j].ssn = e.ssn => ~ IsActive(t.envs[j])
       /\ e.gid # None => t.envs[j].gid # e.gid
  /\ t.envs[i].gid \in t.pdfs => e.gid = t.envs[i].gid

(***************************************************************************)
(* NewBatch, one record: three INSERTs, each of which may hit a duplicate  *)
(* that is counted and otherwise ignored.                                  *)
(***************************************************************************)

NewRow(s, d) == [ssn |-> s, gid |-> None, status |-> None,
                 reason |-> FALSE, apiErr |-> FALSE, date |-> d]

\* strftime('%s','now'): never before a date already stored.
Clock(t) == {d \in 0 .. MaxDate : \A i \in DOMAIN t.envs : t.envs[i].date <= d}

\* envelopes_restrict_active or envelope_ssn refuses a row for s at second d.
DupEnvelope(t, s, d) ==
  \E i \in DOMAIN t.envs : /\ t.envs[i].ssn = s
                           /\ IsActive(t.envs[i]) \/ t.envs[i].date = d

InsertRecord(t, b, s, d) ==
  [t EXCEPT !.accts = @ \cup {s},
            !.relat = @ \cup {<<b, s>>},
            !.envs  = IF DupEnvelope(t, s, d) THEN @ ELSE Append(@, NewRow(s, d))]

\* Seeded fault: a known account is not counted.
DuplicatesNewOnly(t, b, s, d) ==
  (IF <<b, s>> \in t.relat THEN 1 ELSE 0) + (IF DupEnvelope(t, s, d) THEN 1 ELSE 0)

Duplicates(t, b, s, d) ==
  (IF s \in t.accts THEN 1 ELSE 0) + (IF <<b, s>> \in t.relat THEN 1 ELSE 0)
    + (IF DupEnvelope(t, s, d) THEN 1 ELSE 0)

(***************************************************************************)
(* UpdateStatus and UpdateStatusWithId: one UPDATE, which overwrites the   *)
(* status, the void reason and the API error together.                     *)
(***************************************************************************)

Targets(t, r) ==
  {i \in DOMAIN t.envs : IF r.op = "UpdateStatusWithId" THEN i = r.id
                                                        ELSE t.envs[i].gid = r.gid}

\* Seeded faults: the void reason is kept when there is no new one; the
\* envelope id is not written.
RevisedKeepsReason(e, r) ==
  [e EXCEPT !.status = r.status, !.reason = @ \/ r.reason, !.apiErr = r.apiErr,
            !.gid = IF r.op = "UpdateStatusWithId" THEN r.gid ELSE @]

RevisedWithoutId(e, r) ==
  [e EXCEPT !.status = r.status, !.reason = r.reason, !.apiErr = r.apiErr]

Revised(e, r) ==
  [e EXCEPT !.status = r.status, !.reason = r.reason, !.apiErr = r.apiErr,
            !.gid = IF r.op = "UpdateStatusWithId" THEN r.gid ELSE @]

(***************************************************************************)
(* The two work lists.                                                     *)
(***************************************************************************)

\* ReadAction::NewEnvelopes
Unsent(t) == {i \in DOMAIN t.envs : t.envs[i].gid = None /\ t.envs[i].status = None}

\* ReadAction::UnprocessedEnvelopes, with created_account and host_api_err NULL.
Unprocessed(t) ==
  {i \in DOMAIN t.envs : \/ t.envs[i].status = "voided" /\ ~ t.envs[i].reason
                         \/ t.envs[i].status = "completed" /\ t.envs[i].apiErr}
=============================================================================
