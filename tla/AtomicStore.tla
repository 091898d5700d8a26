----------------------------- MODULE AtomicStore -----------------------------
(***************************************************************************)
(* What db.rs promises the rest of the server: requests are served in the  *)
(* order they were accepted, each at once and entirely or not at all, and  *)
(* the answer says which.  How a NewBatch goes through its records is not  *)
(* visible here: DbRequests, with its transaction of many steps, implements*)
(* this specification.                                                     *)
(***************************************************************************)
EXTENDS EnvelopeTables

VARIABLES
  tables,    \* the committed tables
  pending,   \* requests accepted and not yet served, oldest first
  listening, \* clients that still wait for their answer
  answers    \* answers not yet taken

storeVars == <<tables, pending, listening, answers>>

SomeActive(t, s) == \E i \in DOMAIN t.envs : t.envs[i].ssn = s /\ IsActive(t.envs[i])

(* Everything of a new batch is there: the name, the people, and one fresh *)
(* row for each person, unless an envelope of theirs is under way already  *)
(* or was made in the same second.                                         *)
BatchStored(t, u, r) ==
  LET old == DOMAIN t.envs
      new == DOMAIN u.envs \ old
      people == Range(r.recs)
  IN /\ r.batch \notin t.batches
     /\ u.batches = t.batches \cup {r.batch}
     /\ u.accts = t.accts \cup people
     /\ u.relat = t.relat \cup ({r.batch} \X people)
     /\ u.pdfs = t.pdfs
     /\ \A i \in old : i \in DOMAIN u.envs /\ u.envs[i] = t.envs[i]
     /\ \A i \in new : /\ u.envs[i].ssn \in people
                       /\ ~ SomeActive(t, u.envs[i].ssn)
                       /\ u.envs[i] = NewRow(u.envs[i].ssn, u.envs[i].date)
     /\ \A i, j \in new : u.envs[i].ssn = u.envs[j].ssn => i = j
     /\ \A s \in people :
          \/ SomeActive(u, s)
          \/ \E i \in old : t.envs[i].ssn = s
                            /\ \A j \in old : t.envs[j].date <= t.envs[i].date

(* One row changes, in the columns the request names.                      *)
RowStored(t, u, r) ==
  \E i \in Targets(t, r) : LET e == Revised(t.envs[i], r) IN
    RowOK(t, i, e) /\ u = [t EXCEPT !.envs[i] = e]

\* A completed row and its document appear together.
CompletionStored(t, u, r) ==
  /\ r.gid \notin t.pdfs
  /\ \E i \in Targets(t, r) :
       /\ RowOK(t, i, [t.envs[i] EXCEPT !.status = r.status])
       /\ u = [t EXCEPT !.envs[i].status = r.status, !.pdfs = @ \cup {r.gid}]

Stored(t, u, r) ==
  \/ r.op = "NewBatch" /\ BatchStored(t, u, r)
  \/ r.op \in {"UpdateStatus", "UpdateStatusWithId"} /\ RowStored(t, u, r)
  \/ r.op = "CompleteEnvelope" /\ CompletionStored(t, u, r)

Serve ==
  /\ pending # << >>
  /\ pending' = Tail(pending)
  /\ LET r == Head(pending) IN
     \E res \in {"Ok", "Duplicate", "NoRecord", "DbError"} :
       /\ IF res = "Ok" THEN Stored(tables, tables', r) ELSE UNCHANGED tables
       /\ answers' = IF r.from \in listening
                       THEN answers \cup {[to |-> r.from, res |-> res]} ELSE answers
  /\ UNCHANGED listening

Accept ==
  /\ Len(pending') = Len(pending) + 1
  /\ SubSeq(pending', 1, Len(pending)) = pending
  /\ listening' = listening \cup ({pending'[Len(pending')].from} \ {None})
  /\ UNCHANGED <<tables, answers>>

\* An answer is taken, or its client stops listening.
Leave ==
  /\ \E c \in listening :
       /\ listening' = listening \ {c}
       /\ answers' = {a \in answers : a.to # c}
  /\ UNCHANGED <<tables, pending>>

\* What was not served is lost; what was served is not.
Restart ==
  /\ pending' = << >> /\ listening' = {} /\ answers' = {}
  /\ UNCHANGED tables

StoreInit ==
  /\ tables = EmptyTables /\ pending = << >> /\ listening = {} /\ answers = {}

StoreSpec == StoreInit /\ [][Serve \/ Accept \/ Leave \/ Restart]_storeVars
=============================================================================
