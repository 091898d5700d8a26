----------------------------- MODULE DbRequests -----------------------------
(***************************************************************************)
(* The database writer under any clients: every kind of WriteAction        *)
(* (server/src/db.rs), with any contents, from clients that may stop       *)
(* waiting at any time, with failing statements and crashes.               *)
(***************************************************************************)
EXTENDS DbWriter, BatchQueries

CONSTANTS
  Clients,      \* tasks that send requests
  Lists,        \* record lists of a NewBatch
  Ids, Gids,    \* row ids and envelope ids in requests
  Statuses,     \* statuses in requests
  MaxRequests   \* bound on requests

ASSUME ClientsAssumption == Clients \cap {None} = {}
ASSUME ListsAssumption   == Lists \subseteq Seq(Ssns)
ASSUME RequestsAssumption ==
  Ids \subseteq Nat /\ Gids \subseteq Nat /\ Statuses \subseteq Status
ASSUME NoTxnAssumption == None \notin Txn(Clients)

VARIABLE sent   \* requests so far

dbVars == <<writerVars, sent>>

Requests(c) ==
  [op : {"NewBatch"}, batch : Batches, recs : Lists, from : {c}]
  \cup [op : {"UpdateStatus"}, gid : Gids, status : Statuses,
        reason : BOOLEAN, apiErr : {FALSE}, from : {c}]
  \cup [op : {"UpdateStatusWithId"}, id : Ids, gid : Gids \cup {None},
        status : Statuses, reason : {FALSE}, apiErr : {FALSE}, from : {c}]
  \cup [op : {"CompleteEnvelope"}, gid : Gids, status : Statuses, from : {c}]
  \cup [op : {"UpdateAcct"}, from : {c}]

DbInit == WriterInit /\ sent = 0

\* A client sends one request at a time, on an answer channel of its own.
Send(c) ==
  /\ sent < MaxRequests
  /\ c \notin awaiting
  /\ \A n \in DOMAIN wq : wq[n].from # c
  /\ txn # None => txn.req.from # c
  /\ \E r \in Requests(c) : Submit(r)
  /\ sent' = sent + 1

Receive(c) == (\E a \in replies : a.to = c /\ TakeReply(a)) /\ UNCHANGED sent

GiveUp(c) ==
  /\ c \in awaiting
  /\ faults < MaxFaults
  /\ faults' = faults + 1
  /\ Abandon({c})
  /\ UNCHANGED <<tables, wq, txn, sent>>

AllServed ==
  /\ sent = MaxRequests /\ wq = << >> /\ txn = None /\ awaiting = {}
  /\ UNCHANGED dbVars

DbNext ==
  \/ \E c \in Clients : Send(c) \/ Receive(c) \/ GiveUp(c)
  \/ WriterStep /\ UNCHANGED sent
  \/ (CompleteRow \/ AcctFails) /\ UNCHANGED sent
  \/ WriteFails /\ UNCHANGED sent
  \/ WriterCrash /\ UNCHANGED sent
  \/ AllServed

DbSpec == DbInit /\ [][DbNext]_dbVars

-----------------------------------------------------------------------------
(* Properties.                                                             *)

(* What the indexes and foreign keys are for, in every committed state: one*)
(* active row per person, one row per person and second, unique envelope   *)
(* ids, a document only for a row that has its id, a row only for a known  *)
(* person.                                                                 *)
TablesConsistent ==
  /\ \A i \in DOMAIN tables.envs :
       /\ RowOK(tables, i, tables.envs[i])
       /\ tables.envs[i].ssn \in tables.accts
       /\ \A j \in DOMAIN tables.envs \ {i} :
            tables.envs[i].ssn = tables.envs[j].ssn =>
              tables.envs[i].date # tables.envs[j].date
  /\ \A g \in tables.pdfs : \E i \in DOMAIN tables.envs : tables.envs[i].gid = g
  /\ \A r \in tables.relat : r[1] \in tables.batches /\ r[2] \in tables.accts

(* The writer implements AtomicStore: a transaction's INSERTs show only    *)
(* when it commits, an answer other than Ok left the tables alone, and no  *)
(* request overtakes another.                                              *)
Store == INSTANCE AtomicStore WITH
  pending   <- IF txn = None THEN wq ELSE <<txn.req>> \o wq,
  listening <- awaiting,
  answers   <- {[to |-> a.to, res |-> a.res] : a \in replies}

ImplementsStore == Store!StoreSpec

(* Every person of every batch is on the pages, in every committed state:  *)
(* no record whose envelope row was refused drops out of the joins.  The   *)
(* overview lists each batch with people, counts all of them, and sorts    *)
(* those not unsent and not completed into working and err.                *)
EveryoneIsShown ==
  \A b \in tables.batches : People(tables, b) # {} =>
    /\ b \in DOMAIN ActiveBatches(tables)
    /\ DOMAIN Batch(tables, b) = People(tables, b)
    /\ LET sum  == ActiveBatches(tables)[b]
           rest == {s \in People(tables, b) : Last(tables, s).status \in {None, "completed"}}
       IN /\ sum.total = Cardinality(People(tables, b))
          /\ sum.total = sum.working + sum.err + Cardinality(rest)

(* Both queries name the envelope they join `last_env' (db.rs:298, 350):   *)
(* the page of a batch should show what became of the person's last        *)
(* envelope, which the overview counts.  It orders the dates the other way *)
(* round and shows the first.                                              *)
DetailShowsLast ==
  \A b \in tables.batches : \A s \in DOMAIN Batch(tables, b) :
    Batch(tables, b)[s] = Detail(Last(tables, s))
=============================================================================
