------------------------------ MODULE DbWriter ------------------------------
(***************************************************************************)
(* The database writer thread (server/src/db.rs, database_writer), the     *)
(* bounded channel it takes requests from and the oneshot channels it      *)
(* answers on.  It is the only writer: one transaction at a time, FIFO.    *)
(*                                                                         *)
(* The INSERTs of a NewBatch transaction are separate steps on a working   *)
(* copy, so that a crash can fall between two of them; readers only ever   *)
(* see `tables', the committed state.  COMMIT and the answer are one step: *)
(* the client that waits for the answer resumes in a step of its own.      *)
(* The broadcast on update_tx that follows has no reader in the modules    *)
(* built on this one.                                                      *)
(***************************************************************************)
EXTENDS EnvelopeTables

CONSTANTS
  WriteCap,   \* WRITE_CHANNEL_SIZE
  MaxFaults   \* bound: crashes, failed statements, cancelled handlers, panics

ASSUME WriteCapAssumption  == WriteCap \in Nat \ {0}
ASSUME MaxFaultsAssumption == MaxFaults \in Nat

VARIABLES
  tables,    \* the committed tables
  wq,        \* the write channel
  txn,       \* the NewBatch transaction under way, or None
  awaiting,  \* clients whose oneshot receiver is still alive
  replies,   \* answers sent and not yet taken
  faults     \* faults so far

writerVars == <<tables, wq, txn, awaiting, replies, faults>>

(***************************************************************************)
(* Types.  C is the set of clients that wait for an answer; a request      *)
(* whose answer nobody awaits has from = None.                             *)
(***************************************************************************)

BatchReq(C) == [op : {"NewBatch"}, batch : Batches, recs : Seq(Ssns), from : C]

StatusReq(C) == [op : {"UpdateStatus"}, gid : Nat, status : Status,
                 reason : BOOLEAN, apiErr : BOOLEAN, from : C \cup {None}]

IdReq(C) == [op : {"UpdateStatusWithId"}, id : Nat, gid : Nat \cup {None},
             status : Status, reason : BOOLEAN, apiErr : BOOLEAN, from : C]

OtherReq(C) ==
  [op : {"CompleteEnvelope"}, gid : Nat, status : Status, from : C]
  \cup [op : {"UpdateAcct"}, from : C]

Request(C) == BatchReq(C) \cup StatusReq(C) \cup IdReq(C) \cup OtherReq(C)

Txn(C) == [req : BatchReq(C), work : Tables, next : Nat \ {0}, dups : Nat]

Result == {"Ok", "Duplicate", "NoRecord", "DbError"}

WriterTypeOK(C) ==
  /\ tables \in Tables
  /\ wq \in Seq(Request(C))
  /\ txn \in Txn(C) \cup {None}
  /\ awaiting \subseteq C
  /\ replies \subseteq [to : C, res : Result, dups : Nat]
  /\ faults \in Nat

WriterInit ==
  /\ tables = EmptyTables
  /\ wq = << >>
  /\ txn = None
  /\ awaiting = {}
  /\ replies = {}
  /\ faults = 0

(***************************************************************************)
(* What clients do.  send() blocks while the channel is full.              *)
(***************************************************************************)

Submit(r) ==
  /\ Len(wq) < WriteCap
  /\ wq' = Append(wq, r)
  /\ awaiting' = IF r.from = None THEN awaiting ELSE awaiting \cup {r.from}
  /\ UNCHANGED <<tables, txn, replies, faults>>

TakeReply(a) ==
  /\ a \in replies
  /\ replies' = replies \ {a}
  /\ awaiting' = awaiting \ {a.to}
  /\ UNCHANGED <<tables, wq, txn, faults>>

\* The futures of clients cs are dropped, and their receivers with them.
Abandon(cs) ==
  /\ awaiting' = awaiting \ cs
  /\ replies' = {a \in replies : a.to \notin cs}

(***************************************************************************)
(* What the writer does.                                                   *)
(***************************************************************************)

\* Seeded fault: only what succeeds is answered.
AnswerOkOnly(c, res, dups) ==
  replies' = IF c \in awaiting /\ res = "Ok"
               THEN replies \cup {[to |-> c, res |-> res, dups |-> dups]}
               ELSE replies

\* tx.send(..).unwrap_or_default(): nothing happens if the receiver is gone.
Answer(c, res, dups) ==
  replies' = IF c \in awaiting
               THEN replies \cup {[to |-> c, res |-> res, dups |-> dups]}
               ELSE replies

Serving(ops) == txn = None /\ wq # << >> /\ Head(wq).op \in ops

BeginBatch ==
  /\ Serving({"NewBatch"})
  /\ wq' = Tail(wq)
  /\ LET r == Head(wq) IN
     \/ /\ r.batch \in tables.batches
        /\ Answer(r.from, "Duplicate", 0)
        /\ UNCHANGED txn
     \/ /\ r.batch \notin tables.batches
        /\ txn' = [req |-> r, next |-> 1, dups |-> 0,
                   work |-> [tables EXCEPT !.batches = @ \cup {r.batch}]]
        /\ UNCHANGED replies
  /\ UNCHANGED <<tables, awaiting, faults>>

InsertNext ==
  /\ txn # None
  /\ txn.next <= Len(txn.req.recs)
  /\ LET b == txn.req.batch
         s == txn.req.recs[txn.next]
     IN \E d \in Clock(txn.work) :
          txn' = [txn EXCEPT !.work = InsertRecord(txn.work, b, s, d),
                             !.next = @ + 1,
                             !.dups = @ + Duplicates(txn.work, b, s, d)]
  /\ UNCHANGED <<tables, wq, awaiting, replies, faults>>

\* Seeded fault: COMMIT before the last record.
CommitEarly ==
  /\ txn # None
  /\ txn.next >= Len(txn.req.recs)
  /\ tables' = txn.work
  /\ Answer(txn.req.from, "Ok", txn.dups)
  /\ txn' = None
  /\ UNCHANGED <<wq, awaiting, faults>>

CommitBatch ==
  /\ txn # None
  /\ txn.next > Len(txn.req.recs)
  /\ tables' = txn.work
  /\ Answer(txn.req.from, "Ok", txn.dups)
  /\ txn' = None
  /\ UNCHANGED <<wq, awaiting, faults>>

UpdateRow ==
  /\ Serving({"UpdateStatus", "UpdateStatusWithId"})
  /\ wq' = Tail(wq)
  /\ LET r == Head(wq) IN
     \/ /\ Targets(tables, r) = {}
        /\ Answer(r.from, "NoRecord", 0)
        /\ UNCHANGED tables
     \/ \E i \in Targets(tables, r) :
          LET e == Revised(tables.envs[i], r) IN
          IF RowOK(tables, i, e)
            THEN tables' = [tables EXCEPT !.envs[i] = e] /\ Answer(r.from, "Ok", 0)
            ELSE UNCHANGED tables /\ Answer(r.from, "DbError", 0)
  /\ UNCHANGED <<txn, awaiting, faults>>

\* Nobody sends these two yet.  The UPDATE may meet the index of active rows;
\* then the document's foreign key fails on a missing row, its primary key on a
\* second completion.
CompleteRow ==
  /\ Serving({"CompleteEnvelope"})
  /\ wq' = Tail(wq)
  /\ LET r == Head(wq)
         fits == {i \in Targets(tables, r) :
                    /\ RowOK(tables, i, [tables.envs[i] EXCEPT !.status = r.status])
                    /\ r.gid \notin tables.pdfs}
     IN \/ /\ fits = {}
           /\ Answer(r.from, "DbError", 0)
           /\ UNCHANGED tables
        \/ \E i \in fits :
             /\ tables' = [tables EXCEPT !.envs[i].status = r.status,
                                         !.pdfs = @ \cup {r.gid}]
             /\ Answer(r.from, "Ok", 0)
  /\ UNCHANGED <<txn, awaiting, faults>>

\* UpdateAcct's :ssn is not a parameter of its SQL: binding it always fails.
AcctFails ==
  /\ Serving({"UpdateAcct"})
  /\ wq' = Tail(wq)
  /\ Answer(Head(wq).from, "DbError", 0)
  /\ UNCHANGED <<tables, txn, awaiting, faults>>

\* Seeded fault: what was inserted before the failure stays.
WriteFailsKeeps ==
  /\ faults < MaxFaults
  /\ faults' = faults + 1
  /\ txn # None
  /\ tables' = txn.work
  /\ txn' = None
  /\ Answer(txn.req.from, "DbError", 0)
  /\ UNCHANGED <<wq, awaiting>>

\* BEGIN, a statement or COMMIT fails: the transaction is dropped, so rolled back.
WriteFails ==
  /\ faults < MaxFaults
  /\ faults' = faults + 1
  /\ \/ /\ txn # None
        /\ txn' = None
        /\ Answer(txn.req.from, "DbError", 0)
        /\ UNCHANGED wq
     \/ /\ txn = None
        /\ wq # << >>
        /\ wq' = Tail(wq)
        /\ Answer(Head(wq).from, "DbError", 0)
        /\ UNCHANGED txn
  /\ UNCHANGED <<tables, awaiting>>

WriterStep == BeginBatch \/ InsertNext \/ CommitBatch \/ UpdateRow

\* The process dies and starts again: only the committed tables survive.
WriterCrash ==
  /\ faults < MaxFaults
  /\ faults' = faults + 1
  /\ wq' = << >>
  /\ txn' = None
  /\ awaiting' = {}
  /\ replies' = {}
  /\ UNCHANGED tables
=============================================================================
